-------------------------- MODULE ConnectorIdentities --------------------------
(***************************************************************************)
(* The commands add, remove and run (cmd/frpc) on the two files they share *)
(* - qurl-proxy.yaml and connector_identities.json - and on the resources  *)
(* the qURL service holds for the Connector ids named there.               *)
(*                                                                         *)
(* Every process may stop between two steps, every write may fail before   *)
(* or after its rename, every request may stay unanswered, and the host    *)
(* may lose power: a file is then one of the contents its directory may    *)
(* hold on disk.  A crid is the nonce of the request that created the      *)
(* resource; a request that asserts a crid creates nothing and carries     *)
(* nonce 0.  The era of a route counts the times its id was added: the     *)
(* file does not hold it, the properties tell lifetimes of a route by it.  *)
(***************************************************************************)
EXTENDS Naturals, FiniteSets

CONSTANTS
  Ids,
  Procs,
  None,
  MaxEra,    \* bound on the times an id is added
  MaxNonce,  \* bound on cold requests
  Faults     \* of FaultKinds

FaultKinds ==
  {"crash", "power", "write", "sync", "unanswered", "late", "lose", "readonly"}

ASSUME IdentitiesAssumption ==
  /\ IsFiniteSet(Ids) /\ None \notin Ids \union Procs
  /\ MaxEra \in Nat \ {0} /\ MaxNonce \in Nat /\ Faults \subseteq FaultKinds

Nonces == 1..MaxNonce
Device == 1..2
NoRequest == [nonce |-> 0, crid |-> 0]
Refused == MaxNonce + 1  \* the reply of a terminal rejection

VARIABLES
  config,    \* [vis, disk]: qurl-proxy.yaml, id -> era (0: no route)
  cache,     \* [vis, disk]: connector_identities.json
  native,    \* the device of the native agent state, 0 without that file
  lock,      \* [config, state]: holders of the two file locks
  proc,
  network,   \* requests on their way to the service
  resource,  \* nonce -> [status, id, era, device] at the service
  eras, devices, lost,   \* history
  unfenced,              \* history: <<id, era>> pruned while a file with that route may come back
  writable               \* the configuration mount accepts a transaction

files == <<config, cache, native>>
history == <<eras, devices, lost, unfenced, writable>>
vars == <<files, lock, proc, network, resource, history>>

Idle == [cmd |-> "none", pc |-> "idle", id |-> None, seen |-> [i \in Ids |-> 0],
         stale |-> FALSE, asked |-> {}, reply |-> 0]

--------------------------------------------------------------------------------
(***************************************************************************)
(* Files.  A save ends "ok"; or before its rename ("write"); or between its *)
(* rename and the end of the directory's sync ("sync": the process stops   *)
(* there, or the sync fails): the new content is visible and either        *)
(* content may be the one on disk.                                         *)
(***************************************************************************)
Absent == <<>>
Empty == [device |-> 0, crid |-> [i \in Ids |-> 0], pending |-> [i \in Ids |-> NoRequest]]

SaveEnds ==
  {"ok"} \union (Faults \intersect {"write"})
         \union (IF Faults \intersect {"crash", "sync"} # {} THEN {"sync"} ELSE {})

Saved(file, new, end) ==
  [vis  |-> IF end = "write" THEN file.vis ELSE new,
   disk |-> IF end = "ok" THEN {new} ELSE IF end = "write" THEN file.disk ELSE file.disk \union {new}]

Synced(file) == [file EXCEPT !.disk = {file.vis}]

\* A rename of the configuration is noticed by whoever pinned the file it replaces.
MarkStale(p, procs) ==
  [q \in Procs |-> IF q # p /\ procs[q].pc = "snapshot" THEN [procs[q] EXCEPT !.stale = TRUE] ELSE procs[q]]

\* A command ends and its locks go with it.  A request it leaves behind is
\* taken to be lost, unless answers may be late.
Release(p) ==
  /\ lock' = [k \in DOMAIN lock |-> IF lock[k] = p THEN None ELSE lock[k]]
  /\ network' = IF lock.state = p /\ "late" \notin Faults THEN {} ELSE network

End(p) == proc' = [proc EXCEPT ![p] = Idle] /\ Release(p)

Goto(p, pc) == proc' = [proc EXCEPT ![p].pc = pc] /\ UNCHANGED <<lock, network>>

SaveCache(p, new, pc) ==
  \E end \in SaveEnds :
    /\ cache' = Saved(cache, new, end)
    /\ IF end = "ok" THEN Goto(p, pc) ELSE End(p)

Holder(p) == lock.state = p
At(p, cmd, pc) == proc[p].cmd = cmd /\ proc[p].pc = pc

--------------------------------------------------------------------------------
(***************************************************************************)
(* add: one configuration transaction (addRouteToConfig).                  *)
(***************************************************************************)
NoLockConfig(p) == UNCHANGED lock
LockConfig(p) == lock.config = None /\ lock' = [lock EXCEPT !.config = p]

AddLoad(p, i) ==
  /\ proc[p] = Idle /\ writable /\ eras[i] < MaxEra
  /\ LockConfig(p)
  /\ proc' = [proc EXCEPT ![p] = [Idle EXCEPT !.cmd = "add", !.pc = "save", !.id = i, !.seen = config.vis]]
  /\ UNCHANGED <<files, network, resource, history>>

AddSave(p) ==
  LET i == proc[p].id  seen == proc[p].seen IN
  /\ At(p, "add", "save") /\ eras[i] < MaxEra
  /\ Release(p)
  /\ \/ seen[i] # 0 /\ proc' = [proc EXCEPT ![p] = Idle] /\ UNCHANGED <<config, eras>>
     \/ /\ seen[i] = 0
        /\ \E end \in SaveEnds :
             /\ config' = Saved(config, [seen EXCEPT ![i] = eras[i] + 1], end)
             /\ proc' = MarkStale(p, [proc EXCEPT ![p] = Idle])
             /\ eras' = [eras EXCEPT ![i] = @ + 1]
  /\ UNCHANGED <<cache, native, resource, devices, lost, unfenced, writable>>

--------------------------------------------------------------------------------
(***************************************************************************)
(* The identity-cache transaction (withConnectorIdentityCacheLockContext). *)
(***************************************************************************)
Named(c) == {i \in Ids : c.crid[i] # 0 \/ c.pending[i] # NoRequest}
HasContinuity(c) == c.device # 0 \/ Named(c) # {}

\* ensureConnectorIdentityCacheInitializedLocked: the cache and the native
\* state belong together; neither is recreated beside the other.
ContinuousIfAbsent(c) == c = Absent => native = 0
Continuous(c) == IF c = Absent THEN native = 0 ELSE HasContinuity(c) => native # 0

Loaded == IF cache.vis = Absent THEN Empty ELSE cache.vis

\* The transaction opens: the lock, the retry barrier that makes the visible
\* cache the one on disk, a cache where there was none; then the command's own
\* check accepts or the command ends.
OpenState(p, accepted, next) ==
  /\ lock.state = None
  /\ \/ "sync" \in Faults /\ End(p) /\ UNCHANGED cache
     \/ /\ ~(Continuous(cache.vis) /\ accepted)
        /\ End(p) /\ cache' = Synced(cache)
     \/ /\ Continuous(cache.vis) /\ accepted
        /\ \E end \in (IF cache.vis = Absent THEN SaveEnds ELSE {"ok"}) :
             /\ cache' = IF cache.vis = Absent THEN Saved(cache, Empty, end) ELSE Synced(cache)
             /\ IF end = "ok"
                THEN /\ proc' = [proc EXCEPT ![p] = next]
                     /\ lock' = [lock EXCEPT !.state = p] /\ UNCHANGED network
                ELSE End(p)

--------------------------------------------------------------------------------
(***************************************************************************)
(* run, up to the admitter (prepareConnectorRun).                          *)
(***************************************************************************)
\* The configuration is read without its lock; the descriptor stays pinned.
RunRead(p) ==
  /\ proc[p] = Idle /\ \E i \in Ids : config.vis[i] # 0
  /\ proc' = [proc EXCEPT ![p] = [Idle EXCEPT !.cmd = "run", !.pc = "snapshot", !.seen = config.vis]]
  /\ UNCHANGED <<files, lock, network, resource, history>>

Routed(p) == {i \in Ids : proc[p].seen[i] # 0}

\* rejectOrphanIdentities
NoOrphans(p) == Named(Loaded) \subseteq Routed(p)

\* The cache names no id without a route, and the file read is still the one
\* at the path when it is let go.
RunBeginUnpinned(p) ==
  /\ At(p, "run", "snapshot")
  /\ OpenState(p, NoOrphans(p), [proc[p] EXCEPT !.pc = "open"])
  /\ UNCHANGED <<config, native, resource, history>>

RunBegin(p) ==
  /\ At(p, "run", "snapshot")
  /\ OpenState(p, NoOrphans(p) /\ ~proc[p].stale,
               [proc[p] EXCEPT !.pc = "open"])
  /\ UNCHANGED <<config, native, resource, history>>

\* The native runtime opens; without native state a new device enrols.
RunOpen(p) ==
  /\ At(p, "run", "open") /\ Goto(p, "bind")
  /\ IF native = 0
     THEN devices < 2 /\ devices' = devices + 1 /\ native' = devices + 1
     ELSE UNCHANGED <<native, devices>>
  /\ UNCHANGED <<config, cache, resource, eras, lost, unfenced, writable>>

\* bindAgentIDLocked
RunBind(p) ==
  /\ At(p, "run", "bind")
  /\ CASE cache.vis.device = native -> Goto(p, "resolve") /\ UNCHANGED cache
       [] cache.vis.device = 0      -> SaveCache(p, [cache.vis EXCEPT !.device = native], "resolve")
       [] OTHER                     -> End(p) /\ UNCHANGED cache
  /\ UNCHANGED <<config, native, resource, history>>

Ask(p, i, request) ==
  /\ network' = network \union {[kind |-> "resolve", id |-> i, nonce |-> request.nonce, crid |-> request.crid]}
  /\ proc' = [proc EXCEPT ![p].pc = "wait", ![p].id = i, ![p].asked = @ \union {i}]
  /\ UNCHANGED lock

Unused == {n \in Nonces : resource[n].status = "unused"}

\* A cold request takes a nonce of its own; one that asserts a crid none.
Requests(crid) ==
  IF crid # 0 THEN {[nonce |-> 0, crid |-> crid]}
  ELSE {[nonce |-> n, crid |-> 0] : n \in {k \in Unused : \A l \in Unused : k <= l}}

Drawn(p, i, request) ==
  IF request.nonce = 0 THEN resource
  ELSE [resource EXCEPT ![request.nonce] =
          [status |-> "none", id |-> i, era |-> proc[p].seen[i], device |-> native]]

\* ensurePendingRequestLocked: a pending request is replayed as it was; a new
\* one is saved before it is sent.
RunRequestUnsaved(p, i) ==
  /\ At(p, "run", "resolve") /\ i \in Routed(p) \ proc[p].asked
  /\ \E request \in Requests(cache.vis.crid[i]) :
       resource' = Drawn(p, i, request) /\ Ask(p, i, request)
  /\ UNCHANGED <<files, history>>

RunRequest(p, i) ==
  LET c == cache.vis IN
  /\ At(p, "run", "resolve") /\ i \in Routed(p) \ proc[p].asked
  /\ \/ /\ c.pending[i] # NoRequest
        /\ IF c.pending[i].crid = c.crid[i] THEN Ask(p, i, c.pending[i]) ELSE End(p)
        /\ UNCHANGED <<cache, resource>>
     \/ /\ c.pending[i] = NoRequest
        /\ \E request \in Requests(c.crid[i]), end \in SaveEnds :
             /\ cache' = Saved(cache, [c EXCEPT !.pending[i] = request], end)
             /\ resource' = IF end = "write" THEN resource ELSE Drawn(p, i, request)
             /\ IF end = "ok" THEN Ask(p, i, request) ELSE End(p)
  /\ UNCHANGED <<config, native, history>>

\* recordResolutionLocked: the binding appears and the request goes in one save.
Recorded(i, crid) == [cache.vis EXCEPT !.crid[i] = crid, !.pending[i] = NoRequest]

RunAnswer(p) ==
  LET i == proc[p].id  r == proc[p].reply IN
  /\ At(p, "run", "wait") /\ r # 0
  /\ IF r # Refused /\ cache.vis.crid[i] \notin {0, r}
     THEN End(p) /\ UNCHANGED cache
     ELSE \E end \in SaveEnds :
            /\ cache' = Saved(cache, Recorded(i, IF r = Refused THEN cache.vis.crid[i] ELSE r), end)
            /\ IF end = "ok" /\ r # Refused /\ proc[p].asked # Routed(p)
               THEN /\ proc' = [proc EXCEPT ![p].pc = "resolve", ![p].reply = 0]
                    /\ UNCHANGED <<lock, network>>
               ELSE End(p)
  /\ UNCHANGED <<config, native, resource, history>>

--------------------------------------------------------------------------------
(***************************************************************************)
(* remove (runRemove, removeConnectorSelection).                           *)
(***************************************************************************)
RemoveLoad(p, i) ==
  /\ proc[p] = Idle
  /\ IF writable THEN LockConfig(p) ELSE UNCHANGED lock
  /\ proc' = [proc EXCEPT ![p] =
       [Idle EXCEPT !.cmd = "remove", !.pc = "snapshot", !.id = i, !.seen = config.vis]]
  /\ UNCHANGED <<files, network, resource, history>>

\* selectConnectorRemoval: the id has a route or a cached identity.  Without a
\* configuration transaction only an identity that lost its route may go.
Selected(p) ==
  LET i == proc[p].id IN
  /\ proc[p].seen[i] # 0 \/ i \in Named(Loaded)
  /\ writable \/ (proc[p].seen[i] = 0 /\ ~proc[p].stale)

\* withRegisteredConnectorResourceState: the device asked as is the cache's.
Registered(c) == c.device = native

RemoveBegin(p) ==
  LET c == Loaded  i == proc[p].id IN
  /\ At(p, "remove", "snapshot")
  /\ OpenState(p, Selected(p) /\ (i \in Named(c) => Registered(c)),
               [proc[p] EXCEPT !.pc = IF i \in Named(c) THEN "inspect" ELSE "edit"])
  /\ UNCHANGED <<config, native, resource, history>>

\* A state directory that is not there is an empty cache: no lock is taken, and
\* the route goes without more (withRemoveConnectorIdentityCache).
RemoveUncached(p) ==
  /\ At(p, "remove", "snapshot") /\ cache.vis = Absent /\ native = 0
  /\ IF writable /\ proc[p].seen[proc[p].id] # 0 THEN Goto(p, "save") ELSE End(p)
  /\ UNCHANGED <<files, resource, history>>

RemoveUncachedEdit(p) ==
  /\ At(p, "remove", "save") /\ Release(p)
  /\ \E end \in SaveEnds : config' = Saved(config, [proc[p].seen EXCEPT ![proc[p].id] = 0], end)
  /\ proc' = MarkStale(p, [proc EXCEPT ![p] = Idle])
  /\ UNCHANGED <<cache, native, resource, history>>

\* A request without a binding is looked up by id, a binding by its crid; what
\* the service confirms is recorded before the delete.
Found(p) ==
  LET i == proc[p].id  c == cache.vis.crid[i] IN
  {n \in Nonces : resource[n].status = "active" /\ resource[n].id = i /\ c \in {0, n}}

RemoveInspectUnsynced(p) ==
  LET i == proc[p].id IN
  /\ At(p, "remove", "inspect")
  /\ \/ \E n \in Found(p), end \in SaveEnds \ {"write"} :
          cache' = Saved(cache, Recorded(i, n), end) /\ Goto(p, "delete")
     \/ Found(p) = {} /\ Goto(p, "edit") /\ UNCHANGED cache
  /\ UNCHANGED <<config, native, resource, history>>

RemoveInspect(p) ==
  LET i == proc[p].id IN
  /\ At(p, "remove", "inspect")
  /\ \/ \E n \in Found(p) :
          IF Recorded(i, n) = cache.vis
          THEN Goto(p, "delete") /\ UNCHANGED cache
          ELSE SaveCache(p, Recorded(i, n), "delete")
     \/ Found(p) = {} /\ Goto(p, "edit") /\ UNCHANGED cache
  /\ UNCHANGED <<config, native, resource, history>>

RemoveDelete(p) ==
  LET i == proc[p].id IN
  /\ At(p, "remove", "delete")
  /\ network' = network \union {[kind |-> "delete", id |-> i, nonce |-> 0, crid |-> cache.vis.crid[i]]}
  /\ proc' = [proc EXCEPT ![p].pc = "confirm"]
  /\ UNCHANGED <<files, lock, resource, history>>

\* reconcileConnectorResourceDeletion: the service answers, or the outcome is
\* unknown and a read of the crid proves the deletion.
RemoveConfirm(p) ==
  LET crid == cache.vis.crid[proc[p].id] IN
  /\ At(p, "remove", "confirm") /\ resource[crid].status = "revoked"
  /\ Goto(p, "edit")
  /\ UNCHANGED <<files, resource, history>>

\* The route leaves the configuration.
RemoveEdit(p) ==
  LET i == proc[p].id  seen == proc[p].seen IN
  /\ At(p, "remove", "edit")
  /\ IF seen[i] = 0
     THEN Goto(p, "prune") /\ UNCHANGED config
     ELSE \E end \in SaveEnds :
            /\ config' = Saved(config, [seen EXCEPT ![i] = 0], end)
            /\ IF end = "ok"
               THEN /\ proc' = MarkStale(p, [proc EXCEPT ![p].pc = "prune"]) /\ UNCHANGED <<lock, network>>
               ELSE proc' = MarkStale(p, [proc EXCEPT ![p] = Idle]) /\ Release(p)
  /\ UNCHANGED <<cache, native, resource, history>>

\* removeLocked: the identity leaves the cache.  When the pruned file is
\* visible and its sync failed, the previous one is published again.  The route
\* is gone for good only if the configuration without it was synced.
MayReturn(i) == {<<i, f[i]>> : f \in {g \in config.disk \ {config.vis} : g[i] # 0}}

RemovePrune(p) ==
  LET i == proc[p].id  c == cache.vis
      pruned == [c EXCEPT !.crid[i] = 0, !.pending[i] = NoRequest] IN
  /\ At(p, "remove", "prune") /\ End(p)
  /\ \/ i \notin Named(c) /\ UNCHANGED <<cache, unfenced>>
     \/ /\ i \in Named(c)
        /\ \E first \in SaveEnds, second \in SaveEnds :
             LET once == Saved(cache, pruned, first) IN
             /\ cache' = IF first = "ok" THEN once ELSE Saved(once, c, second)
             /\ unfenced' = IF first = "write" THEN unfenced ELSE unfenced \union MayReturn(i)
  /\ UNCHANGED <<config, native, resource, eras, devices, lost, writable>>

--------------------------------------------------------------------------------
(***************************************************************************)
(* The qURL service, external: at most one active resource per id; a nonce *)
(* creates one resource and answers with it again; a crid that is not      *)
(* active any more is refused.                                             *)
(***************************************************************************)
Answer(m, reply) ==
  proc' = [p \in Procs |->
    IF At(p, "run", "wait") /\ proc[p].id = m.id /\ cache.vis.pending[m.id] = [nonce |-> m.nonce, crid |-> m.crid]
    THEN [proc[p] EXCEPT !.reply = reply] ELSE proc[p]]

ActiveOf(i) == {n \in Nonces : resource[n].status = "active" /\ resource[n].id = i}

ServeAssertion(m) ==
  /\ m \in network /\ m.kind = "resolve" /\ m.crid # 0
  /\ Answer(m, IF m.crid \in ActiveOf(m.id) THEN m.crid ELSE Refused)
  /\ network' = network \ {m}
  /\ UNCHANGED <<files, lock, resource, history>>

ServeCold(m) ==
  /\ m \in network /\ m.kind = "resolve" /\ m.crid = 0
  /\ \/ /\ resource[m.nonce].status = "none" /\ ActiveOf(m.id) = {}
        /\ resource' = [resource EXCEPT ![m.nonce].status = "active"]
        /\ Answer(m, m.nonce)
     \/ /\ \E n \in ActiveOf(m.id) : Answer(m, n)
        /\ UNCHANGED resource
     \/ m.nonce \notin ActiveOf(m.id) /\ Answer(m, Refused) /\ UNCHANGED resource
  /\ network' = network \ {m}
  /\ UNCHANGED <<files, lock, history>>

ServeDelete(m) ==
  /\ m \in network /\ m.kind = "delete"
  /\ resource' = [resource EXCEPT ![m.crid].status = "revoked"]
  /\ network' = network \ {m}
  /\ UNCHANGED <<files, lock, proc, history>>

--------------------------------------------------------------------------------
(***************************************************************************)
(* Failures and the operator.                                              *)
(***************************************************************************)
\* A process stops, or an answer does not come and its command gives up.
Stop(p) ==
  /\ \/ "crash" \in Faults /\ proc[p] # Idle
     \/ "unanswered" \in Faults /\ proc[p].pc \in {"wait", "inspect", "confirm"}
  /\ End(p)
  /\ UNCHANGED <<files, resource, history>>

PowerLoss ==
  /\ "power" \in Faults
  /\ \E c \in config.disk : config' = [vis |-> c, disk |-> {c}]
  /\ \E c \in cache.disk : cache' = [vis |-> c, disk |-> {c}]
  /\ proc' = [p \in Procs |-> Idle]
  /\ lock' = [k \in DOMAIN lock |-> None]
  /\ network' = IF "late" \in Faults THEN network ELSE {}
  /\ UNCHANGED <<native, resource, history>>

\* One of the two state files is lost while no command has it open.
Lose ==
  /\ "lose" \in Faults /\ ~lost /\ lost' = TRUE /\ lock.state = None
  /\ \/ native # 0 /\ native' = 0 /\ UNCHANGED cache
     \/ cache.vis # Absent /\ cache' = [vis |-> Absent, disk |-> {Absent}] /\ UNCHANGED native
  /\ UNCHANGED <<config, lock, proc, network, resource, eras, devices, unfenced, writable>>

\* The operator edits the YAML of a read-only mount on the host; an editor need
\* not sync what it writes.
HostEdit(i) ==
  /\ ~writable /\ config.vis[i] # 0
  /\ \E end \in SaveEnds \ {"write"} : config' = Saved(config, [config.vis EXCEPT ![i] = 0], end)
  /\ proc' = MarkStale(None, proc)
  /\ UNCHANGED <<cache, native, lock, network, resource, history>>

--------------------------------------------------------------------------------
Init ==
  /\ writable \in IF "readonly" \in Faults THEN BOOLEAN ELSE {TRUE}
  /\ LET first == [i \in Ids |-> IF writable THEN 0 ELSE 1] IN
       config = [vis |-> first, disk |-> {first}] /\ eras = first
  /\ cache = [vis |-> Absent, disk |-> {Absent}]
  /\ native = 0 /\ devices = 0 /\ lost = FALSE /\ unfenced = {}
  /\ lock = [config |-> None, state |-> None]
  /\ proc = [p \in Procs |-> Idle]
  /\ network = {}
  /\ resource = [n \in Nonces |-> [status |-> "unused", id |-> None, era |-> 0, device |-> 0]]

Step(p) ==
  \/ \E i \in Ids : AddLoad(p, i) \/ RunRequest(p, i) \/ RemoveLoad(p, i)
  \/ AddSave(p)
  \/ RunRead(p) \/ RunBegin(p) \/ RunOpen(p) \/ RunBind(p) \/ RunAnswer(p)
  \/ RemoveUncached(p) \/ RemoveUncachedEdit(p)
  \/ RemoveBegin(p) \/ RemoveInspect(p) \/ RemoveDelete(p) \/ RemoveConfirm(p)
  \/ RemoveEdit(p) \/ RemovePrune(p)

Next ==
  \/ \E p \in Procs : Step(p) \/ Stop(p)
  \/ \E m \in network : ServeAssertion(m) \/ ServeCold(m) \/ ServeDelete(m)
  \/ PowerLoss \/ Lose \/ \E i \in Ids : HostEdit(i)

Spec == Init /\ [][Next]_vars

--------------------------------------------------------------------------------
(***************************************************************************)
(* Properties.                                                             *)
(***************************************************************************)
Created == {n \in Nonces : resource[n].status \in {"active", "revoked"}}

\* A route gets at most one resource in its lifetime: no replay, no restart and
\* no configuration read too early provisions a second one, and a route that
\* is left over from a removal fails closed on the resource that was revoked
\* instead of provisioning a replacement (removeConnectorSelection).  The code
\* breaks this for the lifetimes in unfenced, and for them alone: a remove that
\* stops between the rename of the configuration and its sync is retried, finds
\* the route gone and prunes its identity, and then the host loses power.
OneResourcePerRoute ==
  \A n, m \in Created :
    /\ resource[n].id = resource[m].id
    /\ resource[n].era = resource[m].era
    /\ <<resource[n].id, resource[n].era>> \notin unfenced
    => n = m

\* Whatever the disk holds after a power loss, every active resource has its
\* request or its binding in the identity cache: remove can still find it
\* (ensurePendingRequestLocked, recordResolutionLocked, removeLocked).
NothingForgotten ==
  \A n \in Nonces, c \in cache.disk \union {cache.vis} :
    resource[n].status = "active" /\ ~lost =>
      c # Absent /\ (c.crid[resource[n].id] = n \/ c.pending[resource[n].id].nonce = n)

\* The identity is on disk before the delete and leaves it after the route:
\* while any file on disk still routes the id of a revoked resource, every
\* file on disk names that resource (removeConnectorSelection), unless its
\* identity was pruned over a configuration whose sync had not ended (unfenced).
RouteFailsClosed ==
  \A n \in Nonces, f \in config.disk, c \in cache.disk :
    /\ resource[n].status = "revoked" /\ ~lost
    /\ f[resource[n].id] = resource[n].era
    /\ <<resource[n].id, resource[n].era>> \notin unfenced
    => c # Absent /\ c.crid[resource[n].id] = n

\* After the loss of one state file no new device enrols beside a cache that
\* is, or after a power loss may be, bound to the device before it
\* (ensureConnectorIdentityCacheInitializedLocked).
EnrolsUnbound ==
  [][native' \notin {0, native} => \A c \in cache.disk : c = Absent \/ c.device = 0]_vars

\* Two commands edit the configuration and neither loses the other's change:
\* every step but a loss of power changes at most one route
\* (AcquireFileTransaction).
EditsOneRoute ==
  [][PowerLoss \/ Cardinality({i \in Ids : config'.vis[i] # config.vis[i]}) <= 1]_vars
================================================================================
