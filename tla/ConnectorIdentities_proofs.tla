----------------------- MODULE ConnectorIdentities_proofs -----------------------
(***************************************************************************)
(* Theorems about ConnectorIdentities, for every finite set of ids, every  *)
(* number of commands at once, every bound on lifetimes and requests.      *)
(*                                                                         *)
(* The proof is in three layers.  Locks says who may write which file;     *)
(* Memory, what the identity cache knows of the resources at the service;  *)
(* Fences, how the two files together keep a route from a second resource. *)
(***************************************************************************)
EXTENDS ConnectorIdentities, FiniteSetTheorems, TLAPS

--------------------------------------------------------------------------------
(***************************************************************************)
(* The first layer: shape, and the two file locks.                         *)
(***************************************************************************)
RunSteps == {"open", "bind", "resolve", "wait"}
RemoveSteps == {"inspect", "delete", "confirm", "edit", "prune"}

Request == [nonce: Nat, crid: Nat]
Content == [device: Nat, crid: [Ids -> Nat], pending: [Ids -> Request]]
Command ==
  [cmd: {"none", "add", "run", "remove"},
   pc: {"idle", "save", "snapshot"} \union RunSteps \union RemoveSteps,
   id: Ids \union {None}, seen: [Ids -> Nat], stale: BOOLEAN, asked: SUBSET Ids, reply: Nat]
Message == [kind: {"resolve", "delete"}, id: Ids, nonce: Nat, crid: Nat]
Resource ==
  [status: {"unused", "none", "active", "revoked"}, id: Ids \union {None}, era: Nat, device: Nat]

FilesShaped ==
  /\ config \in [vis: [Ids -> Nat], disk: SUBSET [Ids -> Nat]] /\ config.vis \in config.disk
  /\ cache \in [vis: Content \union {Absent}, disk: SUBSET (Content \union {Absent})]
  /\ cache.vis \in cache.disk
  /\ native \in Nat

LocksShaped == lock \in [config: Procs \union {None}, state: Procs \union {None}]

Shaped(s) ==
  /\ s \in Command
  /\ s.cmd \in {"add", "remove"} \/ s.pc = "wait" => s.id \in Ids

CommandsShaped == proc \in [Procs -> Command] /\ \A p \in Procs : Shaped(proc[p])

RestShaped ==
  /\ network \subseteq Message
  /\ resource \in [Nonces -> Resource]
  /\ eras \in [Ids -> Nat] /\ devices \in Nat /\ lost \in BOOLEAN /\ writable \in BOOLEAN

Shape == FilesShaped /\ LocksShaped /\ CommandsShaped /\ RestShaped

Runs(s) == s.cmd = "run" /\ s.pc \in RunSteps
Removes(s) == s.cmd = "remove" /\ s.pc \in RemoveSteps
Inside(s) == Runs(s) \/ Removes(s)

\* Who is past the opening of the identity-cache transaction has its lock, and
\* what it sees of the cache is what is on disk.
Holds(p) ==
  Inside(proc[p]) =>
    /\ lock.state = p
    /\ cache.vis # Absent /\ cache.disk = {cache.vis}
    /\ HasContinuity(cache.vis) => native # 0
    /\ proc[p].pc \in {"bind", "resolve", "wait", "inspect", "delete", "confirm"} => native # 0

\* Who is about to edit the configuration has its lock and saw what is there;
\* on a read-only mount nobody edits it.
Edits(p) ==
  LET s == proc[p] IN
  /\ s.cmd = "add" => writable /\ lock.config = p /\ s.seen = config.vis /\ s.pc = "save"
  /\ s.cmd = "remove" /\ writable => lock.config = p /\ (s.pc # "prune" => s.seen = config.vis)
  /\ Removes(s) /\ ~writable => s.seen[s.id] = 0
  /\ s.pc = "save" => writable

Locks == Shape /\ \A p \in Procs : Holds(p) /\ Edits(p)

--------------------------------------------------------------------------------
(***************************************************************************)
(* Files, commands that end, and other commands meanwhile.                 *)
(***************************************************************************)
\* A missing cache is told apart from every cache.
LEMMA AbsentIsNoContent == Absent \notin Content
BY DEF Absent, Content

\* A save puts the new content where it can, and loses none it should keep.
LEMMA Saving ==
  ASSUME NEW S, NEW file \in [vis: S, disk: SUBSET S], NEW new \in S,
         NEW end, end \in {"ok", "write", "sync"}
  PROVE  /\ Saved(file, new, end) \in [vis: S, disk: SUBSET S]
         /\ end = "ok" => Saved(file, new, end) = [vis |-> new, disk |-> {new}]
         /\ end = "write" => Saved(file, new, end) = file
         /\ end = "sync" => Saved(file, new, end) = [vis |-> new, disk |-> file.disk \union {new}]
         /\ file.vis \in file.disk => Saved(file, new, end).vis \in Saved(file, new, end).disk
BY DEF Saved

\* How a save may end.
LEMMA Endings ==
  SaveEnds \subseteq {"ok", "write", "sync"} /\ "ok" \in SaveEnds
BY DEF SaveEnds

\* A command that has not begun is outside every transaction.
LEMMA IdleIsShaped == Shaped(Idle) /\ ~Inside(Idle) /\ Idle.cmd = "none" /\ Idle.pc = "idle"
BY DEF Shaped, Idle, Command, Inside, Runs, Removes

\* A command that ends lets go of its locks, and of nobody else's.
LEMMA EndingReleases ==
  ASSUME Shape, NEW p \in Procs, Release(p)
  PROVE  /\ LocksShaped' /\ network' \subseteq network
         /\ \A q \in Procs : q # p => /\ lock.state = q => lock'.state = q
                                      /\ lock.config = q => lock'.config = q
         /\ lock'.state # p /\ lock'.config # p
         /\ lock'.state \in {lock.state, None}
         /\ lock.state = p /\ "late" \notin Faults => network' = {}
         /\ lock.state # p => network' = network
<1>1. /\ lock'.state = IF lock.state = p THEN None ELSE lock.state
      /\ lock'.config = IF lock.config = p THEN None ELSE lock.config
      /\ lock' = [config |-> lock'.config, state |-> lock'.state]
  <2>1. DOMAIN lock = {"config", "state"}
    BY DEF Shape, LocksShaped
  <2> QED BY <2>1 DEF Release
<1>2. network' = IF lock.state = p /\ "late" \notin Faults THEN {} ELSE network
  BY DEF Release
<1>3. None \notin Procs
  BY IdentitiesAssumption
<1> QED BY <1>1, <1>2, <1>3 DEF Shape, LocksShaped

\* What a command is apart from the mark a renaming leaves on it.
Kept(s, t) ==
  /\ t.cmd = s.cmd /\ t.pc = s.pc /\ t.id = s.id /\ t.seen = s.seen
  /\ t.asked = s.asked /\ t.reply = s.reply

\* Somebody's renaming of the configuration marks a command, and does nothing
\* else to it.
LEMMA Marking ==
  ASSUME NEW procs \in [Procs -> Command], \A q \in Procs : Shaped(procs[q]), NEW p
  PROVE  /\ MarkStale(p, procs) \in [Procs -> Command]
         /\ \A q \in Procs :
              /\ Shaped(MarkStale(p, procs)[q])
              /\ Kept(procs[q], MarkStale(p, procs)[q])
              /\ q = p => MarkStale(p, procs)[q] = procs[q]
<1>1. ASSUME NEW q \in Procs
      PROVE  LET s == procs[q]  t == MarkStale(p, procs)[q] IN
              Shaped(t) /\ Kept(s, t) /\ (q = p => t = s)
  <2> DEFINE s == procs[q]  u == [s EXCEPT !.stale = TRUE]
  <2>1. MarkStale(p, procs)[q] = IF q # p /\ s.pc = "snapshot" THEN u ELSE s
    BY DEF MarkStale
  <2>2. s \in Command /\ Shaped(s)
    OBVIOUS
  <2>3. /\ u \in Command /\ u.cmd = s.cmd /\ u.pc = s.pc /\ u.id = s.id /\ u.seen = s.seen
        /\ u.asked = s.asked /\ u.reply = s.reply
    BY <2>2 DEF Command
  <2> QED BY <2>1, <2>2, <2>3 DEF Shaped, Kept
<1>2. MarkStale(p, procs) \in [Procs -> Command]
  BY <1>1 DEF MarkStale, Shaped
<1> QED BY <1>1, <1>2

\* One command moves, with or without a renaming of the configuration.
LEMMA Moved ==
  ASSUME CommandsShaped, NEW p \in Procs, NEW t, Shaped(t),
         \/ proc' = [proc EXCEPT ![p] = t]
         \/ proc' = MarkStale(p, [proc EXCEPT ![p] = t])
  PROVE  /\ CommandsShaped' /\ proc'[p] = t
         /\ \A q \in Procs : q # p => Kept(proc[q], proc'[q])
<1> DEFINE procs == [proc EXCEPT ![p] = t]
<1>1. /\ procs \in [Procs -> Command] /\ procs[p] = t
      /\ \A q \in Procs : Shaped(procs[q]) /\ (q # p => procs[q] = proc[q])
  BY DEF CommandsShaped, Shaped
<1>2. proc' = procs \/ proc' = MarkStale(p, procs)
  OBVIOUS
<1> HIDE DEF procs
<1>3. /\ MarkStale(p, procs) \in [Procs -> Command] /\ MarkStale(p, procs)[p] = procs[p]
      /\ \A q \in Procs : Shaped(MarkStale(p, procs)[q]) /\ Kept(procs[q], MarkStale(p, procs)[q])
  BY <1>1, Marking
<1>4. CASE proc' = procs
  BY <1>1, <1>4 DEF CommandsShaped, Kept
<1>5. CASE proc' = MarkStale(p, procs)
  BY <1>1, <1>3, <1>5 DEF CommandsShaped
<1> QED BY <1>2, <1>4, <1>5

\* One command moves; the others keep their locks and what they saw.
LEMMA OneMoves ==
  ASSUME Locks, Shape', NEW p \in Procs, writable' = writable,
         \A q \in Procs : q # p => Kept(proc[q], proc'[q]),
         \A q \in Procs : q # p /\ lock.state = q => lock'.state = q /\ cache' = cache /\ native' = native,
         \A q \in Procs : q # p /\ lock.config = q => lock'.config = q,
         config'.vis = config.vis \/ lock.config = p,
         Holds(p)', Edits(p)'
  PROVE  Locks'
<1> SUFFICES ASSUME NEW q \in Procs, q # p PROVE Holds(q)' /\ Edits(q)'
  BY DEF Locks
<1>0. Kept(proc[q], proc'[q]) /\ Holds(q) /\ Edits(q)
  BY DEF Locks
<1>1. Holds(q)'
  BY <1>0 DEF Kept, Holds, Inside, Runs, Removes
<1>2. Edits(q)'
  <2>1. lock.config = q => config'.vis = config.vis
    OBVIOUS
  <2> QED BY <1>0, <2>1 DEF Kept, Edits, Removes
<1> QED BY <1>1, <1>2

\* A command takes a step inside its transactions.
LEMMA StepLocks ==
  ASSUME Locks, NEW p \in Procs, NEW t, Shaped(t),
         \/ proc' = [proc EXCEPT ![p] = t]
         \/ proc' = MarkStale(p, [proc EXCEPT ![p] = t]),
         LocksShaped', FilesShaped', RestShaped', writable' = writable,
         \A q \in Procs : q # p /\ lock.state = q => lock'.state = q /\ cache' = cache /\ native' = native,
         \A q \in Procs : q # p /\ lock.config = q => lock'.config = q,
         config'.vis = config.vis \/ lock.config = p,
         proc'[p] = t => Holds(p)' /\ Edits(p)'
  PROVE  Locks'
<1>1. /\ CommandsShaped' /\ proc'[p] = t
      /\ \A q \in Procs : q # p => Kept(proc[q], proc'[q])
  BY Moved DEF Locks, Shape
<1>2. Shape'
  BY <1>1 DEF Shape
<1> QED BY <1>1, <1>2, OneMoves

\* A command ends, and leaves the files to the others as they are.
LEMMA EndLocks ==
  ASSUME Locks, NEW p \in Procs, Release(p),
         \/ proc' = [proc EXCEPT ![p] = Idle]
         \/ proc' = MarkStale(p, [proc EXCEPT ![p] = Idle]),
         FilesShaped', resource' \in [Nonces -> Resource], writable' = writable, lost' \in BOOLEAN,
         eras' \in [Ids -> Nat], devices' \in Nat,
         \A q \in Procs : q # p /\ lock.state = q => cache' = cache /\ native' = native,
         config'.vis = config.vis \/ lock.config = p
  PROVE  Locks'
<1>1. /\ LocksShaped' /\ network' \subseteq network
      /\ \A q \in Procs : q # p => (lock.state = q => lock'.state = q) /\ (lock.config = q => lock'.config = q)
  BY EndingReleases DEF Locks
<1>2. RestShaped'
  BY <1>1 DEF Locks, Shape, RestShaped
<1>3. proc'[p] = Idle => Holds(p)' /\ Edits(p)'
  BY IdleIsShaped DEF Holds, Edits, Inside
<1> QED BY <1>1, <1>2, <1>3, IdleIsShaped, StepLocks

--------------------------------------------------------------------------------
(***************************************************************************)
(* add, and the edits of the configuration.                                *)
(***************************************************************************)
\* A command loads the configuration, with its lock where it will edit it.
LEMMA LoadsLock ==
  ASSUME Locks, NEW p \in Procs, NEW i \in Ids, AddLoad(p, i) \/ RemoveLoad(p, i) \/ RunRead(p)
  PROVE  Locks'
<1>0. Shape /\ proc[p] = Idle /\ None \notin Procs
  BY IdentitiesAssumption DEF Locks, AddLoad, RemoveLoad, RunRead
<1>1. /\ UNCHANGED <<config, cache, native, network, resource, eras, devices, lost, writable>>
      /\ lock' = lock \/ (lock.config = None /\ lock' = [lock EXCEPT !.config = p])
  BY DEF AddLoad, RemoveLoad, RunRead, LockConfig, files, history
<1>2. LocksShaped' /\ lock'.state = lock.state /\ \A q \in Procs : lock.config = q => lock'.config = q
  BY <1>0, <1>1 DEF Shape, LocksShaped
<1>3. PICK t : /\ proc' = [proc EXCEPT ![p] = t] /\ t \in Command /\ Shaped(t) /\ ~Inside(t)
               /\ t.seen = config.vis /\ t.pc \in {"save", "snapshot"}
               /\ t.cmd = "add" => writable /\ lock'.config = p /\ t.pc = "save"
               /\ t.cmd = "remove" /\ writable => lock'.config = p
               /\ t.pc = "save" => writable
  <2>1. config.vis \in [Ids -> Nat]
    BY <1>0 DEF Shape, FilesShaped
  <2>2. CASE AddLoad(p, i)
    <3> DEFINE t == [Idle EXCEPT !.cmd = "add", !.pc = "save", !.id = i, !.seen = config.vis]
    <3>1. t \in Command /\ t.cmd = "add" /\ t.pc = "save" /\ t.seen = config.vis /\ t.id = i
      BY <2>1 DEF Idle, Command
    <3>2. proc' = [proc EXCEPT ![p] = t] /\ writable /\ lock'.config = p
      BY <1>0, <2>2 DEF AddLoad, LockConfig, Shape, LocksShaped
    <3> HIDE DEF t
    <3> QED BY <3>1, <3>2 DEF Shaped, Inside, Runs, Removes
  <2>3. CASE RemoveLoad(p, i)
    <3> DEFINE t == [Idle EXCEPT !.cmd = "remove", !.pc = "snapshot", !.id = i, !.seen = config.vis]
    <3>1. t \in Command /\ t.cmd = "remove" /\ t.pc = "snapshot" /\ t.seen = config.vis /\ t.id = i
      BY <2>1 DEF Idle, Command
    <3>2. proc' = [proc EXCEPT ![p] = t] /\ (writable => lock'.config = p)
      BY <1>0, <2>3 DEF RemoveLoad, LockConfig, Shape, LocksShaped
    <3> HIDE DEF t
    <3> QED BY <3>1, <3>2 DEF Shaped, Inside, Runs, Removes, RemoveSteps
  <2>4. CASE RunRead(p)
    <3> DEFINE t == [Idle EXCEPT !.cmd = "run", !.pc = "snapshot", !.seen = config.vis]
    <3>1. t \in Command /\ t.cmd = "run" /\ t.pc = "snapshot" /\ t.seen = config.vis
      BY <2>1 DEF Idle, Command
    <3>2. proc' = [proc EXCEPT ![p] = t]
      BY <2>4 DEF RunRead
    <3> HIDE DEF t
    <3> QED BY <3>1, <3>2 DEF Shaped, Inside, Runs, Removes, RunSteps
  <2> QED BY <2>2, <2>3, <2>4
<1>5. proc'[p] = t /\ CommandsShaped' /\ \A q \in Procs : q # p => Kept(proc[q], proc'[q])
  BY <1>0, <1>3, Moved DEF Shape
<1>4. Shape'
  BY <1>0, <1>1, <1>2, <1>5 DEF Shape, FilesShaped, RestShaped
<1>6. Holds(p)' /\ Edits(p)'
  BY <1>1, <1>3, <1>5 DEF Holds, Edits, Inside
<1> QED BY <1>1, <1>2, <1>4, <1>5, <1>6, OneMoves

\* The configuration is renamed into place.
LEMMA ConfigSaved ==
  ASSUME FilesShaped, NEW new \in [Ids -> Nat], NEW end \in SaveEnds,
         config' = Saved(config, new, end), UNCHANGED <<cache, native>>
  PROVE  FilesShaped'
<1>1. end \in {"ok", "write", "sync"}
  BY Endings
<1> DEFINE S == [Ids -> Nat]
<1>2. config \in [vis: S, disk: SUBSET S] /\ config.vis \in config.disk /\ new \in S
  BY DEF FilesShaped
<1> HIDE DEF S
<1>3. config' \in [vis: S, disk: SUBSET S] /\ config'.vis \in config'.disk
  BY <1>1, <1>2, Saving
<1> QED BY <1>3 DEF FilesShaped, S

\* Who edits the configuration has its lock, and the content it started from.
LEMMA EditsLock ==
  ASSUME Locks, NEW p \in Procs, AddSave(p) \/ RemoveEdit(p) \/ RemoveUncachedEdit(p)
  PROVE  Locks'
<1> DEFINE s == proc[p]  i == s.id  seen == s.seen
<1>0. /\ Shape /\ Holds(p) /\ Edits(p)
      /\ s \in Command /\ seen \in [Ids -> Nat] /\ i \in Ids /\ Shaped(s)
  BY DEF Locks, Shape, CommandsShaped, Shaped, Command, AddSave, RemoveEdit, RemoveUncachedEdit, At
<1>1. CASE AddSave(p)
  <2>1. s.cmd = "add" /\ lock.config = p /\ Release(p) /\ UNCHANGED <<cache, native, resource, devices, lost, writable>>
    BY <1>0, <1>1 DEF AddSave, At, Edits
  <2>2. CASE proc' = [proc EXCEPT ![p] = Idle] /\ UNCHANGED <<config, eras>>
    <3>1. FilesShaped' /\ eras' \in [Ids -> Nat] /\ devices' \in Nat /\ resource' \in [Nonces -> Resource] /\ lost' \in BOOLEAN
      BY <1>0, <2>1, <2>2 DEF Shape, FilesShaped, RestShaped
    <3> QED BY <2>1, <2>2, <3>1, EndLocks
  <2>3. ASSUME NEW end \in SaveEnds,
               config' = Saved(config, [seen EXCEPT ![i] = eras[i] + 1], end),
               proc' = MarkStale(p, [proc EXCEPT ![p] = Idle]),
               eras' = [eras EXCEPT ![i] = @ + 1]
        PROVE  Locks'
    <3> DEFINE new == [seen EXCEPT ![i] = eras[i] + 1]
    <3>1. new \in [Ids -> Nat] /\ eras' \in [Ids -> Nat] /\ FilesShaped
      BY <1>0, <2>3 DEF Shape, RestShaped
    <3>2. config' = Saved(config, new, end)
      BY <2>3
    <3> HIDE DEF new
    <3>3. FilesShaped'
      BY <2>1, <3>1, <3>2, ConfigSaved
    <3>4. devices' \in Nat /\ resource' \in [Nonces -> Resource] /\ lost' \in BOOLEAN
      BY <1>0, <2>1 DEF Shape, RestShaped
    <3> QED BY <2>1, <2>3, <3>1, <3>3, <3>4, EndLocks
  <2> QED BY <1>1, <2>2, <2>3 DEF AddSave
<1>2. CASE RemoveEdit(p)
  <2> DEFINE u == [s EXCEPT !.pc = "prune"]
  <2>1. /\ s.cmd = "remove" /\ s.pc = "edit" /\ Removes(s) /\ Inside(s)
        /\ UNCHANGED <<cache, native, resource, eras, devices, lost, writable>>
    BY <1>2 DEF RemoveEdit, At, history, Inside, Removes, RemoveSteps
  <2>2. /\ lock.state = p /\ cache.vis # Absent /\ cache.disk = {cache.vis}
        /\ (HasContinuity(cache.vis) => native # 0)
        /\ (writable => lock.config = p /\ seen = config.vis) /\ (~writable => seen[i] = 0)
    BY <1>0, <2>1 DEF Holds, Edits
  <2>3. Shaped(u) /\ u.cmd = "remove" /\ u.pc = "prune" /\ u.id = i /\ u.seen = seen
    BY <1>0, <2>1 DEF Command, RemoveSteps, Shaped
  <2>4. /\ [proc EXCEPT ![p].pc = "prune"] = [proc EXCEPT ![p] = u]
        /\ eras' \in [Ids -> Nat] /\ devices' \in Nat /\ resource' \in [Nonces -> Resource]
        /\ lost' \in BOOLEAN /\ (network' \subseteq network => RestShaped')
    BY <1>0, <2>1 DEF Shape, RestShaped
  <2>5. ASSUME UNCHANGED <<lock, network>>, FilesShaped', config'.vis = config.vis \/ lock.config = p,
               \/ proc' = [proc EXCEPT ![p] = u]
               \/ proc' = MarkStale(p, [proc EXCEPT ![p] = u])
        PROVE  Locks'
    <3> HIDE DEF u
    <3>1. proc'[p] = u => Holds(p)'
      BY <2>1, <2>2, <2>3, <2>5 DEF Holds, HasContinuity, Named
    <3>2. proc'[p] = u => Edits(p)'
      BY <2>1, <2>2, <2>3, <2>5 DEF Edits
    <3>3. LocksShaped' /\ RestShaped'
      BY <1>0, <2>4, <2>5 DEF Shape, LocksShaped
    <3> QED BY <2>1, <2>2, <2>3, <2>5, <3>1, <3>2, <3>3, StepLocks
  <2>6. CASE Goto(p, "prune") /\ UNCHANGED config
    <3>1. proc' = [proc EXCEPT ![p] = u] /\ UNCHANGED <<lock, network>>
      BY <2>4, <2>6 DEF Goto
    <3>2. FilesShaped' /\ config'.vis = config.vis
      BY <1>0, <2>1, <2>6 DEF Shape, FilesShaped
    <3> HIDE DEF u
    <3> QED BY <2>5, <3>1, <3>2
  <2>7. ASSUME NEW end \in SaveEnds, config' = Saved(config, [seen EXCEPT ![i] = 0], end), seen[i] # 0,
               \/ proc' = MarkStale(p, [proc EXCEPT ![p] = u]) /\ UNCHANGED <<lock, network>>
               \/ proc' = MarkStale(p, [proc EXCEPT ![p] = Idle]) /\ Release(p)
        PROVE  Locks'
    <3> DEFINE new == [seen EXCEPT ![i] = 0]
    <3>1. new \in [Ids -> Nat] /\ FilesShaped /\ config' = Saved(config, new, end) /\ lock.config = p
      BY <1>0, <2>1, <2>2, <2>7 DEF Shape
    <3> HIDE DEF new, u
    <3>2. FilesShaped'
      BY <2>1, <3>1, ConfigSaved
    <3>3. CASE proc' = MarkStale(p, [proc EXCEPT ![p] = u]) /\ UNCHANGED <<lock, network>>
      BY <2>5, <3>1, <3>2, <3>3
    <3>4. CASE proc' = MarkStale(p, [proc EXCEPT ![p] = Idle]) /\ Release(p)
      BY <2>1, <2>4, <3>1, <3>2, <3>4, EndLocks
    <3> QED BY <2>7, <3>3, <3>4
  <2> QED BY <1>2, <2>4, <2>6, <2>7 DEF RemoveEdit
<1>3. CASE RemoveUncachedEdit(p)
  <2> DEFINE new == [seen EXCEPT ![i] = 0]
  <2>1. /\ s.cmd = "remove" /\ Release(p) /\ proc' = MarkStale(p, [proc EXCEPT ![p] = Idle])
        /\ UNCHANGED <<cache, native, resource, eras, devices, lost, writable>>
    BY <1>3 DEF RemoveUncachedEdit, At, history
  <2>2. PICK end \in SaveEnds : config' = Saved(config, new, end)
    BY <1>3 DEF RemoveUncachedEdit
  <2>3. new \in [Ids -> Nat] /\ FilesShaped
    BY <1>0 DEF Shape
  <2> HIDE DEF new
  <2>4. FilesShaped'
    BY <2>1, <2>2, <2>3, ConfigSaved
  <2>5. eras' \in [Ids -> Nat] /\ devices' \in Nat /\ resource' \in [Nonces -> Resource] /\ lost' \in BOOLEAN
    BY <1>0, <2>1 DEF Shape, RestShaped
  <2>6. config'.vis = config.vis \/ lock.config = p
    BY <1>0, <1>3, <2>1 DEF Edits, RemoveUncachedEdit, At
  <2> QED BY <2>1, <2>4, <2>5, <2>6, EndLocks
<1> QED BY <1>1, <1>2, <1>3

--------------------------------------------------------------------------------
(***************************************************************************)
(* The identity-cache transaction.                                         *)
(***************************************************************************)
\* The cache is renamed into place, or made to be the one on disk.
LEMMA CacheSaved ==
  ASSUME FilesShaped, NEW new \in Content \union {Absent}, NEW end \in SaveEnds,
         cache' = Saved(cache, new, end), config' = config, native' \in Nat
  PROVE  /\ FilesShaped'
         /\ end = "ok" => cache' = [vis |-> new, disk |-> {new}]
<1>1. end \in {"ok", "write", "sync"}
  BY Endings
<1> DEFINE S == Content \union {Absent}
<1>2. cache \in [vis: S, disk: SUBSET S] /\ cache.vis \in cache.disk /\ new \in S
  BY DEF FilesShaped
<1> HIDE DEF S
<1>3. /\ cache' \in [vis: S, disk: SUBSET S] /\ cache'.vis \in cache'.disk
      /\ end = "ok" => cache' = [vis |-> new, disk |-> {new}]
  BY <1>1, <1>2, Saving
<1> QED BY <1>3 DEF FilesShaped, S

\* The retry barrier of the transaction: what is visible is what is on disk.
LEMMA CacheSynced ==
  ASSUME FilesShaped
  PROVE  /\ Synced(cache) = [vis |-> cache.vis, disk |-> {cache.vis}]
         /\ cache' = Synced(cache) /\ config' = config /\ native' = native => FilesShaped'
<1> DEFINE S == Content \union {Absent}
<1>1. cache \in [vis: S, disk: SUBSET S] /\ cache.vis \in S
  BY DEF FilesShaped
<1> HIDE DEF S
<1>2. Synced(cache) = [vis |-> cache.vis, disk |-> {cache.vis}]
  BY <1>1 DEF Synced
<1>3. ASSUME cache' = Synced(cache) PROVE cache' \in [vis: S, disk: SUBSET S] /\ cache'.vis \in cache'.disk
  BY <1>1, <1>2, <1>3
<1> QED BY <1>2, <1>3 DEF FilesShaped, S

\* A new cache names nothing.
LEMMA EmptyIsFresh == Empty \in Content /\ Empty # Absent /\ Named(Empty) = {} /\ ~HasContinuity(Empty)
<1>1. Empty \in Content
  BY DEF Empty, Content, Request, NoRequest
<1> QED BY <1>1, AbsentIsNoContent DEF Empty, Named, HasContinuity

\* A command ends while it holds the cache, or while nobody does.
LEMMA EndInside ==
  ASSUME Locks, NEW p \in Procs, End(p), FilesShaped', resource' \in [Nonces -> Resource],
         UNCHANGED <<config, eras, devices, lost, writable>>,
         lock.state \in {p, None} \/ (cache' = cache /\ native' = native)
  PROVE  Locks'
<1>1. None \notin Procs
  BY IdentitiesAssumption
<1>2. eras' \in [Ids -> Nat] /\ devices' \in Nat /\ lost' \in BOOLEAN /\ writable' = writable
  BY DEF Locks, Shape, RestShaped
<1> QED BY <1>1, <1>2, EndLocks DEF End

\* A command that has the cache's lock takes a step and keeps it.
LEMMA InsideLocks ==
  ASSUME Locks, NEW p \in Procs, lock.state \in {p, None}, lock' = [lock EXCEPT !.state = p],
         NEW t, Shaped(t), Inside(t), proc' = [proc EXCEPT ![p] = t],
         t.cmd = proc[p].cmd, t.seen = proc[p].seen,
         t.cmd = "remove" => /\ t.id = proc[p].id /\ (t.pc # "prune" => proc[p].pc # "prune")
                             /\ (~writable => t.seen[t.id] = 0),
         UNCHANGED <<config, writable>>, FilesShaped', RestShaped',
         cache'.vis # Absent, cache'.disk = {cache'.vis}, HasContinuity(cache'.vis) => native' # 0,
         t.pc \in {"bind", "resolve", "wait", "inspect", "delete", "confirm"} => native' # 0
  PROVE  Locks'
<1>1. Edits(p) /\ Shape /\ None \notin Procs
  BY IdentitiesAssumption DEF Locks
<1>2. LocksShaped' /\ lock'.state = p /\ lock'.config = lock.config
  BY <1>1 DEF Shape, LocksShaped
<1>3. proc'[p] = t => Holds(p)'
  BY <1>2 DEF Holds
<1>4. proc'[p] = t => Edits(p)'
  BY <1>1, <1>2 DEF Edits, Inside, Runs, Removes, RunSteps, RemoveSteps
<1>5. \A q \in Procs : q # p => lock.state # q
  BY <1>1
<1> QED BY <1>2, <1>3, <1>4, <1>5, StepLocks

\* The transaction opens for a command, or the command ends.
LEMMA OpenLocks ==
  ASSUME Locks, NEW p \in Procs, NEW accepted, NEW next, OpenState(p, accepted, next),
         UNCHANGED <<config, native, resource, history>>,
         Shaped(next), Inside(next), next.cmd = proc[p].cmd, next.seen = proc[p].seen,
         next.cmd = "remove" => next.id = proc[p].id /\ proc[p].pc # "prune",
         accepted /\ next.cmd = "remove" /\ ~writable => next.seen[next.id] = 0,
         accepted /\ next.pc \in {"bind", "resolve", "wait", "inspect", "delete", "confirm"} =>
           cache.vis # Absent /\ HasContinuity(cache.vis)
  PROVE  Locks'
<1>1. /\ lock.state = None /\ Shape /\ FilesShaped /\ resource' \in [Nonces -> Resource]
      /\ cache.vis \in Content \union {Absent} /\ native' \in Nat /\ writable' = writable
  BY DEF OpenState, Locks, Shape, FilesShaped, RestShaped, history
<1>2. CASE End(p) /\ UNCHANGED cache
  <2>1. FilesShaped'
    BY <1>1, <1>2 DEF FilesShaped
  <2> QED BY <1>1, <1>2, <2>1, EndInside DEF history
<1>3. CASE End(p) /\ cache' = Synced(cache)
  BY <1>1, <1>3, CacheSynced, EndInside DEF history
<1>4. ASSUME Continuous(cache.vis), accepted, NEW end \in SaveEnds,
             cache' = IF cache.vis = Absent THEN Saved(cache, Empty, end) ELSE Synced(cache),
             cache.vis = Absent \/ end = "ok",
             IF end = "ok"
             THEN /\ proc' = [proc EXCEPT ![p] = next]
                  /\ lock' = [lock EXCEPT !.state = p] /\ UNCHANGED network
             ELSE End(p)
      PROVE  Locks'
  <2>1. FilesShaped'
    BY <1>1, <1>4, CacheSaved, CacheSynced, EmptyIsFresh
  <2>2. CASE end # "ok"
    <3>1. End(p)
      BY <1>4, <2>2
    <3> QED BY <1>1, <2>1, <3>1, EndInside DEF history
  <2>3. CASE end = "ok"
    <3>1. /\ cache'.vis # Absent /\ cache'.disk = {cache'.vis}
          /\ cache'.vis = IF cache.vis = Absent THEN Empty ELSE cache.vis
      <4>1. CASE cache.vis = Absent
        <5>1. cache' = Saved(cache, Empty, end) /\ Empty \in Content \union {Absent} /\ Empty # Absent
          BY <1>4, <4>1, EmptyIsFresh
        <5> QED BY <1>1, <2>3, <4>1, <5>1, CacheSaved
      <4>2. CASE cache.vis # Absent
        BY <1>1, <1>4, <4>2, CacheSynced
      <4> QED BY <4>1, <4>2
    <3>2. HasContinuity(cache'.vis) => native' # 0
      BY <1>4, <3>1, EmptyIsFresh DEF Continuous
    <3>3. next.pc \in {"bind", "resolve", "wait", "inspect", "delete", "confirm"} => native' # 0
      BY <1>4 DEF Continuous
    <3>4. RestShaped'
      BY <1>1, <1>4, <2>3 DEF Shape, RestShaped, history
    <3> QED BY <1>1, <1>4, <2>1, <2>3, <3>1, <3>2, <3>3, <3>4, InsideLocks
  <2> QED BY <2>2, <2>3
<1> QED BY <1>2, <1>3, <1>4, Endings DEF OpenState

\* run and remove open the transaction on the cache.
LEMMA BeginsLock ==
  ASSUME Locks, NEW p \in Procs, RunBegin(p) \/ RemoveBegin(p)
  PROVE  Locks'
<1> DEFINE s == proc[p]  i == s.id
<1>1. Shape /\ s \in Command /\ Shaped(s) /\ s.pc = "snapshot"
  BY DEF Locks, Shape, CommandsShaped, RunBegin, RemoveBegin, At
<1>2. CASE RunBegin(p)
  <2> DEFINE t == [s EXCEPT !.pc = "open"]
  <2>1. /\ s.cmd = "run" /\ UNCHANGED <<config, native, resource, history>>
        /\ OpenState(p, NoOrphans(p) /\ ~s.stale, t)
    BY <1>2 DEF RunBegin, At
  <2>2. /\ t \in Command /\ t.cmd = "run" /\ t.pc = "open" /\ t.seen = s.seen
    BY <1>1, <2>1 DEF Command, RunSteps
  <2> DEFINE accepted == NoOrphans(p) /\ ~s.stale
  <2> HIDE DEF t, accepted
  <2>3. Shaped(t) /\ Inside(t)
    BY <2>2 DEF Shaped, Inside, Runs, RunSteps
  <2> QED BY <2>1, <2>2, <2>3, OpenLocks DEF accepted
<1>3. CASE RemoveBegin(p)
  <2> DEFINE c == Loaded
             t == [s EXCEPT !.pc = IF i \in Named(c) THEN "inspect" ELSE "edit"]
             accepted == Selected(p) /\ (i \in Named(c) => Registered(c))
  <2>1. /\ s.cmd = "remove" /\ i \in Ids /\ UNCHANGED <<config, native, resource, history>>
        /\ OpenState(p, accepted, t)
    BY <1>1, <1>3 DEF RemoveBegin, At, Shaped
  <2>2. /\ t \in Command /\ t.cmd = "remove" /\ t.pc \in {"inspect", "edit"} /\ t.seen = s.seen /\ t.id = i
        /\ t.pc = "inspect" => i \in Named(c)
    BY <1>1, <2>1 DEF Command, RemoveSteps
  <2>3. i \in Named(c) => cache.vis # Absent /\ HasContinuity(cache.vis)
    BY EmptyIsFresh DEF Loaded, HasContinuity
  <2>4. accepted /\ ~writable => s.seen[i] = 0
    BY DEF Selected
  <2> HIDE DEF t, accepted
  <2>5. Shaped(t) /\ Inside(t)
    BY <2>1, <2>2 DEF Shaped, Inside, Removes, RemoveSteps
  <2> QED BY <1>1, <2>1, <2>2, <2>3, <2>4, <2>5, OpenLocks
<1> QED BY <1>2, <1>3

\* A step of the same command, at another place.
LEMMA GotoLocks ==
  ASSUME Locks, NEW p \in Procs, NEW pc, Goto(p, pc), Inside(proc[p]),
         \/ proc[p].cmd = "run" /\ pc \in RunSteps \ {"wait"}
         \/ proc[p].cmd = "remove" /\ pc \in RemoveSteps \ {"prune"} /\ proc[p].pc # "prune",
         UNCHANGED <<config, writable, eras, lost>>, FilesShaped', resource' \in [Nonces -> Resource],
         devices' \in Nat, native' # 0 \/ (pc = "edit" /\ native' = native),
         \/ cache' = cache
         \/ cache'.vis # Absent /\ cache'.disk = {cache'.vis} /\ native' # 0
  PROVE  Locks'
<1> DEFINE s == proc[p]  t == [s EXCEPT !.pc = pc]
<1>1. Holds(p) /\ Edits(p) /\ Shape /\ s \in Command /\ Shaped(s)
  BY DEF Locks, Shape, CommandsShaped
<1>2. /\ t \in Command /\ t.cmd = s.cmd /\ t.pc = pc /\ t.id = s.id /\ t.seen = s.seen
      /\ proc' = [proc EXCEPT ![p] = t]
  BY <1>1 DEF Command, RunSteps, RemoveSteps, Goto
<1> HIDE DEF t
<1>3. Shaped(t) /\ Inside(t)
  BY <1>1, <1>2 DEF Shaped, Inside, Runs, Removes, RunSteps, RemoveSteps
<1>4. /\ UNCHANGED <<lock, network>> /\ lock.state = p
      /\ cache.vis # Absent /\ cache.disk = {cache.vis} /\ (HasContinuity(cache.vis) => native # 0)
  BY <1>1 DEF Goto, Holds
<1>5. lock' = [lock EXCEPT !.state = p]
  BY <1>1, <1>4 DEF Shape, LocksShaped
<1>6. RestShaped'
  BY <1>1, <1>4 DEF Shape, RestShaped
<1>7. t.cmd = "remove" => t.id = s.id /\ (~writable => t.seen[t.id] = 0) /\ s.pc # "prune"
  BY <1>1, <1>2 DEF Edits, Inside, Runs
<1>8. /\ cache'.vis # Absent /\ cache'.disk = {cache'.vis} /\ (HasContinuity(cache'.vis) => native' # 0)
      /\ t.pc \in {"bind", "resolve", "wait", "inspect", "delete", "confirm"} => native' # 0
  BY <1>2, <1>4
<1> QED BY <1>2, <1>3, <1>4, <1>5, <1>6, <1>7, <1>8, InsideLocks

\* A command saves the cache, and goes on when that succeeded.
LEMMA SavesLock ==
  ASSUME Locks, NEW p \in Procs, NEW pc, NEW new \in Content, SaveCache(p, new, pc), Inside(proc[p]),
         \/ proc[p].cmd = "run" /\ pc \in RunSteps \ {"wait"}
         \/ proc[p].cmd = "remove" /\ pc \in RemoveSteps \ {"prune"} /\ proc[p].pc # "prune",
         UNCHANGED <<config, native, resource, history>>, native # 0
  PROVE  Locks'
<1>1. PICK end \in SaveEnds :
        /\ cache' = Saved(cache, new, end)
        /\ IF end = "ok" THEN Goto(p, pc) ELSE End(p)
  BY DEF SaveCache
<1>2. /\ Shape /\ FilesShaped /\ lock.state = p /\ new # Absent /\ resource' \in [Nonces -> Resource]
      /\ native' \in Nat /\ devices' \in Nat /\ UNCHANGED <<eras, writable, lost>>
  BY AbsentIsNoContent DEF Locks, Shape, FilesShaped, RestShaped, Holds, history
<1>3. FilesShaped' /\ (end = "ok" => cache' = [vis |-> new, disk |-> {new}])
  BY <1>1, <1>2, CacheSaved
<1>4. CASE end = "ok"
  <2>1. Goto(p, pc) /\ cache'.vis # Absent /\ cache'.disk = {cache'.vis} /\ native' # 0
    BY <1>1, <1>2, <1>3, <1>4
  <2> QED BY <1>2, <1>3, <2>1, GotoLocks
<1>5. CASE end # "ok"
  <2>1. End(p)
    BY <1>1, <1>5
  <2> QED BY <1>2, <1>3, <2>1, EndInside DEF history
<1> QED BY <1>4, <1>5

--------------------------------------------------------------------------------
(***************************************************************************)
(* run and remove inside the transaction.                                  *)
(***************************************************************************)
\* The native runtime opens, or a device enrols.
LEMMA OpensLock ==
  ASSUME Locks, NEW p \in Procs, RunOpen(p)
  PROVE  Locks' /\ (native = 0 => ~HasContinuity(cache.vis) /\ cache.disk = {cache.vis})
<1>1. /\ Shape /\ proc[p].cmd = "run" /\ proc[p].pc = "open" /\ Goto(p, "bind")
      /\ UNCHANGED <<config, cache, resource, eras, lost, writable>>
      /\ IF native = 0 THEN devices' = devices + 1 /\ native' = devices + 1
                       ELSE UNCHANGED <<native, devices>>
  BY DEF RunOpen, At, Locks
<1>2. Inside(proc[p]) /\ Holds(p)
  BY <1>1 DEF Inside, Runs, RunSteps, Locks
<1>3. native' \in Nat /\ native' # 0 /\ devices' \in Nat /\ resource' \in [Nonces -> Resource]
  BY <1>1 DEF Shape, FilesShaped, RestShaped
<1>4. FilesShaped'
  BY <1>1, <1>3 DEF Shape, FilesShaped
<1>5. Locks'
  BY <1>1, <1>2, <1>3, <1>4, GotoLocks DEF RunSteps
<1>6. native = 0 => ~HasContinuity(cache.vis) /\ cache.disk = {cache.vis}
  BY <1>2 DEF Holds
<1> QED BY <1>5, <1>6

\* A cache with another binding and no request for an id is a cache.
LEMMA Contents ==
  ASSUME NEW c \in Content, NEW i, NEW crid \in Nat
  PROVE  [c EXCEPT !.crid[i] = crid, !.pending[i] = NoRequest] \in Content
<1>1. NoRequest \in Request
  BY DEF NoRequest, Request
<1> QED BY <1>1 DEF Content

\* The device is bound in the cache.
LEMMA BindsLock ==
  ASSUME Locks, NEW p \in Procs, RunBind(p)
  PROVE  Locks'
<1>1. /\ Shape /\ FilesShaped /\ proc[p].cmd = "run" /\ proc[p].pc = "bind"
      /\ UNCHANGED <<config, native, resource, history>>
      /\ UNCHANGED <<eras, devices, lost, writable>>
  BY DEF RunBind, At, Locks, Shape, history
<1>2. Inside(proc[p]) /\ Holds(p)
  BY <1>1 DEF Inside, Runs, RunSteps, Locks
<1>3. /\ cache.vis \in Content /\ native \in Nat /\ native # 0 /\ lock.state = p
      /\ resource' \in [Nonces -> Resource] /\ devices' \in Nat
  BY <1>1, <1>2 DEF Holds, Shape, FilesShaped, RestShaped
<1>4. cache' = cache => FilesShaped'
  BY <1>1 DEF FilesShaped
<1>5. CASE Goto(p, "resolve") /\ UNCHANGED cache
  BY <1>1, <1>2, <1>3, <1>4, <1>5, GotoLocks DEF RunSteps
<1>6. CASE SaveCache(p, [cache.vis EXCEPT !.device = native], "resolve")
  <2>1. [cache.vis EXCEPT !.device = native] \in Content
    BY <1>3 DEF Content
  <2> QED BY <1>1, <1>2, <1>3, <1>6, <2>1, SavesLock DEF RunSteps
<1>7. CASE End(p) /\ UNCHANGED cache
  BY <1>1, <1>3, <1>4, <1>7, EndInside
<1> QED BY <1>5, <1>6, <1>7 DEF RunBind

\* A request is sent, and waited for.
LEMMA AskLocks ==
  ASSUME Locks, NEW p \in Procs, NEW i \in Ids, NEW request \in Request, Ask(p, i, request),
         At(p, "run", "resolve"), UNCHANGED <<config, native, eras, devices, lost, writable>>,
         FilesShaped', resource' \in [Nonces -> Resource],
         cache' = cache \/ (cache'.vis # Absent /\ cache'.disk = {cache'.vis})
  PROVE  Locks'
<1> DEFINE s == proc[p]  t == [s EXCEPT !.pc = "wait", !.id = i, !.asked = s.asked \union {i}]
           m == [kind |-> "resolve", id |-> i, nonce |-> request.nonce, crid |-> request.crid]
<1>1. Holds(p) /\ Shape /\ s \in Command /\ Shaped(s) /\ s.cmd = "run" /\ s.pc = "resolve"
  BY DEF Locks, Shape, CommandsShaped, At
<1>2. Inside(s)
  BY <1>1 DEF Inside, Runs, RunSteps
<1>3. /\ t \in Command /\ t.cmd = "run" /\ t.pc = "wait" /\ t.id = i /\ t.seen = s.seen
      /\ proc' = [proc EXCEPT ![p] = t]
  <2>1. /\ t \in Command /\ t.cmd = "run" /\ t.pc = "wait" /\ t.id = i /\ t.seen = s.seen
    BY <1>1 DEF Command, RunSteps
  <2>2. proc' = [proc EXCEPT ![p] = t]
    BY <1>1 DEF Ask, Shape, CommandsShaped
  <2> QED BY <2>1, <2>2
<1>4. m \in Message /\ network' = network \union {m}
  BY DEF Message, Request, Ask
<1> HIDE DEF t, m
<1>5. Shaped(t) /\ Inside(t)
  BY <1>3 DEF Shaped, Inside, Runs, RunSteps
<1>6. /\ lock.state = p /\ cache.vis # Absent /\ cache.disk = {cache.vis}
      /\ native # 0
  BY <1>1, <1>2 DEF Holds
<1>7. lock' = [lock EXCEPT !.state = p]
  BY <1>1, <1>6 DEF Shape, LocksShaped, Ask
<1>8. RestShaped'
  BY <1>1, <1>4 DEF Shape, RestShaped
<1>9. cache'.vis # Absent /\ cache'.disk = {cache'.vis} /\ native' # 0
  BY <1>6
<1> QED BY <1>1, <1>3, <1>5, <1>6, <1>7, <1>8, <1>9, InsideLocks

\* What is asked is a request of the cache or a new one, and what the service
\* then knows of its nonce.
LEMMA Drawing ==
  ASSUME Shape, NEW p \in Procs, NEW i \in Ids, NEW crid \in Nat, NEW request \in Requests(crid)
  PROVE  /\ request \in Request /\ request.crid = crid
         /\ IF crid = 0 THEN request.nonce \in Nonces /\ resource[request.nonce].status = "unused"
                        ELSE request.nonce = 0
         /\ Drawn(p, i, request) \in [Nonces -> Resource]
<1>1. /\ request \in Request /\ request.crid = crid
      /\ IF crid = 0 THEN request.nonce \in Nonces /\ resource[request.nonce].status = "unused"
                     ELSE request.nonce = 0
  BY DEF Requests, Unused, Request, Nonces
<1>2. /\ proc[p].seen \in [Ids -> Nat] /\ native \in Nat /\ resource \in [Nonces -> Resource]
  BY DEF Shape, CommandsShaped, Command, FilesShaped, RestShaped
<1> DEFINE r == [status |-> "none", id |-> i, era |-> proc[p].seen[i], device |-> native]
<1>3. r \in Resource
  BY <1>2 DEF Resource
<1>4. Drawn(p, i, request) = IF request.nonce = 0 THEN resource ELSE [resource EXCEPT ![request.nonce] = r]
  BY DEF Drawn
<1> HIDE DEF r
<1>5. Drawn(p, i, request) \in [Nonces -> Resource]
  BY <1>2, <1>3, <1>4
<1> QED BY <1>1, <1>5

\* A pending request is replayed; a new one is saved, then sent.
LEMMA RequestsLock ==
  ASSUME Locks, NEW p \in Procs, NEW i \in Ids, RunRequest(p, i)
  PROVE  Locks'
<1> DEFINE c == cache.vis
<1>1. /\ Shape /\ FilesShaped /\ At(p, "run", "resolve") /\ UNCHANGED <<config, native, history>>
      /\ UNCHANGED <<eras, devices, lost, writable>>
  BY DEF RunRequest, Locks, Shape, history
<1>2. Inside(proc[p]) /\ Holds(p)
  BY <1>1 DEF Inside, Runs, RunSteps, Locks, At
<1>3. /\ c \in Content /\ native' \in Nat /\ lock.state = p /\ resource \in [Nonces -> Resource]
  BY <1>1, <1>2 DEF Holds, Shape, FilesShaped, RestShaped
<1>4. c.pending[i] \in Request /\ c.crid[i] \in Nat
  BY <1>3 DEF Content
<1>5. CASE UNCHANGED <<cache, resource>> /\ (Ask(p, i, c.pending[i]) \/ End(p))
  <2>1. FilesShaped' /\ resource' \in [Nonces -> Resource]
    BY <1>1, <1>3, <1>5 DEF FilesShaped
  <2>2. CASE Ask(p, i, c.pending[i])
    BY <1>1, <1>4, <1>5, <2>1, <2>2, AskLocks
  <2>3. CASE End(p)
    BY <1>1, <1>5, <2>1, <2>3, EndInside
  <2> QED BY <1>5, <2>2, <2>3
<1>6. ASSUME NEW request \in Requests(c.crid[i]), NEW end \in SaveEnds,
             cache' = Saved(cache, [c EXCEPT !.pending[i] = request], end),
             resource' = IF end = "write" THEN resource ELSE Drawn(p, i, request),
             IF end = "ok" THEN Ask(p, i, request) ELSE End(p)
      PROVE  Locks'
  <2>1. request \in Request /\ Drawn(p, i, request) \in [Nonces -> Resource]
    BY <1>1, <1>4, Drawing
  <2> DEFINE new == [c EXCEPT !.pending[i] = request]
  <2>2. new \in Content /\ new # Absent
    BY <1>3, <2>1, AbsentIsNoContent DEF Content
  <2>3. resource' \in [Nonces -> Resource]
    BY <1>3, <1>6, <2>1
  <2>4. cache' = Saved(cache, new, end)
    BY <1>6
  <2> HIDE DEF new
  <2>5. FilesShaped' /\ (end = "ok" => cache' = [vis |-> new, disk |-> {new}])
    BY <1>1, <1>3, <2>2, <2>4, CacheSaved
  <2>6. CASE end = "ok"
    <3>1. Ask(p, i, request) /\ cache'.vis # Absent /\ cache'.disk = {cache'.vis}
      BY <1>6, <2>2, <2>5, <2>6
    <3> QED BY <1>1, <2>1, <2>3, <2>5, <3>1, AskLocks
  <2>7. CASE end # "ok"
    <3>1. End(p)
      BY <1>6, <2>7
    <3> QED BY <1>1, <1>3, <2>3, <2>5, <3>1, EndInside
  <2> QED BY <2>6, <2>7
<1> QED BY <1>5, <1>6 DEF RunRequest

\* What a resolution or an inspection records.
LEMMA Recording ==
  ASSUME cache.vis \in Content, NEW i, NEW crid \in Nat
  PROVE  Recorded(i, crid) \in Content /\ Recorded(i, crid) # Absent
<1>1. NoRequest \in Request
  BY DEF NoRequest, Request
<1> DEFINE c == cache.vis
<1>2. [c EXCEPT !.crid[i] = crid, !.pending[i] = NoRequest] \in Content
  BY <1>1, Contents
<1> QED BY <1>2, AbsentIsNoContent DEF Recorded

\* An answer is recorded, and the next id is asked for.
LEMMA AnswersLock ==
  ASSUME Locks, NEW p \in Procs, RunAnswer(p)
  PROVE  Locks'
<1> DEFINE s == proc[p]  i == s.id  r == s.reply  c == cache.vis
           crid == IF r = Refused THEN c.crid[i] ELSE r
<1>1. /\ Shape /\ FilesShaped /\ s \in Command /\ Shaped(s) /\ s.cmd = "run" /\ s.pc = "wait"
      /\ UNCHANGED <<config, native, resource, history>>
      /\ UNCHANGED <<eras, devices, lost, writable>>
  BY DEF RunAnswer, At, Locks, Shape, CommandsShaped, history
<1>2. Inside(s) /\ Holds(p) /\ i \in Ids
  BY <1>1 DEF Inside, Runs, RunSteps, Locks, Shaped
<1>3. /\ c \in Content /\ native \in Nat /\ native # 0 /\ lock.state = p
      /\ resource' \in [Nonces -> Resource] /\ devices' \in Nat
  BY <1>1, <1>2 DEF Holds, Shape, FilesShaped, RestShaped
<1>4. crid \in Nat
  BY <1>1, <1>2, <1>3 DEF Content, Command
<1>5. CASE End(p) /\ UNCHANGED cache
  <2>1. FilesShaped'
    BY <1>1, <1>5 DEF FilesShaped
  <2> QED BY <1>1, <1>3, <1>5, <2>1, EndInside
<1>6. ASSUME NEW end \in SaveEnds, cache' = Saved(cache, Recorded(i, crid), end),
             \/ /\ end = "ok" /\ UNCHANGED <<lock, network>>
                /\ proc' = [proc EXCEPT ![p].pc = "resolve", ![p].reply = 0]
             \/ End(p)
      PROVE  Locks'
  <2>1. /\ Recorded(i, crid) \in Content /\ Recorded(i, crid) # Absent
    BY <1>3, <1>4, Recording
  <2> DEFINE new == Recorded(i, crid)
  <2>2. new \in Content \union {Absent} /\ new # Absent /\ cache' = Saved(cache, new, end)
    BY <1>6, <2>1
  <2> HIDE DEF new
  <2>3. FilesShaped' /\ (end = "ok" => cache' = [vis |-> new, disk |-> {new}])
    BY <1>1, <1>3, <2>2, CacheSaved
  <2>4. end = "ok" => cache'.vis # Absent /\ cache'.disk = {cache'.vis}
    BY <2>2, <2>3
  <2>5. CASE End(p)
    BY <1>1, <1>3, <2>3, <2>5, EndInside
  <2>6. CASE /\ end = "ok" /\ UNCHANGED <<lock, network>>
             /\ proc' = [proc EXCEPT ![p].pc = "resolve", ![p].reply = 0]
    <3> DEFINE t == [s EXCEPT !.pc = "resolve", !.reply = 0]
    <3>1. proc' = [proc EXCEPT ![p] = t]
      BY <1>1, <2>6 DEF Shape, CommandsShaped
    <3>2. t \in Command /\ t.cmd = "run" /\ t.pc = "resolve" /\ t.seen = s.seen
      BY <1>1 DEF Command, RunSteps
    <3> HIDE DEF t
    <3>3. Shaped(t) /\ Inside(t)
      BY <3>2 DEF Shaped, Inside, Runs, RunSteps
    <3>4. lock' = [lock EXCEPT !.state = p]
      BY <1>1, <1>3, <2>6 DEF Shape, LocksShaped
    <3>5. RestShaped'
      BY <1>1, <2>6 DEF Shape, RestShaped
    <3> QED BY <1>1, <1>3, <2>3, <2>4, <2>6, <3>1, <3>2, <3>3, <3>4, <3>5, InsideLocks
  <2> QED BY <1>6, <2>5, <2>6
<1> QED BY <1>5, <1>6 DEF RunAnswer

\* remove asks the service what there is, deletes it and waits for the outcome.
LEMMA RemovesLock ==
  ASSUME Locks, NEW p \in Procs, RemoveInspect(p) \/ RemoveDelete(p) \/ RemoveConfirm(p)
  PROVE  Locks'
<1> DEFINE s == proc[p]  i == s.id  c == cache.vis
<1>1. /\ Shape /\ FilesShaped /\ s \in Command /\ Shaped(s) /\ s.cmd = "remove"
      /\ s.pc \in {"inspect", "delete", "confirm"} /\ i \in Ids
  BY DEF RemoveInspect, RemoveDelete, RemoveConfirm, At, Locks, Shape, CommandsShaped, Shaped
<1>2. Inside(s) /\ Holds(p) /\ Edits(p)
  BY <1>1 DEF Inside, Removes, RemoveSteps, Locks
<1>3. /\ UNCHANGED <<config, native, history>> /\ UNCHANGED <<eras, devices, lost, writable>>
  BY DEF RemoveInspect, RemoveDelete, RemoveConfirm, files, history
<1>4. /\ c \in Content /\ native \in Nat /\ native # 0 /\ lock.state = p /\ devices' \in Nat
      /\ cache.vis # Absent /\ cache.disk = {cache.vis}
      /\ resource \in [Nonces -> Resource] /\ ("edit" \in RemoveSteps \ {"prune"}) /\ "delete" \in RemoveSteps \ {"prune"}
  BY <1>1, <1>2, <1>3, AbsentIsNoContent DEF Holds, Shape, FilesShaped, RestShaped, RemoveSteps
<1>5. resource' = resource /\ cache' = cache => FilesShaped' /\ resource' \in [Nonces -> Resource]
  BY <1>1, <1>3, <1>4 DEF FilesShaped
<1>6. ASSUME NEW pc \in {"edit", "delete"}, Goto(p, pc), UNCHANGED <<cache, resource>>
      PROVE  Locks'
  BY <1>1, <1>2, <1>3, <1>4, <1>5, <1>6, GotoLocks
<1>7. CASE RemoveInspect(p)
  <2>1. ASSUME NEW n \in Nonces, SaveCache(p, Recorded(i, n), "delete"), UNCHANGED resource
        PROVE  Locks'
    <3>1. Recorded(i, n) \in Content
      BY <1>4, Recording DEF Nonces
    <3> QED BY <1>1, <1>2, <1>3, <1>4, <2>1, <3>1, SavesLock
  <2> QED BY <1>6, <1>7, <2>1 DEF RemoveInspect, Found
<1>8. CASE RemoveDelete(p)
  <2> DEFINE t == [s EXCEPT !.pc = "confirm"]
             m == [kind |-> "delete", id |-> i, nonce |-> 0, crid |-> c.crid[i]]
  <2>1. /\ t \in Command /\ t.cmd = "remove" /\ t.pc = "confirm" /\ t.id = i /\ t.seen = s.seen
        /\ proc' = [proc EXCEPT ![p] = t]
    BY <1>1, <1>8 DEF Command, RemoveSteps, RemoveDelete
  <2>2. m \in Message
    BY <1>1, <1>4 DEF Message, Content
  <2>3. network' = network \union {m} /\ UNCHANGED <<lock, resource, cache>>
    BY <1>8 DEF RemoveDelete, files
  <2> HIDE DEF t, m
  <2>4. Shaped(t) /\ Inside(t)
    BY <1>1, <2>1 DEF Shaped, Inside, Removes, RemoveSteps
  <2>5. lock' = [lock EXCEPT !.state = p]
    BY <1>1, <1>4, <2>3 DEF Shape, LocksShaped
  <2>6. RestShaped'
    BY <1>1, <1>3, <2>2, <2>3 DEF Shape, RestShaped
  <2>7. ~writable => t.seen[t.id] = 0
    BY <1>1, <1>2, <2>1 DEF Edits, Removes, RemoveSteps
  <2> QED BY <1>1, <1>3, <1>4, <1>5, <2>1, <2>3, <2>4, <2>5, <2>6, <2>7, InsideLocks
<1>9. CASE RemoveConfirm(p)
  BY <1>6, <1>9 DEF RemoveConfirm, files
<1> QED BY <1>7, <1>8, <1>9

\* The identity is pruned, and what could not be synced put back.
LEMMA PrunesLock ==
  ASSUME Locks, NEW p \in Procs, RemovePrune(p)
  PROVE  Locks'
<1> DEFINE s == proc[p]  i == s.id  c == cache.vis  S == Content \union {Absent}
           pruned == [c EXCEPT !.crid[i] = 0, !.pending[i] = NoRequest]
<1>1. /\ FilesShaped /\ s.cmd = "remove" /\ s.pc = "prune" /\ End(p)
      /\ UNCHANGED <<config, native, resource, eras, devices, lost, writable>>
      /\ cache \in [vis: S, disk: SUBSET S] /\ c \in cache.disk
      /\ resource' \in [Nonces -> Resource]
  BY DEF Locks, Shape, FilesShaped, RestShaped, RemovePrune, At
<1>2. lock.state = p /\ c \in Content
  <2>1. Holds(p) /\ Inside(s) /\ c \in S
    BY <1>1 DEF Locks, Inside, Removes, RemoveSteps
  <2> QED BY <2>1 DEF Holds
<1>3. pruned \in S
  BY <1>2, Contents
<1>4. PICK first \in SaveEnds, second \in SaveEnds :
        cache' = IF i \notin Named(c) THEN cache
                 ELSE IF first = "ok" THEN Saved(cache, pruned, first)
                 ELSE Saved(Saved(cache, pruned, first), c, second)
  BY Endings DEF RemovePrune
<1>5. first \in {"ok", "write", "sync"} /\ second \in {"ok", "write", "sync"} /\ c \in S
  BY <1>2, Endings
<1> HIDE DEF S, pruned
<1> DEFINE once == Saved(cache, pruned, first)
<1>6. once \in [vis: S, disk: SUBSET S] /\ once.vis \in once.disk
  BY <1>1, <1>3, <1>5, Saving
<1> HIDE DEF once
<1> DEFINE twice == Saved(once, c, second)
<1>7. twice \in [vis: S, disk: SUBSET S] /\ twice.vis \in twice.disk
  BY <1>5, <1>6, Saving
<1>8. cache' \in {cache, once, twice}
  BY <1>4 DEF once
<1> HIDE DEF twice
<1>9. cache' \in [vis: S, disk: SUBSET S] /\ cache'.vis \in cache'.disk
  BY <1>1, <1>6, <1>7, <1>8
<1>10. FilesShaped'
  BY <1>1, <1>9 DEF FilesShaped, S
<1> QED BY <1>1, <1>2, <1>10, EndInside

--------------------------------------------------------------------------------
(***************************************************************************)
(* The service, failures and the operator.                                 *)
(***************************************************************************)
\* No command moves.
LEMMA AllStay ==
  ASSUME Locks, Shape', UNCHANGED <<cache, native, lock, writable>>,
         \A q \in Procs : /\ proc'[q].cmd = proc[q].cmd /\ proc'[q].pc = proc[q].pc
                          /\ proc'[q].id = proc[q].id /\ proc'[q].seen = proc[q].seen,
         config'.vis = config.vis \/ ~writable
  PROVE  Locks'
<1> SUFFICES ASSUME NEW q \in Procs PROVE Holds(q)' /\ Edits(q)'
  BY DEF Locks
<1>1. Holds(q) /\ Edits(q)
  BY DEF Locks
<1>2. Holds(q)'
  BY <1>1 DEF Holds, Inside, Runs, Removes, HasContinuity, Named
<1>3. Edits(q)'
  BY <1>1 DEF Edits, Removes
<1> QED BY <1>2, <1>3

\* An answer reaches who waits for it, and changes nothing else of a command.
LEMMA Answering ==
  ASSUME CommandsShaped, NEW m, NEW reply \in Nat, Answer(m, reply)
  PROVE  /\ CommandsShaped'
         /\ \A q \in Procs :
              /\ proc'[q].cmd = proc[q].cmd /\ proc'[q].pc = proc[q].pc
              /\ proc'[q].id = proc[q].id /\ proc'[q].seen = proc[q].seen
              /\ proc'[q].stale = proc[q].stale /\ proc'[q].asked = proc[q].asked
              /\ proc'[q].reply =
                   IF /\ At(q, "run", "wait") /\ proc[q].id = m.id
                      /\ cache.vis.pending[m.id] = [nonce |-> m.nonce, crid |-> m.crid]
                   THEN reply ELSE proc[q].reply
<1> DEFINE Asks(q) == /\ At(q, "run", "wait") /\ proc[q].id = m.id
                      /\ cache.vis.pending[m.id] = [nonce |-> m.nonce, crid |-> m.crid]
           Told(q) == [proc[q] EXCEPT !.reply = reply]
<1>1. proc' = [q \in Procs |-> IF Asks(q) THEN Told(q) ELSE proc[q]]
  BY DEF Answer
<1>2. ASSUME NEW q \in Procs
      PROVE  /\ proc[q] \in Command /\ Shaped(proc[q])
             /\ Told(q) \in Command /\ Shaped(Told(q)) /\ Told(q).reply = reply
             /\ Told(q).cmd = proc[q].cmd /\ Told(q).pc = proc[q].pc
             /\ Told(q).id = proc[q].id /\ Told(q).seen = proc[q].seen
             /\ Told(q).stale = proc[q].stale /\ Told(q).asked = proc[q].asked
  <2>1. proc[q] \in Command /\ Shaped(proc[q])
    BY <1>2 DEF CommandsShaped
  <2>2. Told(q) \in Command
    BY <2>1 DEF Command
  <2>3. /\ Told(q).cmd = proc[q].cmd /\ Told(q).pc = proc[q].pc /\ Told(q).reply = reply
        /\ Told(q).id = proc[q].id /\ Told(q).seen = proc[q].seen
        /\ Told(q).stale = proc[q].stale /\ Told(q).asked = proc[q].asked
    BY <2>1 DEF Command
  <2> HIDE DEF Told
  <2> QED BY <2>1, <2>2, <2>3 DEF Shaped
<1> HIDE DEF Asks, Told
<1>3. CommandsShaped'
  BY <1>1, <1>2 DEF CommandsShaped
<1> QED BY <1>1, <1>2, <1>3 DEF Asks

\* The service acts; the locks stay as they are.
LEMMA ServesLock ==
  ASSUME Locks, NEW m \in network, ServeAssertion(m) \/ ServeCold(m) \/ ServeDelete(m)
  PROVE  Locks'
<1>1. /\ Shape /\ CommandsShaped /\ m \in Message /\ Refused \in Nat /\ resource \in [Nonces -> Resource]
      /\ UNCHANGED <<config, cache, native, lock>> /\ UNCHANGED <<eras, devices, lost, writable>>
      /\ network' = network \ {m}
  BY IdentitiesAssumption
  DEF Locks, Shape, RestShaped, Refused, ServeAssertion, ServeCold, ServeDelete, files, history
<1>2. m.crid \in Nat /\ m.nonce \in Nat /\ \A n \in Nonces : n \in Nat
  BY <1>1 DEF Message, Nonces
<1>3. resource' \in [Nonces -> Resource]
  <2>1. ASSUME NEW n, NEW status \in {"active", "revoked"}
        PROVE  [resource EXCEPT ![n].status = status] \in [Nonces -> Resource]
    <3>1. n \in Nonces => [resource[n] EXCEPT !.status = status] \in Resource
      BY <1>1 DEF Resource
    <3> QED BY <1>1, <3>1
  <2>2. resource' = resource \/ \E n : \E status \in {"active", "revoked"} : resource' = [resource EXCEPT ![n].status = status]
    <3>1. ServeAssertion(m) => resource' = resource
      BY DEF ServeAssertion
    <3>2. ServeCold(m) => resource' = [resource EXCEPT ![m.nonce].status = "active"] \/ resource' = resource
      BY DEF ServeCold
    <3>3. ServeDelete(m) => resource' = [resource EXCEPT ![m.crid].status = "revoked"]
      BY DEF ServeDelete
    <3> QED BY <3>1, <3>2, <3>3
  <2>3. CASE resource' = resource
    BY <1>1, <2>3
  <2>4. CASE \E n : \E status \in {"active", "revoked"} : resource' = [resource EXCEPT ![n].status = status]
    <3>1. PICK n : \E status \in {"active", "revoked"} : resource' = [resource EXCEPT ![n].status = status]
      BY <2>4
    <3>2. PICK status \in {"active", "revoked"} : resource' = [resource EXCEPT ![n].status = status]
      BY <3>1
    <3> DEFINE new == [resource EXCEPT ![n].status = status]
    <3>3. new \in [Nonces -> Resource] /\ resource' = new
      BY <2>1, <3>2
    <3> HIDE DEF new
    <3> QED BY <3>3
  <2> QED BY <2>2, <2>3, <2>4
<1>4. \/ proc' = proc
      \/ \E reply \in Nat : Answer(m, reply)
  <2>1. CASE ServeAssertion(m)
    BY <1>1, <1>2, <2>1 DEF ServeAssertion
  <2>2. CASE ServeCold(m)
    BY <1>1, <1>2, <2>2 DEF ServeCold, ActiveOf
  <2>3. CASE ServeDelete(m)
    BY <2>3 DEF ServeDelete
  <2> QED BY <2>1, <2>2, <2>3
<1>5. /\ CommandsShaped'
      /\ \A q \in Procs : /\ proc'[q].cmd = proc[q].cmd /\ proc'[q].pc = proc[q].pc
                          /\ proc'[q].id = proc[q].id /\ proc'[q].seen = proc[q].seen
  <2>1. CASE proc' = proc
    BY <1>1, <2>1 DEF CommandsShaped
  <2>2. ASSUME NEW reply \in Nat, Answer(m, reply)
        PROVE  /\ CommandsShaped'
               /\ \A q \in Procs : /\ proc'[q].cmd = proc[q].cmd /\ proc'[q].pc = proc[q].pc
                                   /\ proc'[q].id = proc[q].id /\ proc'[q].seen = proc[q].seen
    BY <1>1, <2>2, Answering
  <2> QED BY <1>4, <2>1, <2>2
<1>6. Shape'
  BY <1>1, <1>3, <1>5 DEF Shape, FilesShaped, LocksShaped, RestShaped
<1> QED BY <1>1, <1>5, <1>6, AllStay

\* A command stops: a crash, or an answer that does not come.
LEMMA StopsLock ==
  ASSUME Locks, NEW p \in Procs, Stop(p)
  PROVE  Locks'
<1>1. End(p) /\ UNCHANGED <<config, cache, native, resource, history>>
  BY DEF Stop, files
<1>2. FilesShaped' /\ resource' \in [Nonces -> Resource]
  BY <1>1 DEF Locks, Shape, FilesShaped, RestShaped
<1> QED BY <1>1, <1>2, EndInside DEF history

\* A removal that finds no state directory goes on to the configuration.
LEMMA UncachedLocks ==
  ASSUME Locks, NEW p \in Procs, RemoveUncached(p)
  PROVE  Locks'
<1> DEFINE s == proc[p]  t == [s EXCEPT !.pc = "save"]
<1>1. /\ Shape /\ Edits(p) /\ s \in Command /\ Shaped(s) /\ s.cmd = "remove" /\ s.pc = "snapshot"
      /\ UNCHANGED <<config, cache, native, resource, eras, devices, lost, writable>>
  BY DEF Locks, Shape, CommandsShaped, RemoveUncached, At, files, history
<1>2. FilesShaped' /\ resource' \in [Nonces -> Resource]
  BY <1>1 DEF Shape, FilesShaped, RestShaped
<1>3. CASE End(p)
  BY <1>1, <1>2, <1>3, EndInside
<1>4. CASE writable /\ Goto(p, "save")
  <2>1. /\ t \in Command /\ t.cmd = "remove" /\ t.pc = "save" /\ t.id = s.id /\ t.seen = s.seen
        /\ proc' = [proc EXCEPT ![p] = t] /\ UNCHANGED <<lock, network>>
    BY <1>1, <1>4 DEF Command, Goto
  <2> HIDE DEF t
  <2>2. Shaped(t) /\ ~Inside(t)
    BY <1>1, <2>1 DEF Shaped, Inside, Runs, Removes, RemoveSteps
  <2>3. LocksShaped' /\ RestShaped'
    BY <1>1, <2>1 DEF Shape, LocksShaped, RestShaped
  <2>4. proc'[p] = t => Holds(p)' /\ Edits(p)'
    BY <1>1, <1>4, <2>1, <2>2 DEF Holds, Edits, Inside
  <2> QED BY <1>1, <1>2, <2>1, <2>2, <2>3, <2>4, StepLocks
<1> QED BY <1>3, <1>4 DEF RemoveUncached

\* The host loses power: every command is gone, and its locks.
LEMMA PowerLossLocks ==
  ASSUME Locks, PowerLoss
  PROVE  Locks'
<1> DEFINE C == [Ids -> Nat]  S == Content \union {Absent}
<1>1. /\ config \in [vis: C, disk: SUBSET C] /\ cache \in [vis: S, disk: SUBSET S]
      /\ native \in Nat /\ Shape
  BY DEF Locks, Shape, FilesShaped
<1>2. /\ \E c \in config.disk : config' = [vis |-> c, disk |-> {c}]
      /\ \E c \in cache.disk : cache' = [vis |-> c, disk |-> {c}]
      /\ proc' = [p \in Procs |-> Idle] /\ lock' = [k \in DOMAIN lock |-> None]
      /\ (network' = network \/ network' = {}) /\ UNCHANGED <<native, resource, history>>
  BY DEF PowerLoss
<1> HIDE DEF C, S
<1>3. /\ config' \in [vis: C, disk: SUBSET C] /\ config'.vis \in config'.disk
      /\ cache' \in [vis: S, disk: SUBSET S] /\ cache'.vis \in cache'.disk
  BY <1>1, <1>2
<1>4. FilesShaped'
  BY <1>1, <1>2, <1>3 DEF FilesShaped, C, S
<1>5. LocksShaped'
  BY <1>1, <1>2 DEF Shape, LocksShaped
<1>6. CommandsShaped' /\ \A p \in Procs : proc'[p] = Idle
  BY <1>2, IdleIsShaped DEF CommandsShaped, Shaped
<1>7. RestShaped'
  BY <1>1, <1>2 DEF Shape, RestShaped, history
<1>8. \A p \in Procs : Holds(p)' /\ Edits(p)'
  BY <1>6, IdleIsShaped DEF Holds, Edits, Inside
<1> QED BY <1>4, <1>5, <1>6, <1>7, <1>8 DEF Locks, Shape

\* A state file is lost while no command has it open.
LEMMA LosesLock ==
  ASSUME Locks, Lose
  PROVE  Locks'
<1>1. /\ Shape /\ lock.state = None /\ lost' = TRUE
      /\ UNCHANGED <<config, lock, proc, network, resource, eras, devices, writable>>
      /\ \/ native' = 0 /\ UNCHANGED cache
         \/ cache' = [vis |-> Absent, disk |-> {Absent}] /\ UNCHANGED native
  BY DEF Locks, Lose
<1>2. Shape'
  BY <1>1 DEF Shape, FilesShaped, LocksShaped, CommandsShaped, RestShaped
<1>3. None \notin Procs
  BY IdentitiesAssumption
<1>4. ASSUME NEW p \in Procs PROVE Holds(p)' /\ Edits(p)'
  <2>1. Holds(p) /\ Edits(p)
    BY DEF Locks
  <2>2. ~Inside(proc[p])
    BY <1>1, <1>3, <2>1 DEF Holds
  <2>3. Edits(p)'
    BY <1>1, <2>1 DEF Edits
  <2> QED BY <1>1, <2>2, <2>3 DEF Holds
<1> QED BY <1>2, <1>4 DEF Locks

\* The operator edits a configuration that no command can.
LEMMA HostEditLocks ==
  ASSUME Locks, NEW i \in Ids, HostEdit(i)
  PROVE  Locks'
<1> DEFINE new == [config.vis EXCEPT ![i] = 0]
<1>1. /\ Shape /\ FilesShaped /\ CommandsShaped /\ ~writable
      /\ (\E end \in SaveEnds : config' = Saved(config, new, end)) /\ proc' = MarkStale(None, proc)
      /\ UNCHANGED <<cache, native, lock, network, resource, history>>
  BY DEF Locks, Shape, HostEdit
<1>2. new \in [Ids -> Nat]
  BY <1>1 DEF FilesShaped
<1> HIDE DEF new
<1>3. FilesShaped'
  BY <1>1, <1>2, ConfigSaved
<1>4. /\ CommandsShaped'
      /\ \A q \in Procs : /\ proc'[q].cmd = proc[q].cmd /\ proc'[q].pc = proc[q].pc
                          /\ proc'[q].id = proc[q].id /\ proc'[q].seen = proc[q].seen
  BY <1>1, Marking DEF CommandsShaped, Kept
<1>5. Shape'
  BY <1>1, <1>3, <1>4 DEF Shape, LocksShaped, RestShaped, history
<1>6. UNCHANGED <<cache, native, lock, writable>>
  BY <1>1 DEF history
<1> QED BY <1>1, <1>4, <1>5, <1>6, AllStay

\* At first nobody holds a lock.
LEMMA InitLocks == Init => Locks
<1> SUFFICES ASSUME Init PROVE Locks
  OBVIOUS
<1>1. FilesShaped
  BY DEF Init, FilesShaped
<1>2. LocksShaped
  BY DEF Init, LocksShaped
<1>3. CommandsShaped /\ \A p \in Procs : proc[p] = Idle
  BY IdleIsShaped DEF Init, CommandsShaped, Shaped
<1>4. RestShaped
  <2>1. [status |-> "unused", id |-> None, era |-> 0, device |-> 0] \in Resource
    BY DEF Resource
  <2> QED BY <2>1 DEF Init, RestShaped
<1>5. \A p \in Procs : Holds(p) /\ Edits(p)
  BY <1>3, IdleIsShaped DEF Holds, Edits, Inside
<1> QED BY <1>1, <1>2, <1>3, <1>4, <1>5 DEF Locks, Shape

\* Every step keeps to the locks.
LEMMA StepLocked ==
  ASSUME Locks, [Next]_vars
  PROVE  Locks'
<1>1. CASE UNCHANGED vars
  <2>1. UNCHANGED <<config, cache, native, lock, proc, network, resource, eras, devices, lost, writable>>
    BY <1>1 DEF vars, files, history
  <2> QED BY <2>1 DEF Locks, Shape, FilesShaped, LocksShaped, CommandsShaped, RestShaped, Holds, Edits, HasContinuity, Named
<1>2. ASSUME NEW p \in Procs, Step(p) PROVE Locks'
  <2>1. ASSUME NEW i \in Ids, AddLoad(p, i) \/ RunRequest(p, i) \/ RemoveLoad(p, i) PROVE Locks'
    BY <2>1, LoadsLock, RequestsLock
  <2>2. RunRead(p) => Locks'
    BY LoadsLock DEF RunRead
  <2> QED BY <1>2, <2>1, <2>2, EditsLock, BeginsLock, OpensLock, BindsLock, AnswersLock,
             RemovesLock, PrunesLock, UncachedLocks DEF Step
<1>3. ASSUME NEW m \in network, ServeAssertion(m) \/ ServeCold(m) \/ ServeDelete(m) PROVE Locks'
  BY <1>3, ServesLock
<1> QED BY <1>1, <1>2, <1>3, StopsLock, PowerLossLocks, LosesLock, HostEditLocks DEF Next

\* Who edits one of the two files holds its lock, and what it sees of the file
\* is what is there (AcquireFileTransaction, withConnectorIdentityCacheLockContext).
THEOREM LocksAreKept == Spec => []Locks
BY InitLocks, StepLocked, PTL DEF Spec

--------------------------------------------------------------------------------
(***************************************************************************)
(* What follows from the locks.                                            *)
(***************************************************************************)
\* An edit of one id of what is there changes one route.
LEMMA OneChange ==
  ASSUME NEW f \in [Ids -> Nat], NEW g \in [Ids -> Nat], NEW i, \A k \in Ids : k # i => g[k] = f[k]
  PROVE  Cardinality({k \in Ids : g[k] # f[k]}) <= 1
<1> DEFINE T == {k \in Ids : g[k] # f[k]}
<1>1. T \in SUBSET {i}
  OBVIOUS
<1>2. IsFiniteSet({i}) /\ Cardinality({i}) = 1
  BY FS_Singleton
<1> HIDE DEF T
<1>3. Cardinality(T) <= 1
  BY <1>1, <1>2, FS_Subset
<1> QED BY <1>3 DEF T

\* Two commands edit the configuration and neither loses the other's change
\* (AcquireFileTransaction): nobody saves a content it read before the last
\* rename.
THEOREM OneRouteIsEdited == Spec => EditsOneRoute
<1> DEFINE One == PowerLoss \/ Cardinality({i \in Ids : config'.vis[i] # config.vis[i]}) <= 1
<1>1. Locks /\ Locks' /\ [Next]_vars => One
  <2> SUFFICES ASSUME Locks, Locks', [Next]_vars PROVE One
    OBVIOUS
  <2>1. FilesShaped /\ config.vis \in [Ids -> Nat] /\ config'.vis \in [Ids -> Nat] /\ config.vis \in config.disk
    BY DEF Locks, Shape, FilesShaped
  <2>2. CASE UNCHANGED config
    BY <2>1, <2>2, OneChange
  <2>3. ASSUME NEW i, NEW v, NEW end \in {"ok", "write", "sync"},
               config' = Saved(config, [config.vis EXCEPT ![i] = v], end)
        PROVE  One
    <3>1. \A k \in Ids : k # i => config'.vis[k] = config.vis[k]
      BY <2>1, <2>3 DEF Saved
    <3> QED BY <2>1, <3>1, OneChange
  <2>4. ASSUME NEW p \in Procs, AddSave(p) \/ RemoveEdit(p) \/ RemoveUncachedEdit(p) PROVE One
    <3> DEFINE s == proc[p]
    <3>1. Edits(p) /\ SaveEnds \subseteq {"ok", "write", "sync"}
      BY Endings DEF Locks
    <3>2. s.seen = config.vis \/ UNCHANGED config
      BY <2>4, <3>1 DEF AddSave, RemoveEdit, RemoveUncachedEdit, At, Edits, Removes, RemoveSteps
    <3>3. UNCHANGED config \/ \E v : \E end \in {"ok", "write", "sync"} : config' = Saved(config, [s.seen EXCEPT ![s.id] = v], end)
      BY <2>4, <3>1 DEF AddSave, RemoveEdit, RemoveUncachedEdit
    <3> QED BY <2>2, <2>3, <3>2, <3>3
  <2>5. ASSUME NEW i \in Ids, HostEdit(i) PROVE One
    BY <2>3, <2>5, Endings DEF HostEdit
  <2>6. CASE PowerLoss
    BY <2>6
  <2>7. UNCHANGED config \/ PowerLoss \/ (\E i \in Ids : HostEdit(i))
        \/ \E p \in Procs : AddSave(p) \/ RemoveEdit(p) \/ RemoveUncachedEdit(p)
    <3>1. ASSUME NEW p \in Procs, Step(p) 
          PROVE  UNCHANGED config \/ AddSave(p) \/ RemoveEdit(p) \/ RemoveUncachedEdit(p)
      BY <3>1 DEF Step, AddLoad, RunRequest, RemoveLoad, RunRead, RunBegin, RunOpen, RunBind, RunAnswer,
           RemoveUncached, RemoveBegin, RemoveInspect, RemoveDelete, RemoveConfirm, RemovePrune, files
    <3>2. ASSUME NEW m \in network, ServeAssertion(m) \/ ServeCold(m) \/ ServeDelete(m) PROVE UNCHANGED config
      BY <3>2 DEF ServeAssertion, ServeCold, ServeDelete, files
    <3>3. ASSUME UNCHANGED vars \/ Lose \/ \E p \in Procs : Stop(p) PROVE UNCHANGED config
      BY <3>3 DEF vars, files, Stop, Lose
    <3> QED BY <3>1, <3>2, <3>3 DEF Next
  <2> QED BY <2>2, <2>4, <2>5, <2>6, <2>7
<1> QED BY <1>1, LocksAreKept, PTL DEF Spec, EditsOneRoute

\* Nothing but a run that opens the native runtime gives the host a device, and
\* it does under the cache's lock, beside a cache that names none
\* (ensureConnectorIdentityCacheInitializedLocked).
THEOREM DevicesEnrolUnbound == Spec => EnrolsUnbound
<1> DEFINE Unbound == native' \notin {0, native} => \A c \in cache.disk : c = Absent \/ c.device = 0
<1>1. Locks /\ [Next]_vars => Unbound
  <2> SUFFICES ASSUME Locks, [Next]_vars, native' \notin {0, native}
               PROVE  \A c \in cache.disk : c = Absent \/ c.device = 0
    OBVIOUS
  <2>1. \E p \in Procs : RunOpen(p)
    <3>1. ASSUME NEW p \in Procs, Step(p) PROVE RunOpen(p)
      BY <3>1 DEF Step, AddLoad, AddSave, RunRequest, RemoveLoad, RunRead, RunBegin, RunBind, RunAnswer,
           RemoveUncached, RemoveUncachedEdit,
           RemoveBegin, RemoveInspect, RemoveDelete, RemoveConfirm, RemoveEdit, RemovePrune, files
    <3>2. ~\E m \in network : ServeAssertion(m) \/ ServeCold(m) \/ ServeDelete(m)
      BY DEF ServeAssertion, ServeCold, ServeDelete, files
    <3> QED BY <3>1, <3>2 DEF Next, vars, files, Stop, Lose, PowerLoss, HostEdit
  <2>2. PICK p \in Procs : RunOpen(p)
    BY <2>1
  <2>3. native = 0
    BY <2>2 DEF RunOpen
  <2> QED BY <2>2, <2>3, OpensLock DEF HasContinuity
<1> QED BY <1>1, LocksAreKept, PTL DEF Spec, EnrolsUnbound

--------------------------------------------------------------------------------
(***************************************************************************)
(* The second layer: what the cache remembers of the resources, as long as *)
(* no request outlives the command that sent it ("late" \notin Faults: an  *)
(* answer to a command that is gone can create what nothing names).        *)
(***************************************************************************)
\* A request on its way has a command that waits for it, and the cache names it.
Asked(p, m) ==
  /\ lock.state = p /\ m.id = proc[p].id
  /\ \/ /\ At(p, "run", "wait") /\ proc[p].reply = 0 /\ m.kind = "resolve"
        /\ cache.vis.pending[m.id] = [nonce |-> m.nonce, crid |-> m.crid]
        /\ m.nonce # 0 \/ m.crid # 0
     \/ /\ At(p, "remove", "confirm") /\ m.kind = "delete" /\ m.nonce = 0
        /\ m.crid = cache.vis.crid[m.id] /\ m.crid \in ActiveOf(m.id)

OneCall == \A m \in network : \E p \in Procs : Asked(p, m)

\* What a command has learned about the resource of its id.
Knows(p) ==
  LET s == proc[p]  i == s.id  c == cache.vis IN
  /\ s.reply # 0 =>
       /\ At(p, "run", "wait") /\ network = {}
       /\ IF s.reply = Refused THEN c.pending[i].nonce \notin ActiveOf(i) ELSE s.reply \in ActiveOf(i)
  /\ At(p, "remove", "delete") => ActiveOf(i) = {c.crid[i]}
  /\ At(p, "remove", "confirm") => ActiveOf(i) \subseteq {c.crid[i]}
  /\ At(p, "remove", "edit") \/ At(p, "remove", "prune") => ActiveOf(i) = {}

Calls == OneCall /\ \A p \in Procs : Knows(p)

\* The service holds at most one active resource per id.
Served ==
  /\ \A n \in Nonces : resource[n].status # "unused" => resource[n].id \in Ids
  /\ \A n, m \in Nonces :
       /\ resource[n].status = "active" /\ resource[m].status = "active"
       /\ resource[n].id = resource[m].id
       => n = m

\* A cache names requests the service may know, and resources it has created.
Sensible(c) ==
  c # Absent =>
    \A i \in Ids :
      LET r == c.pending[i]  n == c.crid[i] IN
      /\ r.nonce # 0 => /\ r.nonce \in Nonces /\ r.crid = 0 /\ n = 0
                        /\ resource[r.nonce].status # "unused" /\ resource[r.nonce].id = i
      /\ n # 0 => n \in Created /\ resource[n].id = i

Remembers(c) ==
  \A n \in Nonces : resource[n].status = "active" =>
    LET i == resource[n].id IN c # Absent /\ (c.crid[i] = n \/ c.pending[i].nonce = n)

\* Whatever is on disk is a cache that remembers, unless the host lost a file:
\* then the next command stops at it, or it never mattered.
Good(c) == Sensible(c) /\ (Continuous(c) => Remembers(c)) /\ (~lost => Continuous(c))

Memory == Calls /\ Served /\ \A c \in cache.disk : Good(c)

--------------------------------------------------------------------------------
\* Nobody but the holder of the cache's lock is inside its transaction.
LEMMA OnlyHolder ==
  ASSUME Locks, NEW q \in Procs, lock.state # q
  PROVE  /\ ~Inside(proc[q])
         /\ ~At(q, "run", "wait") /\ ~At(q, "remove", "delete") /\ ~At(q, "remove", "confirm")
         /\ ~At(q, "remove", "edit") /\ ~At(q, "remove", "prune")
<1>1. ~Inside(proc[q])
  BY DEF Locks, Holds
<1> QED BY <1>1 DEF Inside, Runs, Removes, RunSteps, RemoveSteps, At

\* While no command waits for the service, nothing is on its way.
LEMMA Quiet ==
  ASSUME Locks, Calls,
         \A p \in Procs : lock.state = p => ~At(p, "run", "wait") /\ ~At(p, "remove", "confirm")
  PROVE  network = {}
BY DEF Calls, OneCall, Asked

\* What a save leaves on disk.
LEMMA OnDisk ==
  ASSUME FilesShaped, NEW new \in Content \union {Absent}, NEW end \in SaveEnds
  PROVE  /\ Saved(cache, new, end).disk \subseteq cache.disk \union {new}
         /\ end = "ok" => Saved(cache, new, end).vis = new
<1>1. end \in {"ok", "write", "sync"}
  BY Endings
<1> QED BY <1>1 DEF Saved, FilesShaped

\* What a cache is worth does not change while the service and the device stay.
LEMMA GoodStays ==
  ASSUME NEW c, resource' = resource, native' = native, lost' = lost
  PROVE  (Good(c) <=> Good(c)') /\ (Served <=> Served')
BY DEF Good, Served, Sensible, Remembers, Continuous, HasContinuity, Named, Created

\* A good cache that is saved joins good caches.
LEMMA DisksGood ==
  ASSUME Memory, UNCHANGED <<resource, native, lost>>, NEW new, Good(new),
         cache'.disk \subseteq cache.disk \union {new}
  PROVE  Served' /\ \A c \in cache'.disk : Good(c)'
BY GoodStays DEF Memory

\* A command ends: nothing it asked for is left behind.
LEMMA CallsEnd ==
  ASSUME Locks, Locks', Calls, "late" \notin Faults, NEW p \in Procs, Release(p),
         \/ proc' = [proc EXCEPT ![p] = Idle]
         \/ proc' = MarkStale(p, [proc EXCEPT ![p] = Idle]),
         lock.state \in {p, None} \/ (cache' = cache /\ resource' = resource)
  PROVE  Calls'
<1>1. /\ Shape /\ CommandsShaped /\ proc'[p] = Idle /\ lock'.state # p
      /\ \A q \in Procs : q # p => Kept(proc[q], proc'[q]) /\ (lock.state = q => lock'.state = q)
      /\ lock'.state \in {lock.state, None}
  BY IdleIsShaped, Moved, EndingReleases DEF Locks, Shape
<1>2. /\ lock.state = p => network' = {}
      /\ lock.state # p => network' = network
  BY <1>1, EndingReleases
<1>3. CASE lock.state \in {p, None}
  <2>1. None \notin Procs
    BY IdentitiesAssumption
  <2>2. network' = {}
    BY <1>2, <1>3, <2>1, Quiet
  <2>3. \A q \in Procs : lock'.state # q
    BY <1>1, <1>3, <2>1
  <2>4. ASSUME NEW q \in Procs PROVE Knows(q)'
    <3>1. proc'[q].reply = 0
      <4>1. CASE q = p
        BY <1>1, <4>1 DEF Idle
      <4>2. CASE q # p
        <5>1. lock.state # q /\ Knows(q) /\ Kept(proc[q], proc'[q])
          BY <1>1, <1>3, <2>1, <4>2 DEF Calls
        <5> QED BY <5>1, OnlyHolder DEF Knows, Kept
      <4> QED BY <4>1, <4>2
    <3>2. /\ ~At(q, "remove", "delete")' /\ ~At(q, "remove", "confirm")'
          /\ ~At(q, "remove", "edit")' /\ ~At(q, "remove", "prune")'
      <4>1. Holds(q)' /\ lock'.state # q
        BY <2>3 DEF Locks
      <4> QED BY <4>1 DEF Holds, Inside, Removes, RemoveSteps, At
    <3> QED BY <3>1, <3>2 DEF Knows
  <2> QED BY <2>2, <2>4 DEF Calls, OneCall
<1>4. CASE lock.state \notin {p, None}
  <2>1. UNCHANGED <<cache, resource, network>>
    BY <1>2, <1>4
  <2>2. ASSUME NEW i PROVE ActiveOf(i)' = ActiveOf(i)
    BY <2>1 DEF ActiveOf
  <2>3. ASSUME NEW q \in Procs PROVE Knows(q)'
    <3>1. CASE q = p
      BY <1>1, <3>1 DEF Knows, Idle, At
    <3>2. CASE q # p
      <4>1. Knows(q) /\ Kept(proc[q], proc'[q])
        BY <1>1, <3>2 DEF Calls
      <4> QED BY <2>1, <2>2, <4>1 DEF Knows, Kept, At
    <3> QED BY <3>1, <3>2
  <2>4. ASSUME NEW m \in network PROVE \E q \in Procs : Asked(q, m)'
    <3>1. PICK q \in Procs : Asked(q, m)
      BY DEF Calls, OneCall
    <3>2. q # p /\ lock'.state = q /\ Kept(proc[q], proc'[q])
      BY <1>1, <1>4, <3>1 DEF Asked
    <3>3. Asked(q, m)'
      BY <2>1, <2>2, <3>1, <3>2 DEF Asked, Kept, At
    <3> QED BY <3>3
  <2> QED BY <2>1, <2>3, <2>4 DEF Calls, OneCall
<1> QED BY <1>3, <1>4

\* The holder of the cache's lock goes on, and the others stay outside.
LEMMA CallsGo ==
  ASSUME Locks, Locks', Calls, NEW p \in Procs, lock'.state = p, lock.state \in {p, None},
         \A q \in Procs : q # p => proc'[q].reply = proc[q].reply,
         Knows(p)', \A m \in network' : Asked(p, m)'
  PROVE  Calls'
<1>1. None \notin Procs
  BY IdentitiesAssumption
<1>2. ASSUME NEW q \in Procs, q # p PROVE Knows(q)'
  <2>1. lock.state # q /\ lock'.state # q /\ Knows(q) /\ Holds(q)'
    BY <1>1, <1>2 DEF Calls, Locks
  <2>2. proc'[q].reply = 0
    BY <1>2, <2>1, OnlyHolder DEF Knows
  <2>3. /\ ~At(q, "remove", "delete")' /\ ~At(q, "remove", "confirm")'
        /\ ~At(q, "remove", "edit")' /\ ~At(q, "remove", "prune")'
    BY <2>1 DEF Holds, Inside, Removes, RemoveSteps, At
  <2> QED BY <2>2, <2>3 DEF Knows
<1> QED BY <1>2 DEF Calls, OneCall

\* What is visible is on disk, so it is good.
LEMMA VisibleIsGood ==
  ASSUME Locks, Memory
  PROVE  Good(cache.vis) /\ cache.vis \in cache.disk
BY DEF Memory, Locks, Shape, FilesShaped

\* A command ends over good caches.
LEMMA EndMemory ==
  ASSUME Locks, Locks', Memory, "late" \notin Faults, NEW p \in Procs, Release(p),
         \/ proc' = [proc EXCEPT ![p] = Idle]
         \/ proc' = MarkStale(p, [proc EXCEPT ![p] = Idle]),
         resource' = resource, native' = native, lost' = lost,
         lock.state \in {p, None} \/ cache' = cache,
         cache' = cache \/ \E new : Good(new) /\ cache'.disk \subseteq cache.disk \union {new}
  PROVE  Memory'
<1>1. Calls'
  BY CallsEnd DEF Memory
<1>2. PICK new : Good(new) /\ cache'.disk \subseteq cache.disk \union {new}
  BY VisibleIsGood
<1>3. Served' /\ \A c \in cache'.disk : Good(c)'
  BY <1>2, DisksGood
<1> QED BY <1>1, <1>3 DEF Memory

\* Steps outside the cache's transaction.
LEMMA OutsideMemory ==
  ASSUME Locks, Locks', Memory, UNCHANGED <<cache, native, network, resource, lost>>,
         lock'.state = lock.state,
         \A q \in Procs : \/ Kept(proc[q], proc'[q])
                          \/ /\ proc[q] = Idle
                             /\ proc'[q].reply = 0 /\ proc'[q].pc \in {"save", "snapshot"}
  PROVE  Memory'
<1>1. ASSUME NEW i PROVE ActiveOf(i)' = ActiveOf(i)
  BY DEF ActiveOf
<1>2. ASSUME NEW q \in Procs PROVE Knows(q)'
  <2>1. CASE Kept(proc[q], proc'[q])
    <3>1. Knows(q)
      BY DEF Memory, Calls
    <3> QED BY <1>1, <2>1, <3>1 DEF Knows, Kept, At
  <2>2. CASE proc'[q].reply = 0 /\ proc'[q].pc \in {"save", "snapshot"}
    BY <2>2 DEF Knows, At
  <2> QED BY <2>1, <2>2
<1>3. ASSUME NEW m \in network' PROVE \E q \in Procs : Asked(q, m)'
  <2>1. PICK q \in Procs : Asked(q, m)
    BY DEF Memory, Calls, OneCall
  <2>2. Kept(proc[q], proc'[q])
    BY <2>1 DEF Asked, At, Idle
  <2>3. Asked(q, m)'
    BY <1>1, <2>1, <2>2 DEF Asked, Kept, At
  <2> QED BY <2>3
<1>4. Calls'
  BY <1>2, <1>3 DEF Calls, OneCall
<1>5. Served' /\ \A c \in cache'.disk : Good(c)'
  BY GoodStays DEF Memory
<1> QED BY <1>4, <1>5 DEF Memory

\* Loading the configuration changes nothing the cache knows.
LEMMA LoadsRemember ==
  ASSUME Locks, Locks', Memory, NEW p \in Procs, NEW i \in Ids,
         AddLoad(p, i) \/ RemoveLoad(p, i) \/ RunRead(p)
  PROVE  Memory'
<1>1. /\ UNCHANGED <<cache, native, network, resource, lost>> /\ proc[p] = Idle
      /\ lock' = lock \/ lock' = [lock EXCEPT !.config = p]
  BY DEF AddLoad, RemoveLoad, RunRead, LockConfig, files, history
<1>2. lock'.state = lock.state
  BY <1>1 DEF Locks, Shape, LocksShaped
<1>3. PICK t : proc' = [proc EXCEPT ![p] = t] /\ t.reply = 0 /\ t.pc \in {"save", "snapshot"}
  <2>1. CASE AddLoad(p, i)
    <3> DEFINE t == [Idle EXCEPT !.cmd = "add", !.pc = "save", !.id = i, !.seen = config.vis]
    <3>1. t.reply = 0 /\ t.pc = "save" /\ proc' = [proc EXCEPT ![p] = t]
      BY <2>1 DEF AddLoad, Idle
    <3> QED BY <3>1
  <2>2. CASE RemoveLoad(p, i)
    <3> DEFINE t == [Idle EXCEPT !.cmd = "remove", !.pc = "snapshot", !.id = i, !.seen = config.vis]
    <3>1. t.reply = 0 /\ t.pc = "snapshot" /\ proc' = [proc EXCEPT ![p] = t]
      BY <2>2 DEF RemoveLoad, Idle
    <3> QED BY <3>1
  <2>3. CASE RunRead(p)
    <3> DEFINE t == [Idle EXCEPT !.cmd = "run", !.pc = "snapshot", !.seen = config.vis]
    <3>1. t.reply = 0 /\ t.pc = "snapshot" /\ proc' = [proc EXCEPT ![p] = t]
      BY <2>3 DEF RunRead, Idle
    <3> QED BY <3>1
  <2> QED BY <2>1, <2>2, <2>3
<1>4. proc'[p] = t /\ \A q \in Procs : q # p => proc'[q] = proc[q]
  BY <1>3 DEF Locks, Shape, CommandsShaped
<1> QED BY <1>1, <1>2, <1>3, <1>4, OutsideMemory DEF Kept

\* The edits of the configuration, and the ends of commands by themselves.
LEMMA EditsRemember ==
  ASSUME Locks, Locks', Memory, "late" \notin Faults, NEW p \in Procs,
         AddSave(p) \/ RemoveEdit(p) \/ RemoveUncached(p) \/ RemoveUncachedEdit(p) \/ Stop(p)
  PROVE  Memory'
<1>1. UNCHANGED <<cache, native, resource, lost>>
  BY DEF AddSave, RemoveEdit, RemoveUncached, RemoveUncachedEdit, Stop, files, history
<1>2. CASE /\ Release(p)
           /\ \/ proc' = [proc EXCEPT ![p] = Idle]
              \/ proc' = MarkStale(p, [proc EXCEPT ![p] = Idle])
  BY <1>1, <1>2, EndMemory
<1>3. CASE /\ RemoveEdit(p) /\ UNCHANGED <<lock, network>>
           /\ \/ proc' = [proc EXCEPT ![p].pc = "prune"]
              \/ proc' = MarkStale(p, [proc EXCEPT ![p].pc = "prune"])
  <2> DEFINE s == proc[p]  t == [s EXCEPT !.pc = "prune"]
  <2>1. /\ s \in Command /\ s.cmd = "remove" /\ s.pc = "edit" /\ Shaped(s) /\ CommandsShaped
        /\ [proc EXCEPT ![p].pc = "prune"] = [proc EXCEPT ![p] = t]
    BY <1>3 DEF RemoveEdit, At, Locks, Shape, CommandsShaped
  <2>2. /\ t \in Command /\ t.cmd = "remove" /\ t.pc = "prune" /\ t.id = s.id /\ t.reply = s.reply
    BY <2>1 DEF Command, RemoveSteps
  <2> HIDE DEF t
  <2>3. proc'[p] = t /\ \A q \in Procs : q # p => Kept(proc[q], proc'[q])
    BY <1>3, <2>1, <2>2, Moved DEF Shaped
  <2>4. lock.state = p /\ Knows(p)
    BY <2>1 DEF Locks, Holds, Inside, Removes, RemoveSteps, Memory, Calls
  <2>5. network = {}
    BY <2>1, <2>4, Quiet DEF Memory, At
  <2>6. Knows(p)'
    BY <1>1, <2>1, <2>2, <2>3, <2>4 DEF Knows, At, ActiveOf
  <2>7. Calls'
    BY <1>3, <2>3, <2>4, <2>5, <2>6, CallsGo DEF Memory, Kept
  <2>8. Served' /\ \A c \in cache'.disk : Good(c)'
    BY <1>1, GoodStays DEF Memory
  <2> QED BY <2>7, <2>8 DEF Memory
<1>4. CASE RemoveUncached(p) /\ Goto(p, "save")
  <2> DEFINE s == proc[p]  t == [s EXCEPT !.pc = "save"]
  <2>1. /\ s \in Command /\ s.cmd = "remove" /\ s.pc = "snapshot" /\ Knows(p)
        /\ proc' = [proc EXCEPT ![p] = t] /\ proc \in [Procs -> Command] /\ UNCHANGED <<lock, network>>
    BY <1>4 DEF RemoveUncached, At, Goto, Locks, Shape, CommandsShaped, Memory, Calls
  <2>2. /\ t.cmd = "remove" /\ t.pc = "save" /\ t.reply = 0
        /\ proc'[p] = t /\ \A q \in Procs : q # p => proc'[q] = proc[q]
    BY <2>1 DEF Command, Knows, At
  <2>3. Knows(p)'
    BY <2>2 DEF Knows, At
  <2>4. \A q \in Procs : q # p => Knows(q)'
    BY <1>1, <2>1, <2>2 DEF Memory, Calls, Knows, At, ActiveOf
  <2>5. OneCall'
    <3>1. ~At(p, "run", "wait") /\ ~At(p, "remove", "confirm")
      BY <2>1 DEF At
    <3> QED BY <1>1, <2>1, <2>2, <3>1 DEF Memory, Calls, OneCall, Asked, At, ActiveOf
  <2>6. Served' /\ \A c \in cache'.disk : Good(c)'
    BY <1>1, GoodStays DEF Memory
  <2> QED BY <2>3, <2>4, <2>5, <2>6 DEF Memory, Calls
<1> QED BY <1>2, <1>3, <1>4 DEF AddSave, RemoveEdit, RemoveUncached, RemoveUncachedEdit, Stop, End, Goto

\* Nor does the operator's edit.
LEMMA HostEditRemembers ==
  ASSUME Locks, Locks', Memory, NEW i \in Ids, HostEdit(i)
  PROVE  Memory'
<1>1. /\ UNCHANGED <<cache, native, network, resource, lost, lock>>
      /\ proc' = MarkStale(None, proc)
  BY DEF HostEdit, history
<1>2. \A q \in Procs : Kept(proc[q], proc'[q])
  BY <1>1, Marking DEF Locks, Shape, CommandsShaped
<1> QED BY <1>1, <1>2, OutsideMemory

--------------------------------------------------------------------------------
\* An id that a continuous cache does not name has no active resource.
LEMMA Unnamed ==
  ASSUME Memory, Locks, Continuous(cache.vis), NEW i \in Ids, i \notin Named(Loaded)
  PROVE  ActiveOf(i) = {}
<1> SUFFICES ASSUME NEW n \in ActiveOf(i) PROVE FALSE
  OBVIOUS
<1>1. Remembers(cache.vis) /\ n \in Nonces /\ resource[n].status = "active" /\ resource[n].id = i
  BY VisibleIsGood DEF Good, ActiveOf
<1>2. n # 0
  BY <1>1, IdentitiesAssumption DEF Nonces
<1>3. cache.vis # Absent /\ (cache.vis.crid[i] = n \/ cache.vis.pending[i].nonce = n)
  BY <1>1 DEF Remembers
<1>4. NoRequest.nonce = 0
  BY DEF NoRequest
<1> QED BY <1>2, <1>3, <1>4 DEF Loaded, Named

\* A new cache is made only where there is nothing to remember.
LEMMA EmptyIsGood ==
  ASSUME Memory, Locks, cache.vis = Absent, Continuous(cache.vis)
  PROVE  Good(Empty)
<1>1. \A n \in Nonces : resource[n].status # "active"
  BY VisibleIsGood DEF Good, Remembers
<1>2. Continuous(Empty)
  BY EmptyIsFresh DEF Continuous
<1>3. Sensible(Empty)
  BY DEF Sensible, Empty, NoRequest
<1> QED BY <1>1, <1>2, <1>3 DEF Good, Remembers

\* The transaction opens over a good cache, or the command ends.
LEMMA OpenMemory ==
  ASSUME Locks, Locks', Memory, "late" \notin Faults, NEW p \in Procs, NEW accepted, NEW next,
         OpenState(p, accepted, next), UNCHANGED <<native, resource, history>>,
         proc[p].pc = "snapshot", next.reply = proc[p].reply, next.pc \in {"open", "inspect", "edit"},
         accepted /\ next.pc = "edit" => next.id \in Ids \ Named(Loaded)
  PROVE  Memory'
<1>1. lock.state = None /\ UNCHANGED <<native, resource, lost>> /\ Shape /\ FilesShaped /\ None \notin Procs
  BY IdentitiesAssumption DEF OpenState, history, Locks, Shape
<1>2. CASE End(p) /\ (cache' = cache \/ cache' = Synced(cache))
  <2>1. cache' = cache \/ cache'.disk \subseteq cache.disk \union {cache.vis}
    BY <1>1, <1>2, CacheSynced
  <2> QED BY <1>1, <1>2, <2>1, EndMemory, VisibleIsGood DEF End
<1>3. ASSUME Continuous(cache.vis), accepted, NEW end \in SaveEnds,
             cache' = IF cache.vis = Absent THEN Saved(cache, Empty, end) ELSE Synced(cache),
             cache.vis = Absent \/ end = "ok",
             IF end = "ok"
             THEN /\ proc' = [proc EXCEPT ![p] = next]
                  /\ lock' = [lock EXCEPT !.state = p] /\ UNCHANGED network
             ELSE End(p)
      PROVE  Memory'
  <2>1. PICK new : Good(new) /\ cache'.disk \subseteq cache.disk \union {new}
    <3>1. CASE cache.vis = Absent
      BY <1>1, <1>3, <3>1, OnDisk, EmptyIsGood, EmptyIsFresh
    <3>2. CASE cache.vis # Absent
      BY <1>1, <1>3, <3>2, CacheSynced, VisibleIsGood
    <3> QED BY <3>1, <3>2
  <2>2. CASE end # "ok"
    <3>1. End(p)
      BY <1>3, <2>2
    <3> QED BY <1>1, <2>1, <3>1, EndMemory DEF End
  <2>3. CASE end = "ok"
    <3>1. /\ proc' = [proc EXCEPT ![p] = next] /\ UNCHANGED network
          /\ lock' = [lock EXCEPT !.state = p]
      BY <1>3, <2>3
    <3>2. /\ proc'[p] = next /\ lock'.state = p
          /\ \A q \in Procs : q # p => proc'[q] = proc[q]
      BY <1>1, <3>1 DEF Shape, CommandsShaped, LocksShaped
    <3>3. network' = {}
      BY <1>1, <3>1, Quiet DEF Memory
    <3>4. next.reply = 0
      BY DEF Memory, Calls, Knows, At
    <3>5. next.pc = "edit" => ActiveOf(next.id)' = {}
      <4>1. next.pc = "edit" => ActiveOf(next.id) = {}
        BY <1>3, Unnamed
      <4> QED BY <1>1, <4>1 DEF ActiveOf
    <3>6. Knows(p)'
      BY <3>2, <3>4, <3>5 DEF Knows, At
    <3>7. Calls'
      BY <1>1, <3>2, <3>3, <3>6, CallsGo DEF Memory
    <3>8. Served' /\ \A c \in cache'.disk : Good(c)'
      BY <1>1, <2>1, DisksGood
    <3> QED BY <3>7, <3>8 DEF Memory
  <2> QED BY <2>2, <2>3
<1> QED BY <1>2, <1>3, Endings DEF OpenState

\* run and remove open it.
LEMMA BeginsRemember ==
  ASSUME Locks, Locks', Memory, "late" \notin Faults, NEW p \in Procs, RunBegin(p) \/ RemoveBegin(p)
  PROVE  Memory'
<1> DEFINE s == proc[p]  i == s.id
<1>1. s \in Command /\ Shaped(s) /\ s.pc = "snapshot" /\ UNCHANGED <<native, resource, history>>
  BY DEF Locks, Shape, CommandsShaped, RunBegin, RemoveBegin, At
<1>2. CASE RunBegin(p)
  <2> DEFINE t == [s EXCEPT !.pc = "open"]  accepted == NoOrphans(p) /\ ~s.stale
  <2>1. OpenState(p, accepted, t) /\ t.pc = "open" /\ t.reply = s.reply
    BY <1>1, <1>2 DEF RunBegin, Command
  <2> HIDE DEF t, accepted
  <2> QED BY <1>1, <2>1, OpenMemory
<1>3. CASE RemoveBegin(p)
  <2> DEFINE t == [s EXCEPT !.pc = IF i \in Named(Loaded) THEN "inspect" ELSE "edit"]
             accepted == Selected(p) /\ (i \in Named(Loaded) => Registered(Loaded))
  <2>1. OpenState(p, accepted, t) /\ s.cmd = "remove"
    BY <1>3 DEF RemoveBegin, At
  <2>2. /\ t.pc \in {"inspect", "edit"} /\ t.reply = s.reply /\ t.id = i
        /\ t.pc = "edit" => i \in Ids \ Named(Loaded)
    BY <1>1, <2>1 DEF Command, Shaped
  <2> HIDE DEF t, accepted
  <2> QED BY <1>1, <2>1, <2>2, OpenMemory
<1> QED BY <1>2, <1>3

--------------------------------------------------------------------------------
\* A step inside the transaction, with nothing asked.
LEMMA GotoMemory ==
  ASSUME Locks, Locks', Memory, NEW p \in Procs, NEW pc, Goto(p, pc), Inside(proc[p]),
         ~At(p, "run", "wait"), ~At(p, "remove", "confirm") \/ network = {},
         Served' /\ \A c \in cache'.disk : Good(c)',
         resource' = resource,
         LET i == proc[p].id  c == cache'.vis IN
           /\ pc = "delete" => ActiveOf(i) = {c.crid[i]}
           /\ pc = "confirm" => ActiveOf(i) \subseteq {c.crid[i]}
           /\ pc \in {"edit", "prune"} => ActiveOf(i) = {}
  PROVE  Memory'
<1> DEFINE s == proc[p]  t == [s EXCEPT !.pc = pc]
<1>1. s \in Command /\ CommandsShaped /\ lock.state = p /\ Knows(p)
  BY DEF Locks, Shape, CommandsShaped, Holds, Memory, Calls
<1>2. t.cmd = s.cmd /\ t.pc = pc /\ t.id = s.id /\ t.reply = s.reply
  BY <1>1 DEF Command
<1>3. proc'[p] = t /\ (\A q \in Procs : q # p => proc'[q] = proc[q]) /\ UNCHANGED <<lock, network>>
  BY <1>1 DEF Goto, CommandsShaped
<1> HIDE DEF t
<1>4. network' = {}
  BY <1>1, <1>3, Quiet DEF Memory
<1>5. s.reply = 0
  BY <1>1 DEF Knows
<1>6. ASSUME NEW j PROVE ActiveOf(j)' = ActiveOf(j)
  BY DEF ActiveOf
<1>7. Knows(p)'
  BY <1>2, <1>3, <1>5, <1>6 DEF Knows, At
<1>8. Calls'
  BY <1>1, <1>3, <1>4, <1>7, CallsGo DEF Memory
<1> QED BY <1>8 DEF Memory

\* The native runtime opens; the device it may enrol makes no cache of another
\* worth.
LEMMA OpensRemember ==
  ASSUME Locks, Locks', Memory, NEW p \in Procs, RunOpen(p)
  PROVE  Memory'
<1>1. /\ proc[p].cmd = "run" /\ proc[p].pc = "open" /\ Goto(p, "bind") /\ UNCHANGED <<cache, resource, lost>>
      /\ native # 0 => native' = native
  BY DEF RunOpen, At
<1>2. Inside(proc[p]) /\ ~At(p, "run", "wait") /\ ~At(p, "remove", "confirm")
  BY <1>1 DEF Inside, Runs, RunSteps, At
<1>3. /\ cache.vis # Absent /\ cache.disk = {cache.vis} /\ (native = 0 => ~HasContinuity(cache.vis))
  BY <1>2 DEF Locks, Holds
<1>4. Good(cache.vis)
  BY VisibleIsGood
<1>5. Good(cache.vis)'
  <2>1. CASE native # 0
    BY <1>1, <1>4, <2>1, GoodStays
  <2>2. CASE native = 0
    <3>1. Continuous(cache.vis) /\ Continuous(cache.vis)'
      BY <1>1, <1>3, <2>2 DEF Continuous, HasContinuity, Named
    <3> QED BY <1>1, <1>4, <3>1 DEF Good, Sensible, Remembers, Created
  <2> QED BY <2>1, <2>2
<1>6. Served'
  BY <1>1 DEF Memory, Served
<1>7. Served' /\ \A c \in cache'.disk : Good(c)'
  BY <1>1, <1>3, <1>5, <1>6
<1> QED BY <1>1, <1>2, <1>7, GotoMemory

\* The cache is bound to the device.
LEMMA BindsRemember ==
  ASSUME Locks, Locks', Memory, "late" \notin Faults, NEW p \in Procs, RunBind(p)
  PROVE  Memory'
<1> DEFINE c == cache.vis  new == [c EXCEPT !.device = native]
<1>1. /\ proc[p].cmd = "run" /\ proc[p].pc = "bind" /\ UNCHANGED <<native, resource, lost>>
  BY DEF RunBind, At, history
<1>2. Inside(proc[p]) /\ ~At(p, "run", "wait") /\ ~At(p, "remove", "confirm")
  BY <1>1 DEF Inside, Runs, RunSteps, At
<1>3. /\ c # Absent /\ (HasContinuity(c) => native # 0) /\ native # 0 /\ FilesShaped /\ c \in Content
      /\ native \in Nat /\ lock.state = p
  BY <1>1, <1>2 DEF Locks, Holds, Shape, FilesShaped
<1>4. /\ new \in Content /\ new.crid = c.crid /\ new.pending = c.pending
  BY <1>3 DEF Content
<1> HIDE DEF new
<1>5. Good(new)
  <2>1. Good(c)
    BY VisibleIsGood
  <2>2. Continuous(c) /\ Continuous(new) /\ new # Absent
    BY <1>3, <1>4, AbsentIsNoContent DEF Continuous
  <2> QED BY <1>3, <1>4, <2>1, <2>2 DEF Good, Sensible, Remembers
<1>6. CASE Goto(p, "resolve") /\ UNCHANGED cache
  <2>1. Served' /\ \A d \in cache'.disk : Good(d)'
    BY <1>1, <1>6, GoodStays DEF Memory
  <2> QED BY <1>1, <1>2, <1>6, <2>1, GotoMemory
<1>7. CASE SaveCache(p, new, "resolve")
  <2>1. PICK end \in SaveEnds : cache' = Saved(cache, new, end) /\ IF end = "ok" THEN Goto(p, "resolve") ELSE End(p)
    BY <1>7 DEF SaveCache
  <2>2. cache'.disk \subseteq cache.disk \union {new}
    BY <1>3, <1>4, <2>1, OnDisk
  <2>3. CASE end = "ok"
    <3>1. Served' /\ \A d \in cache'.disk : Good(d)'
      BY <1>1, <1>5, <2>2, DisksGood
    <3>2. Goto(p, "resolve")
      BY <2>1, <2>3
    <3> QED BY <1>1, <1>2, <3>1, <3>2, GotoMemory
  <2>4. CASE end # "ok"
    <3>1. End(p)
      BY <2>1, <2>4
    <3> QED BY <1>1, <1>3, <1>5, <2>2, <3>1, EndMemory DEF End
  <2> QED BY <2>3, <2>4
<1>8. CASE End(p) /\ UNCHANGED cache
  BY <1>1, <1>3, <1>8, EndMemory DEF End
<1> QED BY <1>6, <1>7, <1>8 DEF RunBind, new

--------------------------------------------------------------------------------
\* A cold request takes a nonce that no cache names yet.
LEMMA DrawnMemory ==
  ASSUME Locks, Memory, NEW p \in Procs, NEW i \in Ids, NEW crid \in Nat, NEW request \in Requests(crid),
         resource' = Drawn(p, i, request), native' = native, lost' = lost
  PROVE  /\ Served' /\ \A c : Good(c) => Good(c)'
         /\ request.nonce # 0 => resource'[request.nonce].status = "none" /\ resource'[request.nonce].id = i
         /\ \A n \in Nonces : resource[n].status # "unused" => resource'[n] = resource[n]
         /\ \A n \in Nonces : resource'[n].status = "active" <=> resource[n].status = "active"
         /\ Created' = Created
<1>1. Shape
  BY DEF Locks
<1>2. /\ IF crid = 0 THEN request.nonce \in Nonces /\ resource[request.nonce].status = "unused"
                     ELSE request.nonce = 0
      /\ resource \in [Nonces -> Resource]
  BY <1>1, Drawing DEF Shape, RestShaped
<1> DEFINE r == [status |-> "none", id |-> i, era |-> proc[p].seen[i], device |-> native]
<1>3. resource' = IF request.nonce = 0 THEN resource ELSE [resource EXCEPT ![request.nonce] = r]
  BY DEF Drawn
<1>4. r.status = "none" /\ r.id = i
  OBVIOUS
<1> HIDE DEF r
<1>5. \A n \in Nonces : /\ resource[n].status # "unused" => resource'[n] = resource[n]
                        /\ resource'[n] = resource[n] \/ (resource'[n] = r /\ resource[n].status = "unused")
  BY <1>2, <1>3
<1>6. /\ request.nonce # 0 => resource'[request.nonce].status = "none" /\ resource'[request.nonce].id = i
      /\ \A n \in Nonces : resource'[n].status = "active" <=> resource[n].status = "active"
      /\ Created' = Created
  BY <1>2, <1>3, <1>4, <1>5 DEF Created
<1>7. Served'
  BY <1>4, <1>5, <1>6 DEF Memory, Served
<1>8. ASSUME NEW c, Good(c) PROVE Good(c)'
  <2>1. Sensible(c)'
    BY <1>5, <1>6, <1>8 DEF Good, Sensible, Created
  <2>2. Continuous(c)' <=> Continuous(c)
    BY DEF Continuous, HasContinuity, Named
  <2>3. Remembers(c) => Remembers(c)'
    BY <1>5, <1>6 DEF Remembers
  <2> QED BY <1>8, <2>1, <2>2, <2>3 DEF Good
<1> QED BY <1>5, <1>6, <1>7, <1>8

\* A request that the cache on disk names is sent.
LEMMA AskMemory ==
  ASSUME Locks, Locks', Memory, NEW p \in Procs, NEW i \in Ids, NEW request \in Request, Ask(p, i, request),
         At(p, "run", "resolve"), lock.state = p, cache'.vis.pending[i] = request, request # NoRequest,
         Served' /\ \A c \in cache'.disk : Good(c)'
  PROVE  Memory'
<1> DEFINE s == proc[p]  t == [s EXCEPT !.pc = "wait", !.id = i, !.asked = s.asked \union {i}]
           m == [kind |-> "resolve", id |-> i, nonce |-> request.nonce, crid |-> request.crid]
<1>1. s \in Command /\ CommandsShaped /\ s.cmd = "run" /\ s.pc = "resolve" /\ Knows(p)
  BY DEF Locks, Shape, CommandsShaped, At, Memory, Calls
<1>2. t.cmd = "run" /\ t.pc = "wait" /\ t.id = i /\ t.reply = s.reply
  BY <1>1 DEF Command
<1>3. /\ proc'[p] = t /\ \A q \in Procs : q # p => proc'[q] = proc[q]
      /\ network' = network \union {m} /\ UNCHANGED lock
  BY <1>1 DEF Ask, CommandsShaped
<1>4. network = {} /\ s.reply = 0
  BY <1>1, Quiet DEF Memory, At, Knows
<1>5. request = [nonce |-> m.nonce, crid |-> m.crid] /\ (m.nonce # 0 \/ m.crid # 0) /\ m.id = i /\ m.kind = "resolve"
  BY DEF Request, NoRequest
<1> HIDE DEF t, m
<1>6. Asked(p, m)'
  BY <1>2, <1>3, <1>4, <1>5 DEF Asked, At
<1>7. Knows(p)'
  BY <1>2, <1>3, <1>4 DEF Knows, At
<1>8. Calls'
  BY <1>3, <1>4, <1>6, <1>7, CallsGo DEF Memory
<1> QED BY <1>8 DEF Memory

\* A request is in the cache on disk before it is sent
\* (ensurePendingRequestLocked).
LEMMA RequestsRemember ==
  ASSUME Locks, Locks', Memory, "late" \notin Faults, NEW p \in Procs, NEW i \in Ids, RunRequest(p, i)
  PROVE  Memory'
<1> DEFINE c == cache.vis
<1>1. At(p, "run", "resolve") /\ UNCHANGED <<native, lost>> /\ Shape /\ FilesShaped
  BY DEF RunRequest, history, Locks, Shape
<1>2. Inside(proc[p]) /\ ~At(p, "run", "wait") /\ ~At(p, "remove", "confirm")
  BY <1>1 DEF Inside, Runs, RunSteps, At
<1>3. /\ c # Absent /\ (HasContinuity(c) => native # 0) /\ native # 0 /\ c \in Content /\ lock.state = p
  BY <1>1, <1>2 DEF Locks, Holds, Shape, FilesShaped, At
<1>4. c.pending[i] \in Request /\ c.crid[i] \in Nat
  BY <1>3 DEF Content
<1>5. CASE UNCHANGED <<cache, resource>> /\ End(p)
  BY <1>1, <1>3, <1>5, EndMemory DEF End
<1>6. CASE c.pending[i] # NoRequest /\ UNCHANGED <<cache, resource>> /\ Ask(p, i, c.pending[i])
  <2>1. Served' /\ \A d \in cache'.disk : Good(d)'
    BY <1>1, <1>6, GoodStays DEF Memory
  <2> QED BY <1>1, <1>3, <1>4, <1>6, <2>1, AskMemory
<1>7. ASSUME NEW request \in Requests(c.crid[i]), NEW end \in SaveEnds, c.pending[i] = NoRequest,
             cache' = Saved(cache, [c EXCEPT !.pending[i] = request], end),
             resource' = IF end = "write" THEN resource ELSE Drawn(p, i, request),
             IF end = "ok" THEN Ask(p, i, request) ELSE End(p)
      PROVE  Memory'
  <2> DEFINE new == [c EXCEPT !.pending[i] = request]
  <2>1. /\ request \in Request /\ request.crid = c.crid[i]
        /\ IF c.crid[i] = 0 THEN request.nonce \in Nonces ELSE request.nonce = 0
        /\ new \in Content /\ new.crid = c.crid /\ new.pending[i] = request
        /\ \A j \in Ids : j # i => new.pending[j] = c.pending[j]
    <3>1. /\ request \in Request /\ request.crid = c.crid[i]
          /\ IF c.crid[i] = 0 THEN request.nonce \in Nonces ELSE request.nonce = 0
      BY <1>1, <1>4, Drawing
    <3> QED BY <1>3, <3>1 DEF Content
  <2>2. cache' = Saved(cache, new, end) /\ cache'.disk \subseteq cache.disk \union {new} /\ (end = "ok" => cache'.vis = new)
    BY <1>1, <1>7, <2>1, OnDisk
  <2>3. end = "write" => cache' = cache
    <3>1. DOMAIN cache = {"vis", "disk"} /\ cache = [vis |-> cache.vis, disk |-> cache.disk]
      BY <1>1 DEF FilesShaped
    <3> QED BY <2>2, <3>1 DEF Saved
  <2> HIDE DEF new
  <2>4. CASE end = "write"
    <3>1. End(p) /\ UNCHANGED <<cache, resource>>
      BY <1>7, <2>3, <2>4
    <3> QED BY <1>5, <3>1
  <2>5. CASE end # "write"
    <3>1. resource' = Drawn(p, i, request)
      BY <1>7, <2>5
    <3>2. /\ Served' /\ \A d : Good(d) => Good(d)'
          /\ request.nonce # 0 => resource'[request.nonce].status = "none" /\ resource'[request.nonce].id = i
          /\ \A n \in Nonces : resource[n].status # "unused" => resource'[n] = resource[n]
          /\ \A n \in Nonces : resource'[n].status = "active" <=> resource[n].status = "active"
          /\ Created' = Created
      BY <1>1, <1>4, <3>1, DrawnMemory
    <3>3. PICK old : old = c
      OBVIOUS
    <3>4. PICK fresh : fresh = new
      OBVIOUS
    <3>5. Good(old)
      BY <3>3, VisibleIsGood
    <3>6. Good(old)'
      BY <3>2, <3>5
    <3>7. /\ old # Absent /\ (HasContinuity(old) => native' # 0) /\ native' # 0
          /\ fresh # Absent /\ fresh.crid = old.crid /\ fresh.pending[i] = request
          /\ \A j \in Ids : j # i => fresh.pending[j] = old.pending[j]
          /\ request.crid = old.crid[i] /\ old.pending[i].nonce = 0
          /\ IF old.crid[i] = 0 THEN request.nonce \in Nonces ELSE request.nonce = 0
      BY <1>1, <1>3, <1>7, <2>1, <3>3, <3>4, AbsentIsNoContent DEF NoRequest
    <3> HIDE DEF c
    <3>8. Good(fresh)'
      <4>1. Continuous(old)' /\ Continuous(fresh)'
        BY <3>7 DEF Continuous
      <4>2. Sensible(fresh)'
        BY <3>2, <3>6, <3>7 DEF Good, Sensible
      <4>3. Remembers(fresh)'
        <5>1. \A n \in Nonces : n # 0
          BY IdentitiesAssumption DEF Nonces
        <5>2. \A n \in Nonces : resource'[n].status = "active" => resource'[n].id \in Ids
          BY <3>2 DEF Served
        <5>3. Remembers(old)'
          BY <3>6, <4>1 DEF Good
        <5>4. ASSUME NEW n \in Nonces, resource'[n].status = "active"
              PROVE  fresh.crid[resource'[n].id] = n \/ fresh.pending[resource'[n].id].nonce = n
          <6>1. old.crid[resource'[n].id] = n \/ old.pending[resource'[n].id].nonce = n
            BY <5>3, <5>4 DEF Remembers
          <6> QED BY <3>7, <5>1, <5>2, <5>4, <6>1
        <5> QED BY <3>7, <5>4 DEF Remembers
      <4> QED BY <4>1, <4>2, <4>3 DEF Good
    <3>9. Served' /\ \A d \in cache'.disk : Good(d)'
      BY <2>2, <3>2, <3>4, <3>8 DEF Memory
    <3>10. CASE end = "ok"
      <4>1. Ask(p, i, request) /\ cache'.vis.pending[i] = request
        BY <1>7, <2>1, <2>2, <3>10
      <4>2. request # NoRequest
        BY <2>1, IdentitiesAssumption DEF NoRequest, Nonces
      <4> QED BY <1>1, <1>3, <2>1, <3>9, <4>1, <4>2, AskMemory
    <3>11. CASE end # "ok"
      <4>1. End(p)
        BY <1>7, <3>11
      <4>2. Calls'
        BY <1>3, <4>1, CallsEnd DEF End, Memory
      <4> QED BY <3>9, <4>2 DEF Memory
    <3> QED BY <3>10, <3>11
  <2> QED BY <2>4, <2>5
<1> QED BY <1>5, <1>6, <1>7 DEF RunRequest

--------------------------------------------------------------------------------
\* A cache in which the active resource of an id is bound, or a request that
\* came to nothing is dropped, forgets nothing.
LEMMA RecordedGood ==
  ASSUME Locks, Memory, cache.vis # Absent, native # 0, NEW i \in Ids, NEW crid \in Nat,
         \/ crid \in ActiveOf(i)
         \/ crid = cache.vis.crid[i] /\ cache.vis.pending[i].nonce \notin ActiveOf(i)
  PROVE  /\ Good(Recorded(i, crid)) /\ Recorded(i, crid) \in Content
         /\ Recorded(i, crid).crid[i] = crid
<1> DEFINE c == cache.vis  new == [c EXCEPT !.crid[i] = crid, !.pending[i] = NoRequest]
<1>1. c \in Content /\ Good(c) /\ Served
  BY VisibleIsGood DEF Locks, Shape, FilesShaped, Memory
<1>2. /\ new \in Content /\ new # Absent /\ new.crid[i] = crid /\ new.pending[i].nonce = 0
      /\ \A j \in Ids : j # i => new.crid[j] = c.crid[j] /\ new.pending[j] = c.pending[j]
  <2>1. new \in Content
    BY <1>1, Contents
  <2>2. new # Absent
    BY <2>1, AbsentIsNoContent
  <2> QED BY <1>1, <2>1, <2>2 DEF Content, NoRequest
<1>3. Recorded(i, crid) = new
  BY DEF Recorded
<1> HIDE DEF new
<1>4. \A n \in ActiveOf(i) : n \in Created /\ n \in Nonces /\ resource[n].id = i
  BY DEF ActiveOf, Created
<1>5. Sensible(new)
  BY <1>1, <1>2, <1>4 DEF Good, Sensible
<1>6. Continuous(new) /\ Remembers(c)
  BY <1>1, <1>2 DEF Continuous, Good
<1>7. ASSUME NEW n \in Nonces, resource[n].status = "active"
      PROVE  new.crid[resource[n].id] = n \/ new.pending[resource[n].id].nonce = n
  <2>1. resource[n].id \in Ids /\ (c.crid[resource[n].id] = n \/ c.pending[resource[n].id].nonce = n)
    BY <1>1, <1>6, <1>7 DEF Served, Remembers
  <2>2. CASE resource[n].id # i
    BY <1>2, <2>1, <2>2
  <2>3. CASE resource[n].id = i
    <3>1. n \in ActiveOf(i)
      BY <1>7, <2>3 DEF ActiveOf
    <3>2. crid \in ActiveOf(i) => n = crid
      BY <1>1, <3>1 DEF Served, ActiveOf
    <3> QED BY <1>2, <2>1, <2>3, <3>1, <3>2
  <2> QED BY <2>2, <2>3
<1>8. Good(new)
  BY <1>2, <1>5, <1>6, <1>7 DEF Good, Remembers
<1> QED BY <1>2, <1>3, <1>8

\* An answer is recorded as the binding in place of its request
\* (recordResolutionLocked).
LEMMA AnswersRemember ==
  ASSUME Locks, Locks', Memory, "late" \notin Faults, NEW p \in Procs, RunAnswer(p)
  PROVE  Memory'
<1> DEFINE s == proc[p]  i == s.id  r == s.reply  c == cache.vis
           crid == IF r = Refused THEN c.crid[i] ELSE r
<1>1. /\ At(p, "run", "wait") /\ r # 0 /\ UNCHANGED <<native, resource, lost>>
      /\ s \in Command /\ CommandsShaped /\ FilesShaped /\ i \in Ids
  BY DEF RunAnswer, At, history, Locks, Shape, CommandsShaped, Shaped
<1>2. Inside(s) /\ Knows(p) /\ Holds(p)
  BY <1>1 DEF Inside, Runs, RunSteps, At, Memory, Calls, Locks
<1>3. /\ network = {} /\ lock.state = p /\ c # Absent /\ native # 0 /\ c \in Content
      /\ IF r = Refused THEN c.pending[i].nonce \notin ActiveOf(i) ELSE r \in ActiveOf(i)
  BY <1>1, <1>2 DEF Knows, Holds, At, FilesShaped
<1>4. crid \in Nat /\ (crid \in ActiveOf(i) \/ (crid = c.crid[i] /\ c.pending[i].nonce \notin ActiveOf(i)))
  BY <1>1, <1>3 DEF Command, Content
<1>5. Good(Recorded(i, crid)) /\ Recorded(i, crid) \in Content
  BY <1>1, <1>3, <1>4, RecordedGood
<1>6. CASE End(p) /\ UNCHANGED cache
  BY <1>1, <1>3, <1>6, EndMemory DEF End
<1>7. ASSUME NEW end \in SaveEnds, cache' = Saved(cache, Recorded(i, crid), end),
             \/ /\ UNCHANGED <<lock, network>>
                /\ proc' = [proc EXCEPT ![p].pc = "resolve", ![p].reply = 0]
             \/ End(p)
      PROVE  Memory'
  <2> DEFINE new == Recorded(i, crid)
  <2>1. Good(new) /\ cache' = Saved(cache, new, end) /\ new \in Content \union {Absent}
    BY <1>5, <1>7
  <2> HIDE DEF new
  <2>2. cache'.disk \subseteq cache.disk \union {new}
    BY <1>1, <2>1, OnDisk
  <2>3. CASE End(p)
    BY <1>1, <1>3, <2>1, <2>2, <2>3, EndMemory DEF End
  <2>4. CASE /\ UNCHANGED <<lock, network>>
             /\ proc' = [proc EXCEPT ![p].pc = "resolve", ![p].reply = 0]
    <3>1. /\ proc'[p].reply = 0 /\ proc'[p].pc = "resolve"
          /\ \A q \in Procs : q # p => proc'[q] = proc[q]
      BY <1>1, <2>4 DEF Command, CommandsShaped
    <3>2. Knows(p)'
      BY <3>1 DEF Knows, At
    <3>3. Calls'
      BY <1>3, <2>4, <3>1, <3>2, CallsGo DEF Memory
    <3>4. Served' /\ \A d \in cache'.disk : Good(d)'
      BY <1>1, <2>1, <2>2, DisksGood
    <3> QED BY <3>3, <3>4 DEF Memory
  <2> QED BY <1>7, <2>3, <2>4
<1> QED BY <1>6, <1>7 DEF RunAnswer

\* What the service holds is recorded before it is deleted; where it holds
\* nothing there is nothing to delete.
LEMMA InspectsRemember ==
  ASSUME Locks, Locks', Memory, "late" \notin Faults, NEW p \in Procs, RemoveInspect(p)
  PROVE  Memory'
<1> DEFINE s == proc[p]  i == s.id  c == cache.vis
<1>1. /\ s.cmd = "remove" /\ s.pc = "inspect" /\ UNCHANGED <<native, resource, lost>>
      /\ FilesShaped /\ i \in Ids
  BY DEF RemoveInspect, At, history, Locks, Shape, CommandsShaped, Shaped
<1>2. Inside(s) /\ Holds(p) /\ ~At(p, "run", "wait") /\ ~At(p, "remove", "confirm")
  BY <1>1 DEF Inside, Removes, RemoveSteps, At, Locks
<1>3. /\ lock.state = p /\ c # Absent /\ native # 0 /\ c \in Content
  BY <1>1, <1>2 DEF Holds, FilesShaped
<1>4. ASSUME NEW n \in Found(p)
      PROVE  /\ n \in ActiveOf(i) /\ ActiveOf(i) = {n} /\ n \in Nat
             /\ Good(Recorded(i, n)) /\ Recorded(i, n) \in Content /\ Recorded(i, n).crid[i] = n
  <2>1. n \in ActiveOf(i) /\ n \in Nat
    BY DEF Found, ActiveOf, Nonces
  <2>2. ActiveOf(i) = {n}
    BY <2>1 DEF Memory, Served, ActiveOf
  <2> QED BY <1>1, <1>3, <2>1, <2>2, RecordedGood
<1>5. ASSUME UNCHANGED cache PROVE Served' /\ \A d \in cache'.disk : Good(d)'
  BY <1>1, <1>5, GoodStays DEF Memory
<1>6. ASSUME NEW n \in Found(p), Recorded(i, n) = c, Goto(p, "delete"), UNCHANGED cache
      PROVE  Memory'
  <2>1. ActiveOf(i) = {cache'.vis.crid[i]}
    BY <1>4, <1>6
  <2> QED BY <1>1, <1>2, <1>5, <1>6, <2>1, GotoMemory
<1>7. ASSUME NEW n \in Found(p), SaveCache(p, Recorded(i, n), "delete")
      PROVE  Memory'
  <2> DEFINE new == Recorded(i, n)
  <2>1. Good(new) /\ new \in Content \union {Absent} /\ new.crid[i] = n /\ ActiveOf(i) = {n}
    BY <1>4, <1>7
  <2>2. PICK end \in SaveEnds : cache' = Saved(cache, new, end) /\ IF end = "ok" THEN Goto(p, "delete") ELSE End(p)
    BY <1>7 DEF SaveCache
  <2> HIDE DEF new
  <2>3. cache'.disk \subseteq cache.disk \union {new} /\ (end = "ok" => cache'.vis = new)
    BY <1>1, <2>1, <2>2, OnDisk
  <2>4. CASE end = "ok"
    <3>1. Goto(p, "delete") /\ cache'.vis = new
      BY <2>2, <2>3, <2>4
    <3>2. ActiveOf(i) = {cache'.vis.crid[i]}
      BY <2>1, <3>1
    <3>3. Served' /\ \A d \in cache'.disk : Good(d)'
      BY <1>1, <2>1, <2>3, DisksGood
    <3> QED BY <1>1, <1>2, <3>1, <3>2, <3>3, GotoMemory
  <2>5. CASE end # "ok"
    <3>1. End(p)
      BY <2>2, <2>5
    <3> QED BY <1>1, <1>3, <2>1, <2>3, <3>1, EndMemory DEF End
  <2> QED BY <2>4, <2>5
<1>8. CASE Found(p) = {} /\ Goto(p, "edit") /\ UNCHANGED cache
  <2>1. ASSUME NEW n \in ActiveOf(i) PROVE FALSE
    <3>1. n \in Nonces /\ resource[n].status = "active" /\ resource[n].id = i /\ n # 0
      BY IdentitiesAssumption DEF ActiveOf, Nonces
    <3>2. c.crid[i] \notin {0, n}
      BY <1>8, <3>1 DEF Found
    <3>3. Sensible(c) /\ Remembers(c)
      BY <1>3, VisibleIsGood DEF Good, Continuous
    <3>4. c.crid[i] = n \/ c.pending[i].nonce = n
      BY <3>1, <3>3 DEF Remembers
    <3> QED BY <1>1, <1>3, <3>1, <3>2, <3>3, <3>4 DEF Sensible
  <2>2. ActiveOf(i) = {}
    BY <2>1
  <2> QED BY <1>1, <1>2, <1>5, <1>8, <2>2, GotoMemory
<1> QED BY <1>6, <1>7, <1>8 DEF RemoveInspect

\* The deletion is asked for, and its outcome waited for.
LEMMA DeletesRemember ==
  ASSUME Locks, Locks', Memory, NEW p \in Procs, RemoveDelete(p)
  PROVE  Memory'
<1> DEFINE s == proc[p]  i == s.id  c == cache.vis  t == [s EXCEPT !.pc = "confirm"]
           m == [kind |-> "delete", id |-> i, nonce |-> 0, crid |-> c.crid[i]]
<1>1. /\ s.cmd = "remove" /\ s.pc = "delete" /\ UNCHANGED <<cache, lock, native, resource, lost>>
      /\ s \in Command /\ CommandsShaped
  BY DEF RemoveDelete, At, history, files, Locks, Shape, CommandsShaped
<1>2. Inside(s) /\ Holds(p) /\ Knows(p)
  BY <1>1 DEF Inside, Removes, RemoveSteps, Locks, Memory, Calls
<1>3. lock.state = p /\ ActiveOf(i) = {c.crid[i]} /\ s.reply = 0
  BY <1>1, <1>2 DEF Holds, Knows, At
<1>4. network = {}
  BY <1>1, <1>3, Quiet DEF Memory, At
<1>5. t.cmd = "remove" /\ t.pc = "confirm" /\ t.id = i /\ t.reply = 0
  BY <1>1, <1>3 DEF Command
<1>6. /\ proc'[p] = t /\ (\A q \in Procs : q # p => proc'[q] = proc[q]) /\ network' = {m}
  BY <1>1, <1>4 DEF RemoveDelete, CommandsShaped
<1>7. m.kind = "delete" /\ m.id = i /\ m.nonce = 0 /\ m.crid = c.crid[i]
  OBVIOUS
<1> HIDE DEF t, m
<1>8. cache'.vis = c /\ \A j : ActiveOf(j)' = ActiveOf(j)
  BY <1>1 DEF ActiveOf
<1>9. PICK sent : sent = m
  OBVIOUS
<1>10. Asked(p, sent)'
  BY <1>1, <1>3, <1>5, <1>6, <1>7, <1>8, <1>9 DEF Asked, At
<1>11. Knows(p)'
  BY <1>3, <1>5, <1>6, <1>8 DEF Knows, At
<1>12. Calls'
  BY <1>1, <1>3, <1>6, <1>9, <1>10, <1>11, CallsGo DEF Memory
<1>13. Served' /\ \A d \in cache'.disk : Good(d)'
  BY <1>1, GoodStays DEF Memory
<1> QED BY <1>12, <1>13 DEF Memory

\* The service has revoked the resource that was to be deleted.
LEMMA ConfirmsRemember ==
  ASSUME Locks, Locks', Memory, NEW p \in Procs, RemoveConfirm(p)
  PROVE  Memory'
<1> DEFINE s == proc[p]  i == s.id  c == cache.vis
<1>1. /\ s.cmd = "remove" /\ s.pc = "confirm" /\ resource[c.crid[i]].status = "revoked" /\ Goto(p, "edit")
      /\ UNCHANGED <<cache, native, resource, lost>>
  BY DEF RemoveConfirm, At, history, files
<1>2. Inside(s) /\ Holds(p) /\ Knows(p) /\ ~At(p, "run", "wait")
  BY <1>1 DEF Inside, Removes, RemoveSteps, Locks, Memory, Calls, At
<1>3. ActiveOf(i) = {}
  BY <1>1, <1>2 DEF Knows, At, ActiveOf
<1>4. network = {}
  <2>1. ASSUME NEW m \in network PROVE FALSE
    <3>1. PICK q \in Procs : Asked(q, m)
      BY DEF Memory, Calls, OneCall
    <3>2. q = p
      BY <1>2, <3>1 DEF Asked, Holds
    <3> QED BY <1>1, <1>3, <3>1, <3>2 DEF Asked, At
  <2> QED BY <2>1
<1>5. Served' /\ \A d \in cache'.disk : Good(d)'
  BY <1>1, GoodStays DEF Memory
<1> QED BY <1>1, <1>2, <1>3, <1>4, <1>5, GotoMemory

\* The identity whose resource is gone leaves the cache, for good or not.
LEMMA PrunesRemember ==
  ASSUME Locks, Locks', Memory, "late" \notin Faults, NEW p \in Procs, RemovePrune(p)
  PROVE  Memory'
<1> DEFINE s == proc[p]  i == s.id  c == cache.vis
           pruned == [c EXCEPT !.crid[i] = 0, !.pending[i] = NoRequest]
<1>1. /\ s.cmd = "remove" /\ s.pc = "prune" /\ End(p) /\ UNCHANGED <<native, resource, lost>>
      /\ FilesShaped /\ i \in Ids
  BY DEF RemovePrune, At, history, Locks, Shape, CommandsShaped, Shaped
<1>2. Holds(p) /\ Inside(s) /\ Knows(p)
  BY <1>1 DEF Inside, Removes, RemoveSteps, Locks, Memory, Calls
<1>3. /\ lock.state = p /\ c # Absent /\ (HasContinuity(c) => native # 0) /\ ActiveOf(i) = {} /\ c \in Content
      /\ cache.disk = {c}
  BY <1>1, <1>2 DEF Holds, Knows, At, FilesShaped
<1>4. Good(c) /\ Served
  BY VisibleIsGood DEF Memory
<1>5. pruned \in Content
  BY <1>3, Contents
<1>6. /\ pruned.crid[i] = 0 /\ pruned.pending[i] = NoRequest /\ pruned.device = c.device /\ pruned # Absent
      /\ \A j \in Ids : j # i => pruned.crid[j] = c.crid[j] /\ pruned.pending[j] = c.pending[j]
  <2>1. pruned # Absent
    BY <1>5, AbsentIsNoContent
  <2> QED BY <1>1, <1>3, <2>1 DEF Content
<1>7. PICK first \in SaveEnds, second \in SaveEnds :
        cache' = IF i \notin Named(c) THEN cache
                 ELSE IF first = "ok" THEN Saved(cache, pruned, first)
                 ELSE Saved(Saved(cache, pruned, first), c, second)
  BY Endings DEF RemovePrune
<1> HIDE DEF pruned
<1>8. Good(pruned)
  <2>1. Continuous(c) /\ Continuous(pruned)
    BY <1>3, <1>6 DEF Continuous, HasContinuity, Named
  <2>2. Sensible(pruned)
    BY <1>3, <1>4, <1>6 DEF Good, Sensible, NoRequest
  <2>3. ASSUME NEW n \in Nonces, resource[n].status = "active"
        PROVE  pruned.crid[resource[n].id] = n \/ pruned.pending[resource[n].id].nonce = n
    <3>1. resource[n].id \in Ids /\ resource[n].id # i
      BY <1>3, <1>4, <2>3 DEF Served, ActiveOf
    <3>2. c.crid[resource[n].id] = n \/ c.pending[resource[n].id].nonce = n
      BY <1>4, <2>1, <2>3 DEF Good, Remembers
    <3> QED BY <1>6, <3>1, <3>2
  <2> QED BY <1>6, <2>1, <2>2, <2>3 DEF Good, Remembers
<1>9. cache'.disk \subseteq cache.disk \union {pruned}
  <2>1. first \in {"ok", "write", "sync"} /\ second \in {"ok", "write", "sync"}
    BY Endings
  <2>2. /\ Saved(cache, pruned, first).disk \subseteq cache.disk \union {pruned}
        /\ Saved(Saved(cache, pruned, first), c, second).disk \subseteq Saved(cache, pruned, first).disk \union {c}
    BY <2>1 DEF Saved
  <2> QED BY <1>3, <1>7, <2>2
<1> QED BY <1>1, <1>3, <1>8, <1>9, EndMemory DEF End

--------------------------------------------------------------------------------
\* There is one call at a time.
LEMMA OneOnItsWay ==
  ASSUME Locks, Memory, NEW m \in network, NEW p \in Procs, Asked(p, m)
  PROVE  network = {m}
<1>1. lock.state = p /\ network \subseteq Message
  BY DEF Asked, Locks, Shape, RestShaped
<1>2. ASSUME NEW l \in network PROVE l = m
  <2>1. PICK q \in Procs : Asked(q, l)
    BY DEF Memory, Calls, OneCall
  <2>2. q = p
    BY <1>1, <2>1 DEF Asked
  <2>3. l \in Message /\ m \in Message /\ l.id = m.id /\ l.kind = m.kind
    BY <1>1, <2>1, <2>2 DEF Asked, At
  <2>4. l.nonce = m.nonce /\ l.crid = m.crid
    BY <2>1, <2>2 DEF Asked, At
  <2> QED BY <2>3, <2>4 DEF Message
<1> QED BY <1>2

\* The service acts on the request that is on its way.
LEMMA ServeCalls ==
  ASSUME Locks, Locks', Memory, NEW m \in network, NEW p \in Procs, Asked(p, m),
         UNCHANGED <<cache, lock, native, lost>>, network' = network \ {m},
         \A q \in Procs : proc'[q].reply # proc[q].reply => q = p /\ At(p, "run", "wait"),
         Knows(p)', Served', \A c \in cache.disk : Good(c)'
  PROVE  Memory'
<1>1. lock.state = p
  BY DEF Asked
<1>2. network' = {}
  BY OneOnItsWay
<1>3. Calls'
  BY <1>1, <1>2, CallsGo DEF Memory
<1> QED BY <1>3 DEF Memory

\* An answer reaches the command that waits for it.
LEMMA AnswerMemory ==
  ASSUME Locks, Locks', Memory, NEW m \in network, NEW p \in Procs, Asked(p, m), NEW reply \in Nat \ {0},
         m.kind = "resolve", Answer(m, reply), UNCHANGED <<cache, lock, native, lost>>, network' = network \ {m},
         Served', \A c \in cache.disk : Good(c)',
         IF reply = Refused THEN \A n \in Nonces : n = m.nonce => resource'[n].status # "active" \/ resource'[n].id # m.id
         ELSE reply \in Nonces /\ resource'[reply].status = "active" /\ resource'[reply].id = m.id
  PROVE  Memory'
<1>1. /\ lock.state = p /\ At(p, "run", "wait") /\ m.id = proc[p].id /\ proc[p].reply = 0
      /\ cache.vis.pending[m.id] = [nonce |-> m.nonce, crid |-> m.crid]
  BY DEF Asked
<1>2. \A q \in Procs :
        /\ proc'[q].cmd = proc[q].cmd /\ proc'[q].pc = proc[q].pc /\ proc'[q].id = proc[q].id
        /\ proc'[q].reply = IF At(q, "run", "wait") /\ proc[q].id = m.id
                               /\ cache.vis.pending[m.id] = [nonce |-> m.nonce, crid |-> m.crid]
                            THEN reply ELSE proc[q].reply
  BY Answering DEF Locks, Shape
<1>3. \A q \in Procs : At(q, "run", "wait") => q = p
  BY <1>1, OnlyHolder
<1>4. \A q \in Procs : proc'[q].reply # proc[q].reply => q = p /\ At(p, "run", "wait")
  BY <1>2, <1>3
<1>5. proc'[p].reply = reply /\ proc'[p].id = m.id /\ proc'[p].cmd = "run" /\ proc'[p].pc = "wait"
  BY <1>1, <1>2 DEF At
<1>6. network' = {}
  BY OneOnItsWay
<1>7. Knows(p)'
  BY <1>1, <1>5, <1>6 DEF Knows, At, ActiveOf
<1> QED BY <1>4, <1>7, ServeCalls

\* What the service creates is named in the cache, and what it revokes was.
LEMMA ServesRemember ==
  ASSUME Locks, Locks', Memory, NEW m \in network, ServeAssertion(m) \/ ServeCold(m) \/ ServeDelete(m)
  PROVE  Memory'
<1>1. /\ UNCHANGED <<cache, lock, native, lost>> /\ network' = network \ {m}
      /\ m \in Message /\ resource \in [Nonces -> Resource] /\ MaxNonce \in Nat
  BY IdentitiesAssumption DEF ServeAssertion, ServeCold, ServeDelete, files, history, Locks, Shape, RestShaped
<1>2. PICK p \in Procs : Asked(p, m)
  BY DEF Memory, Calls, OneCall
<1>3. \A n \in Nonces : n \in Nat \ {0} /\ n # Refused
  BY <1>1 DEF Nonces, Refused
<1>4. Refused \in Nat \ {0}
  BY <1>1 DEF Refused
<1>5. lock.state = p /\ Holds(p) /\ m.id = proc[p].id /\ m.crid \in Nat /\ m.nonce \in Nat /\ m.id \in Ids
  BY <1>1, <1>2 DEF Asked, Locks, Message
<1>6. cache.disk = {cache.vis} /\ Good(cache.vis) /\ cache.vis # Absent
  <2>1. Inside(proc[p])
    BY <1>2 DEF Asked, At, Inside, Runs, Removes, RunSteps, RemoveSteps
  <2> QED BY <1>5, <2>1, VisibleIsGood DEF Holds
<1>7. resource' = resource => Served' /\ \A c \in cache.disk : Good(c)'
  BY <1>1, GoodStays DEF Memory
<1>8. CASE ServeAssertion(m)
  <2>1. m.kind = "resolve" /\ m.crid # 0 /\ UNCHANGED resource
        /\ Answer(m, IF m.crid \in ActiveOf(m.id) THEN m.crid ELSE Refused)
    BY <1>8 DEF ServeAssertion
  <2>2. m.nonce = 0
    BY <1>2, <1>5, <1>6, <2>1 DEF Asked, Good, Sensible
  <2>3. CASE m.crid \in ActiveOf(m.id)
    BY <1>1, <1>2, <1>3, <1>7, <2>1, <2>3, AnswerMemory DEF ActiveOf
  <2>4. CASE m.crid \notin ActiveOf(m.id)
    <3>1. \A n \in Nonces : n # m.nonce
      BY <1>3, <2>2
    <3> QED BY <1>1, <1>2, <1>4, <1>7, <2>1, <2>4, <3>1, AnswerMemory
  <2> QED BY <2>3, <2>4
<1>9. CASE ServeCold(m)
  <2>1. m.kind = "resolve" /\ m.crid = 0
    BY <1>9 DEF ServeCold
  <2>2. CASE /\ resource[m.nonce].status = "none" /\ ActiveOf(m.id) = {}
             /\ resource' = [resource EXCEPT ![m.nonce].status = "active"]
             /\ Answer(m, m.nonce)
    <3>1. m.nonce # 0 /\ cache.vis.pending[m.id].nonce = m.nonce /\ At(p, "run", "wait")
      BY <1>2, <2>1 DEF Asked
    <3>2. m.nonce \in Nonces /\ resource[m.nonce].id = m.id
      BY <1>5, <1>6, <3>1 DEF Good, Sensible
    <3>3. /\ resource'[m.nonce].status = "active" /\ resource'[m.nonce].id = m.id
          /\ \A n \in Nonces : n # m.nonce => resource'[n] = resource[n]
      BY <1>1, <2>2, <3>2 DEF Resource
    <3>4. Served'
      BY <1>5, <2>2, <3>2, <3>3 DEF Memory, Served, ActiveOf
    <3>5. PICK c : c = cache.vis
      OBVIOUS
    <3>6. Good(c)'
      <4>1. Good(c) /\ c # Absent /\ c.pending[m.id].nonce = m.nonce
        BY <1>6, <3>1, <3>5
      <4>2. Sensible(c)'
        BY <3>2, <3>3, <4>1 DEF Good, Sensible, Created
      <4>3. Continuous(c)' <=> Continuous(c)
        BY <1>1 DEF Continuous, HasContinuity, Named
      <4>4. Remembers(c) => Remembers(c)'
        BY <3>3, <4>1 DEF Remembers
      <4> QED BY <1>1, <4>1, <4>2, <4>3, <4>4 DEF Good
    <3>7. \A d \in cache.disk : Good(d)'
      BY <1>6, <3>5, <3>6
    <3> QED BY <1>1, <1>2, <1>3, <2>1, <2>2, <3>2, <3>3, <3>4, <3>7, AnswerMemory
  <2>3. ASSUME NEW n \in ActiveOf(m.id), Answer(m, n), UNCHANGED resource PROVE Memory'
    <3>1. n \in Nonces /\ resource'[n].status = "active" /\ resource'[n].id = m.id
      BY <2>3 DEF ActiveOf
    <3> QED BY <1>1, <1>2, <1>3, <1>7, <2>1, <2>3, <3>1, AnswerMemory
  <2>4. CASE m.nonce \notin ActiveOf(m.id) /\ Answer(m, Refused) /\ UNCHANGED resource
    <3>1. \A n \in Nonces : n = m.nonce => resource'[n].status # "active" \/ resource'[n].id # m.id
      BY <2>4 DEF ActiveOf
    <3> QED BY <1>1, <1>2, <1>4, <1>7, <2>1, <2>4, <3>1, AnswerMemory
  <2> QED BY <1>9, <2>2, <2>3, <2>4 DEF ServeCold
<1>10. CASE ServeDelete(m)
  <2>1. /\ m.kind = "delete" /\ UNCHANGED proc
        /\ resource' = [resource EXCEPT ![m.crid].status = "revoked"]
    BY <1>10 DEF ServeDelete
  <2>2. At(p, "remove", "confirm") /\ m.crid \in ActiveOf(m.id) /\ m.crid \in Nonces
    BY <1>2, <2>1 DEF Asked, ActiveOf
  <2>3. /\ resource'[m.crid].status = "revoked" /\ resource'[m.crid].id = resource[m.crid].id
        /\ \A n \in Nonces : n # m.crid => resource'[n] = resource[n]
    BY <1>1, <2>1, <2>2 DEF Resource
  <2>4. resource[m.crid].status = "active"
    BY <2>2 DEF ActiveOf
  <2>5. Served'
    BY <2>3, <2>4 DEF Memory, Served
  <2>6. PICK c : c = cache.vis
    OBVIOUS
  <2>7. Good(c)'
    <3>1. Good(c)
      BY <1>6, <2>6
    <3>2. Sensible(c)'
      BY <2>3, <2>4, <3>1 DEF Good, Sensible, Created
    <3>3. Continuous(c)' <=> Continuous(c)
      BY <1>1 DEF Continuous, HasContinuity, Named
    <3>4. Remembers(c) => Remembers(c)'
      BY <2>3, <2>4 DEF Remembers
    <3> QED BY <1>1, <3>1, <3>2, <3>3, <3>4 DEF Good
  <2>8. \A d \in cache.disk : Good(d)'
    BY <1>6, <2>6, <2>7
  <2>9. \A j : ActiveOf(j)' \subseteq ActiveOf(j)
    BY <2>3, <2>4 DEF ActiveOf
  <2>10. Knows(p)'
    <3>1. Knows(p)
      BY DEF Memory, Calls
    <3> QED BY <1>1, <2>1, <2>2, <2>9, <3>1 DEF Knows, At
  <2> QED BY <1>1, <1>2, <2>1, <2>5, <2>8, <2>10, ServeCalls
<1> QED BY <1>8, <1>9, <1>10

\* The host loses power: whatever is on disk is good.
LEMMA PowerLossRemembers ==
  ASSUME Locks, Locks', Memory, "late" \notin Faults, PowerLoss
  PROVE  Memory'
<1>1. /\ UNCHANGED <<native, resource, lost>> /\ network' = {}
      /\ cache'.disk \subseteq cache.disk /\ \A p \in Procs : proc'[p] = Idle
  BY DEF PowerLoss, history
<1>2. Calls'
  BY <1>1 DEF Calls, OneCall, Knows, At, Idle
<1>3. Served' /\ \A c \in cache'.disk : Good(c)'
  BY <1>1, GoodStays DEF Memory
<1> QED BY <1>2, <1>3 DEF Memory

\* One file is lost: the other does not belong to what is left, or there was
\* nothing to remember.
LEMMA LoseRemembers ==
  ASSUME Locks, Locks', Memory, Lose
  PROVE  Memory'
<1>1. /\ lock.state = None /\ ~lost /\ lost' = TRUE
      /\ UNCHANGED <<lock, proc, network, resource>>
      /\ \/ native' = 0 /\ UNCHANGED cache
         \/ cache.vis # Absent /\ cache' = [vis |-> Absent, disk |-> {Absent}] /\ UNCHANGED native
  BY DEF Lose
<1>2. \A q \in Procs : lock.state # q
  BY <1>1, IdentitiesAssumption
<1>3. network = {}
  BY <1>2, Quiet DEF Memory
<1>4. ASSUME NEW q \in Procs PROVE Knows(q)'
  <2>1. Knows(q)
    BY DEF Memory, Calls
  <2>2. /\ ~At(q, "run", "wait") /\ ~At(q, "remove", "delete") /\ ~At(q, "remove", "confirm")
        /\ ~At(q, "remove", "edit") /\ ~At(q, "remove", "prune")
    BY <1>2, OnlyHolder
  <2> QED BY <1>1, <2>1, <2>2 DEF Knows, At
<1>5. Calls'
  BY <1>1, <1>3, <1>4 DEF Calls, OneCall
<1>6. Served'
  BY <1>1 DEF Memory, Served
<1>7. CASE native' = 0 /\ UNCHANGED cache
  <2>1. ASSUME NEW c \in cache.disk PROVE Good(c)'
    <3>1. Sensible(c) /\ Remembers(c)
      BY <1>1 DEF Memory, Good
    <3> QED BY <1>1, <3>1 DEF Good, Sensible, Remembers, Created
  <2> QED BY <1>5, <1>6, <1>7, <2>1 DEF Memory
<1>8. CASE cache.vis # Absent /\ cache' = [vis |-> Absent, disk |-> {Absent}] /\ UNCHANGED native
  <2>1. Continuous(cache.vis) /\ Remembers(cache.vis)
    BY <1>1, VisibleIsGood DEF Good
  <2>2. native = 0 => \A n \in Nonces : resource[n].status # "active"
    <3>1. native = 0 => Named(cache.vis) = {}
      BY <1>8, <2>1 DEF Continuous, HasContinuity
    <3>2. ASSUME native = 0, NEW n \in Nonces, resource[n].status = "active" PROVE FALSE
      <4>1. resource[n].id \in Ids /\ n # 0 /\ NoRequest.nonce = 0
        BY <3>2, IdentitiesAssumption DEF Memory, Served, Nonces, NoRequest
      <4>2. cache.vis.crid[resource[n].id] = n \/ cache.vis.pending[resource[n].id].nonce = n
        BY <2>1, <3>2 DEF Remembers
      <4> QED BY <3>1, <3>2, <4>1, <4>2 DEF Named
    <3> QED BY <3>2
  <2>3. Good(Absent)'
    BY <1>1, <1>8, <2>2 DEF Good, Sensible, Continuous, Remembers
  <2> QED BY <1>5, <1>6, <1>8, <2>3 DEF Memory
<1> QED BY <1>1, <1>7, <1>8

\* At first there is nothing to remember.
LEMMA InitRemembers == Init => Memory
<1> SUFFICES ASSUME Init PROVE Memory
  OBVIOUS
<1>1. /\ \A p \in Procs : proc[p] = Idle
      /\ \A n \in Nonces : resource[n].status = "unused"
      /\ network = {} /\ cache.disk = {Absent} /\ native = 0
  BY DEF Init
<1>2. Calls
  BY <1>1 DEF Calls, OneCall, Knows, At, Idle
<1>3. Served /\ Good(Absent)
  BY <1>1 DEF Served, Good, Sensible, Continuous, Remembers
<1> QED BY <1>1, <1>2, <1>3 DEF Memory

\* Every step keeps what the cache knows.
LEMMA StepRemembers ==
  ASSUME Locks, Locks', Memory, "late" \notin Faults, [Next]_vars
  PROVE  Memory'
<1>1. CASE UNCHANGED vars
  <2>1. UNCHANGED <<cache, native, lock, proc, network, resource, lost>>
    BY <1>1 DEF vars, files, history
  <2> QED BY <2>1, OutsideMemory DEF Kept
<1>2. ASSUME NEW p \in Procs, Step(p) PROVE Memory'
  <2>1. ASSUME NEW i \in Ids, AddLoad(p, i) \/ RunRequest(p, i) \/ RemoveLoad(p, i) PROVE Memory'
    BY <2>1, LoadsRemember, RequestsRemember
  <2>2. RunRead(p) => Memory'
    BY LoadsRemember DEF RunRead
  <2> QED BY <1>2, <2>1, <2>2, EditsRemember, BeginsRemember, OpensRemember, BindsRemember,
             AnswersRemember, InspectsRemember, DeletesRemember, ConfirmsRemember, PrunesRemember
          DEF Step
<1>3. ASSUME NEW m \in network, ServeAssertion(m) \/ ServeCold(m) \/ ServeDelete(m) PROVE Memory'
  BY <1>3, ServesRemember
<1> QED BY <1>1, <1>2, <1>3, EditsRemember, PowerLossRemembers, LoseRemembers, HostEditRemembers DEF Next

\* Every active resource has its request or its binding in whatever cache is on
\* disk, and a request on its way has a command that waits for its answer
\* (ensurePendingRequestLocked, recordResolutionLocked, removeLocked).
THEOREM MemoryIsKept == "late" \notin Faults /\ Spec => []Memory
<1>1. "late" \notin Faults /\ Locks /\ Locks' /\ Memory /\ [Next]_vars => Memory'
  BY StepRemembers
<1>2. CASE "late" \notin Faults
  <2>1. Locks /\ Locks' /\ Memory /\ [Next]_vars => Memory'
    BY <1>1, <1>2
  <2> QED BY <2>1, InitRemembers, LocksAreKept, PTL DEF Spec
<1> QED BY <1>2

\* Whatever the disk holds after a power loss, remove can still find every
\* active resource (ensurePendingRequestLocked, recordResolutionLocked,
\* removeLocked), as long as no answer outlives the command that waits for it.
THEOREM NothingIsForgotten == "late" \notin Faults /\ Spec => []NothingForgotten
<1>1. Locks /\ Memory => NothingForgotten
  <2> SUFFICES ASSUME Locks, Memory, NEW n \in Nonces, NEW c \in cache.disk \union {cache.vis},
                      resource[n].status = "active", ~lost
               PROVE  c # Absent /\ (c.crid[resource[n].id] = n \/ c.pending[resource[n].id].nonce = n)
    BY DEF NothingForgotten
  <2>1. Good(c)
    BY VisibleIsGood DEF Memory
  <2> QED BY <2>1 DEF Good, Remembers
<1>2. CASE "late" \notin Faults
  BY <1>1, <1>2, LocksAreKept, MemoryIsKept, PTL
<1> QED BY <1>2

--------------------------------------------------------------------------------
(***************************************************************************)
(* The third layer: how the two files together keep a route from a second  *)
(* resource, but for the lifetimes in unfenced: what was pruned over a     *)
(* configuration that may come back.                                       *)
(***************************************************************************)
Revoked(n) == resource[n].status = "revoked"

\* The lifetimes of routes are counted, and nobody runs ahead of the count.
Counted ==
  /\ \A f \in config.disk : \A i \in Ids : f[i] <= eras[i]
  /\ \A n \in Nonces : resource[n].status # "unused" => resource[n].era \in 1..eras[resource[n].id]
  /\ \A p \in Procs, i \in Ids : proc[p].seen[i] <= eras[i]

\* What a command knows of the configuration it has read.
Follows(p) ==
  LET s == proc[p] IN
  /\ At(p, "remove", "prune") => config.vis[s.id] = 0
  /\ s.cmd # "none" /\ ~writable => \A i \in Ids : s.seen[i] = 0 => config.vis[i] = 0
  /\ At(p, "run", "snapshot") /\ ~s.stale => s.seen = config.vis
  /\ Runs(s) => \A n \in Nonces :
       /\ Revoked(n) /\ s.seen[resource[n].id] = resource[n].era
       /\ <<resource[n].id, resource[n].era>> \notin unfenced
       => cache.vis.crid[resource[n].id] = n

\* A file on disk has the route of a resource, and its identity was not pruned
\* over that file.
Routes(n) ==
  /\ \E f \in config.disk : f[resource[n].id] = resource[n].era
  /\ <<resource[n].id, resource[n].era>> \notin unfenced

\* A route whose resource was revoked has it in the cache.
FailsClosed(c) ==
  \A n \in Nonces : Revoked(n) /\ Routes(n) =>
    c # Absent /\ c.crid[resource[n].id] = n

\* A request that may still create a resource does so for a route without one.
Unspent(c) ==
  c # Absent =>
    \A i \in Ids :
      LET n == c.pending[i].nonce IN
      n # 0 /\ resource[n].status = "none" =>
        \A m \in Created :
          resource[m].id = i => resource[m].era # resource[n].era \/ <<i, resource[n].era>> \in unfenced

Safe(c) == Continuous(c) => FailsClosed(c) /\ Unspent(c)

Fences ==
  /\ Counted /\ (\A p \in Procs : Follows(p))
  /\ OneResourcePerRoute /\ \A c \in cache.disk : Safe(c)

--------------------------------------------------------------------------------
\* What a cache keeps a route from does not change while the routes, the service
\* and the device stay.
LEMMA SafeStays ==
  ASSUME NEW c, UNCHANGED <<config, resource, native>>, unfenced \subseteq unfenced'
  PROVE  Safe(c) => Safe(c)'
BY DEF Safe, FailsClosed, Unspent, Routes, Revoked, Created, Continuous, HasContinuity, Named

\* One command moves and no route changes.
LEMMA FencesGo ==
  ASSUME Locks, Fences, NEW p \in Procs, UNCHANGED <<config, eras, writable>>, unfenced \subseteq unfenced',
         \A q \in Procs : q # p => /\ proc'[q].cmd = proc[q].cmd /\ proc'[q].pc = proc[q].pc
                                   /\ proc'[q].id = proc[q].id /\ proc'[q].seen = proc[q].seen
                                   /\ proc'[q].stale = proc[q].stale,
         proc'[p].seen \in {proc[p].seen, config.vis, Idle.seen}, Follows(p)',
         lock.state \in {p, None} \/ (cache' = cache /\ resource' = resource),
         \A n \in Nonces : resource'[n].status # "unused" => resource'[n].era \in 1..eras[resource'[n].id],
         OneResourcePerRoute', \A c \in cache'.disk : Safe(c)'
  PROVE  Fences'
<1>1. Shape /\ None \notin Procs
  BY IdentitiesAssumption DEF Locks
<1>2. ASSUME NEW q \in Procs, NEW i \in Ids PROVE proc'[q].seen[i] <= eras[i]
  <2>1. proc[q].seen[i] <= eras[i] /\ config.vis[i] <= eras[i]
    BY <1>1 DEF Fences, Counted, Shape, FilesShaped
  <2>2. Idle.seen[i] = 0 /\ eras[i] \in Nat
    BY <1>1 DEF Idle, Shape, RestShaped
  <2>3. Idle.seen[i] <= eras[i]
    BY <2>2
  <2> QED BY <2>1, <2>3
<1>3. Counted'
  BY <1>2 DEF Fences, Counted
<1>4. ASSUME NEW q \in Procs, q # p PROVE Follows(q)'
  <2>1. Follows(q)
    BY DEF Fences
  <2>2. CASE cache' = cache /\ resource' = resource
    BY <1>4, <2>1, <2>2 DEF Follows, At, Runs, Revoked
  <2>3. CASE lock.state \in {p, None}
    <3>1. ~Inside(proc[q])
      BY <1>1, <1>4, <2>3, OnlyHolder
    <3> QED BY <1>4, <2>1, <3>1 DEF Follows, At, Runs, Inside
  <2> QED BY <2>2, <2>3
<1> QED BY <1>3, <1>4 DEF Fences

\* A command ends, and what it leaves on disk is safe.
LEMMA FencesEnd ==
  ASSUME Locks, Fences, NEW p \in Procs, proc' = [proc EXCEPT ![p] = Idle],
         UNCHANGED <<config, eras, writable, resource, native, unfenced>>,
         lock.state \in {p, None} \/ cache' = cache,
         cache' = cache \/ \E new : Safe(new) /\ cache'.disk \subseteq cache.disk \union {new}
  PROVE  Fences'
<1>1. proc'[p] = Idle /\ \A q \in Procs : q # p => proc'[q] = proc[q]
  BY DEF Locks, Shape, CommandsShaped
<1>2. Follows(p)'
  BY <1>1 DEF Follows, At, Runs, Idle
<1>3. \A n \in Nonces : resource'[n].status # "unused" => resource'[n].era \in 1..eras[resource'[n].id]
  BY DEF Fences, Counted
<1>4. OneResourcePerRoute'
  BY DEF Fences, OneResourcePerRoute, Created
<1>5. \A c \in cache'.disk : Safe(c)'
  BY SafeStays DEF Fences
<1> QED BY <1>1, <1>2, <1>3, <1>4, <1>5, FencesGo

\* A step of a command that leaves the service and the routes alone.
LEMMA FencesStep ==
  ASSUME Locks, Fences, NEW p \in Procs, UNCHANGED <<config, eras, writable, resource>>,
         unfenced \subseteq unfenced', \A q \in Procs : q # p => proc'[q] = proc[q],
         proc'[p].seen \in {proc[p].seen, config.vis, Idle.seen}, Follows(p)',
         lock.state \in {p, None} \/ cache' = cache,
         \A c \in cache'.disk : Safe(c)'
  PROVE  Fences'
<1>1. \A n \in Nonces : resource'[n].status # "unused" => resource'[n].era \in 1..eras[resource'[n].id]
  BY DEF Fences, Counted
<1>2. OneResourcePerRoute'
  BY DEF Fences, OneResourcePerRoute, Created
<1> QED BY <1>1, <1>2, FencesGo

\* The routes change: who read them before is told, and a revoked resource
\* either keeps the era of its route or the route is gone or another one.
LEMMA FencesEdit ==
  ASSUME Locks, Fences, UNCHANGED <<cache, native, resource, writable, unfenced>>,
         config'.disk \subseteq config.disk \union {config'.vis}, \A i \in Ids : config'.vis[i] <= eras'[i],
         \A i \in Ids : eras[i] <= eras'[i] /\ eras[i] \in Nat /\ eras'[i] \in Nat,
         \A i \in Ids : \/ config'.vis[i] \in {config.vis[i], 0}
                        \/ writable /\ config'.vis[i] > eras[i],
         \A q \in Procs : /\ proc'[q].seen \in {proc[q].seen, Idle.seen}
                          /\ \/ proc'[q].cmd = "none"
                             \/ /\ proc'[q].cmd = proc[q].cmd /\ proc'[q].seen = proc[q].seen
                                /\ Runs(proc'[q]) => Runs(proc[q])
                          /\ At(q, "run", "snapshot")' /\ ~proc'[q].stale => FALSE
                          /\ At(q, "remove", "prune")' => config'.vis[proc'[q].id] = 0,
         Served
  PROVE  Fences'
<1>1. \A n \in Nonces : resource[n].status # "unused" =>
        resource[n].id \in Ids /\ resource[n].era \in 1..eras[resource[n].id]
  BY DEF Fences, Counted, Served
<1>2. Counted'
  <2>1. \A q \in Procs, i \in Ids : proc'[q].seen[i] <= eras'[i]
    <3> SUFFICES ASSUME NEW q \in Procs, NEW i \in Ids PROVE proc'[q].seen[i] <= eras'[i]
      OBVIOUS
    <3>1. Idle.seen[i] = 0
      BY DEF Idle
    <3>2. proc[q].seen[i] <= eras[i] /\ proc[q].seen[i] \in Nat /\ eras[i] <= eras'[i]
      BY DEF Fences, Counted, Locks, Shape, CommandsShaped, Command
    <3>3. proc[q].seen[i] <= eras'[i] /\ 0 <= eras'[i]
      BY <3>2
    <3> QED BY <3>1, <3>3
  <2>2. ASSUME NEW n \in Nonces, resource[n].status # "unused"
        PROVE  resource[n].era \in 1..eras'[resource[n].id]
    BY <1>1, <2>2
  <2>3. ASSUME NEW f \in config'.disk, NEW i \in Ids PROVE f[i] <= eras'[i]
    <3>1. CASE f = config'.vis
      BY <3>1
    <3>2. CASE f \in config.disk
      <4>1. f[i] <= eras[i] /\ f[i] \in Nat /\ eras[i] <= eras'[i] /\ eras[i] \in Nat /\ eras'[i] \in Nat
        BY <3>2 DEF Fences, Counted, Locks, Shape, FilesShaped
      <4> QED BY <4>1
    <3> QED BY <3>1, <3>2
  <2> QED BY <2>1, <2>2, <2>3 DEF Counted
<1>3. ASSUME NEW n \in Nonces, Revoked(n), Routes(n)' PROVE Routes(n)
  <2> DEFINE i == resource[n].id
  <2>1. i \in Ids /\ resource[n].era \in 1..eras[i] /\ eras[i] \in Nat /\ config.vis \in config.disk
    BY <1>1, <1>3 DEF Revoked, Locks, Shape, FilesShaped
  <2>2. PICK f \in config'.disk : f[i] = resource[n].era
    BY <1>3 DEF Routes
  <2>3. CASE f \in config.disk
    BY <1>3, <2>2, <2>3 DEF Routes
  <2>4. CASE f = config'.vis
    <3>1. config'.vis[i] # 0 /\ ~(config'.vis[i] > eras[i])
      BY <2>1, <2>2, <2>4
    <3>2. config.vis[i] = resource[n].era
      BY <2>1, <2>2, <2>4, <3>1
    <3> QED BY <1>3, <2>1, <3>2 DEF Routes
  <2> QED BY <2>3, <2>4
<1>4. ASSUME NEW c, Safe(c) PROVE Safe(c)'
  <2>1. Unspent(c)' <=> Unspent(c)
    BY DEF Unspent, Created
  <2>2. Continuous(c)' <=> Continuous(c)
    BY DEF Continuous, HasContinuity, Named
  <2>3. FailsClosed(c) => FailsClosed(c)'
    BY <1>3 DEF FailsClosed, Revoked
  <2> QED BY <1>4, <2>1, <2>2, <2>3 DEF Safe
<1>5. ASSUME NEW q \in Procs PROVE Follows(q)'
  <2>1. Follows(q)
    BY DEF Fences
  <2>2. CASE proc'[q].cmd = "none"
    BY <2>2 DEF Follows, At, Runs
  <2>3. CASE proc'[q].cmd = proc[q].cmd /\ proc'[q].seen = proc[q].seen /\ (Runs(proc'[q]) => Runs(proc[q]))
    <3>1. ASSUME proc[q].cmd # "none", ~writable, NEW i \in Ids, proc[q].seen[i] = 0
          PROVE  config'.vis[i] = 0
      BY <2>1, <3>1 DEF Follows
    <3>2. Runs(proc'[q]) => \A n \in Nonces :
            /\ Revoked(n) /\ proc[q].seen[resource[n].id] = resource[n].era
            /\ <<resource[n].id, resource[n].era>> \notin unfenced
            => cache.vis.crid[resource[n].id] = n
      BY <2>1, <2>3 DEF Follows
    <3> QED BY <2>3, <3>1, <3>2 DEF Follows, Revoked
  <2> QED BY <2>2, <2>3
<1>6. OneResourcePerRoute'
  BY DEF Fences, OneResourcePerRoute, Created
<1> QED BY <1>2, <1>4, <1>5, <1>6 DEF Fences

\* A command that loads the configuration knows it as it is.
LEMMA LoadsFence ==
  ASSUME Locks, Fences, NEW p \in Procs, NEW i \in Ids,
         AddLoad(p, i) \/ RemoveLoad(p, i) \/ RunRead(p)
  PROVE  Fences'
<1>1. UNCHANGED <<config, eras, writable, resource, cache, native, unfenced>> /\ proc \in [Procs -> Command]
  BY DEF AddLoad, RemoveLoad, RunRead, files, history, Locks, Shape, CommandsShaped
<1>2. /\ \A q \in Procs : q # p => proc'[q] = proc[q]
      /\ proc'[p].seen = config.vis /\ proc'[p].pc \in {"save", "snapshot"}
  <2>1. CASE AddLoad(p, i)
    BY <1>1, <2>1 DEF AddLoad, Idle
  <2>2. CASE RemoveLoad(p, i)
    BY <1>1, <2>2 DEF RemoveLoad, Idle
  <2>3. CASE RunRead(p)
    BY <1>1, <2>3 DEF RunRead, Idle
  <2> QED BY <2>1, <2>2, <2>3
<1>3. Follows(p)'
  BY <1>1, <1>2 DEF Follows, At, Runs, RunSteps
<1>4. \A c \in cache'.disk : Safe(c)'
  BY <1>1, SafeStays DEF Fences
<1> QED BY <1>1, <1>2, <1>3, <1>4, FencesStep

\* A transaction of the configuration ends with a rename, done or failed: the
\* id it is about is added with an era of its own, or goes.
LEMMA RenamesFence ==
  ASSUME Locks, Fences, Served, NEW p \in Procs, writable, lock.config = p,
         NEW t, proc' = MarkStale(p, [proc EXCEPT ![p] = t]),
         \/ t = Idle
         \/ /\ t.cmd = "remove" /\ t.pc = "prune" /\ proc[p].cmd = "remove"
            /\ t.seen = proc[p].seen /\ config'.vis[t.id] = 0,
         NEW i \in Ids, NEW v, NEW end \in {"ok", "write", "sync"},
         config' = Saved(config, [config.vis EXCEPT ![i] = v], end),
         \/ v = 0 /\ eras' = eras
         \/ v = eras[i] + 1 /\ eras' = [eras EXCEPT ![i] = @ + 1],
         UNCHANGED <<cache, native, resource, writable, unfenced>>
  PROVE  Fences'
<1>1. /\ config.vis \in [Ids -> Nat] /\ eras \in [Ids -> Nat] /\ proc \in [Procs -> Command]
      /\ config.vis \in config.disk /\ \A j \in Ids : config.vis[j] <= eras[j]
  BY DEF Locks, Shape, FilesShaped, CommandsShaped, RestShaped, Fences, Counted
<1>2. /\ config'.disk \subseteq config.disk \union {config'.vis}
      /\ \A j \in Ids : config'.vis[j] = config.vis[j] \/ (j = i /\ config'.vis[j] = v)
  BY <1>1 DEF Saved
<1>3. \A j \in Ids : /\ eras[j] \in Nat /\ eras'[j] \in Nat /\ eras[j] <= eras'[j]
                     /\ config'.vis[j] <= eras'[j]
                     /\ config'.vis[j] \in {config.vis[j], 0} \/ config'.vis[j] > eras[j]
  <2> SUFFICES ASSUME NEW j \in Ids
               PROVE  /\ eras[j] \in Nat /\ eras'[j] \in Nat /\ eras[j] <= eras'[j]
                      /\ config'.vis[j] <= eras'[j]
                      /\ config'.vis[j] \in {config.vis[j], 0} \/ config'.vis[j] > eras[j]
    OBVIOUS
  <2>1. eras[j] \in Nat /\ config.vis[j] <= eras[j] /\ config.vis[j] \in Nat
    BY <1>1
  <2>2. CASE v = 0 /\ eras' = eras
    BY <1>2, <2>1, <2>2
  <2>3. CASE v = eras[i] + 1 /\ eras' = [eras EXCEPT ![i] = @ + 1]
    <3>1. eras'[j] = IF j = i THEN eras[i] + 1 ELSE eras[j]
      BY <1>1, <2>3
    <3> QED BY <1>2, <2>1, <2>3, <3>1
  <2> QED BY <2>2, <2>3
<1>4. ASSUME NEW q \in Procs
      PROVE  /\ proc'[q].seen \in {proc[q].seen, Idle.seen}
             /\ \/ proc'[q].cmd = "none"
                \/ /\ proc'[q].cmd = proc[q].cmd /\ proc'[q].seen = proc[q].seen
                   /\ Runs(proc'[q]) => Runs(proc[q])
             /\ At(q, "run", "snapshot")' /\ ~proc'[q].stale => FALSE
             /\ At(q, "remove", "prune")' => config'.vis[proc'[q].id] = 0
  <2>1. CASE q = p
    <3>1. proc'[q] = t
      BY <1>1, <2>1 DEF MarkStale
    <3> QED BY <2>1, <3>1 DEF Idle, At, Runs
  <2>2. CASE q # p
    <3>1. proc'[q] = IF proc[q].pc = "snapshot" THEN [proc[q] EXCEPT !.stale = TRUE] ELSE proc[q]
      BY <1>1, <2>2 DEF MarkStale
    <3>2. proc[q] \in Command
      BY <1>1
    <3>3. /\ proc'[q].cmd = proc[q].cmd /\ proc'[q].pc = proc[q].pc /\ proc'[q].seen = proc[q].seen
          /\ proc[q].pc = "snapshot" => proc'[q].stale
      BY <3>1, <3>2 DEF Command
    <3>4. ~At(q, "remove", "prune")
      BY <2>2 DEF Locks, Edits, At
    <3> QED BY <3>3, <3>4 DEF At, Runs
  <2> QED BY <2>1, <2>2
<1> QED BY <1>2, <1>3, <1>4, FencesEdit

\* add and remove edit the configuration (AcquireFileTransaction).
LEMMA EditsFence ==
  ASSUME Locks, Memory, Fences, NEW p \in Procs, AddSave(p) \/ RemoveEdit(p) \/ RemoveUncachedEdit(p)
  PROVE  Fences'
<1> DEFINE s == proc[p]  i == s.id
<1>1. /\ s \in Command /\ Shaped(s) /\ Edits(p) /\ Follows(p) /\ Served /\ SaveEnds \subseteq {"ok", "write", "sync"}
      /\ s.pc # "prune" /\ s.cmd \in {"add", "remove"} /\ i \in Ids
      /\ proc \in [Procs -> Command]
  BY Endings DEF AddSave, RemoveEdit, RemoveUncachedEdit, At, Locks, Shape, CommandsShaped, Shaped, Fences, Memory
<1>2. CASE AddSave(p) /\ s.seen[i] # 0 /\ proc' = [proc EXCEPT ![p] = Idle] /\ UNCHANGED <<config, eras>>
  BY <1>2, FencesEnd DEF AddSave
<1>3. ASSUME AddSave(p), NEW end \in SaveEnds,
             config' = Saved(config, [s.seen EXCEPT ![i] = eras[i] + 1], end),
             proc' = MarkStale(p, [proc EXCEPT ![p] = Idle]),
             eras' = [eras EXCEPT ![i] = @ + 1]
      PROVE  Fences'
  <2>1. writable /\ lock.config = p /\ s.seen = config.vis
    BY <1>1, <1>3 DEF AddSave, At, Edits
  <2>2. UNCHANGED <<cache, native, resource, writable, unfenced>>
    BY <1>3 DEF AddSave
  <2>3. config' = Saved(config, [config.vis EXCEPT ![i] = eras[i] + 1], end) /\ end \in {"ok", "write", "sync"}
    BY <1>1, <1>3, <2>1
  <2> QED BY <1>1, <1>3, <2>1, <2>2, <2>3, RenamesFence
<1>4. CASE RemoveEdit(p) /\ s.seen[i] = 0
  <2>1. Goto(p, "prune") /\ UNCHANGED <<config, cache, native, resource, history>> /\ s.cmd = "remove" /\ s.pc = "edit"
    BY <1>4 DEF RemoveEdit, At
  <2>2. /\ proc'[p] = [s EXCEPT !.pc = "prune"] /\ \A q \in Procs : q # p => proc'[q] = proc[q]
    BY <1>1, <2>1 DEF Goto
  <2>3. proc'[p].seen = s.seen /\ proc'[p].cmd = "remove" /\ proc'[p].id = i
    BY <1>1, <2>1, <2>2 DEF Command
  <2>4. config.vis[i] = 0
    <3>1. CASE writable
      BY <1>1, <1>4, <2>1, <3>1 DEF Edits
    <3>2. CASE ~writable
      BY <1>1, <1>4, <2>1, <3>2 DEF Follows
    <3> QED BY <3>1, <3>2
  <2>5. Follows(p)'
    BY <1>1, <2>1, <2>3, <2>4 DEF Follows, At, Runs, history
  <2>6. \A c \in cache'.disk : Safe(c)'
    BY <2>1, SafeStays DEF Fences, history
  <2> QED BY <2>1, <2>2, <2>3, <2>5, <2>6, FencesStep DEF history
<1>5. ASSUME RemoveEdit(p), s.seen[i] # 0, NEW end \in SaveEnds,
             config' = Saved(config, [s.seen EXCEPT ![i] = 0], end),
             IF end = "ok"
             THEN proc' = MarkStale(p, [proc EXCEPT ![p].pc = "prune"])
             ELSE proc' = MarkStale(p, [proc EXCEPT ![p] = Idle])
      PROVE  Fences'
  <2>1. s.cmd = "remove" /\ s.pc = "edit" /\ UNCHANGED <<cache, native, resource, history>>
    BY <1>5 DEF RemoveEdit, At
  <2>2. writable /\ lock.config = p /\ s.seen = config.vis
    BY <1>1, <1>5, <2>1 DEF Edits, Removes, RemoveSteps
  <2>3. config' = Saved(config, [config.vis EXCEPT ![i] = 0], end) /\ end \in {"ok", "write", "sync"}
    BY <1>1, <1>5, <2>2
  <2>4. UNCHANGED <<cache, native, resource, writable, eras, unfenced>>
    BY <2>1 DEF history
  <2>5. CASE end # "ok"
    <3>1. proc' = MarkStale(p, [proc EXCEPT ![p] = Idle])
      BY <1>5, <2>5
    <3> QED BY <1>1, <2>2, <2>3, <2>4, <3>1, RenamesFence
  <2>6. CASE end = "ok"
    <3> DEFINE t == [s EXCEPT !.pc = "prune"]
    <3>1. proc' = MarkStale(p, [proc EXCEPT ![p] = t])
      BY <1>1, <1>5, <2>6
    <3>2. t.cmd = "remove" /\ t.pc = "prune" /\ t.seen = s.seen /\ t.id = i
      BY <1>1, <2>1 DEF Command
    <3>3. config'.vis[i] = 0
      BY <1>1, <2>3, <2>6 DEF Saved, Locks, Shape, FilesShaped
    <3> HIDE DEF t
    <3> QED BY <1>1, <2>1, <2>2, <2>3, <2>4, <3>1, <3>2, <3>3, RenamesFence
  <2> QED BY <2>5, <2>6
<1>6. CASE RemoveUncachedEdit(p)
  <2>1. /\ s.cmd = "remove" /\ s.pc = "save" /\ UNCHANGED <<cache, native, resource, writable, eras, unfenced>>
        /\ proc' = MarkStale(p, [proc EXCEPT ![p] = Idle])
    BY <1>6 DEF RemoveUncachedEdit, At, history
  <2>2. writable /\ lock.config = p /\ s.seen = config.vis
    BY <1>1, <2>1 DEF Edits
  <2>3. PICK end \in {"ok", "write", "sync"} : config' = Saved(config, [config.vis EXCEPT ![i] = 0], end)
    BY <1>1, <1>6, <2>2 DEF RemoveUncachedEdit
  <2> QED BY <1>1, <2>1, <2>2, <2>3, RenamesFence
<1> QED BY <1>2, <1>3, <1>4, <1>5, <1>6 DEF AddSave, RemoveEdit

\* A removal that finds no state directory goes on, or ends.
LEMMA UncachedFences ==
  ASSUME Locks, Fences, NEW p \in Procs, RemoveUncached(p)
  PROVE  Fences'
<1>1. /\ proc[p] \in Command /\ proc[p].cmd = "remove" /\ proc \in [Procs -> Command] /\ Follows(p)
      /\ UNCHANGED <<config, cache, native, resource, eras, writable, unfenced>>
  BY DEF RemoveUncached, At, files, history, Locks, Shape, CommandsShaped, Fences
<1>2. CASE End(p)
  BY <1>1, <1>2, FencesEnd DEF End
<1>3. CASE Goto(p, "save")
  <2>1. /\ proc'[p].cmd = "remove" /\ proc'[p].pc = "save" /\ proc'[p].seen = proc[p].seen
        /\ \A q \in Procs : q # p => proc'[q] = proc[q]
    BY <1>1, <1>3 DEF Goto, Command
  <2>2. Follows(p)'
    BY <1>1, <2>1 DEF Follows, At, Runs
  <2>3. \A c \in cache'.disk : Safe(c)'
    BY <1>1, SafeStays DEF Fences
  <2> QED BY <1>1, <2>1, <2>2, <2>3, FencesStep
<1> QED BY <1>2, <1>3 DEF RemoveUncached

\* The operator takes a route off the host's file: a run that pinned it notices.
LEMMA HostEditFences ==
  ASSUME Locks, Memory, Fences, NEW i \in Ids, HostEdit(i)
  PROVE  Fences'
<1>1. /\ config.vis \in [Ids -> Nat] /\ eras \in [Ids -> Nat] /\ proc \in [Procs -> Command]
      /\ config.vis \in config.disk /\ \A j \in Ids : config.vis[j] <= eras[j]
      /\ Served /\ None \notin Procs
  BY IdentitiesAssumption DEF Locks, Shape, FilesShaped, CommandsShaped, RestShaped, Fences, Counted, Memory
<1>2. /\ UNCHANGED <<cache, native, resource, writable, eras, unfenced>> /\ proc' = MarkStale(None, proc)
      /\ config'.disk \subseteq config.disk \union {config'.vis} /\ config'.vis = [config.vis EXCEPT ![i] = 0]
  BY Endings DEF HostEdit, history, Saved
<1>3. \A j \in Ids : /\ eras[j] \in Nat /\ eras'[j] \in Nat /\ eras[j] <= eras'[j]
                     /\ config'.vis[j] <= eras'[j] /\ config'.vis[j] \in {config.vis[j], 0}
  BY <1>1, <1>2
<1>4. ASSUME NEW q \in Procs
      PROVE  /\ proc'[q].cmd = proc[q].cmd /\ proc'[q].seen = proc[q].seen
             /\ Runs(proc'[q]) => Runs(proc[q])
             /\ At(q, "run", "snapshot")' /\ ~proc'[q].stale => FALSE
             /\ At(q, "remove", "prune")' => config'.vis[proc'[q].id] = 0
  <2>1. proc'[q] = IF proc[q].pc = "snapshot" THEN [proc[q] EXCEPT !.stale = TRUE] ELSE proc[q]
    BY <1>1, <1>2 DEF MarkStale
  <2>2. proc[q] \in Command /\ Shaped(proc[q])
    BY DEF Locks, Shape, CommandsShaped
  <2>3. /\ proc'[q].cmd = proc[q].cmd /\ proc'[q].pc = proc[q].pc /\ proc'[q].seen = proc[q].seen
        /\ proc'[q].id = proc[q].id /\ (proc[q].pc = "snapshot" => proc'[q].stale)
    BY <2>1, <2>2 DEF Command
  <2>4. At(q, "remove", "prune") => config.vis[proc[q].id] = 0 /\ proc[q].id \in Ids
    BY <2>2 DEF Fences, Follows, At, Shaped
  <2> QED BY <1>1, <1>2, <2>3, <2>4 DEF At, Runs
<1> QED BY <1>1, <1>2, <1>3, <1>4, FencesEdit

--------------------------------------------------------------------------------
\* A command that stops leaves the files as they are.
LEMMA StopFences ==
  ASSUME Locks, Fences, NEW p \in Procs, Stop(p)
  PROVE  Fences'
BY FencesEnd DEF Stop, End, files, history

\* A new cache is made where no route had a resource that was revoked.
LEMMA EmptyIsSafe ==
  ASSUME cache.vis = Absent, Continuous(cache.vis), Safe(cache.vis)
  PROVE  Safe(Empty)
<1>1. FailsClosed(Empty)
  BY DEF Safe, FailsClosed
<1>2. Unspent(Empty)
  BY DEF Unspent, Empty, NoRequest
<1> QED BY <1>1, <1>2 DEF Safe

\* The transaction opens for a command that goes by what it saw, or it ends.
LEMMA OpenFences ==
  ASSUME Locks, Fences, NEW p \in Procs, NEW accepted, NEW next, OpenState(p, accepted, next),
         UNCHANGED <<config, native, resource, history>>,
         next.seen = proc[p].seen, next.cmd = proc[p].cmd, next.pc \in {"open", "inspect", "edit"},
         accepted /\ next.cmd = "run" => next.seen = config.vis
  PROVE  Fences'
<1>1. lock.state = None /\ FilesShaped /\ proc \in [Procs -> Command] /\ UNCHANGED <<eras, writable, unfenced>>
  BY DEF OpenState, Locks, Shape, CommandsShaped, history
<1>2. Safe(cache.vis) /\ cache.vis \in cache.disk
  BY <1>1 DEF FilesShaped, Fences
<1>3. CASE End(p) /\ (cache' = cache \/ cache' = Synced(cache))
  <2>1. cache' = cache \/ cache'.disk \subseteq cache.disk \union {cache.vis}
    BY <1>1, <1>3, CacheSynced
  <2> QED BY <1>1, <1>2, <1>3, <2>1, FencesEnd DEF End
<1>4. ASSUME Continuous(cache.vis), accepted, NEW end \in SaveEnds,
             cache' = IF cache.vis = Absent THEN Saved(cache, Empty, end) ELSE Synced(cache),
             cache.vis = Absent \/ end = "ok",
             IF end = "ok" THEN proc' = [proc EXCEPT ![p] = next] ELSE End(p)
      PROVE  Fences'
  <2>1. /\ end = "ok" /\ cache.vis = Absent => cache'.vis = Empty /\ cache'.disk = {Empty}
        /\ cache.vis # Absent => cache'.vis = cache.vis /\ cache'.disk = {cache.vis}
    BY <1>1, <1>4, CacheSynced DEF Saved
  <2>2. CASE end # "ok"
    <3>1. cache'.disk \subseteq cache.disk \union {Empty}
      BY <1>1, <1>4, <2>2, OnDisk, EmptyIsFresh
    <3>2. Safe(Empty) /\ End(p)
      BY <1>2, <1>4, <2>2, EmptyIsSafe
    <3> QED BY <1>1, <3>1, <3>2, FencesEnd DEF End
  <2>3. CASE end = "ok"
    <3>1. proc'[p] = next /\ \A q \in Procs : q # p => proc'[q] = proc[q]
      BY <1>1, <1>4, <2>3
    <3>2. ASSUME next.cmd = "run", NEW n \in Nonces, Revoked(n), next.seen[resource[n].id] = resource[n].era,
                 <<resource[n].id, resource[n].era>> \notin unfenced
          PROVE  cache'.vis.crid[resource[n].id] = n
      <4>1. FailsClosed(cache.vis) /\ next.seen = config.vis
        BY <1>2, <1>4, <3>2 DEF Safe
      <4>2. cache.vis # Absent /\ cache.vis.crid[resource[n].id] = n
        BY <1>1, <3>2, <4>1 DEF FailsClosed, Routes, FilesShaped
      <4> QED BY <2>1, <4>2
    <3>3. Follows(p)'
      <4>1. Follows(p)
        BY DEF Fences
      <4>2. Runs(next) => next.cmd = "run"
        BY DEF Runs
      <4> QED BY <1>1, <3>1, <3>2, <4>1, <4>2 DEF Follows, At, Revoked
    <3>4. \A c \in cache'.disk : Safe(c)'
      <4>1. \A c \in cache'.disk : Safe(c)
        BY <1>2, <1>4, <2>1, <2>3, EmptyIsSafe
      <4> QED BY <1>1, <4>1, SafeStays
    <3> QED BY <1>1, <3>1, <3>3, <3>4, FencesStep
  <2> QED BY <2>2, <2>3
<1> QED BY <1>3, <1>4, Endings DEF OpenState

\* A run goes by the configuration it saw only if that is still at the path; a
\* remove by what its lock keeps in place.
LEMMA BeginsFence ==
  ASSUME Locks, Fences, NEW p \in Procs, RunBegin(p) \/ RemoveBegin(p)
  PROVE  Fences'
<1> DEFINE s == proc[p]  i == s.id
<1>1. s \in Command /\ s.pc = "snapshot" /\ UNCHANGED <<config, native, resource, history>> /\ Follows(p)
  BY DEF Locks, Shape, CommandsShaped, RunBegin, RemoveBegin, At, Fences
<1>2. CASE RunBegin(p)
  <2> DEFINE t == [s EXCEPT !.pc = "open"]  accepted == NoOrphans(p) /\ ~s.stale
  <2>1. OpenState(p, accepted, t) /\ t.pc = "open" /\ t.cmd = s.cmd /\ t.seen = s.seen
    BY <1>1, <1>2 DEF RunBegin, Command
  <2>2. accepted => t.seen = config.vis
    BY <1>1, <1>2, <2>1 DEF RunBegin, Follows
  <2> HIDE DEF t, accepted
  <2> QED BY <1>1, <2>1, <2>2, OpenFences
<1>3. CASE RemoveBegin(p)
  <2> DEFINE t == [s EXCEPT !.pc = IF i \in Named(Loaded) THEN "inspect" ELSE "edit"]
             accepted == Selected(p) /\ (i \in Named(Loaded) => Registered(Loaded))
  <2>1. OpenState(p, accepted, t) /\ s.cmd = "remove"
    BY <1>3 DEF RemoveBegin, At
  <2>2. t.pc \in {"inspect", "edit"} /\ t.cmd = "remove" /\ t.seen = s.seen
    BY <1>1, <2>1 DEF Command
  <2> HIDE DEF t, accepted
  <2> QED BY <1>1, <2>1, <2>2, OpenFences
<1> QED BY <1>2, <1>3

--------------------------------------------------------------------------------
\* Inside the transaction there is one cache, visible and on disk, and the
\* native state it belongs to.
LEMMA InsideSafe ==
  ASSUME Locks, Fences, NEW p \in Procs, Inside(proc[p])
  PROVE  /\ lock.state = p /\ cache.disk = {cache.vis} /\ cache.vis # Absent /\ cache.vis \in Content
         /\ Continuous(cache.vis) /\ FailsClosed(cache.vis) /\ Unspent(cache.vis)
         /\ FilesShaped /\ proc[p] \in Command /\ Shaped(proc[p]) /\ Follows(p)
<1>1. /\ Holds(p) /\ FilesShaped /\ proc[p] \in Command /\ Shaped(proc[p]) /\ Follows(p)
  BY DEF Locks, Shape, CommandsShaped, Fences
<1>2. Continuous(cache.vis) /\ cache.vis # Absent /\ cache.disk = {cache.vis} /\ lock.state = p
  BY <1>1 DEF Holds, Continuous
<1> QED BY <1>1, <1>2 DEF FilesShaped, Fences, Safe

\* A step of a command inside the transaction that changes its place at most.
LEMMA GotoFences ==
  ASSUME Locks, Fences, NEW p \in Procs, Inside(proc[p]), NEW pc, pc \notin {"prune", "snapshot"},
         \A q \in Procs : q # p => proc'[q] = proc[q],
         proc'[p].cmd = proc[p].cmd, proc'[p].seen = proc[p].seen, proc'[p].pc = pc,
         UNCHANGED <<config, eras, writable, resource, unfenced>>,
         Runs(proc[p]) => \A n \in Nonces : \A i :
           cache.vis.crid[i] = n => cache'.vis.crid[i] = n,
         Runs(proc'[p]) => Runs(proc[p]),
         \A c \in cache'.disk : Safe(c)'
  PROVE  Fences'
<1>1. lock.state = p /\ Follows(p)
  BY InsideSafe
<1>2. Follows(p)'
  BY <1>1 DEF Follows, At, Revoked
<1> QED BY <1>1, <1>2, FencesStep

\* A command inside the transaction saves a cache that is safe, and keeps the
\* bindings a run goes by.
LEMMA SaveFences ==
  ASSUME Locks, Fences, NEW p \in Procs, Inside(proc[p]), NEW end \in SaveEnds,
         NEW new \in Content, Safe(new), cache' = Saved(cache, new, end),
         UNCHANGED <<config, eras, writable, resource, native, unfenced>>,
         \/ proc' = [proc EXCEPT ![p] = Idle]
         \/ /\ end = "ok" /\ \A q \in Procs : q # p => proc'[q] = proc[q]
            /\ proc'[p].cmd = proc[p].cmd /\ proc'[p].seen = proc[p].seen
            /\ proc'[p].pc \in {"resolve", "delete"} /\ (Runs(proc'[p]) => Runs(proc[p])),
         Runs(proc[p]) => \A n \in Nonces : \A i : cache.vis.crid[i] = n => new.crid[i] = n
  PROVE  Fences'
<1>1. lock.state = p /\ FilesShaped
  BY InsideSafe
<1>2. cache'.disk \subseteq cache.disk \union {new} /\ (end = "ok" => cache'.vis = new)
  BY <1>1, OnDisk
<1>3. CASE proc' = [proc EXCEPT ![p] = Idle]
  BY <1>1, <1>2, <1>3, FencesEnd
<1>4. CASE /\ end = "ok" /\ \A q \in Procs : q # p => proc'[q] = proc[q]
           /\ proc'[p].cmd = proc[p].cmd /\ proc'[p].seen = proc[p].seen
           /\ proc'[p].pc \in {"resolve", "delete"} /\ (Runs(proc'[p]) => Runs(proc[p]))
  <2>1. \A c \in cache'.disk : Safe(c)'
    BY <1>2, SafeStays DEF Fences
  <2>2. PICK pc : pc = proc'[p].pc /\ pc \notin {"prune", "snapshot"}
    BY <1>4
  <2> QED BY <1>2, <1>4, <2>1, <2>2, GotoFences
<1> QED BY <1>3, <1>4

--------------------------------------------------------------------------------
\* The device that may enrol makes no cache of another worth.
LEMMA OpensFence ==
  ASSUME Locks, Fences, NEW p \in Procs, RunOpen(p)
  PROVE  Fences'
<1>1. /\ proc[p].cmd = "run" /\ proc[p].pc = "open" /\ Goto(p, "bind")
      /\ UNCHANGED <<cache, config, eras, writable, resource, unfenced>> /\ proc \in [Procs -> Command]
  BY DEF RunOpen, At, Locks, Shape, CommandsShaped
<1>2. Inside(proc[p]) /\ Runs(proc[p])
  BY <1>1 DEF Inside, Runs, RunSteps
<1>3. cache.disk = {cache.vis} /\ FailsClosed(cache.vis) /\ Unspent(cache.vis) /\ proc[p] \in Command
  BY <1>2, InsideSafe
<1>4. PICK c : c = cache.vis
  OBVIOUS
<1>5. FailsClosed(c)' /\ Unspent(c)'
  <2>1. FailsClosed(c) /\ Unspent(c)
    BY <1>3, <1>4
  <2> QED BY <1>1, <2>1 DEF FailsClosed, Routes, Unspent, Revoked, Created
<1>6. \A d \in cache'.disk : Safe(d)'
  BY <1>1, <1>3, <1>4, <1>5 DEF Safe
<1>7. /\ \A q \in Procs : q # p => proc'[q] = proc[q]
      /\ proc'[p].cmd = proc[p].cmd /\ proc'[p].seen = proc[p].seen /\ proc'[p].pc = "bind"
  BY <1>1, <1>3 DEF Goto, Command
<1> QED BY <1>1, <1>2, <1>6, <1>7, GotoFences

\* The device bound in the cache names no resource.
LEMMA BindsFence ==
  ASSUME Locks, Fences, NEW p \in Procs, RunBind(p)
  PROVE  Fences'
<1> DEFINE c == cache.vis  new == [c EXCEPT !.device = native]
<1>1. /\ proc[p].cmd = "run" /\ proc[p].pc = "bind" /\ proc \in [Procs -> Command]
      /\ UNCHANGED <<config, eras, writable, resource, native, unfenced>>
  BY DEF RunBind, At, history, Locks, Shape, CommandsShaped
<1>2. Inside(proc[p]) /\ Runs(proc[p])
  BY <1>1 DEF Inside, Runs, RunSteps
<1>3. /\ c # Absent /\ c \in Content /\ FailsClosed(c) /\ Unspent(c) /\ lock.state = p /\ FilesShaped
      /\ native \in Nat /\ proc[p] \in Command
  BY <1>2, InsideSafe DEF FilesShaped
<1>4. new \in Content /\ new.crid = c.crid /\ new.pending = c.pending /\ new # Absent
  <2>1. new \in Content /\ new.crid = c.crid /\ new.pending = c.pending
    BY <1>3 DEF Content
  <2> QED BY <2>1, AbsentIsNoContent
<1> HIDE DEF new
<1>5. Safe(new)
  BY <1>3, <1>4 DEF Safe, FailsClosed, Unspent
<1>6. Goto(p, "resolve") => /\ \A q \in Procs : q # p => proc'[q] = proc[q]
                            /\ proc'[p].cmd = proc[p].cmd /\ proc'[p].seen = proc[p].seen
                            /\ proc'[p].pc = "resolve"
  BY <1>1, <1>3 DEF Goto, Command
<1>7. CASE Goto(p, "resolve") /\ UNCHANGED cache
  <2>1. \A d \in cache'.disk : Safe(d)'
    BY <1>1, <1>7, SafeStays DEF Fences
  <2> QED BY <1>1, <1>2, <1>6, <1>7, <2>1, GotoFences
<1>8. CASE SaveCache(p, new, "resolve")
  <2>1. PICK end \in SaveEnds : cache' = Saved(cache, new, end) /\ IF end = "ok" THEN Goto(p, "resolve") ELSE End(p)
    BY <1>8 DEF SaveCache
  <2> QED BY <1>1, <1>2, <1>4, <1>5, <1>6, <2>1, SaveFences DEF End
<1>9. CASE End(p) /\ UNCHANGED cache
  BY <1>1, <1>9, FencesEnd DEF End
<1> QED BY <1>7, <1>8, <1>9 DEF RunBind, new

--------------------------------------------------------------------------------
\* A new request is of the route's lifetime, and that has no resource yet: an
\* active one would be named in the cache, and one that was revoked is bound
\* there.
LEMMA DrawnFences ==
  ASSUME Locks, Memory, Fences, NEW p \in Procs, At(p, "run", "resolve"), NEW i \in Routed(p),
         NEW request \in Requests(cache.vis.crid[i]), cache.vis.pending[i] = NoRequest,
         resource' = Drawn(p, i, request), UNCHANGED <<config, eras, native, lost, unfenced>>,
         NEW new, new = [cache.vis EXCEPT !.pending[i] = request]
  PROVE  /\ \A n \in Nonces : resource'[n].status # "unused" => resource'[n].era \in 1..eras[resource'[n].id]
         /\ \A n \in Nonces : Revoked(n)' => Revoked(n) /\ resource'[n] = resource[n]
         /\ OneResourcePerRoute' /\ \A d \in {cache.vis, new} : FailsClosed(d)' /\ Unspent(d)'
<1> DEFINE c == cache.vis
<1>1. Inside(proc[p]) /\ Runs(proc[p])
  BY DEF At, Inside, Runs, RunSteps
<1>2. /\ c # Absent /\ c \in Content /\ Continuous(c) /\ FailsClosed(c) /\ Unspent(c) /\ Follows(p)
      /\ proc[p] \in Command /\ i \in Ids
  BY <1>1, InsideSafe DEF Routed
<1>3. Good(c) /\ Sensible(c) /\ Remembers(c)
  BY <1>2, VisibleIsGood DEF Good
<1>4. /\ c.crid[i] \in Nat /\ resource \in [Nonces -> Resource]
      /\ IF c.crid[i] = 0 THEN request.nonce \in Nonces /\ resource[request.nonce].status = "unused"
                          ELSE request.nonce = 0
  <2>1. c.crid[i] \in Nat /\ Shape
    BY <1>2 DEF Content, Locks
  <2> QED BY <1>2, <2>1, Drawing DEF Shape, RestShaped
<1>5. /\ \A n \in Nonces : resource[n].status # "unused" => resource'[n] = resource[n]
      /\ Created' = Created
      /\ request.nonce # 0 => resource'[request.nonce].status = "none" /\ resource'[request.nonce].id = i
  BY <1>2, <1>4, DrawnMemory
<1>6. /\ request.nonce # 0 => resource'[request.nonce].era = proc[p].seen[i]
      /\ \A n \in Nonces : n # request.nonce => resource'[n] = resource[n]
  BY <1>4 DEF Drawn
<1>7. proc[p].seen[i] \in 1..eras[i]
  <2>1. proc[p].seen[i] # 0 /\ proc[p].seen[i] \in Nat /\ proc[p].seen[i] <= eras[i] /\ eras[i] \in Nat
    BY <1>2 DEF Routed, Fences, Counted, Command, Locks, Shape, RestShaped
  <2> QED BY <2>1
<1>8. ASSUME NEW n \in Nonces, resource'[n].status # "unused" PROVE resource'[n].era \in 1..eras[resource'[n].id]
  <2>1. CASE n = request.nonce
    <3>1. n # 0
      BY IdentitiesAssumption DEF Nonces
    <3> QED BY <1>5, <1>6, <1>7, <2>1, <3>1
  <2>2. CASE n # request.nonce
    BY <1>6, <1>8, <2>2 DEF Fences, Counted
  <2> QED BY <2>1, <2>2
<1>9. ASSUME NEW n \in Nonces, Revoked(n)' PROVE Revoked(n) /\ resource'[n] = resource[n]
  <2>1. n \in Created' /\ n \in Created
    BY <1>5, <1>9 DEF Revoked, Created
  <2> QED BY <1>5, <1>9, <2>1 DEF Revoked, Created
<1>10. \A m \in Created : resource'[m] = resource[m] /\ m \in Nonces
  BY <1>5 DEF Created
<1>11. OneResourcePerRoute'
  BY <1>5, <1>10 DEF Fences, OneResourcePerRoute
<1>12. ASSUME NEW m \in Created, resource[m].id = i, request.nonce # 0, <<i, proc[p].seen[i]>> \notin unfenced
       PROVE  resource[m].era # proc[p].seen[i]
  <2>1. c.crid[i] = 0 /\ m # 0 /\ m \in Nonces
    BY <1>4, <1>10, <1>12, IdentitiesAssumption DEF Nonces
  <2>2. CASE resource[m].status = "active"
    BY <1>3, <1>10, <1>12, <2>1, <2>2 DEF Remembers, NoRequest
  <2>3. CASE Revoked(m)
    BY <1>1, <1>2, <1>12, <2>1, <2>3 DEF Follows
  <2> QED BY <2>2, <2>3, <1>12 DEF Created, Revoked
<1>13. PICK old : old = c
  OBVIOUS
<1>14. /\ old # Absent /\ Sensible(old) /\ FailsClosed(old) /\ Unspent(old)
       /\ new # Absent /\ new.crid = old.crid /\ new.pending[i] = request
       /\ \A j \in Ids : j # i => new.pending[j] = old.pending[j]
  <2>1. new.crid = c.crid /\ new.pending[i] = request /\ \A j \in Ids : j # i => new.pending[j] = c.pending[j]
    BY <1>2 DEF Content
  <2>2. new # Absent
    <3>1. request \in Request
      BY <1>2, <1>4, Drawing DEF Locks, Shape
    <3>2. new \in Content
      BY <1>2, <3>1 DEF Content
    <3> QED BY <3>2, AbsentIsNoContent
  <2> QED BY <1>2, <1>3, <1>13, <2>1, <2>2
<1>15. FailsClosed(old)' /\ FailsClosed(new)'
  <2>1. ASSUME NEW n \in Nonces, Revoked(n)', Routes(n)'
        PROVE  old.crid[resource'[n].id] = n
    BY <1>9, <1>14, <2>1 DEF FailsClosed, Routes
  <2> QED BY <1>14, <2>1 DEF FailsClosed
<1>16. ASSUME NEW j \in Ids, old.pending[j].nonce # 0, resource'[old.pending[j].nonce].status = "none",
              NEW m \in Created, resource'[m].id = j
       PROVE  \/ resource'[m].era # resource'[old.pending[j].nonce].era
              \/ <<j, resource'[old.pending[j].nonce].era>> \in unfenced
  <2>1. /\ old.pending[j].nonce \in Nonces /\ resource[old.pending[j].nonce].status # "unused"
        /\ resource'[old.pending[j].nonce] = resource[old.pending[j].nonce]
    BY <1>5, <1>14, <1>16 DEF Sensible
  <2> QED BY <1>10, <1>14, <1>16, <2>1 DEF Unspent
<1>17. Unspent(old)'
  BY <1>5, <1>16 DEF Unspent
<1>18. Unspent(new)'
  <2>1. ASSUME NEW j \in Ids, new.pending[j].nonce # 0, resource'[new.pending[j].nonce].status = "none",
               NEW m \in Created, resource'[m].id = j
        PROVE  \/ resource'[m].era # resource'[new.pending[j].nonce].era
               \/ <<j, resource'[new.pending[j].nonce].era>> \in unfenced
    <3>1. CASE j # i
      BY <1>14, <1>16, <2>1, <3>1
    <3>2. CASE j = i
      BY <1>6, <1>10, <1>12, <1>14, <2>1, <3>2
    <3> QED BY <3>1, <3>2
  <2> QED BY <1>5, <2>1 DEF Unspent
<1> QED BY <1>8, <1>9, <1>11, <1>13, <1>15, <1>17, <1>18

\* A request is saved and sent for a route of the configuration the run saw.
LEMMA RequestsFence ==
  ASSUME Locks, Memory, Fences, NEW p \in Procs, NEW i \in Ids, RunRequest(p, i)
  PROVE  Fences'
<1> DEFINE c == cache.vis
<1>1. /\ At(p, "run", "resolve") /\ i \in Routed(p) /\ UNCHANGED <<config, native, eras, writable, lost, unfenced>>
      /\ proc \in [Procs -> Command]
  BY DEF RunRequest, history, Locks, Shape, CommandsShaped
<1>2. Inside(proc[p]) /\ Runs(proc[p]) /\ proc[p].cmd = "run"
  BY <1>1 DEF Inside, Runs, RunSteps, At
<1>3. /\ c # Absent /\ c \in Content /\ lock.state = p /\ FilesShaped /\ Follows(p)
      /\ cache.disk = {c} /\ proc[p] \in Command
  BY <1>2, InsideSafe
<1>4. ASSUME NEW request, Ask(p, i, request)
      PROVE  /\ \A q \in Procs : q # p => proc'[q] = proc[q]
             /\ proc'[p].cmd = proc[p].cmd /\ proc'[p].seen = proc[p].seen /\ proc'[p].pc = "wait"
  BY <1>1, <1>3, <1>4 DEF Ask, Command
<1>5. CASE UNCHANGED <<cache, resource>> /\ End(p)
  BY <1>1, <1>5, FencesEnd DEF End
<1>6. CASE UNCHANGED <<cache, resource>> /\ Ask(p, i, c.pending[i])
  <2>1. \A d \in cache'.disk : Safe(d)'
    BY <1>1, <1>6, SafeStays DEF Fences
  <2>2. /\ \A q \in Procs : q # p => proc'[q] = proc[q]
        /\ proc'[p].cmd = proc[p].cmd /\ proc'[p].seen = proc[p].seen /\ proc'[p].pc = "wait"
    BY <1>4, <1>6
  <2> QED BY <1>1, <1>2, <1>6, <2>1, <2>2, GotoFences
<1>7. ASSUME NEW request \in Requests(c.crid[i]), NEW end \in SaveEnds, c.pending[i] = NoRequest,
             cache' = Saved(cache, [c EXCEPT !.pending[i] = request], end),
             resource' = IF end = "write" THEN resource ELSE Drawn(p, i, request),
             IF end = "ok" THEN Ask(p, i, request) ELSE End(p)
      PROVE  Fences'
  <2> DEFINE new == [c EXCEPT !.pending[i] = request]
  <2>1. new.crid = c.crid
    BY <1>3 DEF Content
  <2>2. cache' = Saved(cache, new, end) /\ end \in {"ok", "write", "sync"}
    BY <1>7, Endings
  <2>3. PICK fresh : fresh = new
    OBVIOUS
  <2> HIDE DEF new
  <2>4. /\ end = "write" => cache'.disk = cache.disk
        /\ end # "write" => cache'.vis = new /\ cache'.disk \subseteq {c, new}
    BY <1>3, <2>2 DEF Saved
  <2>5. CASE end = "write"
    <3>1. End(p) /\ resource' = resource /\ cache'.disk \subseteq cache.disk \union {c} /\ Safe(c)
      BY <1>3, <1>7, <2>4, <2>5 DEF Fences
    <3> QED BY <1>1, <1>3, <3>1, FencesEnd DEF End
  <2>6. CASE end # "write"
    <3>1. resource' = Drawn(p, i, request)
      BY <1>7, <2>6
    <3>2. /\ \A n \in Nonces : resource'[n].status # "unused" => resource'[n].era \in 1..eras[resource'[n].id]
          /\ \A n \in Nonces : Revoked(n)' => Revoked(n) /\ resource'[n] = resource[n]
          /\ OneResourcePerRoute' /\ \A d \in {c, fresh} : FailsClosed(d)' /\ Unspent(d)'
      BY <1>1, <1>7, <2>3, <3>1, DrawnFences DEF new
    <3>3. \A d \in cache'.disk : Safe(d)'
      BY <2>3, <2>4, <2>6, <3>2 DEF Safe
    <3>4. CASE end = "ok"
      <4>1. Ask(p, i, request)
        BY <1>7, <3>4
      <4>2. /\ \A q \in Procs : q # p => proc'[q] = proc[q]
            /\ proc'[p].cmd = "run" /\ proc'[p].seen = proc[p].seen /\ proc'[p].pc = "wait"
        BY <1>2, <1>4, <4>1
      <4>3. Follows(p)'
        <5>1. cache'.vis.crid = c.crid
          BY <2>1, <2>4, <2>6
        <5>2. ASSUME NEW n \in Nonces, Revoked(n)', proc[p].seen[resource'[n].id] = resource'[n].era,
                     <<resource'[n].id, resource'[n].era>> \notin unfenced
              PROVE  cache'.vis.crid[resource'[n].id] = n
          BY <1>2, <1>3, <3>2, <5>1, <5>2 DEF Follows
        <5> QED BY <1>1, <1>2, <1>3, <4>2, <5>2 DEF Follows, At
      <4> QED BY <1>1, <1>3, <3>2, <3>3, <4>2, <4>3, FencesGo
    <3>5. CASE end # "ok"
      <4>1. proc'[p] = Idle /\ \A q \in Procs : q # p => proc'[q] = proc[q]
        BY <1>1, <1>7, <3>5 DEF End
      <4>2. Follows(p)'
        BY <4>1 DEF Follows, At, Runs, Idle
      <4> QED BY <1>1, <1>3, <3>2, <3>3, <4>1, <4>2, FencesGo
    <3> QED BY <3>4, <3>5
  <2> QED BY <2>5, <2>6
<1> QED BY <1>5, <1>6, <1>7 DEF RunRequest

\* What is recorded replaces no binding.
LEMMA RecordedSafe ==
  ASSUME Locks, Fences, NEW p \in Procs, Inside(proc[p]), NEW i \in Ids, NEW crid \in Nat,
         cache.vis.crid[i] \in {0, crid}
  PROVE  /\ Recorded(i, crid) \in Content /\ Safe(Recorded(i, crid))
         /\ \A n \in Nonces : \A j : cache.vis.crid[j] = n => Recorded(i, crid).crid[j] = n
<1> DEFINE c == cache.vis  new == [c EXCEPT !.crid[i] = crid, !.pending[i] = NoRequest]
<1>1. c # Absent /\ c \in Content /\ FailsClosed(c) /\ Unspent(c)
  BY InsideSafe
<1>2. new \in Content /\ new # Absent
  <2>1. new \in Content
    BY <1>1, Contents
  <2> QED BY <2>1, AbsentIsNoContent
<1>3. /\ new.crid = [c.crid EXCEPT ![i] = crid] /\ new.pending[i].nonce = 0
      /\ \A j \in Ids : j # i => new.pending[j] = c.pending[j]
  BY <1>1 DEF Content, NoRequest
<1>4. Recorded(i, crid) = new
  BY DEF Recorded
<1> HIDE DEF new
<1>5. ASSUME NEW n \in Nonces, NEW j, c.crid[j] = n PROVE new.crid[j] = n
  <2>1. n # 0 /\ c.crid \in [Ids -> Nat]
    BY <1>1, IdentitiesAssumption DEF Nonces, Content
  <2> QED BY <1>3, <1>5, <2>1
<1>6. FailsClosed(new)
  BY <1>1, <1>2, <1>5 DEF FailsClosed
<1>7. Unspent(new)
  <2>1. ASSUME NEW j \in Ids, new.pending[j].nonce # 0 PROVE new.pending[j] = c.pending[j]
    BY <1>3, <2>1
  <2> QED BY <1>1, <2>1 DEF Unspent
<1> QED BY <1>2, <1>4, <1>5, <1>6, <1>7 DEF Safe

\* An answer that names another resource than the one bound ends the command.
LEMMA AnswersFence ==
  ASSUME Locks, Fences, NEW p \in Procs, RunAnswer(p)
  PROVE  Fences'
<1> DEFINE s == proc[p]  i == s.id  r == s.reply  c == cache.vis
           crid == IF r = Refused THEN c.crid[i] ELSE r
<1>1. /\ s.cmd = "run" /\ s.pc = "wait" /\ UNCHANGED <<config, eras, writable, native, resource, unfenced>>
      /\ s \in Command /\ proc \in [Procs -> Command] /\ i \in Ids
  BY DEF RunAnswer, At, history, Locks, Shape, CommandsShaped, Shaped
<1>2. Inside(s) /\ Runs(s) /\ c \in Content
  <2>1. Inside(s) /\ Runs(s)
    BY <1>1 DEF Inside, Runs, RunSteps
  <2> QED BY <2>1, InsideSafe
<1>3. CASE End(p) /\ UNCHANGED cache
  BY <1>1, <1>3, FencesEnd DEF End
<1>4. ASSUME ~(r # Refused /\ c.crid[i] \notin {0, r}), NEW end \in SaveEnds,
             cache' = Saved(cache, Recorded(i, crid), end),
             IF end = "ok" /\ r # Refused /\ s.asked # Routed(p)
             THEN proc' = [proc EXCEPT ![p].pc = "resolve", ![p].reply = 0]
             ELSE End(p)
      PROVE  Fences'
  <2>1. crid \in Nat /\ c.crid[i] \in {0, crid}
    BY <1>1, <1>2, <1>4 DEF Command, Content
  <2> DEFINE new == Recorded(i, crid)
  <2>2. /\ new \in Content /\ Safe(new) /\ cache' = Saved(cache, new, end)
        /\ \A n \in Nonces : \A j : c.crid[j] = n => new.crid[j] = n
    BY <1>1, <1>2, <1>4, <2>1, RecordedSafe
  <2> HIDE DEF new
  <2>3. \/ proc' = [proc EXCEPT ![p] = Idle]
        \/ /\ end = "ok" /\ \A q \in Procs : q # p => proc'[q] = proc[q]
           /\ proc'[p].cmd = s.cmd /\ proc'[p].seen = s.seen /\ proc'[p].pc = "resolve"
    BY <1>1, <1>4 DEF End, Command
  <2> QED BY <1>1, <1>2, <2>2, <2>3, SaveFences
<1> QED BY <1>3, <1>4 DEF RunAnswer

--------------------------------------------------------------------------------
\* What the service still holds is bound in the cache before it is deleted.
LEMMA InspectsFence ==
  ASSUME Locks, Fences, NEW p \in Procs, RemoveInspect(p)
  PROVE  Fences'
<1> DEFINE s == proc[p]  i == s.id  c == cache.vis
<1>1. /\ s.cmd = "remove" /\ s.pc = "inspect" /\ UNCHANGED <<config, eras, writable, native, resource, unfenced>>
      /\ s \in Command /\ proc \in [Procs -> Command] /\ i \in Ids
  BY DEF RemoveInspect, At, history, Locks, Shape, CommandsShaped, Shaped
<1>2. Inside(s) /\ ~Runs(s)
  BY <1>1 DEF Inside, Removes, RemoveSteps, Runs
<1>3. ASSUME NEW pc \in {"delete", "edit"}, Goto(p, pc)
      PROVE  /\ \A q \in Procs : q # p => proc'[q] = proc[q]
             /\ proc'[p].cmd = s.cmd /\ proc'[p].seen = s.seen /\ proc'[p].pc = pc /\ ~Runs(proc'[p])
  BY <1>1, <1>3 DEF Goto, Command, Runs
<1>4. ASSUME NEW pc \in {"delete", "edit"}, Goto(p, pc), UNCHANGED cache PROVE Fences'
  <2>1. \A d \in cache'.disk : Safe(d)'
    BY <1>1, <1>4, SafeStays DEF Fences
  <2> QED BY <1>1, <1>2, <1>3, <1>4, <2>1, GotoFences
<1>5. ASSUME NEW n \in Found(p), SaveCache(p, Recorded(i, n), "delete") PROVE Fences'
  <2>1. n \in Nat /\ c.crid[i] \in {0, n}
    BY IdentitiesAssumption, <1>5 DEF Found, Nonces
  <2> DEFINE new == Recorded(i, n)
  <2>2. new \in Content /\ Safe(new)
    BY <1>1, <1>2, <2>1, RecordedSafe
  <2>3. PICK end \in SaveEnds : cache' = Saved(cache, new, end) /\ IF end = "ok" THEN Goto(p, "delete") ELSE End(p)
    BY <1>5 DEF SaveCache
  <2> HIDE DEF new
  <2> QED BY <1>1, <1>2, <1>3, <2>2, <2>3, SaveFences DEF End
<1> QED BY <1>4, <1>5 DEF RemoveInspect

\* The deletion is asked for, and confirmed.
LEMMA DeletesFence ==
  ASSUME Locks, Fences, NEW p \in Procs, RemoveDelete(p) \/ RemoveConfirm(p)
  PROVE  Fences'
<1> DEFINE s == proc[p]
<1>1. /\ s.cmd = "remove" /\ s.pc \in {"delete", "confirm"} /\ s \in Command /\ proc \in [Procs -> Command]
      /\ UNCHANGED <<config, cache, eras, writable, native, resource, unfenced>>
  BY DEF RemoveDelete, RemoveConfirm, At, files, history, Locks, Shape, CommandsShaped
<1>2. Inside(s) /\ ~Runs(s)
  BY <1>1 DEF Inside, Removes, RemoveSteps, Runs
<1>3. PICK pc \in {"confirm", "edit"} : proc' = [proc EXCEPT ![p].pc = pc]
  BY DEF RemoveDelete, RemoveConfirm, Goto
<1>4. /\ \A q \in Procs : q # p => proc'[q] = proc[q]
      /\ proc'[p].cmd = s.cmd /\ proc'[p].seen = s.seen /\ proc'[p].pc = pc /\ ~Runs(proc'[p])
  BY <1>1, <1>3 DEF Command, Runs
<1>5. \A c \in cache'.disk : Safe(c)'
  BY <1>1, SafeStays DEF Fences
<1> QED BY <1>1, <1>2, <1>4, <1>5, GotoFences

\* The identity leaves the cache after its route.
LEMMA PrunesFence ==
  ASSUME Locks, Memory, Fences, NEW p \in Procs, RemovePrune(p)
  PROVE  Fences'
<1> DEFINE s == proc[p]  i == s.id  c == cache.vis
           pruned == [c EXCEPT !.crid[i] = 0, !.pending[i] = NoRequest]
<1>1. /\ At(p, "remove", "prune") /\ End(p) /\ UNCHANGED <<config, eras, writable, native, resource>>
      /\ FilesShaped /\ proc \in [Procs -> Command] /\ Shaped(s)
  BY DEF RemovePrune, Locks, Shape, CommandsShaped
<1>2. Inside(s) /\ i \in Ids
  BY <1>1 DEF At, Inside, Removes, RemoveSteps, Shaped
<1>3. /\ lock.state = p /\ c # Absent /\ c \in Content /\ cache.disk = {c}
      /\ FailsClosed(c) /\ Unspent(c) /\ Follows(p) /\ config.vis[i] = 0
  BY <1>1, <1>2, InsideSafe DEF Follows
<1>4. /\ proc'[p] = Idle /\ \A q \in Procs : q # p => proc'[q] = proc[q]
  BY <1>1 DEF End
<1>5. Follows(p)'
  BY <1>4 DEF Follows, At, Runs, Idle
<1>6. CASE UNCHANGED <<cache, unfenced>>
  <2>1. \A d \in cache'.disk : Safe(d)'
    BY <1>1, <1>6, SafeStays DEF Fences
  <2> QED BY <1>1, <1>3, <1>4, <1>5, <1>6, <2>1, FencesStep
<1>7. ASSUME NEW first \in SaveEnds, NEW second \in SaveEnds,
             cache' = IF first = "ok" THEN Saved(cache, pruned, first)
                      ELSE Saved(Saved(cache, pruned, first), c, second),
             unfenced' = IF first = "write" THEN unfenced ELSE unfenced \union MayReturn(i)
      PROVE  Fences'
  <2>1. unfenced \subseteq unfenced' /\ first \in {"ok", "write", "sync"} /\ second \in {"ok", "write", "sync"}
    BY <1>7, Endings
  <2>2. pruned \in Content /\ pruned # Absent
    <3>1. 0 \in Nat /\ c \in Content
      BY <1>3
    <3> HIDE DEF c
    <3>2. pruned \in Content
      BY <3>1, Contents
    <3> QED BY <3>2, AbsentIsNoContent
  <2>3. /\ \A j \in Ids : j # i => pruned.crid[j] = c.crid[j] /\ pruned.pending[j] = c.pending[j]
        /\ pruned.pending[i].nonce = 0
    BY <1>2, <1>3 DEF Content, NoRequest
  <2> HIDE DEF pruned
  <2>3a. PICK new : new = pruned
    OBVIOUS
  <2>4. ASSUME first # "write" PROVE FailsClosed(new)'
    <3> SUFFICES ASSUME NEW n \in Nonces, Revoked(n)', Routes(n)'
                 PROVE  new.crid[resource[n].id] = n
      BY <1>1, <2>2, <2>3a DEF FailsClosed
    <3>1. /\ resource[n].id \in Ids /\ resource[n].era \in 1..eras[resource[n].id]
          /\ eras[resource[n].id] \in Nat /\ Revoked(n)
      BY <1>1 DEF Memory, Served, Fences, Counted, Revoked, Locks, Shape, RestShaped
    <3>2. Routes(n)
      BY <1>1, <2>1 DEF Routes
    <3>3. resource[n].id # i
      <4>1. SUFFICES ASSUME resource[n].id = i PROVE FALSE
        OBVIOUS
      <4>2. PICK f \in config.disk : f[i] = resource[n].era
        BY <3>2, <4>1 DEF Routes
      <4>3. f[i] # 0 /\ f # config.vis
        BY <1>3, <3>1, <4>2
      <4>4. <<i, f[i]>> \in MayReturn(i)
        BY <4>2, <4>3 DEF MayReturn
      <4>5. <<i, resource[n].era>> \in unfenced'
        BY <1>7, <2>4, <4>2, <4>4
      <4> QED BY <1>1, <4>1, <4>5 DEF Routes
    <3> QED BY <1>3, <2>3, <2>3a, <3>1, <3>2, <3>3 DEF FailsClosed
  <2>5. Unspent(new)'
    <3>1. ASSUME NEW j \in Ids, new.pending[j].nonce # 0 PROVE new.pending[j] = c.pending[j]
      BY <2>3, <2>3a, <3>1
    <3>2. Unspent(new)
      BY <1>3, <3>1 DEF Unspent
    <3> QED BY <1>1, <2>1, <3>2 DEF Unspent, Created
  <2>6. cache'.disk \subseteq cache.disk \union (IF first = "write" THEN {} ELSE {new})
    BY <1>3, <1>7, <2>1, <2>3a DEF Saved
  <2>7. ASSUME NEW d \in cache'.disk PROVE Safe(d)'
    <3>1. CASE d \in cache.disk
      BY <1>1, <2>1, <3>1, SafeStays DEF Fences
    <3>2. CASE first # "write" /\ d = new
      BY <2>4, <2>5, <3>2 DEF Safe
    <3> QED BY <2>6, <3>1, <3>2
  <2> QED BY <1>1, <1>3, <1>4, <1>5, <2>1, <2>7, FencesStep
<1> QED BY <1>6, <1>7 DEF RemovePrune

--------------------------------------------------------------------------------
\* The service answers the command that waits, and changes its resources as the
\* request it made allows.
LEMMA ServeFences ==
  ASSUME Locks, Fences, NEW p \in Procs, Inside(proc[p]),
         UNCHANGED <<config, eras, writable, cache, native, unfenced>>,
         \A q \in Procs : /\ proc'[q].cmd = proc[q].cmd /\ proc'[q].pc = proc[q].pc
                          /\ proc'[q].id = proc[q].id /\ proc'[q].seen = proc[q].seen
                          /\ proc'[q].stale = proc[q].stale,
         \A n \in Nonces : resource'[n].id = resource[n].id /\ resource'[n].era = resource[n].era
                           /\ (resource[n].status = "unused" => resource'[n] = resource[n]),
         \A n \in Nonces : Revoked(n)' => Revoked(n) \/ (~Runs(proc[p]) /\ cache.vis.crid[resource[n].id] = n),
         OneResourcePerRoute', Unspent(cache.vis)'
  PROVE  Fences'
<1>1. /\ lock.state = p /\ cache.disk = {cache.vis} /\ cache.vis # Absent
      /\ FailsClosed(cache.vis) /\ Follows(p)
  BY InsideSafe
<1>2. Follows(p)'
  BY <1>1 DEF Follows, At, Runs, Revoked
<1>3. PICK c : c = cache.vis
  OBVIOUS
<1>4. FailsClosed(c)'
  <2>1. c # Absent /\ FailsClosed(c)
    BY <1>1, <1>3
  <2>2. ASSUME NEW n \in Nonces, Revoked(n)', Routes(n)'
        PROVE  c.crid[resource'[n].id] = n
    BY <1>3, <2>1, <2>2 DEF FailsClosed, Routes
  <2> QED BY <2>1, <2>2 DEF FailsClosed
<1>5. \A d \in cache'.disk : Safe(d)'
  BY <1>1, <1>3, <1>4 DEF Safe
<1>6. \A n \in Nonces : resource'[n].status # "unused" => resource'[n].era \in 1..eras[resource'[n].id]
  BY DEF Fences, Counted
<1> QED BY <1>1, <1>2, <1>5, <1>6, FencesGo

\* The service creates a resource for a route without one, and revokes one that
\* the cache names.
LEMMA ServesFence ==
  ASSUME Locks, Memory, Fences, NEW m \in network, ServeAssertion(m) \/ ServeCold(m) \/ ServeDelete(m)
  PROVE  Fences'
<1>1. /\ UNCHANGED <<config, eras, writable, cache, native, unfenced>>
      /\ m \in Message /\ resource \in [Nonces -> Resource] /\ CommandsShaped
  BY DEF ServeAssertion, ServeCold, ServeDelete, files, history, Locks, Shape, RestShaped
<1>2. PICK p \in Procs : Asked(p, m)
  BY DEF Memory, Calls, OneCall
<1>3. Inside(proc[p]) /\ (m.kind = "delete" => ~Runs(proc[p]))
  BY <1>2 DEF Asked, At, Inside, Runs, Removes, RunSteps, RemoveSteps
<1>4. cache.vis # Absent /\ Unspent(cache.vis) /\ Sensible(cache.vis) /\ m.id \in Ids
  BY <1>1, <1>3, InsideSafe, VisibleIsGood DEF Good, Message
<1>5. ASSUME NEW reply, Answer(m, reply)
      PROVE  \A q \in Procs : /\ proc'[q].cmd = proc[q].cmd /\ proc'[q].pc = proc[q].pc
                              /\ proc'[q].id = proc[q].id /\ proc'[q].seen = proc[q].seen
                              /\ proc'[q].stale = proc[q].stale
  BY <1>1, <1>5 DEF Answer, CommandsShaped, Command
<1>6. ASSUME NEW reply, Answer(m, reply), UNCHANGED resource PROVE Fences'
  <2>1. Unspent(cache.vis)' /\ OneResourcePerRoute' /\ \A n \in Nonces : Revoked(n)' => Revoked(n)
    BY <1>1, <1>4, <1>6 DEF Unspent, Created, Fences, OneResourcePerRoute, Revoked
  <2>2. \A n \in Nonces : /\ resource'[n].id = resource[n].id /\ resource'[n].era = resource[n].era
                          /\ resource'[n] = resource[n]
    BY <1>6
  <2> QED BY <1>1, <1>3, <1>5, <1>6, <2>1, <2>2, ServeFences
<1>7. CASE ServeAssertion(m)
  BY <1>6, <1>7 DEF ServeAssertion
<1>8. ASSUME ServeCold(m), resource[m.nonce].status = "none", ActiveOf(m.id) = {},
             resource' = [resource EXCEPT ![m.nonce].status = "active"], Answer(m, m.nonce)
      PROVE  Fences'
  <2>1. m.nonce # 0 /\ cache.vis.pending[m.id].nonce = m.nonce
    BY <1>2, <1>8 DEF Asked, ServeCold
  <2>2. m.nonce \in Nonces /\ resource[m.nonce].id = m.id
    BY <1>4, <2>1 DEF Sensible
  <2>3. /\ resource'[m.nonce].status = "active"
        /\ resource'[m.nonce].id = m.id /\ resource'[m.nonce].era = resource[m.nonce].era
        /\ \A n \in Nonces : n # m.nonce => resource'[n] = resource[n]
    BY <1>1, <1>8, <2>2 DEF Resource
  <2>4. /\ \A n \in Nonces : resource'[n].id = resource[n].id /\ resource'[n].era = resource[n].era
        /\ \A n \in Nonces : resource[n].status = "unused" => resource'[n] = resource[n]
        /\ \A n \in Nonces : Revoked(n)' => Revoked(n)
        /\ Created' = Created \union {m.nonce}
    BY <1>8, <2>2, <2>3 DEF Revoked, Created
  <2>5. \A n \in Created : resource[n].id = m.id =>
          resource[n].era # resource[m.nonce].era \/ <<m.id, resource[m.nonce].era>> \in unfenced
    BY <1>4, <1>8, <2>1, <2>2 DEF Unspent
  <2>6. OneResourcePerRoute'
    <3>1. Created \subseteq Nonces /\ OneResourcePerRoute
      BY DEF Created, Fences
    <3> QED BY <1>1, <2>2, <2>4, <2>5, <3>1 DEF OneResourcePerRoute
  <2>7. PICK c : c = cache.vis
    OBVIOUS
  <2>8. Unspent(c)'
    <3>1. c # Absent /\ Unspent(c) /\ Sensible(c) /\ c.pending[m.id].nonce = m.nonce
      BY <1>4, <2>1, <2>7
    <3> SUFFICES ASSUME NEW j \in Ids, c.pending[j].nonce # 0, resource'[c.pending[j].nonce].status = "none",
                        NEW n \in Created', resource'[n].id = j
                 PROVE  \/ resource'[n].era # resource'[c.pending[j].nonce].era
                        \/ <<j, resource'[c.pending[j].nonce].era>> \in unfenced
      BY <1>1 DEF Unspent
    <3>2. c.pending[j].nonce \in Nonces /\ c.pending[j].nonce # m.nonce /\ j # m.id
      BY <2>3, <3>1 DEF Sensible
    <3>3. n \in Created /\ resource[n].id = j
      BY <2>2, <2>4, <3>2 DEF Created
    <3> QED BY <2>3, <2>4, <3>1, <3>2, <3>3 DEF Unspent, Created
  <2>9. Unspent(cache.vis)'
    BY <1>1, <2>7, <2>8
  <2> QED BY <1>1, <1>3, <1>5, <1>8, <2>4, <2>6, <2>9, ServeFences
<1>9. CASE ServeCold(m)
  BY <1>6, <1>8, <1>9 DEF ServeCold
<1>10. CASE ServeDelete(m)
  <2>1. /\ m.kind = "delete" /\ UNCHANGED proc
        /\ resource' = [resource EXCEPT ![m.crid].status = "revoked"]
    BY <1>10 DEF ServeDelete
  <2>2. /\ m.crid \in Nonces /\ resource[m.crid].status = "active" /\ resource[m.crid].id = m.id
        /\ cache.vis.crid[m.id] = m.crid
    BY <1>2, <2>1 DEF Asked, ActiveOf
  <2>3. /\ resource'[m.crid].status = "revoked"
        /\ resource'[m.crid].id = resource[m.crid].id /\ resource'[m.crid].era = resource[m.crid].era
        /\ \A n \in Nonces : n # m.crid => resource'[n] = resource[n]
    BY <1>1, <2>1, <2>2 DEF Resource
  <2>4. /\ \A n \in Nonces : resource'[n].id = resource[n].id /\ resource'[n].era = resource[n].era
        /\ \A n \in Nonces : resource[n].status = "unused" => resource'[n] = resource[n]
        /\ \A n \in Nonces : Revoked(n)' => Revoked(n) \/ n = m.crid
        /\ Created' = Created
    BY <2>2, <2>3 DEF Revoked, Created
  <2>5. OneResourcePerRoute'
    <3>1. Created \subseteq Nonces /\ OneResourcePerRoute
      BY DEF Created, Fences
    <3> QED BY <1>1, <2>4, <3>1 DEF OneResourcePerRoute
  <2>6. PICK c : c = cache.vis
    OBVIOUS
  <2>7. Unspent(c)'
    <3>1. c # Absent /\ Unspent(c) /\ Sensible(c)
      BY <1>4, <2>6
    <3> SUFFICES ASSUME NEW j \in Ids, c.pending[j].nonce # 0, resource'[c.pending[j].nonce].status = "none",
                        NEW n \in Created, resource'[n].id = j
                 PROVE  \/ resource'[n].era # resource'[c.pending[j].nonce].era
                        \/ <<j, resource'[c.pending[j].nonce].era>> \in unfenced
      BY <1>1, <2>4 DEF Unspent
    <3>2. c.pending[j].nonce \in Nonces /\ c.pending[j].nonce # m.crid
      BY <2>3, <3>1 DEF Sensible
    <3> QED BY <2>3, <2>4, <3>1, <3>2 DEF Unspent, Created
  <2>8. Unspent(cache.vis)'
    BY <1>1, <2>6, <2>7
  <2> QED BY <1>1, <1>3, <2>1, <2>2, <2>4, <2>5, <2>8, ServeFences
<1> QED BY <1>7, <1>9, <1>10

--------------------------------------------------------------------------------
\* The host loses power: whatever of the two files is on disk is safe.
LEMMA PowerLossFences ==
  ASSUME Locks, Fences, PowerLoss
  PROVE  Fences'
<1>1. /\ UNCHANGED <<native, resource, eras, writable, unfenced>>
      /\ cache'.disk \subseteq cache.disk /\ \A p \in Procs : proc'[p] = Idle
      /\ config'.disk \subseteq config.disk
  BY DEF PowerLoss, history
<1>2. \A p \in Procs, i \in Ids : proc'[p].seen[i] <= eras'[i]
  BY <1>1 DEF Idle, Locks, Shape, RestShaped
<1>3. Counted'
  BY <1>1, <1>2 DEF Fences, Counted
<1>4. \A p \in Procs : Follows(p)'
  BY <1>1 DEF Follows, At, Runs, Idle
<1>5. OneResourcePerRoute'
  BY <1>1 DEF Fences, OneResourcePerRoute, Created
<1>6. ASSUME NEW c \in cache'.disk PROVE Safe(c)'
  <2>1. Safe(c)
    BY <1>1 DEF Fences
  <2>2. FailsClosed(c) => FailsClosed(c)'
    BY <1>1 DEF FailsClosed, Routes, Revoked
  <2>3. (Unspent(c) => Unspent(c)') /\ (Continuous(c)' => Continuous(c))
    BY <1>1 DEF Unspent, Created, Continuous, HasContinuity, Named
  <2> QED BY <2>1, <2>2, <2>3 DEF Safe
<1> QED BY <1>3, <1>4, <1>5, <1>6 DEF Fences

\* One file is lost: a cache that is left is as safe as before, and without a
\* cache no route has a resource that was revoked unless native state is there
\* to stop the next command.
LEMMA LoseFences ==
  ASSUME Locks, Memory, Fences, Lose
  PROVE  Fences'
<1>1. /\ lock.state = None /\ ~lost /\ UNCHANGED <<config, proc, resource, eras, writable, unfenced>>
      /\ \/ native' = 0 /\ UNCHANGED cache
         \/ cache.vis # Absent /\ cache' = [vis |-> Absent, disk |-> {Absent}] /\ UNCHANGED native
  BY DEF Lose
<1>2. \A c \in cache.disk : Continuous(c) /\ FailsClosed(c) /\ Unspent(c)
  BY <1>1 DEF Memory, Good, Fences, Safe
<1>3. \A q \in Procs : ~Runs(proc[q])
  <2>1. \A q \in Procs : lock.state # q
    BY <1>1, IdentitiesAssumption
  <2> QED BY <2>1, OnlyHolder DEF Inside
<1>4. \A q \in Procs : Follows(q)'
  BY <1>1, <1>3 DEF Fences, Follows, At, Runs
<1>5. Counted' /\ OneResourcePerRoute'
  BY <1>1 DEF Fences, Counted, OneResourcePerRoute, Created
<1>6. CASE UNCHANGED cache
  <2>1. ASSUME NEW c \in cache.disk PROVE Safe(c)'
    <3>1. FailsClosed(c)' /\ Unspent(c)'
      BY <1>1, <1>2, <2>1 DEF FailsClosed, Routes, Unspent, Revoked, Created
    <3> QED BY <3>1 DEF Safe
  <2> QED BY <1>4, <1>5, <1>6, <2>1 DEF Fences
<1>7. CASE cache.vis # Absent /\ cache' = [vis |-> Absent, disk |-> {Absent}] /\ UNCHANGED native
  <2>1. Continuous(cache.vis) /\ FailsClosed(cache.vis)
    BY <1>2, VisibleIsGood
  <2>2. native = 0 => \A n \in Nonces : Revoked(n) => ~Routes(n)
    <3> SUFFICES ASSUME native = 0, NEW n \in Nonces, Revoked(n), Routes(n)
                 PROVE  FALSE
      OBVIOUS
    <3>1. resource[n].id \in Ids /\ n # 0
      BY IdentitiesAssumption DEF Memory, Served, Revoked, Nonces
    <3>2. cache.vis.crid[resource[n].id] = n
      BY <2>1 DEF FailsClosed
    <3>3. resource[n].id \in Named(cache.vis)
      BY <3>1, <3>2 DEF Named
    <3> QED BY <1>7, <2>1, <3>3 DEF Continuous, HasContinuity
  <2>3. Safe(Absent)'
    BY <1>1, <1>7, <2>2 DEF Safe, Continuous, FailsClosed, Routes, Unspent, Revoked
  <2> QED BY <1>4, <1>5, <1>7, <2>3 DEF Fences
<1> QED BY <1>1, <1>6, <1>7

\* At first no route has a resource.
LEMMA InitFences == Init => Fences
<1> SUFFICES ASSUME Init PROVE Fences
  OBVIOUS
<1>1. /\ \A p \in Procs : proc[p] = Idle
      /\ \A n \in Nonces : resource[n].status = "unused"
      /\ cache.disk = {Absent} /\ config.disk = {config.vis} /\ eras = config.vis
      /\ \A i \in Ids : eras[i] \in {0, 1}
  BY DEF Init
<1>2. Counted
  BY <1>1 DEF Counted, Idle
<1>3. \A p \in Procs : Follows(p)
  BY <1>1 DEF Follows, At, Runs, Idle
<1>4. OneResourcePerRoute /\ Safe(Absent)
  BY <1>1 DEF OneResourcePerRoute, Created, Safe, FailsClosed, Unspent, Revoked
<1> QED BY <1>1, <1>2, <1>3, <1>4 DEF Fences

\* Every step keeps routes and caches together.
LEMMA StepFences ==
  ASSUME Locks, Memory, Fences, [Next]_vars
  PROVE  Fences'
<1>1. CASE UNCHANGED vars
  <2>1. UNCHANGED <<config, cache, native, proc, resource, eras, writable, unfenced>>
    BY <1>1 DEF vars, files, history
  <2>2. \A c \in cache'.disk : Safe(c)'
    BY <2>1, SafeStays DEF Fences
  <2>3. \A p \in Procs : Follows(p)'
    BY <2>1 DEF Fences, Follows, At, Runs, Revoked
  <2> QED BY <2>1, <2>2, <2>3 DEF Fences, Counted, OneResourcePerRoute, Created
<1>2. ASSUME NEW p \in Procs, Step(p) PROVE Fences'
  <2>1. ASSUME NEW i \in Ids, AddLoad(p, i) \/ RunRequest(p, i) \/ RemoveLoad(p, i) PROVE Fences'
    BY <2>1, LoadsFence, RequestsFence
  <2>2. ASSUME RunRead(p) PROVE Fences'
    BY <2>2, LoadsFence DEF RunRead
  <2> QED BY <1>2, <2>1, <2>2, EditsFence, BeginsFence, OpensFence, BindsFence,
             AnswersFence, InspectsFence, DeletesFence, PrunesFence, UncachedFences
          DEF Step
<1>3. ASSUME NEW m \in network, ServeAssertion(m) \/ ServeCold(m) \/ ServeDelete(m) PROVE Fences'
  BY <1>3, ServesFence
<1> QED BY <1>1, <1>2, <1>3, StopFences, PowerLossFences, LoseFences, HostEditFences DEF Next

\* The two files and the commands that go by them keep every route from a
\* resource beside the one it has or had (ensurePendingRequestLocked,
\* removeConnectorSelection).
THEOREM FencesAreKept == "late" \notin Faults /\ Spec => []Fences
<1>1. Locks /\ Memory /\ Fences /\ [Next]_vars => Fences'
  BY StepFences
<1>2. CASE "late" \notin Faults
  BY <1>1, <1>2, InitFences, LocksAreKept, MemoryIsKept, PTL DEF Spec
<1> QED BY <1>2

\* A route gets at most one resource in its lifetime, through every crash, loss
\* of power and configuration read too early, unless its identity was pruned
\* over a configuration whose sync had not ended: unfenced holds those
\* lifetimes, and for them the code breaks what it promises.
THEOREM OneResourceIsProvisioned == "late" \notin Faults /\ Spec => []OneResourcePerRoute
<1>1. Fences => OneResourcePerRoute
  BY DEF Fences
<1>2. CASE "late" \notin Faults
  BY <1>1, <1>2, FencesAreKept, PTL
<1> QED BY <1>2

\* A route that a removal left over, on whatever the disk holds after a power
\* loss, fails closed on the resource that was revoked
\* (removeConnectorSelection), unless it is one of those lifetimes.
THEOREM RoutesFailClosed == "late" \notin Faults /\ Spec => []RouteFailsClosed
<1>1. Memory /\ Fences => RouteFailsClosed
  <2> SUFFICES ASSUME Memory, Fences, ~lost, NEW n \in Nonces, NEW f \in config.disk, NEW c \in cache.disk,
                      resource[n].status = "revoked", f[resource[n].id] = resource[n].era,
                      <<resource[n].id, resource[n].era>> \notin unfenced
               PROVE  c # Absent /\ c.crid[resource[n].id] = n
    BY DEF RouteFailsClosed
  <2>1. Routes(n) /\ FailsClosed(c)
    BY DEF Memory, Good, Fences, Safe, Routes
  <2> QED BY <2>1 DEF FailsClosed, Revoked
<1>2. CASE "late" \notin Faults
  BY <1>1, <1>2, MemoryIsKept, FencesAreKept, PTL
<1> QED BY <1>2
================================================================================
