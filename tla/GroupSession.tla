----------------------------- MODULE GroupSession -----------------------------
(***************************************************************************)
(* frpGroupSession (pkg/share/group_frp.go): the route table of one FRP    *)
(* control session, the window through which routes register, the pushes   *)
(* that bring the table to FRP and the polling that brings FRP's status    *)
(* back.  Three goroutines share it: the runner calling Update (one call   *)
(* at a time, SessionGroupRunner.applyMu), watch, and run.                 *)
(*                                                                         *)
(* A critical section of mu is one step; updateMu is held by whoever has a *)
(* push in hand.  FRP is external: a set of configured proxies, a control  *)
(* connection that comes and goes, and the server's answer per proxy.  A   *)
(* proxy name is a route with its generation.  Durations are abstracted to *)
(* the moments they pass: the hold of a refusal, the recovery grace, the   *)
(* backoff of a failed push.                                               *)
(***************************************************************************)
EXTENDS Naturals, FiniteSets

CONSTANTS
  Routes,
  Window,      \* groupRegistrationWindow
  Bad,         \* routes the server keeps refusing with a transient error
  MaxGen,      \* bound on generations
  MaxUpdates,  \* bound on the table version at which the runner still updates
  Faults       \* of FaultKinds

FaultKinds == {"push", "outage", "gone", "stale", "stop", "rotate", "resend"}

ASSUME SessionAssumption ==
  /\ Window \in Nat \ {0} /\ MaxGen \in Nat /\ MaxUpdates \in Nat
  /\ IsFiniteSet(Routes) /\ Bad \subseteq Routes /\ Faults \subseteq FaultKinds

VARIABLES
  routes,    \* route -> entry of the table
  gens,      \* route -> generation the runner gave it last
  version, pushed,
  pushErr,   \* the last push failed and is owed again
  due,       \* the backoff of a failed push has passed
  stopped,
  done,      \* the done channel is closed
  cancelled, \* the session's own context has ended
  rotating,  \* "no", "yes", or "told": by an Update that FRP has accepted
  push,      \* the push in hand of the holder of updateMu
  watch,     \* the polling goroutine
  frp,       \* proxy name -> "wait", "running", "refused", "gone", "stale"
  online,    \* FRP has its control connection
  admitted,  \* history: names the server has admitted
  relogged,  \* history: a control loss happened
  aged       \* history: a refusal has outlasted its hold

table == <<routes, gens, version>>
pushing == <<pushed, pushErr, due, push>>
life == <<stopped, done, cancelled, rotating>>
client == <<frp, online>>
history == <<admitted, relogged, aged>>
vars == <<table, pushing, life, watch, client, history>>

Names == Routes \X (0..MaxGen)

Entry(g, replaces) ==
  [gen |-> g, phase |-> "pending", err |-> FALSE, released |-> FALSE,
   refused |-> "never", seen |-> "never", replaces |-> replaces]

Name(r, e) == <<r, e[r].gen>>

--------------------------------------------------------------------------------
(***************************************************************************)
(* The registration window.                                                *)
(***************************************************************************)
Ceiling == 2 * Window

Unregistered(e) == {r \in DOMAIN e : e[r].released /\ e[r].phase = "pending"}
InFlight(e) == {r \in Unregistered(e) : ~e[r].err}
Loading(e) == {r \in Unregistered(e) : e[r].err => e[r].refused = "recent"}
Waiting(e) == {r \in DOMAIN e : ~e[r].released /\ e[r].phase = "pending"}

\* Mutant: a refused proxy holds no slot and counts against no ceiling.
SlotsOfInFlight(e) ==
  LET inflight == Cardinality(InFlight(e))
      free == Window - inflight
  IN  IF inflight >= Window THEN 0
      ELSE IF free < Cardinality(Waiting(e)) THEN free ELSE Cardinality(Waiting(e))

\* How many waiting routes get a slot.
Slots(e) ==
  LET inflight == Cardinality(InFlight(e))
      pending == Cardinality(Loading(e))
      free == IF Window - inflight < Ceiling - pending THEN Window - inflight ELSE Ceiling - pending
  IN  IF inflight >= Window \/ pending >= Ceiling THEN 0
      ELSE IF free < Cardinality(Waiting(e)) THEN free ELSE Cardinality(Waiting(e))

\* The choices for releaseWindowLocked: regenerated routes first, then any
\* order (the code takes the order of the route IDs).
ReleaseChoices(e) ==
  {S \in SUBSET Waiting(e) :
     /\ Cardinality(S) = Slots(e)
     /\ \A r \in S, q \in Waiting(e) \ S : e[q].replaces => e[r].replaces}

Release(e, S) == [r \in DOMAIN e |-> IF r \in S THEN [e[r] EXCEPT !.released = TRUE] ELSE e[r]]

\* The set FRP should hold.
Live(e) == {Name(r, e) : r \in {q \in DOMAIN e : e[q].released /\ e[q].phase # "failed"}}

--------------------------------------------------------------------------------
(***************************************************************************)
(* Update and push.                                                        *)
(***************************************************************************)
Idle == [by |-> "none", step |-> "none", version |-> 0, live |-> {}]
Holds(by, step) == push.by = by /\ push.step = step

\* Mutant: a regenerated route keeps what was observed of the old name.
UpdatedInPlace(want) ==
  [r \in DOMAIN want |->
     IF r \in DOMAIN routes THEN [routes[r] EXCEPT !.gen = want[r]] ELSE Entry(want[r], FALSE)]

\* Update: what keeps its name keeps its entry, the rest registers afresh.
Updated(want) ==
  [r \in DOMAIN want |->
     IF r \in DOMAIN routes /\ routes[r].gen = want[r] THEN routes[r]
     ELSE Entry(want[r], r \in DOMAIN routes /\ routes[r].released)]

Update(want) ==
  /\ push.by = "none" /\ ~stopped
  /\ \E S \in ReleaseChoices(Updated(want)) : routes' = Release(Updated(want), S)
  /\ version' = version + 1
  /\ push' = [Idle EXCEPT !.by = IF rotating = "no" THEN "runner" ELSE "rotating", !.step = "snapshot"]
  /\ UNCHANGED <<pushed, pushErr, due, life, watch, client, history>>

\* The runner's calls (SessionGroupRunner.apply): any subset of routes, each one
\* as it is or restarted; what was out of the table comes back restarted.  A
\* session that is being replaced only ever loses routes (retainRoutes).
RunnerUpdates ==
  /\ version < MaxUpdates
  /\ \E keep \in SUBSET Routes : \E fresh \in SUBSET keep :
       LET want == [r \in keep |-> IF r \in fresh THEN gens[r] + 1 ELSE gens[r]]
       IN  /\ keep \ DOMAIN routes \subseteq fresh
           /\ rotating # "no" => fresh = {}
           /\ \A r \in fresh : gens[r] < MaxGen
           /\ Update(want)
           /\ gens' = [r \in Routes |-> IF r \in fresh THEN gens[r] + 1 ELSE gens[r]]

\* pushUnderUpdateMu: the version and the live set under mu, ...
SnapshotPush ==
  /\ push.step = "snapshot"
  /\ IF stopped THEN push' = Idle
     ELSE push' = [push EXCEPT !.step = "deliver", !.version = version, !.live = Live(routes)]
  /\ UNCHANGED <<table, pushed, pushErr, due, life, watch, client, history>>

\* ... FRP's UpdateAllConfigurer outside it, which keeps what it has, ...
DeliverPush ==
  /\ push.step = "deliver"
  /\ push' = [push EXCEPT !.step = "accepted"]
  /\ frp' = [n \in push.live |-> IF n \in DOMAIN frp THEN frp[n] ELSE "wait"]
  /\ UNCHANGED <<table, pushed, pushErr, due, life, watch, online, history>>

\* Mutant: the version of the table as it is now counts as accepted.
AcceptCurrent ==
  /\ push.step = "accepted"
  /\ rotating' = IF push.by = "rotating" THEN "told" ELSE rotating
  /\ pushed' = version
  /\ pushErr' = FALSE /\ due' = TRUE
  /\ push' = Idle
  /\ UNCHANGED <<table, stopped, done, cancelled, watch, client, history>>

\* ... and the version FRP has accepted, or a retry (recordPushFailure).
AcceptPush ==
  /\ push.step = "accepted"
  /\ rotating' = IF push.by = "rotating" THEN "told" ELSE rotating
  /\ pushed' = IF pushed < push.version THEN push.version ELSE pushed
  /\ pushErr' = FALSE /\ due' = TRUE
  /\ push' = Idle
  /\ UNCHANGED <<table, stopped, done, cancelled, watch, client, history>>

FailPush ==
  /\ "push" \in Faults /\ push.step = "deliver"
  /\ pushErr' = TRUE /\ due' = FALSE
  /\ push' = Idle
  /\ UNCHANGED <<table, pushed, life, watch, client, history>>

BackoffEnds ==
  /\ ~due
  /\ due' = TRUE
  /\ UNCHANGED <<table, pushed, pushErr, push, life, watch, client, history>>

--------------------------------------------------------------------------------
(***************************************************************************)
(* watch: scan the table, ask FRP for each proxy, fold the answers, push   *)
(* what is owed, and again at the next poll.                               *)
(***************************************************************************)
Polls == [step |-> "scan", names |-> <<>>, answers |-> <<>>]

ScanTable ==
  /\ watch.step = "scan" /\ ~cancelled
  /\ watch' = [watch EXCEPT !.step = "inspect", !.answers = <<>>,
       !.names = [r \in {q \in DOMAIN routes : routes[q].phase # "failed"} |-> routes[r].gen]]
  /\ UNCHANGED <<table, pushing, life, client, history>>

WatchEnds ==
  /\ watch.step = "scan" /\ cancelled
  /\ watch' = [Polls EXCEPT !.step = "ended"]
  /\ UNCHANGED <<table, pushing, life, client, history>>

\* What the status exporter says of a proxy (inspectRouteStatus).
Status(n) == IF online /\ n \in DOMAIN frp THEN frp[n] ELSE "missing"

\* An admission-level refusal ends the watch and the session (fail).
InspectRoute(r) ==
  /\ watch.step = "inspect"
  /\ r \in DOMAIN watch.names \ DOMAIN watch.answers
  /\ LET answer == Status(<<r, watch.names[r]>>)
     IN  IF answer = "stale"
         THEN watch' = [Polls EXCEPT !.step = "ended"] /\ cancelled' = TRUE
         ELSE /\ watch' = [watch EXCEPT !.answers =
                   [q \in DOMAIN @ \union {r} |-> IF q = r THEN answer ELSE @[q]]]
              /\ UNCHANGED cancelled
  /\ UNCHANGED <<table, pushing, stopped, done, rotating, client, history>>

PhaseOf(answer) ==
  CASE answer = "running" -> "serving" [] answer = "gone" -> "failed" [] OTHER -> "pending"
Erring(answer) == answer \in {"refused", "gone"}

\* The answers that still speak of the entry they were asked for.
Current ==
  {r \in DOMAIN watch.answers \intersect DOMAIN routes :
     routes[r].gen = watch.names[r] /\ routes[r].phase # "failed"}

\* Mutant: every new refusal starts the hold again.
LastRefusal(e, answer) ==
  IF answer = "running" THEN "never"
  ELSE IF Erring(answer) /\ ~e.err THEN "recent" ELSE e.refused

\* The hold of a refusal runs from the first one under this name.
FirstRefusal(e, answer) ==
  IF answer = "running" THEN "never"
  ELSE IF Erring(answer) /\ e.refused = "never" THEN "recent" ELSE e.refused

Folded ==
  [r \in DOMAIN routes |->
     IF r \notin Current THEN routes[r]
     ELSE LET answer == watch.answers[r] IN
       [routes[r] EXCEPT !.phase = PhaseOf(answer), !.err = Erring(answer),
          !.refused = FirstRefusal(routes[r], answer),
          !.seen = IF answer = "missing" THEN @ ELSE "recent"]]

\* Every proxy the table has seen is missing past the grace.
Vanished ==
  /\ \A r \in Current : watch.answers[r] = "missing"
  /\ \E r \in Current : routes[r].seen = "old"

FoldAnswers ==
  /\ watch.step = "inspect" /\ DOMAIN watch.answers = DOMAIN watch.names
  /\ LET failures == Cardinality({r \in Current : watch.answers[r] = "gone"})
     IN  \/ /\ stopped
            /\ watch' = [Polls EXCEPT !.step = "push"]
            /\ UNCHANGED <<routes, version, cancelled>>
         \/ /\ ~stopped /\ Vanished
            /\ routes' = Folded /\ version' = version + failures
            /\ watch' = [Polls EXCEPT !.step = "ended"] /\ cancelled' = TRUE
         \/ /\ ~stopped /\ ~Vanished
            /\ watch' = [Polls EXCEPT !.step = "push"]
            /\ \E S \in ReleaseChoices(Folded) :
                 /\ routes' = Release(Folded, S)
                 /\ version' = version + failures + (IF S = {} THEN 0 ELSE 1)
            /\ UNCHANGED cancelled
  /\ UNCHANGED <<gens, pushing, stopped, done, rotating, client, history>>

\* pushDue: whether a push is owed is decided once, ...
PushOwed ==
  /\ watch.step = "push"
  /\ watch' = IF ~stopped /\ pushed # version /\ due THEN [watch EXCEPT !.step = "lock"] ELSE Polls
  /\ UNCHANGED <<table, pushing, life, client, history>>

\* ... and the push waits for updateMu whatever an Update has pushed meanwhile;
\* then the next poll.
LockPush ==
  /\ watch.step = "lock" /\ push.by = "none"
  /\ push' = [Idle EXCEPT !.by = "watch", !.step = "snapshot"]
  /\ watch' = [watch EXCEPT !.step = "pushing"]
  /\ UNCHANGED <<table, pushed, pushErr, due, life, client, history>>

PushReturns ==
  /\ watch.step = "pushing" /\ push.by # "watch"
  /\ watch' = Polls
  /\ UNCHANGED <<table, pushing, life, client, history>>

--------------------------------------------------------------------------------
(***************************************************************************)
(* The end of the session.                                                 *)
(***************************************************************************)
\* prepareDrain waits for updateMu, Stop does not.
PrepareDrain ==
  /\ "stop" \in Faults /\ ~stopped /\ push.by = "none"
  /\ stopped' = TRUE
  /\ UNCHANGED <<table, pushing, done, cancelled, rotating, watch, client, history>>

Stop ==
  /\ "stop" \in Faults /\ ~cancelled
  /\ stopped' = TRUE /\ cancelled' = TRUE
  /\ UNCHANGED <<table, pushing, done, rotating, watch, client, history>>

\* run: once FRP's service has returned nothing is reported as serving.
RunEnds ==
  /\ cancelled \/ "stop" \in Faults
  /\ ~done
  /\ stopped' = TRUE /\ done' = TRUE /\ cancelled' = TRUE
  /\ routes' = [r \in DOMAIN routes |->
                  IF routes[r].phase = "serving"
                  THEN [routes[r] EXCEPT !.phase = "pending", !.err = TRUE] ELSE routes[r]]
  /\ UNCHANGED <<gens, version, pushing, rotating, watch, client, history>>

\* The runner starts a replacement: from now on the session is being replaced.
Rotate ==
  /\ "rotate" \in Faults /\ rotating = "no" /\ push.by = "none"
  /\ rotating' = "yes"
  /\ UNCHANGED <<table, pushing, stopped, done, cancelled, watch, client, history>>

--------------------------------------------------------------------------------
(***************************************************************************)
(* FRP and its server.                                                     *)
(***************************************************************************)
\* Every Login, the first one too, registers the whole configured set.
Login ==
  /\ ~online /\ ~cancelled
  /\ online' = TRUE
  /\ frp' = [n \in DOMAIN frp |-> "wait"]
  /\ UNCHANGED <<table, pushing, life, watch, history>>

\* The control connection is lost at most once: a bound of the model.
LoseControl ==
  /\ "outage" \in Faults /\ online /\ ~relogged
  /\ online' = FALSE /\ relogged' = TRUE
  /\ UNCHANGED <<table, pushing, life, watch, frp, admitted, aged>>

Answers(r) ==
  IF r \in Bad THEN {"refused"}
  ELSE {"running"} \union ({"gone", "stale"} \intersect Faults)

Answer(n, answer) ==
  /\ online /\ n \in DOMAIN frp /\ frp[n] = "wait" /\ answer \in Answers(n[1])
  /\ frp' = [frp EXCEPT ![n] = answer]
  /\ admitted' = IF answer = "running" THEN admitted \union {n} ELSE admitted
  /\ UNCHANGED <<table, pushing, life, watch, online, relogged, aged>>

\* FRP sends a refused proxy again after 30 seconds, many polls later and much
\* longer than an answer takes: nothing waits and watch knows every refusal.
\* With "resend" it may do so at any moment.
Settled ==
  \A n \in DOMAIN frp :
    /\ frp[n] # "wait"
    /\ frp[n] = "refused" /\ n[1] \in DOMAIN routes /\ routes[n[1]].gen = n[2]
         => routes[n[1]].err

Resend(n) ==
  /\ online /\ n \in DOMAIN frp /\ frp[n] = "refused"
  /\ "resend" \in Faults \/ Settled
  /\ frp' = [frp EXCEPT ![n] = "wait"]
  /\ UNCHANGED <<table, pushing, life, watch, online, history>>

\* groupErroredHold passes after the first refusal of r.
HoldEnds(r) ==
  /\ r \in DOMAIN routes /\ routes[r].refused = "recent"
  /\ routes' = [routes EXCEPT ![r].refused = "old"]
  /\ aged' = TRUE
  /\ UNCHANGED <<gens, version, pushing, life, watch, client, admitted, relogged>>

\* groupControlRecoveryGrace passes without a sight of r.
GraceEnds(r) ==
  /\ ~online /\ r \in DOMAIN routes /\ routes[r].seen = "recent"
  /\ routes' = [routes EXCEPT ![r].seen = "old"]
  /\ UNCHANGED <<gens, version, pushing, life, watch, client, history>>

--------------------------------------------------------------------------------
\* newFRPGroupSession: the first window is the Login's proxy set.
Init ==
  /\ \E first \in SUBSET Routes \ {{}} :
       LET fresh == [r \in first |-> Entry(0, FALSE)]
       IN  \E S \in ReleaseChoices(fresh) :
             /\ routes = Release(fresh, S)
             /\ frp = [n \in Live(routes) |-> "wait"]
  /\ gens = [r \in Routes |-> 0]
  /\ version = 0 /\ pushed = 0 /\ pushErr = FALSE /\ due = TRUE
  /\ stopped = FALSE /\ done = FALSE /\ cancelled = FALSE /\ rotating = "no"
  /\ push = Idle /\ watch = Polls
  /\ online = FALSE
  /\ admitted = {} /\ relogged = FALSE /\ aged = FALSE

Pushing == SnapshotPush \/ DeliverPush \/ AcceptPush \/ FailPush

Watching ==
  \/ ScanTable \/ WatchEnds \/ FoldAnswers \/ PushOwed \/ LockPush \/ PushReturns
  \/ \E r \in Routes : InspectRoute(r)

Server ==
  \/ Login \/ LoseControl
  \/ \E n \in Names : Resend(n) \/ \E answer \in {"running", "refused", "gone", "stale"} : Answer(n, answer)

Passing == BackoffEnds \/ \E r \in Routes : HoldEnds(r) \/ GraceEnds(r)

Next ==
  \/ RunnerUpdates \/ Pushing \/ Watching
  \/ PrepareDrain \/ Stop \/ RunEnds \/ Rotate
  \/ Server \/ Passing

Spec == Init /\ [][Next]_vars

\* Both goroutines go on, FRP takes a push in the end, the server answers and
\* refused proxies are sent again, time passes.
LiveSpec ==
  /\ Spec
  /\ WF_vars(Watching) /\ WF_vars(SnapshotPush \/ AcceptPush) /\ SF_vars(DeliverPush)
  /\ SF_vars(LockPush)
  /\ WF_vars(BackoffEnds) /\ WF_vars(RunEnds) /\ SF_vars(Login)
  /\ \A n \in Names :
       /\ SF_vars(\E answer \in {"running", "refused"} : Answer(n, answer))
       /\ WF_vars(Resend(n))
  /\ \A r \in Routes : WF_vars(HoldEnds(r))

--------------------------------------------------------------------------------
\* When no push is owed, FRP holds exactly the live set: a push that was
\* overtaken by a change of the table does not pass for a push of it
\* (pushUnderUpdateMu, pushOwed).
PushedIsHeld ==
  (pushed = version /\ push.by = "none" /\ ~stopped) => DOMAIN frp = Live(routes)

\* Short of a control loss and of refusals past their hold, the server never
\* has more proxies of the session before it than the ceiling
\* (releaseWindowLocked).
QueueBounded ==
  (~relogged /\ ~aged) => Cardinality({n \in DOMAIN frp : frp[n] = "wait"}) <= Ceiling

\* Every route of the table ends up serving or refused for good, unless the
\* server keeps refusing that very route.  The refusals of its siblings, sent
\* again and again, fill the ceiling only until their holds have ended, each
\* counted from the first refusal (groupErroredHold, observe); a failed push is
\* repeated, a control loss is survived or ends the session (watch).
SiblingsRegister ==
  \A r \in Routes \ Bad :
    r \in DOMAIN routes
      ~> \/ r \notin DOMAIN routes \/ cancelled \/ stopped
         \/ routes[r].phase \in {"serving", "failed"}

\* The table the runner sees.
Table == [r \in DOMAIN routes |-> [gen |-> routes[r].gen, phase |-> routes[r].phase]]

Seen == INSTANCE ServingSession
          WITH table <- Table, ended <- done, Phases <- {"pending", "serving", "failed"}

\* The session is what the runner takes it for: only Update changes which
\* registrations there are, a phase is the server's word on that registration,
\* a refusal for good stays, and the end is the end.
ImplementsSession == Seen!Spec

--------------------------------------------------------------------------------
\* "a rotating session never registers anything" (RestartRoute, group.go:606),
\* "A session that is being replaced only ever loses routes" (apply,
\* group.go:671): once FRP has taken an Update of the rotating session, no proxy
\* joins the set it has.
RotatingRegistersNothing ==
  [][rotating = "told" => DOMAIN frp' \subseteq DOMAIN frp]_vars
================================================================================
