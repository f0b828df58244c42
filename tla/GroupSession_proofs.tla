------------------------- MODULE GroupSession_proofs -------------------------
(***************************************************************************)
(* Theorems about GroupSession, for every finite set of routes, every      *)
(* window, every bound on generations and updates and every fault.         *)
(***************************************************************************)
EXTENDS GroupSession, FiniteSetTheorems, TLAPS

--------------------------------------------------------------------------------
(***************************************************************************)
(* Shape, and what is known of the server.                                 *)
(***************************************************************************)
Moments == {"never", "recent", "old"}

EntrySet ==
  [gen: Nat, phase: {"pending", "serving", "failed"}, err: BOOLEAN, released: BOOLEAN,
   refused: Moments, seen: Moments, replaces: BOOLEAN]

\* A table: routes of the group, each with an entry.
IsTable(e) == DOMAIN e \subseteq Routes /\ e \in [DOMAIN e -> EntrySet]

\* The generations the runner gave are past none it still uses.
Ordered == gens \in [Routes -> Nat] /\ \A r \in DOMAIN routes : routes[r].gen <= gens[r]

\* A scan in progress: names it read, answers to some of them, and an answer
\* that a proxy runs only for a name the server has admitted.
ScanHonest ==
  /\ watch = [step |-> watch.step, names |-> watch.names, answers |-> watch.answers]
  /\ watch.step = "inspect" =>
       \A r \in DOMAIN watch.answers :
         watch.answers[r] = "running" => <<r, watch.names[r]>> \in admitted

\* What runs at the server, and what serves in the table, was admitted.
RunningAdmitted == \A n \in DOMAIN frp : frp[n] = "running" => n \in admitted

\* A route is reported as serving only if the server admitted the proxy under
\* the name it has in the table.
ServingWasAdmitted ==
  \A r \in DOMAIN routes : routes[r].phase = "serving" => Name(r, routes) \in admitted

\* A session that has ended has stopped before, and reports nothing as serving.
DeadServesNothing ==
  done => stopped /\ \A r \in DOMAIN routes : routes[r].phase # "serving"

Honest ==
  /\ IsTable(routes) /\ Ordered
  /\ ScanHonest /\ RunningAdmitted /\ ServingWasAdmitted
  /\ done \in BOOLEAN /\ DeadServesNothing

--------------------------------------------------------------------------------
(***************************************************************************)
(* The table under releaseWindowLocked, Update and observe.                *)
(***************************************************************************)
\* Only who waits for a slot gets one.
LEMMA ChosenWait ==
  ASSUME NEW e, NEW S \in ReleaseChoices(e)
  PROVE  S \subseteq Waiting(e)
BY DEF ReleaseChoices

\* A slot changes nothing else of an entry (releaseWindowLocked).
LEMMA ReleaseKeeps ==
  ASSUME NEW e, IsTable(e), NEW S
  PROVE  /\ IsTable(Release(e, S)) /\ DOMAIN Release(e, S) = DOMAIN e
         /\ \A r \in DOMAIN e :
              /\ Release(e, S)[r].gen = e[r].gen
              /\ Release(e, S)[r].phase = e[r].phase
              /\ Release(e, S)[r].released = (e[r].released \/ r \in S)
<1> DEFINE f == Release(e, S)
<1>1. DOMAIN f = DOMAIN e /\ f = [r \in DOMAIN e |-> IF r \in S THEN [e[r] EXCEPT !.released = TRUE] ELSE e[r]]
  BY DEF Release
<1>2. ASSUME NEW r \in DOMAIN e
      PROVE  /\ f[r] \in EntrySet
             /\ f[r].gen = e[r].gen /\ f[r].phase = e[r].phase
             /\ f[r].released = (e[r].released \/ r \in S)
  <2>1. e[r] \in EntrySet
    BY DEF IsTable
  <2>2. CASE r \in S
    <3>1. f[r] = [e[r] EXCEPT !.released = TRUE]
      BY <1>1, <2>2
    <3> HIDE DEF f
    <3> QED BY <2>1, <2>2, <3>1 DEF EntrySet
  <2>3. CASE r \notin S
    <3>1. f[r] = e[r]
      BY <1>1, <2>3
    <3> HIDE DEF f
    <3> QED BY <2>1, <2>3, <3>1 DEF EntrySet
  <2> QED BY <2>2, <2>3
<1> QED BY <1>1, <1>2 DEF IsTable

\* A new registration is pending under the generation asked for.
LEMMA EntryIs ==
  ASSUME NEW g \in Nat, NEW b \in BOOLEAN
  PROVE  /\ Entry(g, b) \in EntrySet
         /\ Entry(g, b).gen = g /\ Entry(g, b).phase = "pending"
BY DEF Entry, EntrySet, Moments

\* Update keeps the entries whose name stays and registers the rest afresh.
LEMMA UpdatedIs ==
  ASSUME IsTable(routes), NEW want, DOMAIN want \subseteq Routes,
         \A r \in DOMAIN want : want[r] \in Nat
  PROVE  /\ IsTable(Updated(want)) /\ DOMAIN Updated(want) = DOMAIN want
         /\ \A r \in DOMAIN want :
              /\ Updated(want)[r].gen = want[r]
              /\ \/ r \in DOMAIN routes /\ routes[r].gen = want[r] /\ Updated(want)[r] = routes[r]
                 \/ Updated(want)[r].phase = "pending" /\ ~(r \in DOMAIN routes /\ routes[r].gen = want[r])
<1> DEFINE u == Updated(want)
<1>1. DOMAIN u = DOMAIN want
      /\ u = [r \in DOMAIN want |->
                IF r \in DOMAIN routes /\ routes[r].gen = want[r] THEN routes[r]
                ELSE Entry(want[r], r \in DOMAIN routes /\ routes[r].released)]
  BY DEF Updated
<1>2. ASSUME NEW r \in DOMAIN want
      PROVE  /\ u[r] \in EntrySet /\ u[r].gen = want[r]
             /\ \/ r \in DOMAIN routes /\ routes[r].gen = want[r] /\ u[r] = routes[r]
                \/ u[r].phase = "pending" /\ ~(r \in DOMAIN routes /\ routes[r].gen = want[r])
  <2>1. CASE r \in DOMAIN routes /\ routes[r].gen = want[r]
    BY <1>1, <2>1 DEF IsTable
  <2>2. CASE ~(r \in DOMAIN routes /\ routes[r].gen = want[r])
    <3>1. u[r] = Entry(want[r], r \in DOMAIN routes /\ routes[r].released)
      BY <1>1, <2>2
    <3>2. (r \in DOMAIN routes /\ routes[r].released) \in BOOLEAN
      OBVIOUS
    <3> QED BY <2>2, <3>1, <3>2, EntryIs
  <2> QED BY <2>1, <2>2
<1> QED BY <1>1, <1>2 DEF IsTable

\* observe changes the phase of current registrations only, never to serving
\* without an answer that the proxy runs, and takes no refusal for good back.
LEMMA FoldedIs ==
  ASSUME IsTable(routes)
  PROVE  /\ IsTable(Folded) /\ DOMAIN Folded = DOMAIN routes
         /\ \A r \in DOMAIN routes :
              /\ Folded[r].gen = routes[r].gen /\ Folded[r].released = routes[r].released
              /\ r \notin Current => Folded[r] = routes[r]
              /\ r \in Current => /\ routes[r].phase # "failed"
                                  /\ Folded[r].phase = PhaseOf(watch.answers[r])
<1>1. DOMAIN Folded = DOMAIN routes /\ Folded = [r \in DOMAIN routes |-> Folded[r]]
  BY DEF Folded
<1>2. ASSUME NEW r \in DOMAIN routes
      PROVE  /\ Folded[r] \in EntrySet
             /\ Folded[r].gen = routes[r].gen /\ Folded[r].released = routes[r].released
             /\ r \notin Current => Folded[r] = routes[r]
             /\ r \in Current => /\ routes[r].phase # "failed"
                                 /\ Folded[r].phase = PhaseOf(watch.answers[r])
  <2>1. routes[r] \in EntrySet
    BY DEF IsTable
  <2>2. CASE r \notin Current
    BY <2>1, <2>2 DEF Folded
  <2>3. CASE r \in Current
    <3> DEFINE a == watch.answers[r]
    <3>1. routes[r].phase # "failed"
      BY <2>3 DEF Current
    <3>2. PhaseOf(a) \in {"pending", "serving", "failed"} /\ Erring(a) \in BOOLEAN
          /\ FirstRefusal(routes[r], a) \in Moments
      BY <2>1 DEF PhaseOf, Erring, FirstRefusal, EntrySet, Moments
    <3>3. Folded[r] = [routes[r] EXCEPT !.phase = PhaseOf(a), !.err = Erring(a),
                         !.refused = FirstRefusal(routes[r], a),
                         !.seen = IF a = "missing" THEN @ ELSE "recent"]
      BY <2>3 DEF Folded
    <3> HIDE DEF a
    <3>4. Folded[r] \in EntrySet /\ Folded[r].gen = routes[r].gen
          /\ Folded[r].released = routes[r].released /\ Folded[r].phase = PhaseOf(a)
      BY <2>1, <3>2, <3>3 DEF EntrySet, Moments
    <3> QED BY <2>3, <3>1, <3>4 DEF a
  <2> QED BY <2>2, <2>3
<1> QED BY <1>1, <1>2 DEF IsTable

--------------------------------------------------------------------------------
(***************************************************************************)
(* What the session reports.                                               *)
(***************************************************************************)
\* The first table, of fresh entries in their window, is honest.
LEMMA InitIsHonest == Init => Honest
<1> SUFFICES ASSUME Init PROVE Honest
  OBVIOUS
<1>1. PICK first \in SUBSET Routes \ {{}} :
        LET fresh == [r \in first |-> Entry(0, FALSE)]
        IN  \E S \in ReleaseChoices(fresh) :
              /\ routes = Release(fresh, S)
              /\ frp = [n \in Live(routes) |-> "wait"]
  BY DEF Init
<1> DEFINE fresh == [r \in first |-> Entry(0, FALSE)]
<1>2. PICK S : routes = Release(fresh, S) /\ frp = [n \in Live(routes) |-> "wait"]
  BY <1>1
<1>3. IsTable(fresh) /\ DOMAIN fresh = first
      /\ \A r \in first : fresh[r].gen = 0 /\ fresh[r].phase = "pending"
  <2>1. 0 \in Nat /\ FALSE \in BOOLEAN
    OBVIOUS
  <2>2. Entry(0, FALSE) \in EntrySet /\ Entry(0, FALSE).gen = 0 /\ Entry(0, FALSE).phase = "pending"
    BY <2>1, EntryIs
  <2> HIDE DEF Entry
  <2> QED BY <2>2 DEF IsTable
<1> HIDE DEF fresh
<1>4. IsTable(routes) /\ DOMAIN routes = first
      /\ \A r \in first : routes[r].gen = 0 /\ routes[r].phase = "pending"
  BY <1>2, <1>3, ReleaseKeeps
<1>5. Ordered
  <2>1. gens = [r \in Routes |-> 0]
    BY DEF Init
  <2> QED BY <1>4, <2>1 DEF Ordered
<1>6. ScanHonest
  BY DEF Init, Polls, ScanHonest
<1>61. RunningAdmitted
  BY <1>2 DEF RunningAdmitted
<1>7. ServingWasAdmitted /\ DeadServesNothing /\ done \in BOOLEAN
  BY <1>4 DEF Init, ServingWasAdmitted, DeadServesNothing
<1> QED BY <1>4, <1>5, <1>6, <1>61, <1>7 DEF Honest

\* The runner's Update leaves the table ordered and invents no serving route.
LEMMA UpdatesAreHonest == Honest /\ RunnerUpdates => Honest'
<1> SUFFICES ASSUME Honest, RunnerUpdates PROVE Honest'
  OBVIOUS
<1>0. PICK keep \in SUBSET Routes : \E fresh \in SUBSET keep :
        LET want == [r \in keep |-> IF r \in fresh THEN gens[r] + 1 ELSE gens[r]]
        IN  /\ keep \ DOMAIN routes \subseteq fresh
            /\ Update(want)
            /\ gens' = [r \in Routes |-> IF r \in fresh THEN gens[r] + 1 ELSE gens[r]]
  BY DEF RunnerUpdates
<1>1. PICK fresh \in SUBSET keep :
        LET want == [r \in keep |-> IF r \in fresh THEN gens[r] + 1 ELSE gens[r]]
        IN  /\ keep \ DOMAIN routes \subseteq fresh
            /\ Update(want)
            /\ gens' = [r \in Routes |-> IF r \in fresh THEN gens[r] + 1 ELSE gens[r]]
  BY <1>0
<1> DEFINE want == [r \in keep |-> IF r \in fresh THEN gens[r] + 1 ELSE gens[r]]
           u == Updated(want)
<1>2. gens \in [Routes -> Nat] /\ IsTable(routes)
  BY DEF Honest, Ordered
<1>3. DOMAIN want = keep /\ \A r \in keep : want[r] \in Nat
  BY <1>2
<1>4. Update(want)
  BY <1>1
<1>5. PICK S : routes' = Release(u, S)
  BY <1>4 DEF Update
<1>6. UNCHANGED <<admitted, done, watch, frp, stopped>>
  BY <1>4 DEF Update, life, client, history
<1>7. gens' \in [Routes -> Nat] /\ \A r \in keep : want[r] = gens'[r]
  BY <1>1, <1>2
<1> HIDE DEF want
<1>8. IsTable(u) /\ DOMAIN u = keep
      /\ \A r \in keep : u[r].gen = want[r]
           /\ (\/ r \in DOMAIN routes /\ routes[r].gen = want[r] /\ u[r] = routes[r]
               \/ u[r].phase = "pending")
  BY <1>2, <1>3, UpdatedIs
<1> HIDE DEF u
<1>9. IsTable(routes') /\ DOMAIN routes' = keep
      /\ \A r \in keep : routes'[r].gen = want[r]
           /\ (\/ r \in DOMAIN routes /\ routes[r].gen = want[r] /\ routes'[r].phase = routes[r].phase
               \/ routes'[r].phase = "pending")
  BY <1>5, <1>8, ReleaseKeeps
<1>10. Ordered'
  BY <1>3, <1>7, <1>9 DEF Ordered
<1>11. ServingWasAdmitted'
  BY <1>6, <1>9 DEF Honest, ServingWasAdmitted, Name
<1>12. DeadServesNothing'
  BY <1>4, <1>6 DEF Update, Honest, DeadServesNothing
<1>13. (ScanHonest /\ RunningAdmitted /\ done \in BOOLEAN)'
  BY <1>6 DEF Honest, ScanHonest, RunningAdmitted
<1>14. IsTable(routes)'
  BY <1>9 DEF IsTable
<1> QED BY <1>10, <1>11, <1>12, <1>13, <1>14 DEF Honest

\* Pushes and the control connection: FRP runs nothing new by itself.
LEMMA ClientIsHonest ==
  Honest /\ (Pushing \/ Login \/ LoseControl \/ BackoffEnds) => Honest'
<1> SUFFICES ASSUME Honest, Pushing \/ Login \/ LoseControl \/ BackoffEnds PROVE Honest'
  OBVIOUS
<1>1. UNCHANGED <<routes, gens, admitted, done, watch, stopped>>
  BY DEF Pushing, SnapshotPush, DeliverPush, AcceptPush, FailPush, Login, LoseControl, BackoffEnds,
         table, life, history
<1>2. RunningAdmitted'
  <2>1. CASE DeliverPush
    BY <1>1, <2>1 DEF Honest, RunningAdmitted, DeliverPush
  <2>2. CASE Login
    BY <1>1, <2>2 DEF Honest, RunningAdmitted, Login
  <2>3. CASE ~DeliverPush /\ ~Login
    <3>1. frp' = frp
      BY <2>3 DEF Pushing, SnapshotPush, AcceptPush, FailPush, LoseControl, BackoffEnds, client
    <3> QED BY <1>1, <3>1 DEF Honest, RunningAdmitted
  <2> QED BY <2>1, <2>2, <2>3
<1> QED BY <1>1, <1>2
     DEF Honest, IsTable, Ordered, ScanHonest, ServingWasAdmitted, DeadServesNothing, Name

\* The server's answers are what admission is.
LEMMA AnswersAreHonest ==
  ASSUME Honest, NEW n, NEW answer, Resend(n) \/ Answer(n, answer)
  PROVE  Honest'
<1>1. UNCHANGED <<routes, gens, done, watch, stopped>> /\ admitted \subseteq admitted'
  BY DEF Resend, Answer, table, life, history
<1>2. RunningAdmitted'
  <2>1. CASE Resend(n)
    BY <2>1 DEF Honest, RunningAdmitted, Resend, history
  <2>2. CASE Answer(n, answer)
    BY <1>1, <2>2 DEF Honest, RunningAdmitted, Answer
  <2> QED BY <2>1, <2>2
<1> QED BY <1>1, <1>2
     DEF Honest, IsTable, Ordered, ScanHonest, ServingWasAdmitted, DeadServesNothing, Name

\* An answer is FRP's at the time it was asked for.
LEMMA InspectionIsHonest ==
  ASSUME Honest, NEW r, InspectRoute(r)
  PROVE  Honest'
<1> DEFINE answer == Status(<<r, watch.names[r]>>)
<1>1. UNCHANGED <<routes, gens, admitted, done, stopped, frp>>
  BY DEF InspectRoute, table, client, history
<1>2. ScanHonest'
  <2>1. CASE answer = "stale"
    BY <2>1 DEF InspectRoute, ScanHonest, Polls
  <2>2. CASE answer # "stale"
    <3>1. watch' = [watch EXCEPT !.answers =
                      [q \in DOMAIN @ \union {r} |-> IF q = r THEN answer ELSE @[q]]]
      BY <2>2 DEF InspectRoute
    <3>2. answer = "running" => <<r, watch.names[r]>> \in admitted
      BY DEF Status, Honest, RunningAdmitted
    <3> HIDE DEF answer
    <3>3. /\ watch' = [step |-> watch'.step, names |-> watch'.names, answers |-> watch'.answers]
          /\ watch'.names = watch.names /\ watch'.step = watch.step
          /\ watch'.answers = [q \in DOMAIN watch.answers \union {r} |->
                                 IF q = r THEN answer ELSE watch.answers[q]]
      BY <3>1 DEF Honest, ScanHonest
    <3>4. watch.step = "inspect"
      BY DEF InspectRoute
    <3> QED BY <1>1, <3>2, <3>3, <3>4 DEF Honest, ScanHonest
  <2> QED BY <2>1, <2>2
<1> QED BY <1>1, <1>2
     DEF Honest, IsTable, Ordered, RunningAdmitted, ServingWasAdmitted, DeadServesNothing, Name

\* The other steps of the polling.
LEMMA WatchingIsHonest == Honest /\ Watching => Honest'
<1> SUFFICES ASSUME Honest, Watching PROVE Honest'
  OBVIOUS
<1>1. CASE \E r \in Routes : InspectRoute(r)
  BY <1>1, InspectionIsHonest
<1>2. CASE FoldAnswers
  <2>1. UNCHANGED <<gens, admitted, done, stopped, frp>> /\ watch'.step # "inspect"
        /\ watch' = [step |-> watch'.step, names |-> watch'.names, answers |-> watch'.answers]
    BY <1>2 DEF FoldAnswers, Polls, client, history
  <2>2. CASE routes' = routes
    BY <2>1, <2>2
       DEF Honest, IsTable, Ordered, ScanHonest, RunningAdmitted, ServingWasAdmitted, DeadServesNothing, Name
  <2>3. CASE ~stopped /\ \E S : routes' = Folded \/ routes' = Release(Folded, S)
    <3>1. IsTable(routes') /\ DOMAIN routes' = DOMAIN routes
          /\ \A r \in DOMAIN routes :
               routes'[r].gen = Folded[r].gen /\ routes'[r].phase = Folded[r].phase
      BY <2>3, FoldedIs, ReleaseKeeps DEF Honest
    <3>2. ASSUME NEW r \in DOMAIN routes', routes'[r].phase = "serving"
          PROVE  <<r, routes'[r].gen>> \in admitted
      <4>1. r \in DOMAIN routes /\ routes'[r].gen = routes[r].gen /\ Folded[r].phase = "serving"
        BY <3>1, <3>2, FoldedIs DEF Honest
      <4>2. CASE r \notin Current
        BY <4>1, <4>2, FoldedIs DEF Honest, ServingWasAdmitted, Name
      <4>3. CASE r \in Current
        <5>1. watch.answers[r] = "running"
          BY <4>1, <4>3, FoldedIs DEF Honest, PhaseOf
        <5>2. r \in DOMAIN watch.answers /\ routes[r].gen = watch.names[r]
          BY <4>3 DEF Current
        <5> QED BY <1>2, <4>1, <5>1, <5>2 DEF Honest, ScanHonest, FoldAnswers
      <4> QED BY <4>2, <4>3
    <3>3. ServingWasAdmitted'
      BY <2>1, <3>2 DEF ServingWasAdmitted, Name
    <3>4. Ordered'
      BY <2>1, <3>1, FoldedIs DEF Honest, Ordered
    <3>5. DeadServesNothing'
      BY <2>1, <2>3 DEF Honest, DeadServesNothing
    <3> QED BY <2>1, <3>1, <3>3, <3>4, <3>5 DEF Honest, ScanHonest, RunningAdmitted, IsTable
  <2> QED BY <1>2, <2>2, <2>3 DEF FoldAnswers
<1>3. CASE ScanTable \/ WatchEnds \/ PushOwed \/ LockPush \/ PushReturns
  <2>1. UNCHANGED <<routes, gens, admitted, done, stopped, frp>>
    BY <1>3 DEF ScanTable, WatchEnds, PushOwed, LockPush, PushReturns, table, life, client, history
  <2>2. ScanHonest'
    <3>1. CASE ScanTable
      <4>1. DOMAIN watch'.answers = {}
            /\ watch' = [step |-> watch'.step, names |-> watch'.names, answers |-> watch'.answers]
        <5> DEFINE names == [r \in {q \in DOMAIN routes : routes[q].phase # "failed"} |-> routes[r].gen]
        <5>1. watch' = [watch EXCEPT !.step = "inspect", !.answers = <<>>, !.names = names]
          BY <3>1 DEF ScanTable
        <5> HIDE DEF names
        <5>2. watch' = [step |-> "inspect", names |-> names, answers |-> <<>>]
          BY <5>1 DEF Honest, ScanHonest
        <5> QED BY <5>2
      <4> QED BY <4>1 DEF ScanHonest
    <3>2. CASE WatchEnds \/ PushOwed \/ LockPush \/ PushReturns
      BY <3>2, <2>1 DEF Honest, ScanHonest, WatchEnds, PushOwed, LockPush, PushReturns, Polls
    <3> QED BY <1>3, <3>1, <3>2
  <2> QED BY <2>1, <2>2
       DEF Honest, IsTable, Ordered, RunningAdmitted, ServingWasAdmitted, DeadServesNothing, Name
<1> QED BY <1>1, <1>2, <1>3 DEF Watching

\* The end of the session, and the moments that pass.
LEMMA EndIsHonest ==
  Honest /\ (PrepareDrain \/ Stop \/ RunEnds \/ Rotate \/ \E r \in Routes : HoldEnds(r) \/ GraceEnds(r))
    => Honest'
<1> SUFFICES ASSUME Honest, PrepareDrain \/ Stop \/ RunEnds \/ Rotate
                              \/ \E r \in Routes : HoldEnds(r) \/ GraceEnds(r)
             PROVE  Honest'
  OBVIOUS
<1>1. UNCHANGED <<gens, admitted, watch, frp>> /\ (stopped => stopped')
  <2>1. CASE PrepareDrain \/ Stop \/ RunEnds \/ Rotate
    <3>1. UNCHANGED <<gens, admitted, watch, frp>>
      BY <2>1 DEF PrepareDrain, Stop, RunEnds, Rotate, table, client, history
    <3>2. stopped => stopped'
      BY <2>1 DEF PrepareDrain, Stop, RunEnds, Rotate
    <3> QED BY <3>1, <3>2
  <2>2. CASE \E r \in Routes : HoldEnds(r) \/ GraceEnds(r)
    <3>1. PICK r \in Routes : HoldEnds(r) \/ GraceEnds(r)
      BY <2>2
    <3>2. UNCHANGED <<gens, admitted, watch, frp, stopped>>
      BY <3>1 DEF HoldEnds, GraceEnds, life, client, history
    <3> QED BY <3>2
  <2> QED BY <2>1, <2>2
<1>2. CASE PrepareDrain \/ Stop \/ Rotate
  <2>1. UNCHANGED <<routes, done>>
    BY <1>2 DEF PrepareDrain, Stop, Rotate, table
  <2> QED BY <1>1, <2>1
       DEF Honest, IsTable, Ordered, ScanHonest, RunningAdmitted, ServingWasAdmitted, DeadServesNothing, Name
<1>3. CASE RunEnds
  <2>1. stopped' /\ done' /\ DOMAIN routes' = DOMAIN routes
        /\ routes' = [r \in DOMAIN routes |->
                  IF routes[r].phase = "serving"
                  THEN [routes[r] EXCEPT !.phase = "pending", !.err = TRUE] ELSE routes[r]]
    BY <1>3 DEF RunEnds
  <2>2. \A r \in DOMAIN routes :
          routes'[r] \in EntrySet /\ routes'[r].gen = routes[r].gen /\ routes'[r].phase # "serving"
    <3> TAKE r \in DOMAIN routes
    <3>1. routes[r] \in EntrySet
      BY DEF Honest, IsTable
    <3>2. CASE routes[r].phase = "serving"
      <4> DEFINE old == routes[r]  new == routes'[r]
      <4>1. new = [old EXCEPT !.phase = "pending", !.err = TRUE]
        BY <2>1, <3>2
      <4>2. old \in EntrySet
        BY <3>1
      <4> HIDE DEF old, new
      <4>3. new \in EntrySet /\ new.gen = old.gen /\ new.phase # "serving"
        BY <4>1, <4>2 DEF EntrySet
      <4> QED BY <4>3 DEF old, new
    <3>3. CASE routes[r].phase # "serving"
      BY <2>1, <3>1, <3>3
    <3> QED BY <3>2, <3>3
  <2>3. IsTable(routes)' /\ ServingWasAdmitted' /\ DeadServesNothing'
    BY <2>1, <2>2 DEF Honest, IsTable, ServingWasAdmitted, DeadServesNothing
  <2>4. Ordered' /\ ScanHonest' /\ RunningAdmitted' /\ done' \in BOOLEAN
    BY <1>1, <1>3, <2>1, <2>2 DEF Honest, Ordered, ScanHonest, RunningAdmitted, RunEnds
  <2> QED BY <2>3, <2>4 DEF Honest
<1>4. CASE \E r \in Routes : HoldEnds(r) \/ GraceEnds(r)
  <2>1. PICK q \in DOMAIN routes : routes' = [routes EXCEPT ![q].refused = "old"]
                                   \/ routes' = [routes EXCEPT ![q].seen = "old"]
    BY <1>4 DEF HoldEnds, GraceEnds
  <2>2. UNCHANGED <<done, stopped>>
    BY <1>4 DEF HoldEnds, GraceEnds, life
  <2>3. DOMAIN routes' = DOMAIN routes /\ routes' = [r \in DOMAIN routes |-> routes'[r]]
    BY <2>1 DEF Honest, IsTable
  <2>4. ASSUME NEW r \in DOMAIN routes
        PROVE  /\ routes'[r] \in EntrySet
               /\ routes'[r].gen = routes[r].gen /\ routes'[r].phase = routes[r].phase
    <3> DEFINE old == routes[r]  new == routes'[r]
    <3>1. new = old \/ new = [old EXCEPT !.refused = "old"] \/ new = [old EXCEPT !.seen = "old"]
      BY <2>1
    <3>2. old \in EntrySet
      BY DEF Honest, IsTable
    <3> HIDE DEF old, new
    <3>3. new \in EntrySet /\ new.gen = old.gen /\ new.phase = old.phase
      BY <3>1, <3>2 DEF EntrySet, Moments
    <3> QED BY <3>3 DEF old, new
  <2> QED BY <1>1, <2>2, <2>3, <2>4
       DEF Honest, IsTable, Ordered, ScanHonest, RunningAdmitted, ServingWasAdmitted, DeadServesNothing, Name
<1> QED BY <1>2, <1>3, <1>4

\* Honest is inductive.
LEMMA StepIsHonest == Honest /\ [Next]_vars => Honest'
<1> SUFFICES ASSUME Honest, [Next]_vars PROVE Honest'
  OBVIOUS
<1>1. CASE UNCHANGED vars
  BY <1>1 DEF vars, table, pushing, life, client, history, Honest, IsTable, Ordered, ScanHonest,
              RunningAdmitted, ServingWasAdmitted, DeadServesNothing, Name
<1>2. CASE Next
  BY <1>2, UpdatesAreHonest, ClientIsHonest, AnswersAreHonest, WatchingIsHonest, EndIsHonest
     DEF Next, Server, Passing
<1> QED BY <1>1, <1>2

\* Whatever an Update, a push or the end of the session overtakes, the session
\* keeps its table ordered, its scan and its report to what the server admitted.
THEOREM SessionIsHonest == Spec => []Honest
BY InitIsHonest, StepIsHonest, PTL DEF Spec

\* RouteStates never reports a route as serving that the server has not admitted
\* under the name it has now (observe, Update).
THEOREM ServingIsAdmitted == Spec => []ServingWasAdmitted
BY SessionIsHonest, PTL DEF Honest

\* A session that has ended reports nothing as serving, even to a scan that was
\* under way (run, observe).
THEOREM DeadServeNothing == Spec => []DeadServesNothing
BY SessionIsHonest, PTL DEF Honest

--------------------------------------------------------------------------------
(***************************************************************************)
(* The session is what the runner takes it for.                            *)
(***************************************************************************)
\* The first table is one the runner may start from.
LEMMA SeenInit == Init => Seen!Init
<1> SUFFICES ASSUME Init PROVE Seen!Init
  OBVIOUS
<1>1. Honest /\ admitted = {} /\ ~done
  BY InitIsHonest DEF Init
<1>2. DOMAIN Table = DOMAIN routes /\ \A r \in DOMAIN routes : Table[r].phase = routes[r].phase
  BY DEF Table
<1>3. Seen!Serving(Table) = {}
  BY <1>1, <1>2 DEF Seen!Serving, Honest, ServingWasAdmitted
<1> QED BY <1>1, <1>2, <1>3 DEF Seen!Init, Honest, IsTable

\* The table the runner sees, entry by entry.
LEMMA TableIs ==
  /\ DOMAIN Table = DOMAIN routes
  /\ \A r \in DOMAIN routes : Table[r] = [gen |-> routes[r].gen, phase |-> routes[r].phase]
BY DEF Table

\* A step that keeps names and phases is none for the runner.
LEMMA SameTable ==
  ASSUME DOMAIN routes' = DOMAIN routes,
         \A r \in DOMAIN routes : routes'[r].gen = routes[r].gen /\ routes'[r].phase = routes[r].phase
  PROVE  Table' = Table
BY DEF Table

\* Update replaces the table: what keeps its name keeps its phase.
LEMMA UpdateReplaces == Honest /\ RunnerUpdates => Seen!Replace
<1> SUFFICES ASSUME Honest, RunnerUpdates PROVE Seen!Replace
  OBVIOUS
<1>0. PICK keep \in SUBSET Routes : \E fresh \in SUBSET keep :
        LET want == [r \in keep |-> IF r \in fresh THEN gens[r] + 1 ELSE gens[r]]
        IN  keep \ DOMAIN routes \subseteq fresh /\ Update(want)
  BY DEF RunnerUpdates
<1>1. PICK fresh \in SUBSET keep :
        LET want == [r \in keep |-> IF r \in fresh THEN gens[r] + 1 ELSE gens[r]]
        IN  keep \ DOMAIN routes \subseteq fresh /\ Update(want)
  BY <1>0
<1> DEFINE want == [r \in keep |-> IF r \in fresh THEN gens[r] + 1 ELSE gens[r]]
           u == Updated(want)
<1>2. gens \in [Routes -> Nat] /\ IsTable(routes) /\ \A r \in DOMAIN routes : routes[r].gen <= gens[r]
  BY DEF Honest, Ordered
<1>3. /\ DOMAIN want = keep /\ \A r \in keep : want[r] \in Nat
      /\ \A r \in keep : r \in DOMAIN routes /\ routes[r].gen # want[r] => want[r] > routes[r].gen
  <2>1. \A r \in DOMAIN routes : routes[r].gen \in Nat
    BY <1>2 DEF IsTable, EntrySet
  <2> QED BY <1>2, <2>1
<1>4. Update(want)
  BY <1>1
<1>5. PICK S : routes' = Release(u, S)
  BY <1>4 DEF Update
<1>6. UNCHANGED <<admitted, done>> /\ ~done
  BY <1>4 DEF Update, life, history, Honest, DeadServesNothing
<1> HIDE DEF want
<1>7. IsTable(u) /\ DOMAIN u = keep
      /\ \A r \in keep : u[r].gen = want[r]
           /\ (\/ r \in DOMAIN routes /\ u[r] = routes[r]
               \/ u[r].phase = "pending" /\ ~(r \in DOMAIN routes /\ routes[r].gen = want[r]))
  BY <1>2, <1>3, UpdatedIs
<1> HIDE DEF u
<1>8. DOMAIN routes' = keep
      /\ \A r \in keep : routes'[r].gen = want[r]
           /\ (\/ r \in DOMAIN routes /\ routes'[r].gen = routes[r].gen /\ routes'[r].phase = routes[r].phase
               \/ routes'[r].phase = "pending" /\ ~(r \in DOMAIN routes /\ routes[r].gen = want[r]))
  BY <1>5, <1>7, ReleaseKeeps
<1>9. DOMAIN Table' = keep
      /\ \A r \in keep : Table'[r] = [gen |-> routes'[r].gen, phase |-> routes'[r].phase]
  BY <1>8 DEF Table
<1>10. ASSUME NEW r \in keep
       PROVE  \/ r \in DOMAIN Table /\ Table'[r] = Table[r]
              \/ /\ r \in DOMAIN Table => Table'[r].gen > Table[r].gen
                 /\ Table'[r].phase = "pending"
  BY <1>3, <1>8, <1>9, TableIs
<1> QED BY <1>6, <1>9, <1>10 DEF Seen!Replace

\* observe changes phases only, on the server's word.
LEMMA FoldObserves == Honest /\ FoldAnswers => Seen!Observe \/ UNCHANGED Seen!vars
<1> SUFFICES ASSUME Honest, FoldAnswers PROVE Seen!Observe \/ UNCHANGED Seen!vars
  OBVIOUS
<1>1. UNCHANGED <<admitted, done>> /\ Honest'
  BY WatchingIsHonest DEF FoldAnswers, history, Watching
<1>2. CASE routes' = routes
  <2>1. Table' = Table
    BY <1>2, SameTable
  <2> QED BY <1>1, <2>1 DEF Seen!vars
<1>3. CASE ~stopped /\ \E S : routes' = Folded \/ routes' = Release(Folded, S)
  <2>1. ~done
    BY <1>3 DEF Honest, DeadServesNothing
  <2>2. DOMAIN routes' = DOMAIN routes
        /\ \A r \in DOMAIN routes :
             /\ routes'[r].gen = routes[r].gen
             /\ routes[r].phase = "failed" => routes'[r].phase = "failed"
    <3>1. DOMAIN routes' = DOMAIN routes
          /\ \A r \in DOMAIN routes : routes'[r].gen = Folded[r].gen /\ routes'[r].phase = Folded[r].phase
      BY <1>3, FoldedIs, ReleaseKeeps DEF Honest
    <3> QED BY <3>1, FoldedIs DEF Honest
  <2>3. \A r \in DOMAIN routes : routes'[r].phase \in {"pending", "serving", "failed"}
    BY <1>1, <2>2 DEF Honest, IsTable, EntrySet
  <2>4. \A r \in DOMAIN routes : routes'[r].phase = "serving" => <<r, routes[r].gen>> \in admitted
    BY <1>1, <2>2 DEF Honest, ServingWasAdmitted, Name
  <2>5. DOMAIN Table' = DOMAIN routes
        /\ \A r \in DOMAIN routes : Table'[r] = [gen |-> routes'[r].gen, phase |-> routes'[r].phase]
    BY <2>2 DEF Table
  <2>6. ASSUME NEW r \in DOMAIN Table
        PROVE  /\ Table'[r] = [Table[r] EXCEPT !.phase = Table'[r].phase]
               /\ Table'[r].phase \in {"pending", "serving", "failed"}
               /\ Table[r].phase = "failed" => Table'[r].phase = "failed"
               /\ Table'[r].phase = "serving" => <<r, Table[r].gen>> \in admitted
    BY <2>2, <2>3, <2>4, <2>5, TableIs
  <2> QED BY <1>1, <2>1, <2>5, <2>6, TableIs DEF Seen!Observe
<1> QED BY <1>2, <1>3 DEF FoldAnswers

\* run ends the session for good.
LEMMA RunEndsIt == Honest /\ RunEnds => Seen!End
<1> SUFFICES ASSUME Honest, RunEnds PROVE Seen!End
  OBVIOUS
<1>1. ~done /\ done' /\ admitted' = admitted
      /\ routes' = [r \in DOMAIN routes |->
                  IF routes[r].phase = "serving"
                  THEN [routes[r] EXCEPT !.phase = "pending", !.err = TRUE] ELSE routes[r]]
  BY DEF RunEnds, history
<1>2. \A r \in DOMAIN routes :
        /\ routes'[r].gen = routes[r].gen
        /\ routes'[r].phase = IF routes[r].phase = "serving" THEN "pending" ELSE routes[r].phase
  <2> TAKE r \in DOMAIN routes
  <2>1. routes[r] \in EntrySet
    BY DEF Honest, IsTable
  <2>2. CASE routes[r].phase = "serving"
    <3> DEFINE old == routes[r]  new == routes'[r]
    <3>1. new = [old EXCEPT !.phase = "pending", !.err = TRUE]
      BY <1>1, <2>2
    <3>2. old \in EntrySet
      BY <2>1
    <3> HIDE DEF old, new
    <3>3. new.gen = old.gen /\ new.phase = "pending"
      BY <3>1, <3>2 DEF EntrySet
    <3> QED BY <2>2, <3>3 DEF old, new
  <2>3. CASE routes[r].phase # "serving"
    BY <1>1, <2>3
  <2> QED BY <2>2, <2>3
<1>3. Table' = [r \in DOMAIN Table |->
                  IF r \in Seen!Serving(Table) THEN [Table[r] EXCEPT !.phase = "pending"] ELSE Table[r]]
  <2>1. DOMAIN routes' = DOMAIN routes
    BY <1>1
  <2>2. \A r \in DOMAIN routes : r \in Seen!Serving(Table) <=> routes[r].phase = "serving"
    BY TableIs DEF Seen!Serving
  <2>3. Table' = [r \in DOMAIN routes |-> [gen |-> routes'[r].gen, phase |-> routes'[r].phase]]
    BY <2>1 DEF Table
  <2>4. ASSUME NEW r \in DOMAIN routes
        PROVE  [gen |-> routes'[r].gen, phase |-> routes'[r].phase]
               = IF r \in Seen!Serving(Table) THEN [Table[r] EXCEPT !.phase = "pending"] ELSE Table[r]
    BY <1>2, <2>2, TableIs
  <2> QED BY <2>3, <2>4, TableIs
<1> QED BY <1>1, <1>3 DEF Seen!End

\* Everything else is the server admitting, or nothing the runner sees.
LEMMA StepIsSeen == Honest /\ [Next]_vars => [Seen!Next]_(Seen!vars)
<1> SUFFICES ASSUME Honest, [Next]_vars PROVE Seen!Next \/ UNCHANGED Seen!vars
  OBVIOUS
<1>1. CASE UNCHANGED vars
  <2>1. UNCHANGED <<routes, admitted, done>>
    BY <1>1 DEF vars, table, life, history
  <2> QED BY <2>1, SameTable DEF Seen!vars
<1>2. CASE RunnerUpdates
  BY <1>2, UpdateReplaces DEF Seen!Next
<1>3. CASE FoldAnswers
  BY <1>3, FoldObserves DEF Seen!Next
<1>4. CASE RunEnds
  BY <1>4, RunEndsIt DEF Seen!Next
<1>5. CASE \E n \in Names : \E answer \in {"running", "refused", "gone", "stale"} : Answer(n, answer)
  <2>1. UNCHANGED <<routes, done>> /\ admitted \subseteq admitted'
    BY <1>5 DEF Answer, table, life
  <2> QED BY <2>1, SameTable DEF Seen!Next, Seen!Admit
<1>6. CASE \E r \in Routes : HoldEnds(r) \/ GraceEnds(r)
  <2>1. PICK q \in DOMAIN routes : routes' = [routes EXCEPT ![q].refused = "old"]
                                   \/ routes' = [routes EXCEPT ![q].seen = "old"]
    BY <1>6 DEF HoldEnds, GraceEnds
  <2>2. UNCHANGED <<done, admitted>>
    BY <1>6 DEF HoldEnds, GraceEnds, life, history
  <2>3. ASSUME NEW r \in DOMAIN routes
        PROVE  routes'[r].gen = routes[r].gen /\ routes'[r].phase = routes[r].phase
    <3> DEFINE old == routes[r]  new == routes'[r]
    <3>1. new = old \/ new = [old EXCEPT !.refused = "old"] \/ new = [old EXCEPT !.seen = "old"]
      BY <2>1
    <3>2. old \in EntrySet
      BY DEF Honest, IsTable
    <3> HIDE DEF old, new
    <3>3. new.gen = old.gen /\ new.phase = old.phase
      BY <3>1, <3>2 DEF EntrySet
    <3> QED BY <3>3 DEF old, new
  <2>4. DOMAIN routes' = DOMAIN routes
    BY <2>1
  <2> QED BY <2>2, <2>3, <2>4, SameTable DEF Seen!vars
<1>7. CASE Pushing \/ PrepareDrain \/ Stop \/ Rotate \/ Login \/ LoseControl \/ BackoffEnds
  <2>1. UNCHANGED <<routes, admitted, done>>
    BY <1>7 DEF Pushing, SnapshotPush, DeliverPush, AcceptPush, FailPush, PrepareDrain, Stop, Rotate,
                Login, LoseControl, BackoffEnds, table, life, history
  <2> QED BY <2>1, SameTable DEF Seen!vars
<1>8. CASE \/ ScanTable \/ WatchEnds \/ PushOwed \/ LockPush \/ PushReturns
           \/ \E r \in Routes : InspectRoute(r)
           \/ \E n \in Names : Resend(n)
  <2>1. UNCHANGED <<routes, admitted, done>>
    BY <1>8 DEF ScanTable, WatchEnds, PushOwed, LockPush, PushReturns, InspectRoute, Resend, table, life, history
  <2> QED BY <2>1, SameTable DEF Seen!vars
<1>9. CASE Watching
  BY <1>3, <1>8, <1>9 DEF Watching
<1>10. CASE Server
  <2>1. CASE Login \/ LoseControl
    BY <1>7, <2>1
  <2>2. ASSUME NEW n \in Names,
               Resend(n) \/ \E answer \in {"running", "refused", "gone", "stale"} : Answer(n, answer)
        PROVE  Seen!Next \/ UNCHANGED Seen!vars
    BY <1>5, <1>8, <2>2
  <2> QED BY <1>10, <2>1, <2>2 DEF Server
<1>11. CASE Passing
  BY <1>6, <1>7, <1>11 DEF Passing
<1> QED BY <1>1, <1>2, <1>4, <1>7, <1>9, <1>10, <1>11 DEF Next

\* The session implements ServingSession: whatever is overtaken, the runner sees
\* a table that only Update replaces and phases on the server's word.
THEOREM SessionImplements == Spec => ImplementsSession
<1>1. Init => Seen!Init
  BY SeenInit
<1>2. Honest /\ [Next]_vars => [Seen!Next]_(Seen!vars)
  BY StepIsSeen
<1> QED BY <1>1, <1>2, SessionIsHonest, PTL DEF Spec, ImplementsSession, Seen!Spec

--------------------------------------------------------------------------------
(***************************************************************************)
(* What FRP holds.                                                         *)
(***************************************************************************)
\* The version that FRP has accepted is never ahead of the table's, nor of that
\* of the push in hand; where they agree, FRP, the push and the table hold one
\* set of proxies.
Versions ==
  /\ version \in Nat /\ pushed \in Nat /\ pushed <= version
  /\ push = [by |-> push.by, step |-> push.step, version |-> push.version, live |-> push.live]
  /\ push.by = "none" => push.step = "none"

Agree ==
  /\ push.step \in {"deliver", "accepted"} =>
       /\ push.version \in Nat /\ pushed <= push.version /\ push.version <= version
       /\ push.version = version => push.live = Live(routes)
  /\ push.step = "accepted" => DOMAIN frp = push.live
  /\ pushed = version /\ push.step # "accepted" => DOMAIN frp = Live(routes)

Sent == Versions /\ Agree

\* Entries that keep name, slot and refusal make the same set.
LEMMA SameLive ==
  ASSUME NEW e, NEW f, DOMAIN f = DOMAIN e,
         \A r \in DOMAIN e :
           /\ f[r].gen = e[r].gen /\ f[r].released = e[r].released
           /\ f[r].phase = "failed" <=> e[r].phase = "failed"
  PROVE  Live(f) = Live(e)
<1>1. {q \in DOMAIN f : f[q].released /\ f[q].phase # "failed"}
      = {q \in DOMAIN e : e[q].released /\ e[q].phase # "failed"}
  OBVIOUS
<1> QED BY <1>1 DEF Live, Name

\* A step that leaves pushes and FRP alone, and the table's version with its
\* set, or that brings the version on.
LEMMA SentKept ==
  ASSUME Sent, push' = push, pushed' = pushed, DOMAIN frp' = DOMAIN frp, version' \in Nat,
         \/ version' > version
         \/ version' = version /\ Live(routes)' = Live(routes)
  PROVE  Sent'
BY DEF Sent, Versions, Agree

\* The Login of a new session registers its first window.
LEMMA InitIsSent == Init => Sent
<1> SUFFICES ASSUME Init PROVE Sent
  OBVIOUS
<1>1. PICK first \in SUBSET Routes \ {{}} :
        LET fresh == [r \in first |-> Entry(0, FALSE)]
        IN  \E S \in ReleaseChoices(fresh) :
              /\ routes = Release(fresh, S)
              /\ frp = [n \in Live(routes) |-> "wait"]
  BY DEF Init
<1>2. DOMAIN frp = Live(routes)
  BY <1>1
<1> QED BY <1>2 DEF Init, Idle, Sent, Versions, Agree

\* A push carries the table of its snapshot to FRP, and its version with it.
LEMMA PushesAreSent == Sent /\ (RunnerUpdates \/ Pushing \/ PushOwed \/ LockPush) => Sent'
<1> SUFFICES ASSUME Sent, RunnerUpdates \/ Pushing \/ PushOwed \/ LockPush PROVE Sent'
  OBVIOUS
<1> USE DEF Sent, Versions, Agree
<1>1. CASE RunnerUpdates
  <2>1. version' = version + 1 /\ pushed' = pushed
        /\ push' = [Idle EXCEPT !.by = IF rotating = "no" THEN "runner" ELSE "rotating", !.step = "snapshot"]
    BY <1>1 DEF RunnerUpdates, Update
  <2>2. PICK who \in {"runner", "rotating"} : push' = [Idle EXCEPT !.by = who, !.step = "snapshot"]
    BY <2>1
  <2>3. push' = [by |-> who, step |-> "snapshot", version |-> 0, live |-> {}]
    BY <2>2 DEF Idle
  <2>4. push'.by = who /\ push'.step = "snapshot" /\ push'.version = 0 /\ push'.live = {}
    BY <2>3
  <2>5. push' = [by |-> push'.by, step |-> push'.step, version |-> push'.version, live |-> push'.live]
    BY <2>3, <2>4
  <2>6. Versions'
    BY <2>1, <2>4, <2>5
  <2>7. pushed # version'
    BY <2>1
  <2>8. Agree'
    BY <2>1, <2>4, <2>7
  <2> QED BY <2>6, <2>8
<1>2. CASE SnapshotPush
  <2>1. UNCHANGED <<routes, version, pushed, frp>> /\ push.step = "snapshot"
    BY <1>2 DEF SnapshotPush, table, client
  <2>2. CASE push' = Idle
    BY <2>1, <2>2 DEF Idle
  <2>3. CASE push' = [push EXCEPT !.step = "deliver", !.version = version, !.live = Live(routes)]
    <3>1. push' = [by |-> push.by, step |-> "deliver", version |-> version, live |-> Live(routes)]
      BY <2>3
    <3>2. push.by # "none"
      BY <2>1
    <3> QED BY <2>1, <3>1, <3>2
  <2> QED BY <1>2, <2>2, <2>3 DEF SnapshotPush
<1>3. CASE DeliverPush
  <2>1. UNCHANGED <<routes, version, pushed>> /\ push.step = "deliver" /\ DOMAIN frp' = push.live
    BY <1>3 DEF DeliverPush, table
  <2>2. push' = [by |-> push.by, step |-> "accepted", version |-> push.version, live |-> push.live]
    BY <1>3 DEF DeliverPush
  <2> QED BY <2>1, <2>2
<1>4. CASE AcceptPush
  <2>1. UNCHANGED <<routes, version, frp>> /\ push.step = "accepted" /\ push' = Idle
        /\ pushed' = IF pushed < push.version THEN push.version ELSE pushed
    BY <1>4 DEF AcceptPush, table, client
  <2>2. pushed' = push.version
    BY <2>1
  <2> QED BY <2>1, <2>2 DEF Idle
<1>5. CASE FailPush
  <2>1. UNCHANGED <<routes, version, pushed, frp>> /\ push.step = "deliver" /\ push' = Idle
    BY <1>5 DEF FailPush, table, client
  <2> QED BY <2>1 DEF Idle
<1>6. CASE PushOwed
  BY <1>6 DEF PushOwed, table, pushing, client
<1>7. CASE LockPush
  <2>1. UNCHANGED <<routes, version, pushed, frp>> /\ push.by = "none"
        /\ push' = [Idle EXCEPT !.by = "watch", !.step = "snapshot"]
    BY <1>7 DEF LockPush, table, client
  <2>2. push' = [by |-> "watch", step |-> "snapshot", version |-> 0, live |-> {}]
    BY <2>1 DEF Idle
  <2>3. push.step # "accepted"
    BY <2>1
  <2> QED BY <2>1, <2>2, <2>3
<1> QED BY <1>1, <1>2, <1>3, <1>4, <1>5, <1>6, <1>7 DEF Pushing

\* What observe changes of the set it counts in the version.
LEMMA FoldIsSent == Honest /\ Sent /\ FoldAnswers => Sent'
<1> SUFFICES ASSUME Honest, Sent, FoldAnswers PROVE Sent'
  OBVIOUS
<1> DEFINE gone == {r \in Current : watch.answers[r] = "gone"}
           failures == Cardinality(gone)
<1>1. UNCHANGED <<push, pushed, frp>> /\ version \in Nat
  BY DEF FoldAnswers, pushing, client, Sent, Versions
<1>2. failures \in Nat /\ (failures = 0 => gone = {})
  <2>1. gone \subseteq Routes
    BY DEF Current, Honest, IsTable
  <2>2. IsFiniteSet(gone)
    BY <2>1, SessionAssumption, FS_Subset
  <2> HIDE DEF gone
  <2> QED BY <2>2, FS_CardinalityType, FS_EmptySet
<1>3. IsTable(routes)
  BY DEF Honest
<1>4. ASSUME failures = 0
      PROVE  Live(Folded) = Live(routes)
  <2>1. \A r \in DOMAIN routes : Folded[r].phase = "failed" <=> routes[r].phase = "failed"
    <3> TAKE r \in DOMAIN routes
    <3>1. CASE r \in Current
      <4>1. watch.answers[r] # "gone"
        BY <1>2, <1>4, <3>1
      <4> QED BY <1>3, <3>1, <4>1, FoldedIs DEF PhaseOf
    <3>2. CASE r \notin Current
      BY <1>3, <3>2, FoldedIs
    <3> QED BY <3>1, <3>2
  <2> QED BY <1>3, <2>1, FoldedIs, SameLive
<1>5. CASE routes' = routes /\ version' = version
  BY <1>1, <1>5, SentKept
<1>6. CASE routes' = Folded /\ version' = version + failures
  <2>1. failures = 0 => Live(routes') = Live(routes)
    BY <1>4, <1>6
  <2> HIDE DEF failures
  <2>2. version' \in Nat /\ (version' > version \/ (version' = version /\ Live(routes') = Live(routes)))
    BY <1>1, <1>2, <1>6, <2>1
  <2>3. Live(routes)' = Live(routes')
    BY DEF Live, Name
  <2> QED BY <1>1, <2>2, <2>3, SentKept
<1>7. ASSUME NEW S, routes' = Release(Folded, S),
             version' = version + failures + (IF S = {} THEN 0 ELSE 1)
      PROVE  Sent'
  <2>1. IsTable(Folded)
    BY <1>3, FoldedIs
  <2>2. failures = 0 /\ S = {} => Live(routes') = Live(routes)
    <3> SUFFICES ASSUME failures = 0, S = {} PROVE Live(routes') = Live(routes)
      OBVIOUS
    <3>1. Live(routes') = Live(Folded)
      BY <1>7, <2>1, ReleaseKeeps, SameLive DEF IsTable, EntrySet
    <3> QED BY <1>4, <3>1
  <2> HIDE DEF failures
  <2>3. version' \in Nat /\ (version' > version \/ (version' = version /\ Live(routes') = Live(routes)))
    BY <1>1, <1>2, <1>7, <2>2
  <2>4. Live(routes)' = Live(routes')
    BY DEF Live, Name
  <2> QED BY <1>1, <2>3, <2>4, SentKept
<1> QED BY <1>5, <1>6, <1>7 DEF FoldAnswers

\* Polling, the server and the clock touch neither the table nor a push; a Login
\* registers the names FRP already has.
LEMMA RestIsSent ==
  ASSUME Sent, UNCHANGED <<routes, version, pushed, push>>, DOMAIN frp' = DOMAIN frp
  PROVE  Sent'
<1>1. Live(routes)' = Live(routes)
  BY DEF Live, Name
<1>2. version' \in Nat /\ version' = version
  BY DEF Sent, Versions
<1> QED BY <1>1, <1>2, SentKept

\* A step that changes entries but not the set leaves what FRP holds right.
LEMMA EntriesAreSent ==
  ASSUME Sent, UNCHANGED <<version, pushed, push, frp>>, Live(routes') = Live(routes)
  PROVE  Sent'
<1>1. Live(routes)' = Live(routes)
  BY DEF Live, Name
<1>2. version' \in Nat /\ version' = version
  BY DEF Sent, Versions
<1>3. push' = push /\ pushed' = pushed /\ DOMAIN frp' = DOMAIN frp
  OBVIOUS
<1> QED BY <1>1, <1>2, <1>3, SentKept

\* Neither the end of the session nor a passing hold changes a name, a slot or
\* a refusal for good.
LEMMA EndIsSent ==
  ASSUME Honest, Sent, RunEnds \/ \E r \in Routes : HoldEnds(r) \/ GraceEnds(r)
  PROVE  Sent'
<1>1. CASE RunEnds
  <2>1. UNCHANGED <<gens, version, pushing, rotating, watch, client, history>>
    BY <1>1, Zenon DEF RunEnds
  <2>2. routes' = [r \in DOMAIN routes |->
                     IF routes[r].phase = "serving"
                     THEN [routes[r] EXCEPT !.phase = "pending", !.err = TRUE] ELSE routes[r]]
    BY <1>1, Zenon DEF RunEnds
  <2>3. ASSUME NEW r \in DOMAIN routes
        PROVE  /\ routes'[r].gen = routes[r].gen /\ routes'[r].released = routes[r].released
               /\ routes'[r].phase = "failed" <=> routes[r].phase = "failed"
    <3> DEFINE old == routes[r]  new == routes'[r]
    <3>1. new = IF old.phase = "serving" THEN [old EXCEPT !.phase = "pending", !.err = TRUE] ELSE old
      BY <2>2, Zenon
    <3>2. old \in EntrySet
      BY DEF Honest, IsTable
    <3> HIDE DEF old, new
    <3>3. /\ new.gen = old.gen /\ new.released = old.released
          /\ new.phase = "failed" <=> old.phase = "failed"
      BY <3>1, <3>2 DEF EntrySet
    <3> QED BY <3>3 DEF old, new
  <2>4. DOMAIN routes' = DOMAIN routes
    BY <2>2, Zenon
  <2>5. Live(routes') = Live(routes)
    BY <2>3, <2>4, SameLive
  <2> QED BY <2>1, <2>5, EntriesAreSent DEF pushing, client
<1>2. ASSUME NEW q \in Routes, HoldEnds(q) \/ GraceEnds(q)
      PROVE  Sent'
  <2>1. UNCHANGED <<version, pushed, push, frp>>
    BY <1>2 DEF HoldEnds, GraceEnds, pushing, client
  <2>2. DOMAIN routes' = DOMAIN routes
        /\ (routes' = [routes EXCEPT ![q].refused = "old"] \/ routes' = [routes EXCEPT ![q].seen = "old"])
    BY <1>2 DEF HoldEnds, GraceEnds
  <2>3. ASSUME NEW r \in DOMAIN routes
        PROVE  /\ routes'[r].gen = routes[r].gen /\ routes'[r].released = routes[r].released
               /\ routes'[r].phase = "failed" <=> routes[r].phase = "failed"
    <3> DEFINE old == routes[r]  new == routes'[r]
    <3>1. new = old \/ new = [old EXCEPT !.refused = "old"] \/ new = [old EXCEPT !.seen = "old"]
      BY <2>2
    <3>2. old \in EntrySet
      BY DEF Honest, IsTable
    <3> HIDE DEF old, new
    <3>3. /\ new.gen = old.gen /\ new.released = old.released
          /\ new.phase = "failed" <=> old.phase = "failed"
      BY <3>1, <3>2 DEF EntrySet
    <3> QED BY <3>3 DEF old, new
  <2>4. Live(routes') = Live(routes)
    BY <2>2, <2>3, SameLive
  <2> QED BY <2>1, <2>4, EntriesAreSent
<1> QED BY <1>1, <1>2

\* Sent is inductive relative to Honest.
LEMMA StepIsSent == Honest /\ Sent /\ [Next]_vars => Sent'
<1> SUFFICES ASSUME Honest, Sent, [Next]_vars PROVE Sent'
  OBVIOUS
<1>1. CASE UNCHANGED vars
  <2>1. UNCHANGED <<routes, version, pushed, push>> /\ DOMAIN frp' = DOMAIN frp
    BY <1>1 DEF vars, table, pushing, client
  <2> QED BY <2>1, RestIsSent
<1>2. CASE RunnerUpdates \/ Pushing
  BY <1>2, PushesAreSent
<1>3. CASE Watching
  <2>1. CASE FoldAnswers
    BY <2>1, FoldIsSent
  <2>2. CASE PushOwed \/ LockPush
    BY <2>2, PushesAreSent
  <2>3. CASE ScanTable \/ WatchEnds \/ PushReturns
    <3>1. UNCHANGED <<routes, version, pushed, push>> /\ DOMAIN frp' = DOMAIN frp
      BY <2>3 DEF ScanTable, WatchEnds, PushReturns, table, pushing, client
    <3> QED BY <3>1, RestIsSent
  <2>4. CASE \E r \in Routes : InspectRoute(r)
    <3>1. UNCHANGED <<routes, version, pushed, push>> /\ DOMAIN frp' = DOMAIN frp
      BY <2>4 DEF InspectRoute, table, pushing, client
    <3> QED BY <3>1, RestIsSent
  <2> QED BY <1>3, <2>1, <2>2, <2>3, <2>4 DEF Watching
<1>4. CASE PrepareDrain \/ Stop \/ Rotate \/ BackoffEnds
  <2>1. UNCHANGED <<routes, version, pushed, push>> /\ DOMAIN frp' = DOMAIN frp
    BY <1>4 DEF PrepareDrain, Stop, Rotate, BackoffEnds, table, pushing, client
  <2> QED BY <2>1, RestIsSent
<1>5. CASE RunEnds \/ \E r \in Routes : HoldEnds(r) \/ GraceEnds(r)
  BY <1>5, EndIsSent
<1>6. CASE Server
  <2>1. CASE Login \/ LoseControl
    <3>1. UNCHANGED <<routes, version, pushed, push>> /\ DOMAIN frp' = DOMAIN frp
      BY <2>1 DEF Login, LoseControl, table, pushing
    <3> QED BY <3>1, RestIsSent
  <2>2. ASSUME NEW n \in Names, NEW answer, Resend(n) \/ Answer(n, answer)
        PROVE  Sent'
    <3>1. UNCHANGED <<routes, version, pushed, push>> /\ DOMAIN frp' = DOMAIN frp
      BY <2>2 DEF Resend, Answer, table, pushing
    <3> QED BY <3>1, RestIsSent
  <2> QED BY <1>6, <2>1, <2>2 DEF Server
<1> QED BY <1>1, <1>2, <1>3, <1>4, <1>5, <1>6 DEF Next, Passing

\* What FRP, the push in hand and the table hold.
THEOREM SessionIsSent == Spec => []Sent
<1>1. Init => Sent
  BY InitIsSent
<1>2. Honest /\ Sent /\ [Next]_vars => Sent'
  BY StepIsSent
<1> QED BY <1>1, <1>2, SessionIsHonest, PTL DEF Spec

\* When no push is owed, FRP holds exactly the live set, whatever table, failed
\* push or refusal came between (pushUnderUpdateMu, pushOwed).
THEOREM PushedSetIsHeld == Spec => []PushedIsHeld
<1>1. Sent => PushedIsHeld
  BY DEF Sent, Versions, Agree, PushedIsHeld
<1> QED BY <1>1, SessionIsSent, PTL

--------------------------------------------------------------------------------
(***************************************************************************)
(* The server's queue: who may still be before it.                         *)
(***************************************************************************)
\* A name the runner gave, and, if it is that of an entry, one with a slot.
Given(n) ==
  /\ n[1] \in Routes /\ n[2] \in Nat /\ n[2] <= gens[n[1]]
  /\ n[1] \in DOMAIN routes /\ routes[n[1]].gen = n[2] => routes[n[1]].released

\* A push in delivery has only given names, and those of live entries that FRP
\* already has.
Carried ==
  push.step = "deliver" =>
    /\ \A n \in push.live : Given(n)
    /\ \A r \in DOMAIN routes :
         routes[r].released /\ routes[r].phase # "failed" /\ Name(r, routes) \in DOMAIN frp
           => Name(r, routes) \in push.live

\* FRP and the poll know only names that were given.
Named ==
  /\ \A r \in DOMAIN routes : routes[r].gen = gens[r]
  /\ \A n \in DOMAIN frp : Given(n)
  /\ Carried
  /\ \A r \in DOMAIN watch.names :
       r \in Routes /\ watch.names[r] \in Nat /\ watch.names[r] <= gens[r]

Runs(n) == n \in DOMAIN frp /\ frp[n] = "running"

\* Until the control connection is lost, what serves runs at the server and the
\* poll hears that it does.
Heard ==
  /\ DOMAIN watch.answers \subseteq DOMAIN watch.names
  /\ ~relogged =>
       /\ ~online => \A n \in DOMAIN frp : frp[n] = "wait"
       /\ \A r \in DOMAIN routes : routes[r].phase = "serving" => Runs(Name(r, routes))
       /\ \A r \in Current :
            /\ watch.answers[r] = "running" => Runs(Name(r, routes))
            /\ routes[r].phase = "serving" => watch.answers[r] = "running"

\* The names of N the server has before it, or will have again, once FRP holds N.
Contending(N) == {n \in N : n \in DOMAIN frp => frp[n] \in {"wait", "refused"}}

Few(S) == IsFiniteSet(S) /\ Cardinality(S) <= Ceiling

\* No refusal has outlasted its hold, and every refusal has one.
Refusals(e) ==
  \A r \in DOMAIN e : e[r].refused # "old" /\ (e[r].err => e[r].refused # "never")

\* The ceiling holds for the table that counts, for FRP and for the push in hand.
Queued ==
  ~relogged /\ ~aged =>
    /\ ~done => Refusals(routes)
    /\ ~stopped => Few(Unregistered(routes))
    /\ Few(Contending(DOMAIN frp))
    /\ push.step = "deliver" => Few(Contending(push.live))

\* Less than few is few.
LEMMA FewSubset ==
  ASSUME NEW S, Few(S), NEW T, T \subseteq S
  PROVE  Few(T)
<1>1. IsFiniteSet(T) /\ Cardinality(T) <= Cardinality(S) /\ Cardinality(T) \in Nat /\ Cardinality(S) \in Nat
  BY FS_Subset, FS_CardinalityType DEF Few
<1>2. Ceiling \in Nat
  BY SessionAssumption DEF Ceiling
<1> QED BY <1>1, <1>2 DEF Few

\* The live names of entries that neither run nor failed are those of entries
\* still to register.
LEMMA ContendersWait ==
  ASSUME NEW e, IsTable(e), Few(Unregistered(e)), NEW N,
         \A n \in N : \E r \in Unregistered(e) : n = Name(r, e)
  PROVE  Few(N)
<1> DEFINE U == Unregistered(e)
           f == [r \in U |-> Name(r, e)]
           I == {f[r] : r \in U}
<1>1. IsFiniteSet(U) /\ Cardinality(U) <= Ceiling
  BY DEF Few
<1>2. IsFiniteSet(I) /\ Cardinality(I) <= Cardinality(U)
  <2>1. f \in [U -> I] /\ \A y \in I : \E x \in U : f[x] = y
    OBVIOUS
  <2> HIDE DEF U, f, I
  <2>2. f \in Surjection(U, I)
    BY <2>1 DEF Surjection
  <2> QED BY <1>1, <2>2, FS_Surjection
<1>3. N \subseteq I
  OBVIOUS
<1>4. Few(I)
  <2>1. Cardinality(I) \in Nat /\ Cardinality(U) \in Nat /\ Ceiling \in Nat
    BY <1>1, <1>2, FS_CardinalityType, SessionAssumption DEF Ceiling
  <2> HIDE DEF I, U
  <2> QED BY <1>1, <1>2, <2>1 DEF Few
<1> HIDE DEF I, U, f
<1> QED BY <1>3, <1>4, FewSubset

\* A slot changes no refusal.
LEMMA ReleaseRefuses ==
  ASSUME NEW e, IsTable(e), NEW S, NEW r \in DOMAIN e
  PROVE  Release(e, S)[r].refused = e[r].refused /\ Release(e, S)[r].err = e[r].err
<1> DEFINE new == Release(e, S)[r]  old == e[r]
<1>1. new = IF r \in S THEN [old EXCEPT !.released = TRUE] ELSE old
  BY DEF Release
<1>2. old \in EntrySet
  BY DEF IsTable
<1> HIDE DEF new, old
<1>3. new.refused = old.refused /\ new.err = old.err
  BY <1>1, <1>2 DEF EntrySet
<1> QED BY <1>3 DEF new, old

\* A slot is not taken back.
LEMMA ReleaseGrants ==
  ASSUME NEW e, IsTable(e), NEW S, NEW r \in DOMAIN e, e[r].released
  PROVE  Release(e, S)[r].released
<1> DEFINE new == Release(e, S)[r]  old == e[r]
<1>1. new = IF r \in S THEN [old EXCEPT !.released = TRUE] ELSE old
  BY DEF Release
<1>2. old \in EntrySet /\ old.released
  BY DEF IsTable
<1> HIDE DEF new, old
<1>3. new.released
  BY <1>1, <1>2 DEF EntrySet
<1> QED BY <1>3 DEF new

\* releaseWindowLocked fills the window up to the ceiling and no further.
LEMMA ReleaseIsFew ==
  ASSUME NEW e, IsTable(e), Refusals(e), Few(Unregistered(e)), NEW S \in ReleaseChoices(e)
  PROVE  Refusals(Release(e, S)) /\ Few(Unregistered(Release(e, S)))
<1> DEFINE U == Unregistered(e)
<1>1. Refusals(Release(e, S))
  BY ReleaseKeeps, ReleaseRefuses DEF Refusals
<1>2. Loading(e) = U
  BY DEF Loading, Refusals, Unregistered, IsTable, EntrySet, Moments
<1>3. /\ IsFiniteSet(U) /\ IsFiniteSet(InFlight(e)) /\ IsFiniteSet(Waiting(e)) /\ IsFiniteSet(S)
      /\ Cardinality(U) \in Nat /\ Cardinality(InFlight(e)) \in Nat
      /\ Cardinality(Waiting(e)) \in Nat /\ Cardinality(S) \in Nat
  <2>1. U \subseteq Routes /\ InFlight(e) \subseteq Routes /\ Waiting(e) \subseteq Routes /\ S \subseteq Routes
    BY DEF IsTable, Unregistered, InFlight, Waiting, ReleaseChoices
  <2> HIDE DEF U
  <2>2. IsFiniteSet(U) /\ IsFiniteSet(InFlight(e)) /\ IsFiniteSet(Waiting(e)) /\ IsFiniteSet(S)
    BY <2>1, SessionAssumption, FS_Subset
  <2> QED BY <2>2, FS_CardinalityType
<1>4. Cardinality(S) = Slots(e) /\ S \subseteq Waiting(e)
  BY DEF ReleaseChoices
<1>5. Cardinality(U) <= Ceiling /\ Ceiling \in Nat /\ Window \in Nat
  BY SessionAssumption DEF Few, Ceiling
<1>6. Cardinality(U) + Cardinality(S) <= Ceiling
  <2> DEFINE u == Cardinality(U)  i == Cardinality(InFlight(e))  w == Cardinality(Waiting(e))
             free == IF Window - i < Ceiling - u THEN Window - i ELSE Ceiling - u
  <2>1. Cardinality(S) = IF i >= Window \/ u >= Ceiling THEN 0 ELSE IF free < w THEN free ELSE w
    BY <1>2, <1>4 DEF Slots
  <2>2. u \in Nat /\ i \in Nat /\ w \in Nat /\ u <= Ceiling /\ Ceiling \in Nat /\ Window \in Nat
    BY <1>3, <1>5
  <2> HIDE DEF u, i, w
  <2>3. u + Cardinality(S) <= Ceiling
    BY <2>1, <2>2
  <2> QED BY <2>3 DEF u
<1>7. Unregistered(Release(e, S)) \subseteq U \cup S
  <2> DEFINE f == Release(e, S)
  <2>1. DOMAIN f = DOMAIN e
        /\ \A r \in DOMAIN e : f[r].phase = e[r].phase /\ f[r].released = (e[r].released \/ r \in S)
    BY ReleaseKeeps
  <2> HIDE DEF f
  <2>2. ASSUME NEW r \in Unregistered(f)
        PROVE  r \in U \cup S
    BY <2>1, <2>2 DEF Unregistered
  <2> QED BY <2>2 DEF f
<1>8. Few(U \cup S)
  <2> HIDE DEF U
  <2>1. IsFiniteSet(U \cup S)
        /\ Cardinality(U \cup S) = Cardinality(U) + Cardinality(S) - Cardinality(U \cap S)
    BY <1>3, FS_Union
  <2>2. IsFiniteSet(U \cap S)
    <3>1. U \cap S \subseteq U
      OBVIOUS
    <3> QED BY <1>3, <3>1, FS_Subset
  <2>3. Cardinality(U \cap S) \in Nat /\ Cardinality(U \cup S) \in Nat
    BY <2>1, <2>2, FS_CardinalityType
  <2> QED BY <1>3, <1>5, <1>6, <2>1, <2>3 DEF Few
<1> QED BY <1>1, <1>7, <1>8, FewSubset

\* An entry that Update registers afresh has no slot and no refusal yet.
LEMMA UpdatedAwaits ==
  ASSUME IsTable(routes), NEW want, NEW r \in DOMAIN want,
         ~(r \in DOMAIN routes /\ routes[r].gen = want[r])
  PROVE  /\ Updated(want)[r].phase = "pending" /\ ~Updated(want)[r].released
         /\ Updated(want)[r].refused = "never" /\ ~Updated(want)[r].err
BY DEF Updated, Entry

\* observe sets the refusal with the error, and never lets one age.
LEMMA FoldedRefuses ==
  ASSUME IsTable(routes), NEW r \in Current
  PROVE  /\ Folded[r].err = Erring(watch.answers[r])
         /\ Folded[r].refused = FirstRefusal(routes[r], watch.answers[r])
<1> DEFINE new == Folded[r]  old == routes[r]  a == watch.answers[r]
<1>1. r \in DOMAIN routes
  BY DEF Current
<1>2. new = [old EXCEPT !.phase = PhaseOf(a), !.err = Erring(a), !.refused = FirstRefusal(old, a),
               !.seen = IF a = "missing" THEN @ ELSE "recent"]
  BY <1>1 DEF Folded
<1>3. old \in EntrySet
  BY <1>1 DEF IsTable
<1> HIDE DEF new, old, a
<1>4. new.err = Erring(a) /\ new.refused = FirstRefusal(old, a)
  BY <1>2, <1>3 DEF EntrySet
<1> QED BY <1>4 DEF new, old, a

--------------------------------------------------------------------------------
\* The first window, as the table has it and as FRP is given it.
LEMMA InitIsQueued == Honest /\ Init => Named /\ Heard /\ Queued
<1> SUFFICES ASSUME Honest, Init PROVE Named /\ Heard /\ Queued
  OBVIOUS
<1>1. PICK first \in SUBSET Routes \ {{}} :
        LET fresh == [r \in first |-> Entry(0, FALSE)]
        IN  \E S \in ReleaseChoices(fresh) :
              /\ routes = Release(fresh, S)
              /\ frp = [n \in Live(routes) |-> "wait"]
  BY DEF Init
<1> DEFINE fresh == [r \in first |-> Entry(0, FALSE)]
<1>2. PICK S \in ReleaseChoices(fresh) :
        routes = Release(fresh, S) /\ frp = [n \in Live(routes) |-> "wait"]
  BY <1>1
<1>3. IsTable(fresh) /\ DOMAIN fresh = first
      /\ \A r \in first : /\ fresh[r].gen = 0 /\ fresh[r].phase = "pending" /\ ~fresh[r].released
                          /\ fresh[r].refused = "never" /\ ~fresh[r].err
  <2>1. 0 \in Nat /\ FALSE \in BOOLEAN
    OBVIOUS
  <2>2. Entry(0, FALSE) \in EntrySet
    BY <2>1, EntryIs
  <2>3. IsTable(fresh) /\ DOMAIN fresh = first
    <3> HIDE DEF Entry
    <3> QED BY <2>2 DEF IsTable
  <2> QED BY <2>3 DEF Entry
<1>4. Refusals(fresh) /\ Few(Unregistered(fresh))
  <2>1. Refusals(fresh)
    BY <1>3 DEF Refusals
  <2>2. Unregistered(fresh) = {}
    BY <1>3 DEF Unregistered
  <2>3. Few({})
    BY FS_EmptySet, SessionAssumption DEF Few, Ceiling
  <2> HIDE DEF fresh
  <2> QED BY <2>1, <2>2, <2>3
<1> HIDE DEF fresh
<1>5. Refusals(routes) /\ Few(Unregistered(routes))
  BY <1>2, <1>3, <1>4, ReleaseIsFew
<1>6. DOMAIN routes = first /\ \A r \in first : routes[r].gen = 0 /\ routes[r].phase = "pending"
  BY <1>2, <1>3, ReleaseKeeps
<1>7. gens = [r \in Routes |-> 0] /\ push.step = "none" /\ watch.answers = <<>> /\ watch.names = <<>>
  BY DEF Init, Idle, Polls
<1>8. DOMAIN frp = Live(routes) /\ \A n \in DOMAIN frp : frp[n] = "wait"
  BY <1>2
<1>9. \A n \in Live(routes) : \E r \in Unregistered(routes) : n = Name(r, routes)
  BY <1>6 DEF Live, Unregistered
<1>10. Named
  <2>1. ASSUME NEW n \in DOMAIN frp
        PROVE  Given(n)
    <3>1. PICK r \in DOMAIN routes : routes[r].released /\ n = <<r, routes[r].gen>>
      BY <1>8 DEF Live, Name
    <3> QED BY <1>6, <1>7, <3>1 DEF Given
  <2> QED BY <1>6, <1>7, <2>1 DEF Named, Carried
<1>11. Heard
  BY <1>6, <1>7, <1>8 DEF Heard, Current
<1>12. Queued
  <2>1. Few(Live(routes))
    BY <1>5, <1>9, ContendersWait DEF Honest
  <2>2. Few(Contending(DOMAIN frp))
    BY <1>8, <2>1, FewSubset DEF Contending
  <2> QED BY <1>5, <1>7, <2>2 DEF Queued
<1> QED BY <1>10, <1>11, <1>12

--------------------------------------------------------------------------------
\* A step that gives no name, and takes none back.
LEMMA NamedKept ==
  ASSUME Named, gens' = gens, DOMAIN frp' = DOMAIN frp,
         push' = push \/ push'.step # "deliver",
         watch'.names = watch.names \/ watch'.names = <<>>,
         DOMAIN routes' = DOMAIN routes,
         \A r \in DOMAIN routes :
           /\ routes'[r].gen = routes[r].gen
           /\ routes[r].released => routes'[r].released
           /\ routes[r].phase = "failed" => routes'[r].phase = "failed"
  PROVE  Named'
<1>1. ASSUME NEW n, Given(n)
      PROVE  Given(n)'
  BY <1>1 DEF Given
<1>2. Carried'
  <2> SUFFICES ASSUME push'.step = "deliver" PROVE Carried'
    BY DEF Carried
  <2>1. push' = push
    OBVIOUS
  <2>2. \A n \in push.live : Given(n)'
    BY <1>1, <2>1 DEF Named, Carried
  <2>3. ASSUME NEW r \in DOMAIN routes', routes'[r].released, routes'[r].phase # "failed",
               Name(r, routes') \in DOMAIN frp'
        PROVE  Name(r, routes') \in push.live
    <3>1. Name(r, routes') = Name(r, routes) /\ routes[r].phase # "failed"
      BY <2>3 DEF Name
    <3>2. routes[r].released
      BY <2>3, <3>1 DEF Named, Given, Name
    <3> QED BY <2>1, <2>3, <3>1, <3>2 DEF Named, Carried
  <2>4. \A r \in DOMAIN routes' : Name(r, routes)' = Name(r, routes')
    BY DEF Name
  <2> QED BY <2>1, <2>2, <2>3, <2>4 DEF Carried
<1>3. \A r \in DOMAIN routes' : routes'[r].gen = gens'[r]
  BY DEF Named
<1>4. \A n \in DOMAIN frp' : Given(n)'
  BY <1>1 DEF Named
<1>5. \A r \in DOMAIN watch'.names :
        r \in Routes /\ watch'.names[r] \in Nat /\ watch'.names[r] <= gens'[r]
  BY DEF Named
<1> QED BY <1>2, <1>3, <1>4, <1>5 DEF Named

\* What the runner asks of Update for the routes it keeps.
Asked(keep, fresh) == [r \in keep |-> IF r \in fresh THEN gens[r] + 1 ELSE gens[r]]

\* An entry is kept exactly if it is not asked for afresh.
AsksOnce(keep, fresh) ==
  /\ DOMAIN Asked(keep, fresh) = keep
  /\ \A r \in keep :
       /\ Asked(keep, fresh)[r] \in Nat /\ Asked(keep, fresh)[r] = gens'[r]
       /\ r \notin fresh <=> r \in DOMAIN routes /\ routes[r].gen = Asked(keep, fresh)[r]

LEMMA UpdateAsks ==
  ASSUME Honest, Named, RunnerUpdates
  PROVE  \E keep \in SUBSET Routes : \E fresh \in SUBSET keep :
           /\ gens' = Asked(Routes, fresh)
           /\ Update(Asked(keep, fresh))
           /\ AsksOnce(keep, fresh)
<1>1. PICK keep \in SUBSET Routes : \E fresh \in SUBSET keep :
        /\ keep \ DOMAIN routes \subseteq fresh
        /\ Update(Asked(keep, fresh))
        /\ gens' = Asked(Routes, fresh)
  BY DEF RunnerUpdates, Asked
<1>2. PICK fresh \in SUBSET keep :
        /\ keep \ DOMAIN routes \subseteq fresh
        /\ Update(Asked(keep, fresh))
        /\ gens' = Asked(Routes, fresh)
  BY <1>1
<1>3. gens \in [Routes -> Nat] /\ \A r \in DOMAIN routes : routes[r].gen = gens[r]
  BY DEF Honest, Ordered, Named
<1>4. AsksOnce(keep, fresh)
  BY <1>2, <1>3 DEF AsksOnce, Asked
<1> QED BY <1>2, <1>4

\* An Update keeps the entry of a name that stays, but for a slot, and gives
\* every other route a name nobody knows yet.
LEMMA UpdateGives ==
  ASSUME Honest, Named, RunnerUpdates
  PROVE  /\ \A r \in Routes : gens'[r] \in Nat /\ gens[r] <= gens'[r]
         /\ DOMAIN routes' \subseteq Routes
         /\ \A r \in DOMAIN routes' :
              /\ routes'[r].gen = gens'[r]
              /\ \/ /\ r \in DOMAIN routes /\ routes[r].gen = routes'[r].gen
                    /\ routes[r].released => routes'[r].released
                    /\ routes'[r].phase = routes[r].phase
                 \/ gens[r] < gens'[r] /\ routes'[r].phase = "pending"
<1>0. PICK keep \in SUBSET Routes : \E fresh \in SUBSET keep :
        gens' = Asked(Routes, fresh) /\ Update(Asked(keep, fresh)) /\ AsksOnce(keep, fresh)
  BY UpdateAsks
<1>01. PICK fresh \in SUBSET keep :
        gens' = Asked(Routes, fresh) /\ Update(Asked(keep, fresh)) /\ AsksOnce(keep, fresh)
  BY <1>0
<1> DEFINE want == Asked(keep, fresh)
<1>1. /\ DOMAIN want = keep /\ \A r \in keep : want[r] \in Nat /\ want[r] = gens'[r]
      /\ gens' = [r \in Routes |-> IF r \in fresh THEN gens[r] + 1 ELSE gens[r]]
      /\ Update(want)
      /\ \A r \in keep : r \notin fresh <=> r \in DOMAIN routes /\ routes[r].gen = want[r]
  <2>1. gens' = [r \in Routes |-> IF r \in fresh THEN gens[r] + 1 ELSE gens[r]]
    BY <1>01 DEF Asked
  <2> QED BY <1>01, <2>1 DEF AsksOnce
<1>2. gens \in [Routes -> Nat] /\ IsTable(routes)
  BY DEF Honest, Ordered
<1>3. \A r \in Routes : gens'[r] \in Nat /\ gens[r] <= gens'[r] /\ (r \in fresh => gens[r] < gens'[r])
  BY <1>1, <1>2
<1> DEFINE u == Updated(want)
<1>4. PICK S : routes' = Release(u, S)
  BY <1>1 DEF Update
<1>5. IsTable(u) /\ DOMAIN u = keep
      /\ \A r \in keep :
           /\ u[r].gen = want[r]
           /\ \/ r \in DOMAIN routes /\ routes[r].gen = want[r] /\ u[r] = routes[r]
              \/ u[r].phase = "pending" /\ ~(r \in DOMAIN routes /\ routes[r].gen = want[r])
  BY <1>1, <1>2, UpdatedIs
<1> HIDE DEF u
<1>6. DOMAIN routes' = keep
      /\ \A r \in keep : /\ routes'[r].gen = u[r].gen /\ routes'[r].phase = u[r].phase
                         /\ u[r].released => routes'[r].released
  <2>1. DOMAIN Release(u, S) = keep
        /\ \A r \in keep : Release(u, S)[r].gen = u[r].gen /\ Release(u, S)[r].phase = u[r].phase
    BY <1>5, ReleaseKeeps
  <2>2. \A r \in keep : u[r].released => Release(u, S)[r].released
    BY <1>5, ReleaseGrants
  <2> QED BY <1>4, <2>1, <2>2
<1>7. ASSUME NEW r \in keep
      PROVE  /\ routes'[r].gen = gens'[r]
             /\ \/ /\ r \in DOMAIN routes /\ routes[r].gen = routes'[r].gen
                   /\ routes[r].released => routes'[r].released
                   /\ routes'[r].phase = routes[r].phase
                \/ gens[r] < gens'[r] /\ routes'[r].phase = "pending"
  <2>1. CASE r \in DOMAIN routes /\ routes[r].gen = want[r] /\ u[r] = routes[r]
    BY <1>1, <1>5, <1>6, <2>1
  <2>2. CASE u[r].phase = "pending" /\ ~(r \in DOMAIN routes /\ routes[r].gen = want[r])
    <3>1. r \in fresh /\ r \in Routes
      BY <1>1, <2>2
    <3> QED BY <1>1, <1>3, <1>5, <1>6, <2>2, <3>1
  <2> QED BY <1>5, <2>1, <2>2
<1> QED BY <1>1, <1>3, <1>6, <1>7

\* The end of the session and a passing hold leave names and slots alone; what
\* serves is pending then.
LEMMA EntriesStay ==
  ASSUME IsTable(routes), RunEnds \/ \E q \in Routes : HoldEnds(q) \/ GraceEnds(q)
  PROVE  /\ DOMAIN routes' = DOMAIN routes
         /\ \A r \in DOMAIN routes :
              /\ routes'[r].gen = routes[r].gen /\ routes'[r].released = routes[r].released
              /\ \/ routes'[r].phase = routes[r].phase
                 \/ RunEnds /\ routes[r].phase = "serving" /\ routes'[r].phase = "pending"
<1>1. CASE RunEnds
  <2>1. routes' = [r \in DOMAIN routes |->
                     IF routes[r].phase = "serving"
                     THEN [routes[r] EXCEPT !.phase = "pending", !.err = TRUE] ELSE routes[r]]
    BY <1>1, Zenon DEF RunEnds
  <2>2. ASSUME NEW r \in DOMAIN routes
        PROVE  /\ routes'[r].gen = routes[r].gen /\ routes'[r].released = routes[r].released
               /\ \/ routes'[r].phase = routes[r].phase
                  \/ routes[r].phase = "serving" /\ routes'[r].phase = "pending"
    <3> DEFINE old == routes[r]  new == routes'[r]
    <3>1. new = IF old.phase = "serving" THEN [old EXCEPT !.phase = "pending", !.err = TRUE] ELSE old
      BY <2>1, Zenon
    <3>2. old \in EntrySet
      BY DEF IsTable
    <3> HIDE DEF old, new
    <3>3. /\ new.gen = old.gen /\ new.released = old.released
          /\ new.phase = old.phase \/ (old.phase = "serving" /\ new.phase = "pending")
      BY <3>1, <3>2 DEF EntrySet
    <3> QED BY <3>3 DEF old, new
  <2>3. DOMAIN routes' = DOMAIN routes
    BY <2>1, Zenon
  <2> QED BY <1>1, <2>2, <2>3
<1>2. ASSUME NEW q \in Routes, HoldEnds(q) \/ GraceEnds(q)
      PROVE  /\ DOMAIN routes' = DOMAIN routes
             /\ \A r \in DOMAIN routes :
                  /\ routes'[r].gen = routes[r].gen /\ routes'[r].released = routes[r].released
                  /\ routes'[r].phase = routes[r].phase
  <2>1. DOMAIN routes' = DOMAIN routes
        /\ (routes' = [routes EXCEPT ![q].refused = "old"] \/ routes' = [routes EXCEPT ![q].seen = "old"])
    BY <1>2 DEF HoldEnds, GraceEnds
  <2>2. ASSUME NEW r \in DOMAIN routes
        PROVE  /\ routes'[r].gen = routes[r].gen /\ routes'[r].released = routes[r].released
               /\ routes'[r].phase = routes[r].phase
    <3> DEFINE old == routes[r]  new == routes'[r]
    <3>1. new = old \/ new = [old EXCEPT !.refused = "old"] \/ new = [old EXCEPT !.seen = "old"]
      BY <2>1
    <3>2. old \in EntrySet
      BY DEF IsTable
    <3> HIDE DEF old, new
    <3>3. new.gen = old.gen /\ new.released = old.released /\ new.phase = old.phase
      BY <3>1, <3>2 DEF EntrySet
    <3> QED BY <3>3 DEF old, new
  <2> QED BY <2>1, <2>2
<1> QED BY <1>1, <1>2

\* Named is inductive relative to Honest and Sent.
LEMMA StepIsNamed == Honest /\ Sent /\ Named /\ [Next]_vars => Named'
<1> SUFFICES ASSUME Honest, Sent, Named, [Next]_vars PROVE Named'
  OBVIOUS
<1>1. CASE RunnerUpdates
  <2>1. frp' = frp /\ watch' = watch /\ push'.step # "deliver"
    <3>1. PICK want : Update(want)
      BY <1>1 DEF RunnerUpdates
    <3> QED BY <3>1 DEF Update, client, Idle
  <2>2. ASSUME NEW n, Given(n)
        PROVE  Given(n)'
    <3>1. n[1] \in Routes /\ n[2] \in Nat /\ n[2] <= gens'[n[1]]
      <4>1. gens[n[1]] \in Nat
        BY <2>2 DEF Given, Honest, Ordered
      <4> QED BY <1>1, <2>2, <4>1, UpdateGives DEF Given
    <3>2. ASSUME n[1] \in DOMAIN routes', routes'[n[1]].gen = n[2]
          PROVE  routes'[n[1]].released
      <4>1. gens[n[1]] \in Nat /\ n[2] \in Nat /\ n[2] <= gens[n[1]]
        BY <2>2 DEF Given, Honest, Ordered
      <4>2. routes'[n[1]].gen = gens'[n[1]] /\ gens'[n[1]] \in Nat
        BY <1>1, <3>1, <3>2, UpdateGives
      <4>3. ~(gens[n[1]] < gens'[n[1]])
        BY <3>2, <4>1, <4>2
      <4>4. n[1] \in DOMAIN routes /\ routes[n[1]].gen = routes'[n[1]].gen
            /\ (routes[n[1]].released => routes'[n[1]].released)
        BY <1>1, <3>2, <4>3, UpdateGives
      <4> QED BY <2>2, <3>2, <4>4 DEF Given
    <3> QED BY <3>1, <3>2 DEF Given
  <2>3. \A n \in DOMAIN frp' : Given(n)'
    BY <2>1, <2>2 DEF Named
  <2>4. \A r \in DOMAIN routes' : routes'[r].gen = gens'[r]
    BY <1>1, UpdateGives
  <2>5. ASSUME NEW r \in DOMAIN watch'.names
        PROVE  r \in Routes /\ watch'.names[r] \in Nat /\ watch'.names[r] <= gens'[r]
    <3>1. r \in Routes /\ watch.names[r] \in Nat /\ watch.names[r] <= gens[r] /\ gens[r] \in Nat
      BY <2>1, <2>5 DEF Named, Honest, Ordered
    <3> QED BY <1>1, <2>1, <3>1, UpdateGives
  <2> QED BY <2>1, <2>3, <2>4, <2>5 DEF Named, Carried
<1>2. CASE SnapshotPush
  <2>1. UNCHANGED <<routes, gens, frp, watch>>
    BY <1>2 DEF SnapshotPush, table, client
  <2>2. CASE push' = Idle
    BY <2>1, <2>2, NamedKept DEF Idle
  <2>3. CASE push' = [push EXCEPT !.step = "deliver", !.version = version, !.live = Live(routes)]
    <3>1. ASSUME NEW n \in Live(routes)
          PROVE  Given(n)'
      <4>1. PICK r \in DOMAIN routes : routes[r].released /\ n = <<r, routes[r].gen>>
        BY DEF Live, Name
      <4>2. r \in Routes /\ routes[r].gen \in Nat /\ routes[r].gen = gens[r]
        BY DEF Named, Honest, IsTable, EntrySet
      <4> QED BY <2>1, <4>1, <4>2 DEF Given
    <3>2. push'.live = Live(routes)
      BY <2>3 DEF Sent, Versions
    <3>3. \A n \in push'.live : Given(n)'
      BY <3>1, <3>2
    <3>4. \A r \in DOMAIN routes' :
            routes'[r].released /\ routes'[r].phase # "failed" => Name(r, routes)' \in push'.live
      BY <2>1, <3>2 DEF Live, Name
    <3>5. Carried'
      BY <3>3, <3>4 DEF Carried
    <3>6. ASSUME NEW n, Given(n)
          PROVE  Given(n)'
      BY <2>1, <3>6 DEF Given
    <3>7. \A n \in DOMAIN frp' : Given(n)'
      BY <2>1, <3>6 DEF Named
    <3> QED BY <2>1, <3>5, <3>7 DEF Named
  <2> QED BY <1>2, <2>2, <2>3 DEF SnapshotPush
<1>3. CASE DeliverPush
  <2>1. UNCHANGED <<routes, gens, watch>> /\ push.step = "deliver" /\ DOMAIN frp' = push.live
    BY <1>3 DEF DeliverPush, table
  <2>2. push'.step # "deliver"
    BY <1>3 DEF DeliverPush, Sent, Versions
  <2>3. ASSUME NEW n \in push.live
        PROVE  Given(n)'
    <3>1. Given(n)
      BY <2>1 DEF Named, Carried
    <3> QED BY <2>1, <3>1 DEF Given
  <2> QED BY <2>1, <2>2, <2>3 DEF Named, Carried
<1>4. CASE ScanTable
  <2>1. UNCHANGED <<routes, gens, frp, push>>
    BY <1>4 DEF ScanTable, table, pushing, client
  <2>2. watch'.names = [r \in {q \in DOMAIN routes : routes[q].phase # "failed"} |-> routes[r].gen]
    BY <1>4 DEF ScanTable, Honest, ScanHonest
  <2>3. ASSUME NEW n, Given(n)
        PROVE  Given(n)'
    BY <2>1, <2>3 DEF Given
  <2>4. Carried'
    BY <2>1, <2>3 DEF Named, Carried, Name
  <2>5. ASSUME NEW r \in DOMAIN watch'.names
        PROVE  r \in Routes /\ watch'.names[r] \in Nat /\ watch'.names[r] <= gens'[r]
    BY <2>1, <2>2 DEF Honest, IsTable, EntrySet, Ordered
  <2> QED BY <2>1, <2>3, <2>4, <2>5 DEF Named
<1>5. CASE FoldAnswers
  <2>1. UNCHANGED <<gens, frp, push>> /\ watch'.names = <<>>
    BY <1>5 DEF FoldAnswers, Polls, pushing, client
  <2>2. IsTable(routes) /\ DOMAIN Folded = DOMAIN routes
        /\ \A r \in DOMAIN routes :
             /\ Folded[r].gen = routes[r].gen /\ Folded[r].released = routes[r].released
             /\ routes[r].phase = "failed" => Folded[r].phase = "failed"
    BY FoldedIs DEF Honest
  <2>3. PICK S : routes' = routes \/ routes' = Folded \/ routes' = Release(Folded, S)
    BY <1>5 DEF FoldAnswers
  <2>4. DOMAIN routes' = DOMAIN routes
        /\ \A r \in DOMAIN routes :
             /\ routes'[r].gen = routes[r].gen
             /\ routes[r].released => routes'[r].released
             /\ routes[r].phase = "failed" => routes'[r].phase = "failed"
    <3>1. CASE routes' = routes
      BY <3>1
    <3>2. CASE routes' = Folded
      BY <2>2, <3>2
    <3>3. CASE routes' = Release(Folded, S)
      <4>1. IsTable(Folded)
        BY <2>2, FoldedIs
      <4>2. DOMAIN Release(Folded, S) = DOMAIN Folded
            /\ \A r \in DOMAIN Folded :
                 Release(Folded, S)[r].gen = Folded[r].gen /\ Release(Folded, S)[r].phase = Folded[r].phase
        BY <4>1, ReleaseKeeps
      <4>3. \A r \in DOMAIN Folded : Folded[r].released => Release(Folded, S)[r].released
        BY <4>1, ReleaseGrants
      <4> QED BY <2>2, <3>3, <4>2, <4>3
    <3> QED BY <2>3, <3>1, <3>2, <3>3
  <2> QED BY <2>1, <2>4, NamedKept
<1>6. CASE RunEnds \/ \E q \in Routes : HoldEnds(q) \/ GraceEnds(q)
  <2>1. UNCHANGED <<gens, frp, push, watch>>
    BY <1>6 DEF RunEnds, HoldEnds, GraceEnds, pushing, client
  <2> QED BY <1>6, <2>1, EntriesStay, NamedKept DEF Honest
<1>7. CASE AcceptPush \/ FailPush \/ WatchEnds \/ PushOwed \/ LockPush \/ PushReturns
           \/ PrepareDrain \/ Stop \/ Rotate \/ BackoffEnds \/ Server \/ UNCHANGED vars
           \/ \E r \in Routes : InspectRoute(r)
  <2>1. UNCHANGED <<routes, gens>> /\ DOMAIN frp' = DOMAIN frp
    <3>1. CASE AcceptPush \/ FailPush \/ WatchEnds \/ PushOwed \/ LockPush \/ PushReturns
               \/ \E r \in Routes : InspectRoute(r)
      BY <3>1 DEF AcceptPush, FailPush, WatchEnds, PushOwed, LockPush, PushReturns, InspectRoute, table, client
    <3>2. CASE PrepareDrain \/ Stop \/ Rotate \/ BackoffEnds
      BY <3>2 DEF PrepareDrain, Stop, Rotate, BackoffEnds, table, client
    <3>3. CASE Server
      BY <3>3 DEF Server, Login, LoseControl, Resend, Answer, table
    <3>4. CASE UNCHANGED vars
      BY <3>4 DEF vars, table, client
    <3> QED BY <1>7, <3>1, <3>2, <3>3, <3>4
  <2>2. push' = push \/ push'.step # "deliver"
    <3>1. CASE AcceptPush \/ FailPush \/ WatchEnds \/ PushOwed \/ LockPush \/ PushReturns
               \/ \E r \in Routes : InspectRoute(r)
      <4>1. Idle.step # "deliver" /\ [Idle EXCEPT !.by = "watch", !.step = "snapshot"].step # "deliver"
        BY DEF Idle
      <4> HIDE DEF Idle
      <4>2. CASE AcceptPush \/ FailPush
        BY <4>1, <4>2 DEF AcceptPush, FailPush
      <4>3. CASE PushOwed \/ LockPush
        BY <4>1, <4>3 DEF PushOwed, LockPush, pushing
      <4>4. CASE WatchEnds \/ PushReturns \/ \E r \in Routes : InspectRoute(r)
        BY <4>4 DEF WatchEnds, PushReturns, InspectRoute, pushing
      <4> QED BY <3>1, <4>2, <4>3, <4>4
    <3>2. CASE PrepareDrain \/ Stop \/ Rotate \/ BackoffEnds
      BY <3>2 DEF PrepareDrain, Stop, Rotate, BackoffEnds, pushing
    <3>3. CASE Server
      BY <3>3 DEF Server, Login, LoseControl, Resend, Answer, pushing
    <3>4. CASE UNCHANGED vars
      BY <3>4 DEF vars, pushing
    <3> QED BY <1>7, <3>1, <3>2, <3>3, <3>4
  <2>3. watch'.names = watch.names \/ watch'.names = <<>>
    <3>1. CASE WatchEnds \/ PushOwed \/ LockPush \/ PushReturns
      BY <3>1 DEF WatchEnds, PushOwed, LockPush, PushReturns, Polls, Honest, ScanHonest
    <3>2. ASSUME NEW r, InspectRoute(r)
          PROVE  watch'.names = watch.names \/ watch'.names = <<>>
      <4> DEFINE answer == Status(<<r, watch.names[r]>>)
      <4>1. \/ watch' = [Polls EXCEPT !.step = "ended"]
            \/ watch' = [watch EXCEPT !.answers =
                  [q \in DOMAIN @ \union {r} |-> IF q = r THEN answer ELSE @[q]]]
        BY <3>2 DEF InspectRoute
      <4> HIDE DEF answer
      <4> QED BY <4>1 DEF Polls, Honest, ScanHonest
    <3>3. CASE ~(WatchEnds \/ PushOwed \/ LockPush \/ PushReturns \/ \E r \in Routes : InspectRoute(r))
      BY <1>7, <3>3 DEF AcceptPush, FailPush, PrepareDrain, Stop, Rotate, BackoffEnds,
              Server, Login, LoseControl, Resend, Answer, vars
    <3> QED BY <3>1, <3>2, <3>3
  <2> QED BY <2>1, <2>2, <2>3, NamedKept
<1> QED BY <1>1, <1>2, <1>3, <1>4, <1>5, <1>6, <1>7 DEF Next, Pushing, Watching, Passing

--------------------------------------------------------------------------------
\* A step that leaves FRP alone, lets nothing serve that did not, and asks nothing.
LEMMA HeardKept ==
  ASSUME Heard, relogged' = relogged, online' = online, frp' = frp,
         \/ watch'.names = watch.names /\ watch'.answers = watch.answers
         \/ watch'.answers = <<>>,
         \A r \in DOMAIN routes' :
           \/ /\ r \in DOMAIN routes /\ routes'[r].gen = routes[r].gen
              /\ \/ routes'[r].phase = routes[r].phase
                 \/ routes[r].phase # "failed" /\ routes'[r].phase = "pending"
           \/ /\ routes'[r].phase = "pending"
              /\ r \in DOMAIN watch.names => watch.names[r] # routes'[r].gen
  PROVE  Heard'
<1>1. DOMAIN watch'.answers \subseteq DOMAIN watch'.names
  BY DEF Heard
<1>2. ASSUME NEW r \in DOMAIN routes', r \in DOMAIN routes, routes'[r].gen = routes[r].gen
      PROVE  Name(r, routes)' = Name(r, routes)
  BY <1>2 DEF Name
<1>3. ASSUME ~relogged, NEW r \in DOMAIN routes', routes'[r].phase = "serving"
      PROVE  Runs(Name(r, routes))'
  <2>1. r \in DOMAIN routes /\ routes'[r].gen = routes[r].gen /\ routes[r].phase = "serving"
    BY <1>3
  <2> QED BY <1>2, <1>3, <2>1 DEF Heard, Runs
<1>4. ASSUME ~relogged, NEW r \in Current'
      PROVE  /\ watch'.answers[r] = "running" => Runs(Name(r, routes))'
             /\ routes'[r].phase = "serving" => watch'.answers[r] = "running"
  <2>1. r \in DOMAIN watch'.answers /\ r \in DOMAIN routes'
        /\ routes'[r].gen = watch'.names[r] /\ routes'[r].phase # "failed"
    BY <1>4 DEF Current
  <2>2. watch'.names = watch.names /\ watch'.answers = watch.answers
    BY <2>1
  <2>3. r \in DOMAIN watch.names
    BY <2>1, <2>2 DEF Heard
  <2>4. r \in DOMAIN routes /\ routes'[r].gen = routes[r].gen /\ routes[r].phase # "failed"
        /\ (routes'[r].phase = "serving" => routes[r].phase = "serving")
    BY <2>1, <2>2, <2>3
  <2>5. r \in Current
    BY <2>1, <2>2, <2>4 DEF Current
  <2> QED BY <1>2, <1>4, <2>1, <2>2, <2>4, <2>5 DEF Heard, Runs
<1> QED BY <1>1, <1>3, <1>4 DEF Heard

\* A step of FRP and its server under which no name of the table stops running.
LEMMA HeardIfRuns ==
  ASSUME Heard, UNCHANGED <<routes, watch, relogged>>,
         ~relogged /\ ~online' => \A n \in DOMAIN frp' : frp'[n] = "wait",
         ~relogged => \A r \in DOMAIN routes :
           routes[r].phase # "failed" /\ Runs(Name(r, routes)) => Runs(Name(r, routes))'
  PROVE  Heard'
<1>1. Current' = Current
  BY DEF Current
<1>2. \A r \in Current : r \in DOMAIN routes /\ routes[r].phase # "failed"
  BY DEF Current
<1> QED BY <1>1, <1>2 DEF Heard

\* Heard is inductive relative to Honest, Sent and Named.
LEMMA StepIsHeard == Honest /\ Sent /\ Named /\ Heard /\ [Next]_vars => Heard'
<1> SUFFICES ASSUME Honest, Sent, Named, Heard, [Next]_vars PROVE Heard'
  OBVIOUS
<1>1. CASE RunnerUpdates
  <2>1. PICK want : Update(want)
    BY <1>1 DEF RunnerUpdates
  <2>2. UNCHANGED <<relogged, online, frp, watch>>
    BY <2>1 DEF Update, client, history
  <2>3. ASSUME NEW r \in DOMAIN routes', gens[r] < gens'[r], r \in DOMAIN watch.names
        PROVE  watch.names[r] # routes'[r].gen
    <3>1. r \in Routes /\ watch.names[r] \in Nat /\ watch.names[r] <= gens[r] /\ gens[r] \in Nat
      BY <2>3 DEF Named, Honest, Ordered
    <3>2. routes'[r].gen = gens'[r] /\ gens'[r] \in Nat
      BY <1>1, <3>1, UpdateGives
    <3> QED BY <2>3, <3>1, <3>2
  <2>4. ASSUME NEW r \in DOMAIN routes'
        PROVE  \/ /\ r \in DOMAIN routes /\ routes'[r].gen = routes[r].gen
                  /\ routes'[r].phase = routes[r].phase
               \/ /\ routes'[r].phase = "pending"
                  /\ r \in DOMAIN watch.names => watch.names[r] # routes'[r].gen
    BY <1>1, <2>3, UpdateGives
  <2> QED BY <2>2, <2>4, HeardKept
<1>2. CASE DeliverPush
  <2>1. UNCHANGED <<routes, watch, relogged, online>> /\ push.step = "deliver"
        /\ frp' = [n \in push.live |-> IF n \in DOMAIN frp THEN frp[n] ELSE "wait"]
    BY <1>2 DEF DeliverPush, table, history
  <2>2. ASSUME NEW r \in DOMAIN routes, routes[r].phase # "failed", Runs(Name(r, routes))
        PROVE  Runs(Name(r, routes))'
    <3>1. Name(r, routes)' = Name(r, routes) /\ Name(r, routes) \in DOMAIN frp
          /\ frp[Name(r, routes)] = "running"
      BY <2>1, <2>2 DEF Name, Runs
    <3>2. routes[r].released
      BY <3>1 DEF Named, Given, Name
    <3>3. Name(r, routes) \in push.live
      BY <2>1, <2>2, <3>1, <3>2 DEF Named, Carried
    <3> QED BY <2>1, <3>1, <3>3 DEF Runs
  <2>3. ~relogged /\ ~online' => \A n \in DOMAIN frp' : frp'[n] = "wait"
    BY <2>1 DEF Heard
  <2> QED BY <2>1, <2>2, <2>3, HeardIfRuns
<1>3. CASE Login
  <2>1. UNCHANGED <<routes, watch, relogged>> /\ ~online /\ online'
        /\ frp' = [n \in DOMAIN frp |-> "wait"]
    BY <1>3 DEF Login, table, history
  <2>2. ASSUME ~relogged, NEW n, Runs(n)
        PROVE  FALSE
    BY <2>1, <2>2 DEF Heard, Runs
  <2> QED BY <2>1, <2>2, HeardIfRuns
<1>4. CASE LoseControl
  <2>1. UNCHANGED watch /\ relogged'
    BY <1>4 DEF LoseControl
  <2> QED BY <2>1 DEF Heard
<1>5. ASSUME NEW n \in Names, NEW answer, Resend(n) \/ Answer(n, answer)
      PROVE  Heard'
  <2>1. UNCHANGED <<routes, watch, relogged, online>> /\ online /\ DOMAIN frp' = DOMAIN frp
    BY <1>5 DEF Resend, Answer, table, history
  <2>2. \A m \in DOMAIN frp : frp[m] = "running" => frp'[m] = "running"
    BY <1>5 DEF Resend, Answer
  <2>3. \A r \in DOMAIN routes : Runs(Name(r, routes)) => Runs(Name(r, routes))'
    BY <2>1, <2>2 DEF Runs, Name
  <2> QED BY <2>1, <2>3, HeardIfRuns
<1>6. CASE FoldAnswers
  <2>1. UNCHANGED <<relogged, online, frp>> /\ watch'.answers = <<>>
    BY <1>6 DEF FoldAnswers, Polls, client, history
  <2>2. CASE routes' = routes
    BY <2>1, <2>2, HeardKept
  <2>3. CASE \E S : routes' = Folded \/ routes' = Release(Folded, S)
    <3>1. IsTable(Folded) /\ DOMAIN routes' = DOMAIN routes
          /\ \A r \in DOMAIN routes : routes'[r].gen = routes[r].gen /\ routes'[r].phase = Folded[r].phase
      <4>1. IsTable(Folded) /\ DOMAIN Folded = DOMAIN routes
            /\ \A r \in DOMAIN routes : Folded[r].gen = routes[r].gen
        BY FoldedIs DEF Honest
      <4>2. CASE routes' = Folded
        BY <4>1, <4>2
      <4>3. ASSUME NEW S, routes' = Release(Folded, S)
            PROVE  DOMAIN routes' = DOMAIN routes
                   /\ \A r \in DOMAIN routes :
                        routes'[r].gen = routes[r].gen /\ routes'[r].phase = Folded[r].phase
        <5>1. DOMAIN Release(Folded, S) = DOMAIN Folded
              /\ \A r \in DOMAIN Folded :
                   Release(Folded, S)[r].gen = Folded[r].gen /\ Release(Folded, S)[r].phase = Folded[r].phase
          BY <4>1, ReleaseKeeps
        <5> QED BY <4>1, <4>3, <5>1
      <4> QED BY <2>3, <4>1, <4>2, <4>3
    <3>2. ASSUME ~relogged, NEW r \in DOMAIN routes', routes'[r].phase = "serving"
          PROVE  Runs(Name(r, routes))'
      <4>1. r \in DOMAIN routes /\ Name(r, routes)' = Name(r, routes)
        BY <3>1 DEF Name
      <4>2. Runs(Name(r, routes))
        <5>1. CASE r \in Current
          <6>1. PhaseOf(watch.answers[r]) = "serving"
            BY <3>1, <3>2, <4>1, <5>1, FoldedIs DEF Honest
          <6>2. watch.answers[r] = "running"
            BY <6>1 DEF PhaseOf
          <6> QED BY <3>2, <5>1, <6>2 DEF Heard
        <5>2. CASE r \notin Current
          <6>1. routes[r].phase = "serving"
            BY <3>1, <3>2, <4>1, <5>2, FoldedIs DEF Honest
          <6> QED BY <3>2, <4>1, <6>1 DEF Heard
        <5> QED BY <5>1, <5>2
      <4> QED BY <2>1, <4>1, <4>2 DEF Runs
    <3>3. Current' = {} /\ DOMAIN watch'.answers = {}
      BY <2>1 DEF Current
    <3>4. ~relogged /\ ~online' => \A n \in DOMAIN frp' : frp'[n] = "wait"
      BY <2>1 DEF Heard
    <3> QED BY <2>1, <3>2, <3>3, <3>4 DEF Heard
  <2> QED BY <1>6, <2>2, <2>3 DEF FoldAnswers
<1>7. ASSUME NEW q \in Routes, InspectRoute(q)
      PROVE  Heard'
  <2> DEFINE answer == Status(<<q, watch.names[q]>>)
  <2>1. UNCHANGED <<routes, relogged, online, frp>> /\ q \in DOMAIN watch.names \ DOMAIN watch.answers
    BY <1>7 DEF InspectRoute, table, client, history
  <2>2. CASE answer = "stale"
    <3>1. watch'.answers = <<>>
      BY <1>7, <2>2 DEF InspectRoute, Polls
    <3> QED BY <2>1, <3>1, HeardKept
  <2>3. CASE answer # "stale"
    <3>1. watch' = [watch EXCEPT !.answers =
                      [r \in DOMAIN @ \union {q} |-> IF r = q THEN answer ELSE @[r]]]
      BY <1>7, <2>3 DEF InspectRoute
    <3>2. ~relogged /\ answer = "running" => Runs(<<q, watch.names[q]>>)
      BY DEF Status, Runs
    <3>3. ~relogged /\ Runs(<<q, watch.names[q]>>) => answer = "running"
      BY DEF Status, Runs, Heard
    <3> HIDE DEF answer
    <3>4. watch'.names = watch.names
          /\ watch'.answers = [r \in DOMAIN watch.answers \union {q} |->
                                 IF r = q THEN answer ELSE watch.answers[r]]
      BY <3>1 DEF Honest, ScanHonest
    <3>5. DOMAIN watch'.answers \subseteq DOMAIN watch'.names
      BY <2>1, <3>4 DEF Heard
    <3>6. ASSUME ~relogged, NEW r \in Current'
          PROVE  /\ watch'.answers[r] = "running" => Runs(Name(r, routes))'
                 /\ routes'[r].phase = "serving" => watch'.answers[r] = "running"
      <4>1. Name(r, routes)' = Name(r, routes) /\ (Runs(Name(r, routes)) => Runs(Name(r, routes))')
        BY <2>1 DEF Name, Runs
      <4>2. CASE r = q
        <5>1. Name(r, routes) = <<q, watch.names[q]>> /\ r \in DOMAIN routes /\ watch'.answers[r] = answer
          BY <2>1, <3>4, <3>6, <4>2 DEF Current, Name
        <5>2. routes[r].phase = "serving" => Runs(Name(r, routes))
          BY <3>6, <5>1 DEF Heard
        <5> QED BY <2>1, <3>2, <3>3, <3>6, <4>1, <5>1, <5>2
      <4>3. CASE r # q
        <5>1. r \in Current /\ watch'.answers[r] = watch.answers[r]
          BY <2>1, <3>4, <3>6, <4>3 DEF Current
        <5> QED BY <2>1, <3>6, <4>1, <5>1 DEF Heard
      <4> QED BY <4>2, <4>3
    <3>7. ~relogged => \A r \in DOMAIN routes' : routes'[r].phase = "serving" => Runs(Name(r, routes))'
      BY <2>1 DEF Heard, Runs, Name
    <3>8. ~relogged /\ ~online' => \A n \in DOMAIN frp' : frp'[n] = "wait"
      BY <2>1 DEF Heard
    <3> QED BY <2>1, <3>5, <3>6, <3>7, <3>8 DEF Heard
  <2> QED BY <2>2, <2>3
<1>8. CASE RunEnds \/ \E q \in Routes : HoldEnds(q) \/ GraceEnds(q)
  <2>1. UNCHANGED <<relogged, online, frp, watch>>
    BY <1>8 DEF RunEnds, HoldEnds, GraceEnds, client, history
  <2>2. ASSUME NEW r \in DOMAIN routes'
        PROVE  /\ r \in DOMAIN routes /\ routes'[r].gen = routes[r].gen
               /\ \/ routes'[r].phase = routes[r].phase
                  \/ routes[r].phase # "failed" /\ routes'[r].phase = "pending"
    BY <1>8, EntriesStay DEF Honest
  <2> QED BY <2>1, <2>2, HeardKept
<1>9. CASE SnapshotPush \/ AcceptPush \/ FailPush \/ PushOwed \/ LockPush
           \/ PrepareDrain \/ Stop \/ Rotate \/ BackoffEnds
           \/ ScanTable \/ WatchEnds \/ PushReturns \/ UNCHANGED vars
  <2>1. UNCHANGED <<routes, relogged, online, frp>>
    <3>1. CASE SnapshotPush \/ AcceptPush \/ FailPush \/ PushOwed \/ LockPush
      BY <3>1 DEF SnapshotPush, AcceptPush, FailPush, PushOwed, LockPush, table, client, history
    <3>2. CASE PrepareDrain \/ Stop \/ Rotate \/ BackoffEnds
      BY <3>2 DEF PrepareDrain, Stop, Rotate, BackoffEnds, table, client, history
    <3>3. CASE ScanTable \/ WatchEnds \/ PushReturns
      BY <3>3 DEF ScanTable, WatchEnds, PushReturns, table, client, history
    <3>4. CASE UNCHANGED vars
      BY <3>4 DEF vars, table, client, history
    <3> QED BY <1>9, <3>1, <3>2, <3>3, <3>4
  <2>2. \/ watch'.names = watch.names /\ watch'.answers = watch.answers
        \/ watch'.answers = <<>>
    <3>1. CASE SnapshotPush \/ AcceptPush \/ FailPush \/ PrepareDrain \/ Stop \/ Rotate \/ BackoffEnds
      BY <3>1 DEF SnapshotPush, AcceptPush, FailPush, PrepareDrain, Stop, Rotate, BackoffEnds
    <3>2. CASE ScanTable
      BY <3>2 DEF ScanTable, Honest, ScanHonest
    <3>3. CASE PushOwed \/ LockPush \/ WatchEnds \/ PushReturns
      BY <3>3 DEF PushOwed, LockPush, WatchEnds, PushReturns, Polls, Honest, ScanHonest
    <3>4. CASE UNCHANGED vars
      BY <3>4 DEF vars
    <3> QED BY <1>9, <3>1, <3>2, <3>3, <3>4
  <2> QED BY <2>1, <2>2, HeardKept
<1> QED BY <1>1, <1>2, <1>3, <1>4, <1>5, <1>6, <1>7, <1>8, <1>9
     DEF Next, Pushing, Watching, Server, Passing

--------------------------------------------------------------------------------
\* A step that puts nobody before the server: what is left to show is the table.
LEMMA QueuedKept ==
  ASSUME Queued, push' = push \/ push'.step # "deliver", DOMAIN frp' = DOMAIN frp,
         \A n \in DOMAIN frp : frp'[n] \in {"wait", "refused"} => frp[n] \in {"wait", "refused"},
         ~relogged' /\ ~aged' =>
           /\ ~relogged /\ ~aged
           /\ ~done' => Refusals(routes)'
           /\ ~stopped' => Few(Unregistered(routes))'
  PROVE  Queued'
<1> SUFFICES ASSUME ~relogged', ~aged'
             PROVE  /\ Few(Contending(DOMAIN frp))'
                    /\ push'.step = "deliver" => Few(Contending(push.live))'
  BY DEF Queued
<1>1. ASSUME NEW S, Few(S), NEW T, T \subseteq S
      PROVE  Few(T)
  BY <1>1, FewSubset
<1>2. {n \in DOMAIN frp : n \in DOMAIN frp' => frp'[n] \in {"wait", "refused"}} \subseteq Contending(DOMAIN frp)
  BY DEF Contending
<1>3. {n \in push.live : n \in DOMAIN frp' => frp'[n] \in {"wait", "refused"}} \subseteq Contending(push.live)
  BY DEF Contending
<1>4. Few({n \in DOMAIN frp : n \in DOMAIN frp' => frp'[n] \in {"wait", "refused"}})
  BY <1>1, <1>2 DEF Queued
<1>5. push.step = "deliver" =>
        Few({n \in push.live : n \in DOMAIN frp' => frp'[n] \in {"wait", "refused"}})
  BY <1>1, <1>3 DEF Queued
<1>6. Few(Contending(DOMAIN frp))'
  BY <1>4 DEF Contending, Few
<1>7. push'.step = "deliver" => Few(Contending(push.live))'
  BY <1>5 DEF Contending, Few
<1> QED BY <1>6, <1>7

\* A table that stays is as few, and as freshly refused, as it was.
LEMMA TableKeeps ==
  ASSUME Queued, UNCHANGED <<routes, relogged, aged>>, done => done', stopped => stopped'
  PROVE  ~relogged' /\ ~aged' =>
           /\ ~relogged /\ ~aged
           /\ ~done' => Refusals(routes)'
           /\ ~stopped' => Few(Unregistered(routes))'
BY DEF Queued, Refusals, Few, Unregistered

\* What Update leaves to register is no more than before, and no refusal of it
\* has aged.
LEMMA UpdateIsFew ==
  ASSUME Honest, Named, Refusals(routes), Few(Unregistered(routes)), RunnerUpdates
  PROVE  Refusals(routes') /\ Few(Unregistered(routes'))
<1>0. PICK keep \in SUBSET Routes : \E fresh \in SUBSET keep :
        gens' = Asked(Routes, fresh) /\ Update(Asked(keep, fresh)) /\ AsksOnce(keep, fresh)
  BY UpdateAsks
<1>01. PICK fresh \in SUBSET keep :
        gens' = Asked(Routes, fresh) /\ Update(Asked(keep, fresh)) /\ AsksOnce(keep, fresh)
  BY <1>0
<1> DEFINE want == Asked(keep, fresh)
<1>1. /\ DOMAIN want = keep /\ \A r \in keep : want[r] \in Nat /\ want[r] = gens'[r]
      /\ gens' = [r \in Routes |-> IF r \in fresh THEN gens[r] + 1 ELSE gens[r]]
      /\ Update(want)
      /\ \A r \in keep : r \notin fresh <=> r \in DOMAIN routes /\ routes[r].gen = want[r]
  <2>1. gens' = [r \in Routes |-> IF r \in fresh THEN gens[r] + 1 ELSE gens[r]]
    BY <1>01 DEF Asked
  <2> QED BY <1>01, <2>1 DEF AsksOnce
<1> DEFINE u == Updated(want)
<1>2. PICK S \in ReleaseChoices(u) : routes' = Release(u, S)
  BY <1>1 DEF Update
<1>3. IsTable(routes)
  BY DEF Honest
<1>4. IsTable(u) /\ DOMAIN u = keep
      /\ \A r \in keep :
           \/ r \in DOMAIN routes /\ u[r] = routes[r]
           \/ ~u[r].released /\ u[r].refused = "never" /\ ~u[r].err
  <2>1. IsTable(u) /\ DOMAIN u = keep
        /\ \A r \in keep :
             \/ r \in DOMAIN routes /\ u[r] = routes[r]
             \/ ~(r \in DOMAIN routes /\ routes[r].gen = want[r])
    BY <1>1, <1>3, UpdatedIs
  <2>2. \A r \in keep : ~(r \in DOMAIN routes /\ routes[r].gen = want[r])
           => ~u[r].released /\ u[r].refused = "never" /\ ~u[r].err
    BY <1>1, <1>3, UpdatedAwaits
  <2> QED BY <2>1, <2>2
<1> HIDE DEF u
<1>5. Refusals(u)
  BY <1>4 DEF Refusals
<1>6. Unregistered(u) \subseteq Unregistered(routes)
  BY <1>4 DEF Unregistered
<1>7. Few(Unregistered(u))
  BY <1>6, FewSubset
<1> QED BY <1>2, <1>4, <1>5, <1>7, ReleaseIsFew

\* No answer of the poll makes an entry register again, or a refusal age.
LEMMA FoldIsFew ==
  ASSUME Honest, Heard, ~relogged, Refusals(routes), Few(Unregistered(routes))
  PROVE  Refusals(Folded) /\ Few(Unregistered(Folded))
<1>1. IsTable(routes) /\ IsTable(Folded) /\ DOMAIN Folded = DOMAIN routes
  BY FoldedIs DEF Honest
<1>2. ASSUME NEW r \in DOMAIN routes
      PROVE  Folded[r].refused # "old" /\ (Folded[r].err => Folded[r].refused # "never")
  <2>1. CASE r \notin Current
    BY <1>1, <1>2, <2>1, FoldedIs DEF Refusals
  <2>2. CASE r \in Current
    <3>1. Folded[r].err = Erring(watch.answers[r])
          /\ Folded[r].refused = FirstRefusal(routes[r], watch.answers[r])
      BY <1>1, <2>2, FoldedRefuses
    <3>2. FirstRefusal(routes[r], watch.answers[r]) # "old"
      BY DEF FirstRefusal, Refusals
    <3>3. Erring(watch.answers[r]) => FirstRefusal(routes[r], watch.answers[r]) # "never"
      BY DEF FirstRefusal, Erring
    <3> QED BY <3>1, <3>2, <3>3
  <2> QED BY <2>1, <2>2
<1>3. ASSUME NEW r \in Unregistered(Folded)
      PROVE  r \in Unregistered(routes)
  <2>1. r \in DOMAIN routes /\ Folded[r].released /\ Folded[r].phase = "pending"
    BY <1>1, <1>3 DEF Unregistered
  <2>2. routes[r].released
    BY <1>1, <2>1, FoldedIs
  <2>3. routes[r].phase = "pending"
    <3>1. CASE r \notin Current
      BY <1>1, <2>1, <3>1, FoldedIs
    <3>2. CASE r \in Current
      <4>1. routes[r].phase # "failed" /\ PhaseOf(watch.answers[r]) = "pending"
        BY <1>1, <2>1, <3>2, FoldedIs
      <4>2. watch.answers[r] # "running"
        BY <4>1 DEF PhaseOf
      <4>3. routes[r].phase # "serving"
        BY <3>2, <4>2 DEF Heard
      <4>4. routes[r].phase \in {"pending", "serving", "failed"}
        BY <1>1, <2>1 DEF IsTable, EntrySet
      <4> QED BY <4>1, <4>3, <4>4
    <3> QED BY <3>1, <3>2
  <2> QED BY <2>1, <2>2, <2>3 DEF Unregistered
<1>4. Unregistered(Folded) \subseteq Unregistered(routes)
  BY <1>3
<1> QED BY <1>1, <1>2, <1>4, FewSubset DEF Refusals

\* A snapshot carries no more names to the server than are still to register.
LEMMA SnapshotIsFew ==
  ASSUME Honest, Heard, ~relogged, Few(Unregistered(routes))
  PROVE  Few(Contending(Live(routes)))
<1>1. ASSUME NEW n \in Contending(Live(routes))
      PROVE  \E r \in Unregistered(routes) : n = Name(r, routes)
  <2>1. PICK r \in DOMAIN routes :
          routes[r].released /\ routes[r].phase # "failed" /\ n = Name(r, routes)
    BY DEF Contending, Live
  <2>2. ~Runs(n)
    BY DEF Contending, Runs
  <2>3. routes[r].phase # "serving"
    BY <2>1, <2>2 DEF Heard
  <2>4. routes[r].phase = "pending"
    BY <2>1, <2>3 DEF Honest, IsTable, EntrySet
  <2> QED BY <2>1, <2>4 DEF Unregistered
<1> QED BY <1>1, ContendersWait DEF Honest

\* Queued is inductive relative to the others.
LEMMA StepIsQueued == Honest /\ Sent /\ Named /\ Heard /\ Queued /\ [Next]_vars => Queued'
<1> SUFFICES ASSUME Honest, Sent, Named, Heard, Queued, [Next]_vars PROVE Queued'
  OBVIOUS
<1>0. ~stopped => ~done
  BY DEF Honest, DeadServesNothing
<1>1. CASE RunnerUpdates
  <2>1. PICK want : Update(want)
    BY <1>1 DEF RunnerUpdates
  <2>2. UNCHANGED <<relogged, aged, frp, done, stopped>> /\ ~stopped /\ push'.step # "deliver"
    BY <2>1 DEF Update, client, history, life, Idle
  <2>3. ASSUME ~relogged, ~aged
        PROVE  Refusals(routes') /\ Few(Unregistered(routes'))
    BY <1>0, <1>1, <2>2, <2>3, UpdateIsFew DEF Queued
  <2>4. ~relogged' /\ ~aged' => Refusals(routes)' /\ Few(Unregistered(routes))'
    BY <2>2, <2>3 DEF Refusals, Few, Unregistered
  <2> QED BY <2>2, <2>4, QueuedKept
<1>2. CASE SnapshotPush
  <2>1. UNCHANGED <<routes, relogged, aged, frp, done, stopped>>
    BY <1>2 DEF SnapshotPush, table, client, history, life
  <2>2. CASE push' = Idle
    <3>1. push'.step # "deliver"
      BY <2>2 DEF Idle
    <3> QED BY <2>1, <3>1, QueuedKept, TableKeeps
  <2>3. CASE ~stopped /\ push' = [push EXCEPT !.step = "deliver", !.version = version, !.live = Live(routes)]
    <3>1. push'.live = Live(routes)
      BY <2>3 DEF Sent, Versions
    <3>2. ASSUME ~relogged, ~aged
          PROVE  Few(Contending(push.live))'
      <4>1. Few(Contending(Live(routes)))
        BY <2>3, <3>2, SnapshotIsFew DEF Queued
      <4> QED BY <2>1, <3>1, <4>1 DEF Contending, Few
    <3>3. ~relogged /\ ~aged => Few(Contending(DOMAIN frp))'
      BY <2>1 DEF Contending, Few, Queued
    <3>4. ~relogged' /\ ~aged' =>
            /\ ~relogged /\ ~aged
            /\ ~done' => Refusals(routes)'
            /\ ~stopped' => Few(Unregistered(routes))'
      BY <2>1, TableKeeps
    <3> QED BY <2>1, <3>2, <3>3, <3>4 DEF Queued
  <2> QED BY <1>2, <2>2, <2>3 DEF SnapshotPush
<1>3. CASE DeliverPush
  <2>1. UNCHANGED <<routes, relogged, aged, done, stopped>> /\ push.step = "deliver"
        /\ frp' = [n \in push.live |-> IF n \in DOMAIN frp THEN frp[n] ELSE "wait"]
    BY <1>3 DEF DeliverPush, table, history, life
  <2>2. push'.step # "deliver"
    BY <1>3 DEF DeliverPush, Sent, Versions
  <2>3. Contending(DOMAIN frp)' = Contending(push.live)
    BY <2>1 DEF Contending
  <2>4. ~relogged' /\ ~aged' => Few(Contending(DOMAIN frp))'
    BY <2>1, <2>3 DEF Queued, Few
  <2>5. ~relogged' /\ ~aged' =>
          /\ ~relogged /\ ~aged
          /\ ~done' => Refusals(routes)'
          /\ ~stopped' => Few(Unregistered(routes))'
    BY <2>1, TableKeeps
  <2> QED BY <2>2, <2>4, <2>5 DEF Queued
<1>4. CASE FoldAnswers
  <2>1. UNCHANGED <<push, frp, done, stopped, relogged, aged>>
    BY <1>4 DEF FoldAnswers, pushing, client, history
  <2>2. CASE routes' = routes
    BY <2>1, <2>2, QueuedKept, TableKeeps
  <2>3. CASE ~stopped /\ (routes' = Folded \/ \E S \in ReleaseChoices(Folded) : routes' = Release(Folded, S))
    <3>1. ASSUME ~relogged, ~aged
          PROVE  Refusals(routes') /\ Few(Unregistered(routes'))
      <4>1. IsTable(Folded)
        BY FoldedIs DEF Honest
      <4>2. Refusals(Folded) /\ Few(Unregistered(Folded))
        BY <1>0, <2>3, <3>1, FoldIsFew DEF Queued
      <4>3. CASE routes' = Folded
        BY <4>2, <4>3
      <4>4. ASSUME NEW S \in ReleaseChoices(Folded), routes' = Release(Folded, S)
            PROVE  Refusals(routes') /\ Few(Unregistered(routes'))
        BY <4>1, <4>2, <4>4, ReleaseIsFew
      <4> QED BY <2>3, <4>3, <4>4
    <3>2. ~relogged' /\ ~aged' => Refusals(routes)' /\ Few(Unregistered(routes))'
      BY <2>1, <3>1 DEF Refusals, Few, Unregistered
    <3> QED BY <2>1, <3>2, QueuedKept
  <2> QED BY <1>4, <2>2, <2>3 DEF FoldAnswers
<1>5. CASE RunEnds
  <2>1. UNCHANGED <<push, frp, relogged, aged>> /\ done' /\ stopped'
    BY <1>5 DEF RunEnds, pushing, client, history
  <2> QED BY <2>1, QueuedKept
<1>6. ASSUME NEW q \in Routes, HoldEnds(q) \/ GraceEnds(q)
      PROVE  Queued'
  <2>1. CASE HoldEnds(q)
    BY <2>1 DEF HoldEnds, Queued
  <2>2. CASE GraceEnds(q)
    <3>1. UNCHANGED <<push, frp, done, stopped, relogged, aged>>
          /\ routes' = [routes EXCEPT ![q].seen = "old"]
      BY <2>2 DEF GraceEnds, pushing, life, client, history
    <3>2. DOMAIN routes' = DOMAIN routes
      BY <3>1
    <3>3. ASSUME NEW r \in DOMAIN routes
          PROVE  /\ routes'[r].refused = routes[r].refused /\ routes'[r].err = routes[r].err
                 /\ routes'[r].released = routes[r].released /\ routes'[r].phase = routes[r].phase
      <4> DEFINE old == routes[r]  new == routes'[r]
      <4>1. new = old \/ new = [old EXCEPT !.seen = "old"]
        BY <3>1
      <4>2. old \in EntrySet
        BY DEF Honest, IsTable
      <4> HIDE DEF old, new
      <4>3. /\ new.refused = old.refused /\ new.err = old.err
            /\ new.released = old.released /\ new.phase = old.phase
        BY <4>1, <4>2 DEF EntrySet
      <4> QED BY <4>3 DEF old, new
    <3>4. Unregistered(routes)' = Unregistered(routes)
      BY <3>2, <3>3 DEF Unregistered
    <3>5. Refusals(routes) => Refusals(routes)'
      BY <3>2, <3>3 DEF Refusals
    <3>6. ~relogged' /\ ~aged' =>
            /\ ~done' => Refusals(routes)'
            /\ ~stopped' => Few(Unregistered(routes))'
      BY <3>1, <3>4, <3>5 DEF Queued, Few
    <3> QED BY <3>1, <3>6, QueuedKept
  <2> QED BY <1>6, <2>1, <2>2
<1>7. CASE Server
  <2>1. CASE LoseControl
    BY <2>1 DEF LoseControl, Queued
  <2>2. CASE Login
    <3>1. UNCHANGED <<push, routes, done, stopped, relogged, aged>> /\ ~online
          /\ frp' = [n \in DOMAIN frp |-> "wait"]
      BY <2>2 DEF Login, table, pushing, life, history
    <3>2. ~relogged => \A n \in DOMAIN frp : frp[n] = "wait"
      BY <3>1 DEF Heard
    <3>3. CASE relogged
      BY <3>1, <3>3 DEF Queued
    <3>4. CASE ~relogged
      BY <3>1, <3>2, <3>4, QueuedKept, TableKeeps
    <3> QED BY <3>3, <3>4
  <2>3. ASSUME NEW n \in Names, NEW answer, Resend(n) \/ Answer(n, answer)
        PROVE  Queued'
    <3>1. UNCHANGED <<push, routes, done, stopped, relogged, aged>>
      BY <2>3 DEF Resend, Answer, table, pushing, life, history
    <3>2. DOMAIN frp' = DOMAIN frp
          /\ \A m \in DOMAIN frp : frp'[m] \in {"wait", "refused"} => frp[m] \in {"wait", "refused"}
      BY <2>3 DEF Resend, Answer
    <3> QED BY <3>1, <3>2, QueuedKept, TableKeeps
  <2> QED BY <1>7, <2>1, <2>2, <2>3 DEF Server
<1>8. CASE AcceptPush \/ FailPush \/ PushOwed \/ LockPush \/ PrepareDrain \/ Stop \/ Rotate \/ BackoffEnds
           \/ ScanTable \/ WatchEnds \/ PushReturns \/ UNCHANGED vars \/ \E r \in Routes : InspectRoute(r)
  <2>1. UNCHANGED <<routes, relogged, aged, frp, done>> /\ (stopped => stopped')
    <3>1. CASE AcceptPush \/ FailPush \/ PushOwed \/ LockPush
      BY <3>1 DEF AcceptPush, FailPush, PushOwed, LockPush, table, client, history, life
    <3>2. CASE PrepareDrain \/ Stop \/ Rotate \/ BackoffEnds
      BY <3>2 DEF PrepareDrain, Stop, Rotate, BackoffEnds, table, client, history, life
    <3>3. CASE ScanTable \/ WatchEnds \/ PushReturns
      BY <3>3 DEF ScanTable, WatchEnds, PushReturns, table, client, history, life
    <3>5. ASSUME NEW r \in Routes, InspectRoute(r)
          PROVE  UNCHANGED <<routes, relogged, aged, frp, done, stopped>>
      BY <3>5 DEF InspectRoute, table, client, history
    <3>4. CASE UNCHANGED vars
      BY <3>4 DEF vars, table, client, history, life
    <3> QED BY <1>8, <3>1, <3>2, <3>3, <3>4, <3>5
  <2>2. push' = push \/ push'.step # "deliver"
    <3>1. Idle.step # "deliver" /\ [Idle EXCEPT !.by = "watch", !.step = "snapshot"].step # "deliver"
      BY DEF Idle
    <3> HIDE DEF Idle
    <3>2. CASE AcceptPush \/ FailPush
      BY <3>1, <3>2 DEF AcceptPush, FailPush
    <3>3. CASE PushOwed \/ LockPush
      BY <3>1, <3>3 DEF PushOwed, LockPush, pushing
    <3>4. CASE PrepareDrain \/ Stop \/ Rotate \/ BackoffEnds
      BY <3>4 DEF PrepareDrain, Stop, Rotate, BackoffEnds, pushing
    <3>5. CASE ScanTable \/ WatchEnds \/ PushReturns \/ \E r \in Routes : InspectRoute(r)
      BY <3>5 DEF ScanTable, WatchEnds, PushReturns, InspectRoute, pushing
    <3>6. CASE UNCHANGED vars
      BY <3>6 DEF vars, pushing
    <3> QED BY <1>8, <3>2, <3>3, <3>4, <3>5, <3>6
  <2> QED BY <2>1, <2>2, QueuedKept, TableKeeps
<1> QED BY <1>1, <1>2, <1>3, <1>4, <1>5, <1>6, <1>7, <1>8 DEF Next, Pushing, Watching, Passing

\* Short of a control loss and of refusals past their hold, the server never has
\* more than the ceiling of the session's proxies before it, for every window and
\* every number of routes (releaseWindowLocked).
THEOREM QueueStaysBounded == Spec => []QueueBounded
<1>1. Init /\ Honest => Named /\ Heard /\ Queued
  BY InitIsQueued
<1>2. Honest /\ Sent /\ Named /\ Heard /\ Queued /\ [Next]_vars => Named' /\ Heard' /\ Queued'
  BY StepIsNamed, StepIsHeard, StepIsQueued
<1>3. Queued => QueueBounded
  <2> SUFFICES ASSUME Queued, ~relogged, ~aged
               PROVE  Cardinality({n \in DOMAIN frp : frp[n] = "wait"}) <= Ceiling
    BY DEF QueueBounded
  <2>1. {n \in DOMAIN frp : frp[n] = "wait"} \subseteq Contending(DOMAIN frp)
    BY DEF Contending
  <2>2. Few(Contending(DOMAIN frp))
    BY DEF Queued
  <2>3. Few({n \in DOMAIN frp : frp[n] = "wait"})
    BY <2>1, <2>2, FewSubset
  <2> QED BY <2>3 DEF Few
<1> QED BY <1>1, <1>2, <1>3, SessionIsHonest, SessionIsSent, PTL DEF Spec
=============================================================================
