--------------------------- MODULE SessionGroup_proofs ---------------------------
(***************************************************************************)
(* Theorems about SessionGroup, for every set of routes and of callers and *)
(* every number of admissions, under all of its faults.                    *)
(*                                                                         *)
(* Holding follows every admission from the knock to its retirement;       *)
(* Pushing, what an apply under way may still give to which session;       *)
(* Healing, what will still be pushed; Revoking, what a retired session    *)
(* still works for.                                                        *)
(***************************************************************************)
EXTENDS SessionGroup, FiniteSetTheorems, TLAPS

--------------------------------------------------------------------------------
(***************************************************************************)
(* The first layer: who holds which admission.                             *)
(***************************************************************************)
Slots == Cycles \union {0}
Lives == {"none", "made", "up", "fenced", "ended"}

SlotsShaped ==
  /\ run = [pc |-> run.pc, states |-> run.states, late |-> run.late, then |-> run.then]
  /\ active \in Slots /\ pending \in Slots
  /\ life \in [Cycles -> Lives] /\ retires \in [Cycles -> Nat]
  /\ drains \subseteq Cycles

\* A cycle is being built and has its session.
Built ==
  \/ run.pc \in {"wait", "gate", "block", "fence", "insert", "promote"}
  \/ run.pc = "judge" /\ run.then = "gate"
  \/ run.pc = "settle" /\ run.then = "fence"

\* A cycle is about to give way to the one that was built.
Replacing ==
  \/ run.pc \in {"fence", "insert"}
  \/ run.pc = "settle" /\ run.then = "fence"

\* A cycle has just taken over, or serves and has changed.
Looked ==
  \/ run.pc \in {"report", "retain"}
  \/ run.pc = "judge" /\ run.then # "gate"

OneMade == \A c, d \in Cycles : life[c] = "made" /\ life[d] = "made" => c = d

\* Run's place says which slots are taken.
SlotsPlaced ==
  /\ pending # 0 <=> Built
  /\ (\E c \in Cycles : life[c] = "made") <=> run.pc = "start"
  /\ OneMade
  /\ run.pc \in {"judge", "report"} => run.then \in {"gate", "check", "retain"}
  /\ run.pc = "report" => run.then # "gate"
  /\ run.pc = "settle" => run.then \in {"top", "done", "fence"}
  /\ Replacing \/ Looked => active # 0
  /\ run.pc \in {"idle", "done"} => active = 0
  /\ run.pc = "settle" /\ run.then # "fence" => active = 0
  /\ run.pc \in {"insert", "promote"} /\ active # 0 => life[active] \in {"fenced", "ended"}

Retired(c) == retires[c] = 1

\* An admission is held, or it was retired.
Custody ==
  /\ \A c \in Cycles :
       /\ retires[c] \in {0, 1}
       /\ life[c] \in {"none", "made"} => ~Retired(c) /\ c \notin drains \union {active, pending}
       /\ Issued(c) => Retired(c) \/ c \in {active, pending} \union drains \/ life[c] = "made"
       /\ c \in drains => ~Retired(c) /\ life[c] \in {"fenced", "ended"}
  /\ pending # 0 => pending # active /\ pending \notin drains /\ ~Retired(pending)
  /\ active # 0 => IF run.pc = "promote" THEN active \in drains \/ Retired(active)
                                         ELSE active \notin drains /\ ~Retired(active)

\* A third session is not drained.
Bounded ==
  /\ Cardinality(drains) <= 2
  /\ run.pc \in {"fence", "insert"} => Cardinality(drains) <= 1

Holding == SlotsShaped /\ SlotsPlaced /\ Custody /\ Bounded

--------------------------------------------------------------------------------
(***************************************************************************)
(* The second layer: what an apply gives to a session.                     *)
(***************************************************************************)
Phases == {"pending", "serving", "failed"}
Registration == [gen: Nat, phase: Phases]
IsTable(t) ==
  /\ DOMAIN t \subseteq Routes /\ t = [r \in DOMAIN t |-> t[r]]
  /\ \A r \in DOMAIN t : t[r] \in Registration

JobSteps == {"none", "retain", "lock", "pending", "active", "wake"}
IsJob(j) ==
  /\ j = [step |-> j.step, keep |-> j.keep, want |-> j.want, active |-> j.active, pending |-> j.pending,
          rotating |-> j.rotating, refused |-> j.refused, record |-> j.record]
  /\ j.step \in JobSteps /\ j.active \in Slots /\ j.pending \in Slots
  /\ j.rotating \in BOOLEAN /\ j.refused \in BOOLEAN /\ j.record \in BOOLEAN
  /\ j.step \in {"pending", "active"} =>
       /\ DOMAIN j.want \subseteq Routes /\ j.want = [r \in DOMAIN j.want |-> j.want[r]]
       /\ \A r \in DOMAIN j.want : j.want[r] \in Nat

JobsShaped == jobs = [a \in Actors |-> jobs[a]] /\ \A a \in Actors : IsJob(jobs[a])
TablesShaped ==
  /\ table = [c \in Cycles |-> table[c]] /\ \A c \in Cycles : IsTable(table[c])
  /\ names \subseteq Cycles \X Routes \X Nat
PlanShaped == desired \subseteq Routes /\ restarts \in [Routes -> Nat]

PushesShaped == JobsShaped /\ TablesShaped /\ PlanShaped /\ rotating \in BOOLEAN

\* applyMu admits one apply.
OneApply == \A a, b \in Actors : InApply(a) /\ InApply(b) => a = b

\* A generation that was asked for once: it is not ahead of the plan, and
\* behind it for a route that has left.
Past(r, gen) == gen <= restarts[r] /\ (r \notin desired => gen < restarts[r])

\* A session has had only generations of the past; the one being built, none.
NamesPast ==
  /\ \A n \in names : Past(n[2], n[3]) /\ life[n[1]] \notin {"none", "made"}
  /\ \A c \in Cycles : \A r \in DOMAIN table[c] : <<c, r, table[c][r].gen>> \in names
  /\ run.pc = "start" => IsTable(run.states) /\ \A r \in DOMAIN run.states : Past(r, run.states[r].gen)

Has(c, r, gen) == r \in DOMAIN table[c] /\ table[c][r].gen = gen

\* A session that takes registrations has those of the newest plan it ever had.
Receives(c) == c # 0 /\ (c = pending \/ (c = active /\ ~rotating))
NamesKept ==
  \A n \in names : Receives(n[1]) /\ n[2] \in desired /\ n[3] = restarts[n[2]] => Has(n[1], n[2], n[3])

Rotates == active # 0 /\ (Built \/ run.pc \in {"admit", "start", "failed"}) => rotating

\* The sessions an apply gives its registrations to.
GivesTo(j, c) == c # 0 /\ (c = j.pending \/ (c = j.active /\ ~j.rotating))

\* What an apply was asked to push is no older than what its sessions had.
Newest(j, c) ==
  \A n \in names : n[1] = c =>
    IF n[2] \in DOMAIN j.want THEN n[3] <= j.want[n[2]] /\ (n[3] = j.want[n[2]] => Has(c, n[2], n[3]))
                              ELSE n[3] < restarts[n[2]]

\* A session an apply will push to takes registrations still, or has ended.
Applies(a) ==
  LET j == jobs[a] IN
  InApply(a) =>
    /\ \A r \in DOMAIN j.want : Past(r, j.want[r])
    /\ j.pending = j.active => j.pending = 0
    /\ \A c \in {j.pending, j.active} \ {0} : life[c] \notin {"none", "made"}
    /\ \A c \in Cycles : GivesTo(j, c) => Newest(j, c) /\ (Receives(c) \/ life[c] = "ended")
    /\ j.rotating /\ j.active # 0 => (j.active = active /\ rotating) \/ life[j.active] \in {"fenced", "ended"}

Pushing ==
  /\ PushesShaped /\ OneApply /\ NamesPast /\ NamesKept /\ Rotates
  /\ \A a \in Actors : Applies(a)

--------------------------------------------------------------------------------
(***************************************************************************)
(* The third layer: what will still be pushed.                             *)
(***************************************************************************)
\* An apply that has not taken its snapshot.
Due == \E b \in Actors : jobs[b].step \in {"retain", "lock"}

\* An apply whose push has yet to reach the session, or was refused it.
Reaching(c) ==
  \E a \in Actors :
    /\ InApply(a) /\ jobs[a].want = Wanted
    /\ \/ jobs[a].refused
       \/ jobs[a].step = "pending" /\ GivesTo(jobs[a], c)
       \/ jobs[a].step = "active" /\ c = jobs[a].active /\ ~jobs[a].rotating

Agrees(c) == [r \in DOMAIN table[c] |-> table[c][r].gen] = Wanted

Records ==
  /\ \A a \in Callers : jobs[a].step \in {"retain", "lock", "pending", "active"} => jobs[a].record
  /\ InApply(Run) /\ jobs[Run].refused => stopping
  /\ \A a \in Actors : jobs[a].step \in {"retain", "lock", "pending"} => ~jobs[a].refused

Healed ==
  /\ DivergenceNoticed
  /\ Records
  /\ \A a \in Actors : InApply(a) => jobs[a].want = Wanted \/ Due
  /\ \A c \in Cycles :
       Receives(c) /\ life[c] = "up" => Agrees(c) \/ divergent \/ stopping \/ Due \/ Reaching(c)

--------------------------------------------------------------------------------
(***************************************************************************)
(* The fourth layer: the work of retired sessions.                         *)
(***************************************************************************)
\* The promotion has yet to tell the drains of the desired set.
Promoted ==
  \/ run.pc = "promote" /\ active # 0
  \/ run.pc \in {"report", "judge"} /\ run.then = "retain"
  \/ run.pc = "retain"

Ends(r) == \E a \in Actors : jobs[a].step = "retain" /\ r \notin jobs[a].keep

Revoked ==
  ~Promoted => \A c \in drains : life[c] = "fenced" =>
                 \A r \in DOMAIN table[c] \ closed[c] : r \in desired \/ Ends(r)

--------------------------------------------------------------------------------
(***************************************************************************)
(* Holding is kept.                                                        *)
(***************************************************************************)
RunShaped == run = [pc |-> run.pc, states |-> run.states, late |-> run.late, then |-> run.then]

\* Zero is no cycle, and there are finitely many.
LEMMA CyclesAreFinite == IsFiniteSet(Cycles) /\ 0 \notin Cycles /\ \A c \in Cycles : c \in Nat
<1>1. MaxCycle \in Nat
  BY GroupAssumption
<1>2. IsFiniteSet(1..MaxCycle)
  BY <1>1, FS_Interval
<1> QED BY <1>1, <1>2 DEF Cycles

\* Run goes on at another place with the rest of its locals.
LEMMA Going ==
  ASSUME RunShaped, NEW pc, Goto(pc)
  PROVE  RunShaped' /\ run'.pc = pc /\ run'.then = run.then /\ run'.states = run.states
BY DEF RunShaped, Goto

\* A session that ends is the only one whose state changes (run of a session).
LEMMA EndIsOne ==
  ASSUME life \in [Cycles -> Lives], NEW c \in Cycles, End(c)
  PROVE  /\ life' \in [Cycles -> Lives] /\ life'[c] = "ended"
         /\ \A d \in Cycles : d # c => life'[d] = life[d]
BY DEF End, Lives

\* One retirement is counted (Admitter.Retire).
LEMMA RetireIsOne ==
  ASSUME retires \in [Cycles -> Nat], NEW c \in Cycles, Retire(c)
  PROVE  /\ retires' \in [Cycles -> Nat] /\ retires'[c] = retires[c] + 1
         /\ \A d \in Cycles : d # c => retires'[d] = retires[d]
BY DEF Retire

\* Steps that leave Run, its slots, admissions and drains alone.
LEMMA HoldingStays ==
  ASSUME Holding, UNCHANGED <<active, pending, run, life, retires, drains>>
  PROVE  Holding'
<1>1. SlotsShaped' /\ SlotsPlaced'
  BY DEF Holding, SlotsShaped, SlotsPlaced, Built, Replacing, Looked, OneMade
<1>2. Custody' /\ Bounded'
  BY DEF Holding, Custody, Bounded, Issued, Retired
<1> QED BY <1>1, <1>2 DEF Holding

\* Run moves on and holds what it held.
LEMMA HoldingMoves ==
  ASSUME Holding, RunShaped', UNCHANGED <<active, pending, life, retires, drains>>,
         Built' <=> Built, run'.pc = "start" <=> run.pc = "start",
         Replacing' \/ Looked' => active # 0,
         run'.pc = "judge" => run'.then \in {"gate", "check", "retain"},
         run'.pc = "report" => run'.then \in {"check", "retain"},
         run'.pc = "settle" => run'.then \in {"top", "done", "fence"},
         run'.pc \in {"idle", "done"} \/ (run'.pc = "settle" /\ run'.then # "fence") => active = 0,
         run.pc # "promote", run'.pc # "insert", run'.pc = "promote" => active = 0,
         run'.pc = "fence" => Cardinality(drains) <= 1
  PROVE  Holding'
<1>1. SlotsShaped'
  BY DEF Holding, SlotsShaped, RunShaped
<1>2. SlotsPlaced'
  BY DEF Holding, SlotsPlaced, OneMade
<1>3. Custody'
  BY DEF Holding, Custody, Issued, Retired
<1>4. Bounded'
  BY DEF Holding, Bounded
<1> QED BY <1>1, <1>2, <1>3, <1>4 DEF Holding

\* What the actions that only move Run do to its place.
LEMMA MovesHold ==
  ASSUME Holding,
         AdmitNext \/ Retry \/ WithdrawGone \/ ReportActive \/ RetainPromoted \/ CheckEmpty
           \/ Stopped \/ DrainsChanged \/ SessionChanged \/ Rotate
  PROVE  Holding'
<1>1. RunShaped /\ SlotsPlaced
  BY DEF Holding, SlotsShaped, RunShaped
<1>2. UNCHANGED <<active, pending, life, retires, drains>>
  BY DEF AdmitNext, Retry, WithdrawGone, ReportActive, RetainPromoted, CheckEmpty, Stopped, DrainsChanged,
         SessionChanged, Rotate, slots, sessions, admissions, draining
<1> USE DEF Built, Replacing, Looked
<1>3. CASE AdmitNext
  BY <1>1, <1>2, <1>3, Going, HoldingMoves DEF AdmitNext, At, SlotsPlaced
<1>4. CASE Retry
  <2>1. /\ run.pc = "failed" /\ \E pc \in {"top", "admit"} : Goto(pc)
    BY <1>4 DEF Retry, At
  <2> QED BY <1>1, <1>2, <2>1, Going, HoldingMoves DEF SlotsPlaced
<1>5. CASE WithdrawGone
  <2>1. run.pc = "judge" /\ Goto(run.then)
    BY <1>5 DEF WithdrawGone, At
  <2> QED BY <1>1, <1>2, <2>1, Going, HoldingMoves DEF SlotsPlaced
<1>6. CASE ReportActive
  <2>1. /\ run.pc = "report" /\ run' = [run EXCEPT !.pc = "judge", !.states = table[active]]
    BY <1>6 DEF ReportActive, At
  <2>2. RunShaped' /\ run'.pc = "judge" /\ run'.then = run.then
    BY <1>1, <2>1 DEF RunShaped
  <2> QED BY <1>1, <1>2, <2>1, <2>2, HoldingMoves DEF SlotsPlaced
<1>7. CASE RetainPromoted
  BY <1>1, <1>2, <1>7, Going, HoldingMoves DEF RetainPromoted, At, SlotsPlaced
<1>8. CASE CheckEmpty
  BY <1>1, <1>2, <1>8, Going, HoldingMoves DEF CheckEmpty, At, SlotsPlaced
<1>9. CASE Stopped
  BY <1>1, <1>2, <1>9, Going, HoldingMoves DEF Stopped, Selecting, At, SlotsPlaced
<1>10. CASE DrainsChanged
  BY <1>1, <1>2, <1>10, Going, HoldingMoves DEF DrainsChanged, Selecting, At, SlotsPlaced
<1>11. CASE SessionChanged
  <2>1. run.pc = "top" /\ active # 0 /\ run' = [run EXCEPT !.pc = "report", !.then = "check"]
    BY <1>11 DEF SessionChanged, Selecting, At
  <2>2. RunShaped' /\ run'.pc = "report" /\ run'.then = "check"
    BY <1>1, <2>1 DEF RunShaped
  <2> QED BY <1>1, <1>2, <2>1, <2>2, HoldingMoves DEF SlotsPlaced
<1>12. CASE Rotate
  BY <1>1, <1>2, <1>12, Going, HoldingMoves DEF Rotate, Selecting, At, SlotsPlaced
<1> QED BY <1>3, <1>4, <1>5, <1>6, <1>7, <1>8, <1>9, <1>10, <1>11, <1>12

\* Run starts again behind what its predecessor left (Run).
LEMMA BeginHolds ==
  ASSUME Holding, Begin
  PROVE  Holding'
<1>1. RunShaped /\ SlotsPlaced
  BY DEF Holding, SlotsShaped, RunShaped
<1>2. UNCHANGED <<active, pending, life, retires, drains>>
  BY DEF Begin, slots, sessions, admissions
<1>3. run.pc \in {"idle", "done"} /\ run' = [run EXCEPT !.pc = "settle", !.then = "top"]
  BY DEF Begin
<1>4. RunShaped' /\ run'.pc = "settle" /\ run'.then = "top"
  BY <1>1, <1>3 DEF RunShaped
<1> QED BY <1>1, <1>2, <1>3, <1>4, HoldingMoves DEF SlotsPlaced, Built, Replacing, Looked

\* A cycle that fails before it takes over is ended and retired (failCycle).
LEMMA FailHolds ==
  ASSUME Holding, Built, run.pc \in {"wait", "gate", "block", "settle"}, NEW pc \in {"failed", "exit"},
         End(pending), Retire(pending), pending' = 0, Goto(pc), UNCHANGED <<active, drains>>
  PROVE  Holding'
<1>1. RunShaped /\ SlotsPlaced /\ Custody /\ pending \in Cycles
  BY DEF Holding, SlotsShaped, SlotsPlaced, RunShaped, Slots
<1>2. RunShaped' /\ run'.pc = pc
  BY <1>1, Going
<1>3. /\ life' \in [Cycles -> Lives] /\ life'[pending] = "ended"
      /\ \A d \in Cycles : d # pending => life'[d] = life[d]
  BY <1>1, EndIsOne DEF Holding, SlotsShaped
<1>4. /\ retires' \in [Cycles -> Nat] /\ retires'[pending] = retires[pending] + 1
      /\ \A d \in Cycles : d # pending => retires'[d] = retires[d]
  BY <1>1, RetireIsOne DEF Holding, SlotsShaped
<1>5. SlotsShaped'
  BY <1>2, <1>3, <1>4 DEF Holding, SlotsShaped, Slots, RunShaped
<1>6. SlotsPlaced'
  <2>1. \A d \in Cycles : life'[d] = "made" => life[d] = "made"
    BY <1>3
  <2> QED BY <1>1, <1>2, <2>1 DEF SlotsPlaced, OneMade, Built, Replacing, Looked
<1>7. Custody'
  <2>1. pending # 0 /\ pending # active /\ pending \notin drains /\ retires[pending] = 0
    BY <1>1, CyclesAreFinite DEF Custody, Retired
  <2>2. ASSUME NEW c \in Cycles
        PROVE  /\ retires'[c] \in {0, 1}
               /\ life'[c] \in {"none", "made"} => ~Retired(c)' /\ c \notin drains' \union {active', pending'}
               /\ Issued(c)' => Retired(c)' \/ c \in {active', pending'} \union drains' \/ life'[c] = "made"
               /\ c \in drains' => ~Retired(c)' /\ life'[c] \in {"fenced", "ended"}
    BY <1>1, <1>3, <1>4, <2>1, CyclesAreFinite DEF Custody, Retired, Issued
  <2>3. active # 0 => active \notin drains /\ ~Retired(active)'
    BY <1>1, <1>4, <2>1 DEF Custody, Retired, Holding, SlotsShaped, Slots
  <2> QED BY <1>2, <2>2, <2>3 DEF Custody
<1>8. Bounded'
  BY <1>2 DEF Holding, Bounded
<1> QED BY <1>5, <1>6, <1>7, <1>8 DEF Holding

\* The serving cycle is let go of, ended and retired (stopCycle).
LEMMA LetGoHolds ==
  ASSUME Holding, active # 0, run.pc \in {"top", "failed", "exit"},
         End(active) \/ (life[active] = "ended" /\ UNCHANGED life), Retire(active), active' = 0,
         UNCHANGED <<pending, drains>>, RunShaped',
         run'.pc \in {"top", "exit"} \/ (run'.pc = "settle" /\ run'.then = "done")
  PROVE  Holding'
<1>1. RunShaped /\ SlotsPlaced /\ Custody /\ active \in Cycles
  BY DEF Holding, SlotsShaped, RunShaped, Slots
<1>3. /\ life' \in [Cycles -> Lives] /\ life'[active] = "ended"
      /\ \A d \in Cycles : d # active => life'[d] = life[d]
  BY <1>1, EndIsOne DEF Holding, SlotsShaped
<1>4. /\ retires' \in [Cycles -> Nat] /\ retires'[active] = retires[active] + 1
      /\ \A d \in Cycles : d # active => retires'[d] = retires[d]
  BY <1>1, RetireIsOne DEF Holding, SlotsShaped
<1>5. SlotsShaped'
  BY <1>3, <1>4 DEF Holding, SlotsShaped, Slots, RunShaped
<1>6. SlotsPlaced'
  <2>1. \A d \in Cycles : life'[d] = "made" => life[d] = "made"
    BY <1>3
  <2> QED BY <1>1, <2>1 DEF SlotsPlaced, OneMade, Built, Replacing, Looked
<1>7. Custody'
  <2>1. active \notin drains /\ retires[active] = 0 /\ pending = 0
    BY <1>1 DEF Custody, Retired, SlotsPlaced, Built, Holding, SlotsShaped
  <2>2. ASSUME NEW c \in Cycles
        PROVE  /\ retires'[c] \in {0, 1}
               /\ life'[c] \in {"none", "made"} => ~Retired(c)' /\ c \notin drains' \union {active', pending'}
               /\ Issued(c)' => Retired(c)' \/ c \in {active', pending'} \union drains' \/ life'[c] = "made"
               /\ c \in drains' => ~Retired(c)' /\ life'[c] \in {"fenced", "ended"}
    BY <1>1, <1>3, <1>4, <2>1, CyclesAreFinite DEF Custody, Retired, Issued
  <2> QED BY <2>1, <2>2 DEF Custody
<1>8. Bounded'
  BY DEF Holding, Bounded
<1> QED BY <1>5, <1>6, <1>7, <1>8 DEF Holding

\* A session ends by itself, or because a drain is over.
LEMMA EndHolds ==
  ASSUME Holding, NEW c \in Cycles, life[c] \in {"up", "fenced"} \/ c \in drains, End(c),
         UNCHANGED <<active, pending, run, retires, drains>>
  PROVE  Holding'
<1>1. SlotsPlaced /\ Custody
  BY DEF Holding
<1>2. /\ life' \in [Cycles -> Lives] /\ life'[c] = "ended"
      /\ \A d \in Cycles : d # c => life'[d] = life[d]
  BY EndIsOne DEF Holding, SlotsShaped
<1>3. life[c] \in {"up", "fenced", "ended"}
  BY <1>1 DEF Custody
<1>4. \A d \in Cycles : /\ life'[d] = "made" <=> life[d] = "made"
                        /\ life'[d] = "none" <=> life[d] = "none"
                        /\ life[d] \in {"fenced", "ended"} => life'[d] \in {"fenced", "ended"}
  BY <1>2, <1>3
<1>5. SlotsShaped' /\ Bounded'
  BY <1>2 DEF Holding, SlotsShaped, Bounded
<1>6. SlotsPlaced'
  <2>1. active # 0 => active \in Cycles
    BY DEF Holding, SlotsShaped, Slots
  <2> QED BY <1>1, <1>4, <2>1 DEF SlotsPlaced, OneMade, Built, Replacing, Looked
<1>7. Custody'
  BY <1>1, <1>4 DEF Custody, Retired, Issued
<1> QED BY <1>5, <1>6, <1>7 DEF Holding

\* A fresh cycle is the one of a new admission (startCycleAttempt).
LEMMA AdmitHolds ==
  ASSUME Holding, Admit
  PROVE  Holding'
<1>1. RunShaped /\ SlotsPlaced /\ Custody /\ run.pc = "admit"
  BY DEF Holding, SlotsShaped, RunShaped, Admit, At
<1>2. UNCHANGED <<active, pending, drains>> /\ pending = 0
  BY <1>1 DEF Admit, slots, draining, SlotsPlaced, Built
<1>3. CASE UNCHANGED <<sessions, admissions>> /\ \E pc \in {"exit", "failed"} : Goto(pc)
  <2>1. UNCHANGED <<life, retires>>
    BY <1>3 DEF sessions, admissions
  <2> QED BY <1>1, <1>2, <1>3, <2>1, Going, HoldingMoves DEF SlotsPlaced, Built, Replacing, Looked
<1>4. ASSUME NEW c \in Cycles, Fresh(c), life' = [life EXCEPT ![c] = "made"],
             run' = [run EXCEPT !.pc = "start", !.states = Registered(<<>>, Wanted)],
             UNCHANGED <<table, changed, names, admissions>>
      PROVE  Holding'
  <2>1. RunShaped' /\ run'.pc = "start" /\ run'.then = run.then
    BY <1>1, <1>4 DEF RunShaped
  <2>2. /\ life' \in [Cycles -> Lives] /\ life'[c] = "made" /\ life[c] = "none"
        /\ \A d \in Cycles : d # c => life'[d] = life[d]
    BY <1>4 DEF Holding, SlotsShaped, Lives, Fresh, Issued
  <2>3. retires' = retires
    BY <1>4 DEF admissions
  <2>4. SlotsShaped' /\ Bounded'
    BY <1>2, <2>1, <2>2, <2>3 DEF Holding, SlotsShaped, RunShaped, Bounded
  <2>5. SlotsPlaced'
    BY <1>1, <1>2, <2>1, <2>2 DEF SlotsPlaced, OneMade, Built, Replacing, Looked
  <2>6. Custody'
    <3>1. c \notin drains \union {active, pending} /\ ~Retired(c)
      BY <1>1, <2>2 DEF Custody
    <3> QED BY <1>1, <1>2, <2>1, <2>2, <2>3, <3>1 DEF Custody, Retired, Issued
  <2> QED BY <2>4, <2>5, <2>6 DEF Holding
<1>5. ASSUME NEW c \in Cycles, Fresh(c), End(c), Retire(c), Goto("failed")
      PROVE  Holding'
  <2>1. RunShaped' /\ run'.pc = "failed" /\ run'.then = run.then
    BY <1>1, <1>5, Going
  <2>2. /\ life' \in [Cycles -> Lives] /\ life'[c] = "ended" /\ life[c] = "none"
        /\ \A d \in Cycles : d # c => life'[d] = life[d]
    BY <1>5, EndIsOne DEF Holding, SlotsShaped, Fresh, Issued
  <2>3. /\ retires' \in [Cycles -> Nat] /\ retires'[c] = retires[c] + 1
        /\ \A d \in Cycles : d # c => retires'[d] = retires[d]
    BY <1>5, RetireIsOne DEF Holding, SlotsShaped
  <2>4. SlotsShaped' /\ Bounded'
    BY <1>2, <2>1, <2>2, <2>3 DEF Holding, SlotsShaped, RunShaped, Bounded
  <2>5. SlotsPlaced'
    BY <1>1, <1>2, <2>1, <2>2 DEF SlotsPlaced, OneMade, Built, Replacing, Looked
  <2>6. Custody'
    <3>1. c \notin drains \union {active, pending} /\ retires[c] = 0
      BY <1>1, <2>2 DEF Custody, Retired
    <3>2. active # 0 => active \notin drains /\ ~Retired(active)'
      BY <1>1, <1>2, <2>3, <3>1 DEF Custody, Retired, Holding, SlotsShaped, Slots
    <3>3. ASSUME NEW d \in Cycles
          PROVE  /\ retires'[d] \in {0, 1}
                 /\ life'[d] \in {"none", "made"} => ~Retired(d)' /\ d \notin drains' \union {active', pending'}
                 /\ Issued(d)' => Retired(d)' \/ d \in {active', pending'} \union drains' \/ life'[d] = "made"
                 /\ d \in drains' => ~Retired(d)' /\ life'[d] \in {"fenced", "ended"}
      BY <1>1, <1>2, <2>2, <2>3, <3>1 DEF Custody, Retired, Issued
    <3> QED BY <1>2, <2>1, <3>2, <3>3 DEF Custody
  <2> QED BY <2>4, <2>5, <2>6 DEF Holding
<1> QED BY <1>3, <1>4, <1>5 DEF Admit

\* The cycle that was admitted.
LEMMA MadeIsTheOne ==
  ASSUME Holding, run.pc = "start"
  PROVE  /\ Made \in Cycles /\ life[Made] = "made" /\ Made # 0
         /\ \A d \in Cycles : life[d] = "made" => d = Made
         /\ Made # active /\ Made \notin drains /\ retires[Made] = 0 /\ pending = 0
<1>1. \E c \in Cycles : life[c] = "made"
  BY DEF Holding, SlotsPlaced
<1>2. Made \in Cycles /\ life[Made] = "made"
  BY <1>1 DEF Made
<1> QED BY <1>2, CyclesAreFinite DEF Holding, SlotsPlaced, OneMade, Custody, Retired, Built

\* Its session starts, or it is retired (startCycle).
LEMMA StartHolds ==
  ASSUME Holding, StartCycle
  PROVE  Holding'
<1>1. RunShaped /\ SlotsPlaced /\ Custody /\ run.pc = "start"
  BY DEF Holding, SlotsShaped, RunShaped, StartCycle, At
<1>2. PICK c \in Cycles : c = Made
  BY <1>1, MadeIsTheOne
<1>3. /\ life[c] = "made" /\ c # 0 /\ \A d \in Cycles : life[d] = "made" => d = c
      /\ c # active /\ c \notin drains /\ retires[c] = 0 /\ pending = 0
  BY <1>1, <1>2, MadeIsTheOne
<1>4. UNCHANGED <<active, drains>>
  BY DEF StartCycle, draining
<1>5. CASE /\ life' = [life EXCEPT ![c] = "up"] /\ pending' = c
           /\ run' = [run EXCEPT !.pc = "wait", !.late = FALSE]
           /\ UNCHANGED <<changed, admissions>>
  <2>1. RunShaped' /\ run'.pc = "wait" /\ run'.then = run.then
    BY <1>1, <1>5 DEF RunShaped
  <2>2. /\ life' \in [Cycles -> Lives] /\ life'[c] = "up"
        /\ \A d \in Cycles : d # c => life'[d] = life[d]
    BY <1>5 DEF Holding, SlotsShaped, Lives
  <2>3. retires' = retires
    BY <1>5 DEF admissions
  <2>4. SlotsShaped' /\ Bounded'
    BY <1>4, <1>5, <2>1, <2>2, <2>3 DEF Holding, SlotsShaped, RunShaped, Bounded, Slots
  <2>5. SlotsPlaced'
    BY <1>1, <1>3, <1>4, <1>5, <2>1, <2>2 DEF SlotsPlaced, OneMade, Built, Replacing, Looked
  <2>6. Custody'
    <3>1. active' # 0 => active' \notin drains' /\ ~Retired(active)'
      BY <1>1, <1>4, <2>3 DEF Custody, Retired
    <3>2. pending' # active' /\ pending' \notin drains' /\ ~Retired(pending)'
      BY <1>3, <1>4, <1>5, <2>3 DEF Retired
    <3>3. ASSUME NEW d \in Cycles
          PROVE  /\ retires'[d] \in {0, 1}
                 /\ life'[d] \in {"none", "made"} => ~Retired(d)' /\ d \notin drains' \union {active', pending'}
                 /\ Issued(d)' => Retired(d)' \/ d \in {active', pending'} \union drains' \/ life'[d] = "made"
                 /\ d \in drains' => ~Retired(d)' /\ life'[d] \in {"fenced", "ended"}
      <4>1. retires'[d] = retires[d] /\ (d # c => life'[d] = life[d] /\ d # pending')
        BY <1>5, <2>2, <2>3
      <4>2. pending' = c
        BY <1>5
      <4>3. CASE d = c
        BY <1>3, <1>4, <2>2, <4>1, <4>2, <4>3 DEF Retired, Issued
      <4>4. CASE d # c
        BY <1>1, <1>3, <1>4, <4>1, <4>4, CyclesAreFinite DEF Custody, Retired, Issued
      <4> QED BY <4>3, <4>4
    <3>4. run'.pc # "promote"
      BY <2>1
    <3> QED BY <3>1, <3>2, <3>3, <3>4 DEF Custody
  <2> QED BY <2>4, <2>5, <2>6 DEF Holding
<1>6. CASE End(c) /\ Retire(c) /\ Goto("failed") /\ UNCHANGED pending
  <2>1. RunShaped' /\ run'.pc = "failed" /\ run'.then = run.then
    BY <1>1, <1>6, Going
  <2>2. /\ life' \in [Cycles -> Lives] /\ life'[c] = "ended"
        /\ \A d \in Cycles : d # c => life'[d] = life[d]
    BY <1>6, EndIsOne DEF Holding, SlotsShaped
  <2>3. /\ retires' \in [Cycles -> Nat] /\ retires'[c] = 1
        /\ \A d \in Cycles : d # c => retires'[d] = retires[d]
    BY <1>3, <1>6, RetireIsOne DEF Holding, SlotsShaped
  <2>4. SlotsShaped' /\ Bounded'
    BY <1>4, <1>6, <2>1, <2>2, <2>3 DEF Holding, SlotsShaped, RunShaped, Bounded
  <2>5. SlotsPlaced'
    BY <1>1, <1>3, <1>4, <1>6, <2>1, <2>2 DEF SlotsPlaced, OneMade, Built, Replacing, Looked
  <2>6. Custody'
    <3>1. active # 0 => active \notin drains /\ ~Retired(active)'
      BY <1>1, <1>3, <1>4, <2>3 DEF Custody, Retired, Holding, SlotsShaped, Slots
    <3>2. ASSUME NEW d \in Cycles
          PROVE  /\ retires'[d] \in {0, 1}
                 /\ life'[d] \in {"none", "made"} => ~Retired(d)' /\ d \notin drains' \union {active', pending'}
                 /\ Issued(d)' => Retired(d)' \/ d \in {active', pending'} \union drains' \/ life'[d] = "made"
                 /\ d \in drains' => ~Retired(d)' /\ life'[d] \in {"fenced", "ended"}
      BY <1>1, <1>3, <1>4, <1>6, <2>2, <2>3 DEF Custody, Retired, Issued
    <3> QED BY <1>3, <1>4, <1>6, <2>1, <3>1, <3>2 DEF Custody
  <2> QED BY <2>4, <2>5, <2>6 DEF Holding
<1> QED BY <1>2, <1>5, <1>6 DEF StartCycle

\* The readiness loop fails the cycle, waits on, or begins to replace the old
\* one (waitReady).
LEMMA ReadinessHolds ==
  ASSUME Holding, ReadStates \/ Gate \/ AwaitReady
  PROVE  Holding'
<1>1. RunShaped /\ SlotsPlaced
  BY DEF Holding, SlotsShaped, RunShaped
<1>2. run.pc \in {"wait", "gate", "block"} /\ Built
  BY DEF ReadStates, Gate, AwaitReady, At, Built
<1>3. ASSUME NEW pc \in {"failed", "exit"}, FailCycle(pc) PROVE Holding'
  <2>1. End(pending) /\ Retire(pending) /\ pending' = 0 /\ Goto(pc) /\ UNCHANGED <<active, drains>>
    BY <1>3 DEF FailCycle, draining
  <2> QED BY <1>2, <2>1, FailHolds
<1>4. CASE /\ UNCHANGED <<active, pending, life, retires, drains>>
           /\ \/ run' = [run EXCEPT !.pc = "judge", !.states = table[pending], !.then = "gate"]
              \/ run' = [run EXCEPT !.pc = "wait", !.late = TRUE]
              \/ Goto("wait") \/ Goto("block") \/ (active = 0 /\ Goto("promote"))
              \/ active # 0 /\ Cardinality(drains) <= 1 /\ Goto("fence")
              \/ active # 0 /\ run' = [run EXCEPT !.pc = "settle", !.then = "fence"]
  <2>1. /\ RunShaped'
        /\ \/ run'.pc = "judge" /\ run'.then = "gate"
           \/ run'.pc \in {"wait", "block"}
           \/ run'.pc = "promote" /\ active = 0
           \/ run'.pc = "fence" /\ active # 0 /\ Cardinality(drains) <= 1
           \/ run'.pc = "settle" /\ run'.then = "fence" /\ active # 0
    BY <1>1, <1>4, Going DEF RunShaped
  <2> QED BY <1>1, <1>2, <1>4, <2>1, HoldingMoves DEF SlotsPlaced, Built, Replacing, Looked
<1>5. CASE ReadStates
  BY <1>3, <1>4, <1>5 DEF ReadStates, slots, sessions, admissions, draining
<1>6. CASE Gate
  <2>1. Cardinality(drains) \in Nat
    BY CyclesAreFinite, FS_Subset, FS_CardinalityType DEF Holding, SlotsShaped
  <2>2. ~(Cardinality(drains) >= 2) => Cardinality(drains) <= 1
    BY <2>1
  <2> QED BY <1>3, <1>4, <1>6, <2>2 DEF Gate, slots, sessions, admissions, draining
<1>7. CASE AwaitReady
  BY <1>3, <1>4, <1>7 DEF AwaitReady, slots, sessions, admissions, draining
<1> QED BY <1>5, <1>6, <1>7

\* The old session takes no more work, joins the drains, and the new one takes
\* its place (cycleDrainSet.start, promote).
LEMMA ReplacingHolds ==
  ASSUME Holding, FenceOld \/ DrainOld \/ Promote
  PROVE  Holding'
<1>1. RunShaped /\ SlotsPlaced /\ Custody
  BY DEF Holding, SlotsShaped, RunShaped
<1>2. CASE FenceOld
  <2>1. /\ run.pc = "fence" /\ Goto("insert") /\ UNCHANGED <<active, pending, retires, drains>>
        /\ life' = [life EXCEPT ![active] = IF @ = "up" THEN "fenced" ELSE @]
    BY <1>2 DEF FenceOld, At, slots, admissions, draining
  <2>2. RunShaped' /\ run'.pc = "insert" /\ run'.then = run.then
    BY <1>1, <2>1, Going
  <2>3. active \in Cycles /\ life[active] \in {"up", "fenced", "ended"}
    BY <1>1, <2>1 DEF SlotsPlaced, Replacing, Custody, Holding, SlotsShaped, Slots, Lives
  <2>4. /\ life' \in [Cycles -> Lives] /\ life'[active] \in {"fenced", "ended"}
        /\ \A d \in Cycles : d # active => life'[d] = life[d]
    BY <2>1, <2>3 DEF Holding, SlotsShaped, Lives
  <2>5. SlotsShaped' /\ Bounded'
    BY <2>1, <2>2, <2>4 DEF Holding, SlotsShaped, RunShaped, Bounded
  <2>6. SlotsPlaced'
    BY <1>1, <2>1, <2>2, <2>3, <2>4 DEF SlotsPlaced, OneMade, Built, Replacing, Looked
  <2>7. Custody'
    BY <1>1, <2>1, <2>2, <2>3, <2>4 DEF Custody, Retired, Issued
  <2> QED BY <2>5, <2>6, <2>7 DEF Holding
<1>3. CASE DrainOld
  <2>1. /\ run.pc = "insert" /\ Goto("promote") /\ UNCHANGED <<active, pending, retires, life>>
        /\ drains' = drains \union {active}
    BY <1>3 DEF DrainOld, At, slots, sessions, admissions
  <2>2. RunShaped' /\ run'.pc = "promote" /\ run'.then = run.then
    BY <1>1, <2>1, Going
  <2>3. active \in Cycles /\ life[active] \in {"fenced", "ended"} /\ ~Retired(active)
    BY <1>1, <2>1 DEF SlotsPlaced, Replacing, Custody, Holding, SlotsShaped, Slots
  <2>4. SlotsShaped'
    BY <2>1, <2>2, <2>3 DEF Holding, SlotsShaped, RunShaped
  <2>5. Bounded'
    <3>1. IsFiniteSet(drains)
      BY CyclesAreFinite, FS_Subset DEF Holding, SlotsShaped
    <3>2. Cardinality(drains') \in {Cardinality(drains), Cardinality(drains) + 1} /\ Cardinality(drains) \in Nat
      BY <2>1, <3>1, FS_AddElement, FS_CardinalityType
    <3> QED BY <2>1, <2>2, <3>2 DEF Holding, Bounded
  <2>6. SlotsPlaced'
    BY <1>1, <2>1, <2>2, <2>3 DEF SlotsPlaced, OneMade, Built, Replacing, Looked
  <2>7. Custody'
    BY <1>1, <2>1, <2>2, <2>3 DEF Custody, Retired, Issued
  <2> QED BY <2>4, <2>5, <2>6, <2>7 DEF Holding
<1>4. CASE Promote
  <2>1. /\ run.pc = "promote" /\ active' = pending /\ pending' = 0 /\ UNCHANGED <<life, retires, drains>>
        /\ run' = [run EXCEPT !.pc = "report", !.then = IF active = 0 THEN "check" ELSE "retain"]
    BY <1>4 DEF Promote, At, sessions, admissions, draining
  <2>2. RunShaped' /\ run'.pc = "report" /\ run'.then \in {"check", "retain"}
    BY <1>1, <2>1 DEF RunShaped
  <2>3. pending \in Cycles /\ pending # active /\ pending \notin drains /\ ~Retired(pending)
    BY <1>1, <2>1 DEF SlotsPlaced, Built, Custody, Holding, SlotsShaped, Slots
  <2>4. SlotsShaped' /\ Bounded'
    BY <2>1, <2>2 DEF Holding, SlotsShaped, RunShaped, Bounded, Slots
  <2>5. SlotsPlaced'
    BY <1>1, <2>1, <2>2, <2>3, CyclesAreFinite DEF SlotsPlaced, OneMade, Built, Replacing, Looked
  <2>6. Custody'
    BY <1>1, <2>1, <2>2, <2>3, CyclesAreFinite DEF Custody, Retired, Issued
  <2> QED BY <2>4, <2>5, <2>6 DEF Holding
<1> QED BY <1>2, <1>3, <1>4

\* Run lets go of the serving cycle when its admission runs out, when its
\* session is lost, and when it returns; and it waits for the drains.
LEMMA ReturnsHold ==
  ASSUME Holding, GiveUp \/ SessionLost \/ Exit \/ Settle
  PROVE  Holding'
<1>1. RunShaped /\ SlotsPlaced
  BY DEF Holding, SlotsShaped, RunShaped
<1>2. UNCHANGED drains
  BY DEF GiveUp, SessionLost, Exit, Settle, draining
<1>3. CASE GiveUp
  <2>1. /\ run.pc = "failed" /\ active # 0 /\ End(active) /\ Retire(active) /\ active' = 0
        /\ UNCHANGED pending /\ \E pc \in {"top", "exit"} : Goto(pc)
    BY <1>3 DEF GiveUp, At, GotoUnlessRetireFails
  <2> QED BY <1>1, <1>2, <2>1, Going, LetGoHolds
<1>4. CASE SessionLost
  <2>1. /\ run.pc = "top" /\ active # 0 /\ life[active] = "ended" /\ UNCHANGED <<life, pending>>
        /\ Retire(active) /\ active' = 0 /\ \E pc \in {"top", "exit"} : Goto(pc)
    BY <1>4 DEF SessionLost, Selecting, At, GotoUnlessRetireFails, sessions
  <2> QED BY <1>1, <1>2, <2>1, Going, LetGoHolds
<1>5. CASE Exit
  <2>1. /\ run.pc = "exit" /\ active' = 0 /\ UNCHANGED pending
        /\ run' = [run EXCEPT !.pc = "settle", !.then = "done"]
        /\ IF active = 0 THEN UNCHANGED <<life, retires>> ELSE End(active) /\ Retire(active)
    BY <1>5 DEF Exit, At, sessions, admissions
  <2>2. RunShaped' /\ run'.pc = "settle" /\ run'.then = "done"
    BY <1>1, <2>1 DEF RunShaped
  <2>3. CASE active = 0
    BY <1>1, <1>2, <2>1, <2>2, <2>3, HoldingMoves DEF SlotsPlaced, Built, Replacing, Looked
  <2>4. CASE active # 0
    BY <1>2, <2>1, <2>2, <2>4, LetGoHolds
  <2> QED BY <2>3, <2>4
<1>6. CASE Settle
  <2>1. run.pc = "settle" /\ UNCHANGED active
    BY <1>6 DEF Settle, At
  <2>2. CASE (drainErr \/ drains # {}) /\ run.then = "fence"
    <3>1. End(pending) /\ Retire(pending) /\ pending' = 0 /\ Goto("exit")
      BY <1>6, <2>2 DEF Settle
    <3> QED BY <1>2, <2>1, <2>2, <3>1, FailHolds DEF Built
  <2>3. CASE ~((drainErr \/ drains # {}) /\ run.then = "fence")
    <3>1. /\ UNCHANGED <<life, retires, pending>>
          /\ Goto(IF drainErr \/ drains # {} THEN "done" ELSE run.then)
      BY <1>6, <2>3 DEF Settle, sessions, admissions
    <3>2. /\ RunShaped' /\ run'.then = run.then
          /\ \/ run'.pc = "done" /\ run.then \in {"top", "done"}
             \/ run'.pc = run.then /\ drains = {} /\ run.then \in {"top", "done", "fence"}
      BY <1>1, <2>1, <2>3, <3>1, Going DEF SlotsPlaced
    <3>3. drains = {} => Cardinality(drains) <= 1
      BY FS_EmptySet
    <3> QED BY <1>1, <1>2, <2>1, <3>1, <3>2, <3>3, HoldingMoves DEF SlotsPlaced, Built, Replacing, Looked
  <2> QED BY <2>2, <2>3
<1> QED BY <1>3, <1>4, <1>5, <1>6

\* A drain that is over retires its admission (cycleDrainSet.run).
LEMMA DrainRetiresHolds ==
  ASSUME Holding, NEW c \in Cycles, DrainRetires(c)
  PROVE  Holding'
<1>1. SlotsPlaced /\ Custody
  BY DEF Holding
<1>2. /\ c \in drains /\ life[c] = "ended" /\ drains' = drains \ {c} /\ Retire(c)
      /\ UNCHANGED <<active, pending, run, life>>
  BY DEF DrainRetires, slots, sessions
<1>3. /\ retires' \in [Cycles -> Nat] /\ retires'[c] = retires[c] + 1
      /\ \A d \in Cycles : d # c => retires'[d] = retires[d]
  BY <1>2, RetireIsOne DEF Holding, SlotsShaped
<1>4. SlotsShaped'
  BY <1>2, <1>3 DEF Holding, SlotsShaped
<1>5. SlotsPlaced'
  BY <1>1, <1>2 DEF SlotsPlaced, OneMade, Built, Replacing, Looked
<1>6. Custody'
  <2>1. c # pending /\ retires[c] = 0 /\ (c = active => run.pc = "promote")
    BY <1>1, <1>2, CyclesAreFinite DEF Custody, Retired
  <2>2. active # 0 => IF run.pc = "promote" THEN active \in drains' \/ Retired(active)'
                                            ELSE active \notin drains' /\ ~Retired(active)'
    BY <1>1, <1>2, <1>3, <2>1 DEF Custody, Retired, Holding, SlotsShaped, Slots
  <2>3. pending # 0 => pending \notin drains' /\ ~Retired(pending)'
    BY <1>1, <1>2, <1>3, <2>1 DEF Custody, Retired, Holding, SlotsShaped, Slots
  <2>4. ASSUME NEW d \in Cycles
        PROVE  /\ retires'[d] \in {0, 1}
               /\ life'[d] \in {"none", "made"} => ~Retired(d)' /\ d \notin drains' \union {active', pending'}
               /\ Issued(d)' => Retired(d)' \/ d \in {active', pending'} \union drains' \/ life'[d] = "made"
               /\ d \in drains' => ~Retired(d)' /\ life'[d] \in {"fenced", "ended"}
    BY <1>1, <1>2, <1>3, <2>1 DEF Custody, Retired, Issued
  <2> QED BY <1>1, <1>2, <2>2, <2>3, <2>4 DEF Custody
<1>7. Bounded'
  <2>1. IsFiniteSet(drains)
    BY CyclesAreFinite, FS_Subset DEF Holding, SlotsShaped
  <2>2. Cardinality(drains') = Cardinality(drains) - 1 /\ Cardinality(drains) \in Nat
    BY <1>2, <2>1, FS_RemoveElement, FS_CardinalityType
  <2> QED BY <1>2, <2>2 DEF Holding, Bounded
<1> QED BY <1>4, <1>5, <1>6, <1>7 DEF Holding

\* At first nothing is admitted.
LEMMA InitHolding == Init => Holding
<1> SUFFICES ASSUME Init PROVE Holding
  OBVIOUS
<1>1. /\ active = 0 /\ pending = 0 /\ run.pc = "idle" /\ run.then = "top" /\ RunShaped
      /\ life \in [Cycles -> Lives] /\ \A c \in Cycles : life[c] = "none"
      /\ retires \in [Cycles -> Nat] /\ \A c \in Cycles : retires[c] = 0
      /\ drains = {}
  BY DEF Init, RunShaped, Lives
<1>2. SlotsShaped
  BY <1>1 DEF SlotsShaped, RunShaped, Slots
<1>3. SlotsPlaced
  BY <1>1 DEF SlotsPlaced, OneMade, Built, Replacing, Looked
<1>4. Custody
  BY <1>1, CyclesAreFinite DEF Custody, Retired, Issued
<1>5. Bounded
  BY <1>1, FS_EmptySet DEF Bounded
<1> QED BY <1>2, <1>3, <1>4, <1>5 DEF Holding

\* Every step keeps the admissions held.
LEMMA StepHolding ==
  ASSUME Holding, [Next]_vars
  PROVE  Holding'
<1>1. CASE UNCHANGED vars
  BY <1>1, HoldingStays DEF vars, slots, sessions, admissions, draining
<1>2. CASE Building
  <2>1. CASE Retry \/ WithdrawGone
    BY <2>1, MovesHold
  <2> QED BY <1>2, <2>1, AdmitHolds, StartHolds, ReturnsHold, ReadinessHolds DEF Building
<1>3. CASE Promoting
  BY <1>3, ReplacingHolds, MovesHold DEF Promoting
<1>4. CASE Running
  <2>1. CASE Woken
    BY <2>1, HoldingStays DEF Woken, slots, sessions, admissions, draining
  <2> QED BY <1>4, <2>1, MovesHold, ReturnsHold DEF Running
<1>5. ASSUME NEW a \in Callers, Calling(a) PROVE Holding'
  BY <1>5, HoldingStays DEF Calling, SetRoutes, RestartRoute, slots, sessions, admissions, draining
<1>6. ASSUME NEW a \in Actors, Apply(a) PROVE Holding'
  <2>1. UNCHANGED <<active, pending, run, life, retires, drains>>
    BY <1>6 DEF Apply, RetainRoutes, ApplyLock, ApplyPending, ApplyActive, SignalWake, Update,
                slots, sessions, admissions, draining
  <2> QED BY <2>1, HoldingStays
<1>7. CASE Environment
  <2>1. ASSUME NEW c \in Cycles, DrainEnds(c) \/ Lose(c) PROVE Holding'
    <3>1. /\ life[c] \in {"up", "fenced"} \/ c \in drains
          /\ End(c) /\ UNCHANGED <<active, pending, run, retires, drains>>
      BY <2>1 DEF DrainEnds, Lose, slots, admissions, draining
    <3> QED BY <3>1, EndHolds
  <2>2. ASSUME NEW c \in Cycles, Expire(c) PROVE Holding'
    BY <2>2, HoldingStays DEF Expire, slots, sessions, draining
  <2>3. ASSUME NEW c \in Cycles, NEW r \in Routes, Serve(c, r) \/ Flap(c, r) \/ Refuse(c, r) PROVE Holding'
    <3>1. \E from, to \in Phases : Observe(c, r, from, to)
      BY <2>3 DEF Serve, Flap, Refuse, Phases
    <3> QED BY <3>1, HoldingStays DEF Observe, slots, admissions, draining
  <2>4. CASE Shutdown
    BY <2>4, HoldingStays DEF Shutdown, slots, sessions, admissions, draining
  <2> QED BY <1>7, <2>1, <2>2, <2>3, <2>4, DrainRetiresHolds DEF Environment
<1> QED BY <1>1, <1>2, <1>3, <1>4, <1>5, <1>6, <1>7, BeginHolds DEF Next

\* Every admission is held by a slot or a drain until it is retired, wherever
\* Run, the drains and the callers are (group.go, cycleDrainSet).
THEOREM AdmissionsAreHeld == Spec => []Holding
<1>1. Holding /\ [Next]_vars => Holding'
  BY StepHolding
<1> QED BY <1>1, InitHolding, PTL DEF Spec

\* No admission is retired twice, and none is forgotten: not by a failed start,
\* a lost session, a rotation that gives up, a drain that ends before the
\* promotion or a shutdown (failCycle, stopCycle, cycleDrainSet.start).
THEOREM AdmissionsRetireOnce == Spec => []RetiredOnce
<1>1. Holding => RetiredOnce
  <2> SUFFICES ASSUME Holding, NEW c \in Cycles
               PROVE  /\ retires[c] <= 1
                      /\ retires[c] = 0 /\ Issued(c) => c \in {active, pending} \union drains \/ life[c] = "made"
                      /\ retires[c] = 1 => c # pending /\ c \notin drains /\ (c = active => run.pc = "promote")
    BY DEF RetiredOnce
  <2> QED BY CyclesAreFinite DEF Holding, Custody, Retired
<1> QED BY <1>1, AdmissionsAreHeld, PTL

\* A rotation never leaves a third retired session connected
\* (cycleDrainSet.start).
THEOREM DrainsAreBounded == Spec => []DrainsBounded
<1>1. Holding => DrainsBounded
  BY DEF Holding, Bounded, DrainsBounded
<1> QED BY <1>1, AdmissionsAreHeld, PTL

--------------------------------------------------------------------------------
(***************************************************************************)
(* Tables and jobs.                                                        *)
(***************************************************************************)
\* What a plan asks for.
Asks(want) ==
  /\ DOMAIN want \subseteq Routes /\ want = [r \in DOMAIN want |-> want[r]]
  /\ \A r \in DOMAIN want : want[r] \in Nat

\* The plan asks for the desired routes (Wanted).
LEMMA WantedAsks ==
  ASSUME PlanShaped
  PROVE  Asks(Wanted) /\ DOMAIN Wanted = desired /\ \A r \in desired : Wanted[r] = restarts[r]
BY DEF PlanShaped, Asks, Wanted

\* An update that registers leaves the session with what it was asked for
\* (Registered).
LEMMA RegisteredIs ==
  ASSUME NEW t, IsTable(t), NEW want, Asks(want)
  PROVE  /\ IsTable(Registered(t, want)) /\ DOMAIN Registered(t, want) = DOMAIN want
         /\ \A r \in DOMAIN want : Registered(t, want)[r].gen = want[r]
<1>1. \A r \in DOMAIN want :
        IF r \in DOMAIN t /\ t[r].gen = want[r]
        THEN Registered(t, want)[r] = t[r]
        ELSE Registered(t, want)[r] = [gen |-> want[r], phase |-> "pending"]
  BY DEF Registered
<1>2. \A r \in DOMAIN want : Registered(t, want)[r] \in Registration /\ Registered(t, want)[r].gen = want[r]
  <2> SUFFICES ASSUME NEW r \in DOMAIN want
               PROVE  Registered(t, want)[r] \in Registration /\ Registered(t, want)[r].gen = want[r]
    OBVIOUS
  <2>1. CASE r \in DOMAIN t /\ t[r].gen = want[r]
    BY <1>1, <2>1 DEF IsTable
  <2>2. CASE ~(r \in DOMAIN t /\ t[r].gen = want[r])
    <3>1. Registered(t, want)[r] = [gen |-> want[r], phase |-> "pending"]
      BY <1>1, <2>2
    <3> QED BY <3>1 DEF Asks, Registration, Phases
  <2> QED BY <2>1, <2>2
<1>3. DOMAIN Registered(t, want) = DOMAIN want
  BY DEF Registered
<1>4. Registered(t, want) = [r \in DOMAIN Registered(t, want) |-> Registered(t, want)[r]]
  BY DEF Registered
<1> QED BY <1>2, <1>3, <1>4 DEF IsTable, Asks

\* A rotating session only loses routes (Retained).
LEMMA RetainedIs ==
  ASSUME NEW t, IsTable(t), NEW want
  PROVE  /\ IsTable(Retained(t, want)) /\ DOMAIN Retained(t, want) \subseteq DOMAIN t
         /\ \A r \in DOMAIN Retained(t, want) : Retained(t, want)[r] = t[r]
<1>1. /\ DOMAIN Retained(t, want) \subseteq DOMAIN t
      /\ \A r \in DOMAIN Retained(t, want) : Retained(t, want)[r] = t[r]
  BY DEF Retained
<1>2. Retained(t, want) = [r \in DOMAIN Retained(t, want) |-> Retained(t, want)[r]]
  BY DEF Retained
<1> QED BY <1>1, <1>2 DEF IsTable

\* Phases change, registrations stay.
SameGens ==
  /\ TablesShaped' /\ names' = names
  /\ \A c \in Cycles : /\ DOMAIN table'[c] = DOMAIN table[c]
                       /\ \A r \in DOMAIN table[c] : table'[c][r].gen = table[c][r].gen

\* A session that ends keeps its registrations (End).
LEMMA EndKeepsGens ==
  ASSUME TablesShaped, NEW c \in Cycles, End(c)
  PROVE  SameGens
<1> DEFINE t == [r \in DOMAIN table[c] |-> IF table[c][r].phase = "serving"
                                           THEN [table[c][r] EXCEPT !.phase = "pending"] ELSE table[c][r]]
<1>1. table' = [table EXCEPT ![c] = t] /\ names' = names
  BY DEF End
<1>2. DOMAIN t = DOMAIN table[c] /\ t = [r \in DOMAIN t |-> t[r]]
  OBVIOUS
<1>3. \A r \in DOMAIN table[c] : t[r] \in Registration /\ t[r].gen = table[c][r].gen
  BY DEF TablesShaped, IsTable, Registration, Phases
<1> HIDE DEF t
<1>4. IsTable(t)
  BY <1>2, <1>3 DEF IsTable, TablesShaped
<1>5. table' = [d \in Cycles |-> table'[d]] /\ table'[c] = t /\ \A d \in Cycles : d # c => table'[d] = table[d]
  BY <1>1 DEF TablesShaped
<1> QED BY <1>1, <1>2, <1>3, <1>4, <1>5 DEF SameGens, TablesShaped

\* What a session observes of a proxy changes its phase (Observe).
LEMMA ObserveKeepsGens ==
  ASSUME TablesShaped, NEW c \in Cycles, NEW r \in Routes, NEW from, NEW to \in Phases, Observe(c, r, from, to)
  PROVE  SameGens
<1> DEFINE t == [table[c] EXCEPT ![r] = [table[c][r] EXCEPT !.phase = to]]
<1>1. table' = [table EXCEPT ![c] = t] /\ names' = names /\ r \in DOMAIN table[c]
  BY DEF Observe
<1>2. DOMAIN t = DOMAIN table[c] /\ t = [q \in DOMAIN t |-> t[q]]
  BY DEF TablesShaped, IsTable
<1>3. \A q \in DOMAIN table[c] : t[q] \in Registration /\ t[q].gen = table[c][q].gen
  BY <1>1 DEF TablesShaped, IsTable, Registration
<1> HIDE DEF t
<1>4. IsTable(t)
  BY <1>2, <1>3 DEF IsTable, TablesShaped
<1>5. table' = [d \in Cycles |-> table'[d]] /\ table'[c] = t /\ \A d \in Cycles : d # c => table'[d] = table[d]
  BY <1>1 DEF TablesShaped
<1> QED BY <1>1, <1>2, <1>3, <1>4, <1>5 DEF SameGens, TablesShaped

\* Tables nobody touches.
LEMMA UntouchedGens ==
  ASSUME TablesShaped, UNCHANGED <<table, names>>
  PROVE  SameGens
BY DEF TablesShaped, SameGens, IsTable

\* A job like another but for its place (Applying, Waking).
LEMMA JobMoved ==
  ASSUME NEW j, IsJob(j), NEW step \in JobSteps \ {"pending", "active"}, NEW k, k = [j EXCEPT !.step = step]
  PROVE  IsJob(k) /\ k.step = step /\ k.keep = j.keep /\ k.record = j.record /\ k.refused = j.refused
BY DEF IsJob

\* A job like another but for what its failure means (Healing).
LEMMA JobRecords ==
  ASSUME NEW j, IsJob(j), NEW k, k = [j EXCEPT !.record = TRUE]
  PROVE  IsJob(k) /\ k.step = j.step /\ k.record /\ k.refused = j.refused
BY DEF IsJob

\* The jobs that wait for their turn.
LEMMA JobsAre ==
  /\ \A j \in {NoJob, Applying, Healing, Waking} : IsJob(j) /\ ~j.refused
  /\ NoJob.step = "none" /\ Applying.step = "lock" /\ Healing.step = "lock" /\ Waking.step = "wake"
  /\ ~Applying.record /\ Healing.record
  /\ \A record \in BOOLEAN : \A keep :
       /\ IsJob(Revoking(keep, record)) /\ Revoking(keep, record).step = "retain"
       /\ Revoking(keep, record).keep = keep /\ Revoking(keep, record).record = record
       /\ ~Revoking(keep, record).refused
<1>1. {"none", "lock", "wake"} \subseteq JobSteps \ {"pending", "active"}
  BY DEF JobSteps
<1>2. IsJob(NoJob) /\ NoJob.step = "none" /\ ~NoJob.refused /\ ~NoJob.record
  <2>1. PICK j : j = NoJob
    OBVIOUS
  <2>2. j = [step |-> "none", keep |-> {}, want |-> <<>>, active |-> 0, pending |-> 0,
             rotating |-> FALSE, refused |-> FALSE, record |-> FALSE]
    BY <2>1 DEF NoJob
  <2>3. /\ j.step = "none" /\ j.keep = {} /\ j.want = <<>> /\ j.active = 0 /\ j.pending = 0
        /\ j.rotating = FALSE /\ j.refused = FALSE /\ j.record = FALSE
    BY <2>2
  <2>4. j = [step |-> j.step, keep |-> j.keep, want |-> j.want, active |-> j.active, pending |-> j.pending,
             rotating |-> j.rotating, refused |-> j.refused, record |-> j.record]
    BY <2>2, <2>3
  <2> QED BY <2>1, <2>3, <2>4 DEF IsJob, JobSteps, Slots
<1>3. IsJob(Applying) /\ Applying.step = "lock" /\ ~Applying.record /\ ~Applying.refused
  BY <1>1, <1>2, JobMoved DEF Applying
<1>4. IsJob(Healing) /\ Healing.step = "lock" /\ Healing.record /\ ~Healing.refused
  BY <1>3, JobRecords DEF Healing
<1>5. IsJob(Waking) /\ Waking.step = "wake" /\ ~Waking.refused
  BY <1>1, <1>2, JobMoved DEF Waking
<1>6. ASSUME NEW record \in BOOLEAN, NEW keep
      PROVE  /\ IsJob(Revoking(keep, record)) /\ Revoking(keep, record).step = "retain"
             /\ Revoking(keep, record).keep = keep /\ Revoking(keep, record).record = record
             /\ ~Revoking(keep, record).refused
  <2>1. PICK k : k = Revoking(keep, record)
    OBVIOUS
  <2>2. k = [NoJob EXCEPT !.step = "retain", !.keep = keep, !.record = record]
    BY <2>1 DEF Revoking
  <2>3. IsJob(k) /\ k.step = "retain" /\ k.keep = keep /\ k.record = record /\ k.refused = NoJob.refused
    BY <1>2, <2>2 DEF IsJob, JobSteps
  <2> QED BY <1>2, <2>1, <2>3
<1> QED BY <1>2, <1>3, <1>4, <1>5, <1>6

\* One actor goes on with its job.
LEMMA JobSet ==
  ASSUME JobsShaped, NEW a \in Actors, NEW j, IsJob(j), jobs' = [jobs EXCEPT ![a] = j]
  PROVE  JobsShaped' /\ jobs'[a] = j /\ \A b \in Actors : b # a => jobs'[b] = jobs[b]
BY DEF JobsShaped

--------------------------------------------------------------------------------
(***************************************************************************)
(* Pushing is kept by what is no apply.                                    *)
(***************************************************************************)
\* A plan only asks for more generations, and never for an old one of a route
\* that left (SetRoutes, RestartRoute, withdrawGone).
PlanGrows ==
  /\ PlanShaped'
  /\ \A r \in Routes : restarts[r] <= restarts'[r] /\ (r \in desired /\ r \notin desired' => restarts[r] < restarts'[r])

\* A cycle's state only goes on.
LifeGoesOn ==
  \A c \in Cycles : /\ life[c] \notin {"none", "made"} => life'[c] \notin {"none", "made"}
                    /\ life[c] \in {"fenced", "ended"} => life'[c] \in {"fenced", "ended"}
                    /\ life[c] = "ended" => life'[c] = "ended"

\* Applies under way go on undisturbed.
AppliesStay ==
  /\ JobsShaped'
  /\ \A a \in Actors : InApply(a)' =>
       /\ InApply(a)
       /\ jobs'[a].want = jobs[a].want /\ jobs'[a].pending = jobs[a].pending
       /\ jobs'[a].active = jobs[a].active /\ jobs'[a].rotating = jobs[a].rotating

\* No session begins to take registrations, and while an apply is under way
\* only one that ends stops taking them.
SlotsStay ==
  /\ rotating' \in BOOLEAN
  /\ \A c \in Cycles : Receives(c)' => Receives(c)
  /\ (\E a \in Actors : InApply(a)) =>
       \A c \in Cycles : /\ Receives(c) => Receives(c)' \/ life'[c] = "ended"
                         /\ c = active /\ rotating => (c = active' /\ rotating') \/ life'[c] \in {"fenced", "ended"}

StatesPast ==
  run.pc = "start" => IsTable(run.states) /\ \A r \in DOMAIN run.states : Past(r, run.states[r].gen)

\* What was asked for in the past stays so.
LEMMA PastStays ==
  ASSUME PlanShaped, PlanGrows, NEW r \in Routes, NEW gen \in Nat, Past(r, gen)
  PROVE  Past(r, gen)'
BY DEF PlanShaped, PlanGrows, Past

\* A name: a cycle, a route and a generation.
LEMMA NameIs ==
  ASSUME TablesShaped, NEW n \in names
  PROVE  n[1] \in Cycles /\ n[2] \in Routes /\ n[3] \in Nat /\ n = <<n[1], n[2], n[3]>>
BY DEF TablesShaped

\* A registration of a table that changes phases only stays (Observe, End).
LEMMA HasStays ==
  ASSUME SameGens, NEW c \in Cycles, NEW r, NEW gen, Has(c, r, gen)
  PROVE  Has(c, r, gen)'
BY DEF SameGens, Has

\* What sessions had and what is to come stay in step.
LEMMA PushingStays ==
  ASSUME Holding, Pushing, PlanGrows, SameGens, LifeGoesOn, AppliesStay, SlotsStay, StatesPast', Rotates'
  PROVE  Pushing'
<1>1. PushesShaped'
  BY DEF PushesShaped, PlanGrows, SameGens, AppliesStay, SlotsStay
<1>2. OneApply'
  BY DEF OneApply, AppliesStay, Pushing
<1>3. NamesPast'
  <2>1. \A n \in names' : Past(n[2], n[3])' /\ life'[n[1]] \notin {"none", "made"}
    <3> SUFFICES ASSUME NEW n \in names PROVE Past(n[2], n[3])' /\ life'[n[1]] \notin {"none", "made"}
      BY DEF SameGens
    <3>1. n[1] \in Cycles /\ n[2] \in Routes /\ n[3] \in Nat
      BY NameIs DEF Pushing, PushesShaped
    <3>2. Past(n[2], n[3]) /\ life[n[1]] \notin {"none", "made"}
      BY DEF Pushing, NamesPast
    <3> QED BY <3>1, <3>2, PastStays DEF LifeGoesOn, Pushing, PushesShaped
  <2>2. \A c \in Cycles : \A r \in DOMAIN table'[c] : <<c, r, table'[c][r].gen>> \in names'
    BY DEF SameGens, Pushing, NamesPast
  <2> QED BY <2>1, <2>2 DEF NamesPast, StatesPast
<1>4. NamesKept'
  <2> SUFFICES ASSUME NEW n \in names, Receives(n[1])', n[2] \in desired', n[3] = restarts'[n[2]]
               PROVE  Has(n[1], n[2], n[3])'
    BY DEF NamesKept, SameGens
  <2>1. n[1] \in Cycles /\ n[2] \in Routes /\ n[3] \in Nat
    BY NameIs DEF Pushing, PushesShaped
  <2>2. Past(n[2], n[3]) /\ Receives(n[1])
    BY <2>1 DEF Pushing, NamesPast, SlotsStay
  <2>3. n[2] \in desired /\ n[3] = restarts[n[2]]
    BY <2>1, <2>2 DEF Past, PlanGrows, PlanShaped, Pushing, PushesShaped
  <2>4. Has(n[1], n[2], n[3])
    BY <2>2, <2>3 DEF Pushing, NamesKept
  <2> QED BY <2>1, <2>4, HasStays
<1>5. ASSUME NEW a \in Actors PROVE Applies(a)'
  <2> SUFFICES ASSUME InApply(a)' PROVE Applies(a)'
    BY DEF Applies
  <2>1. /\ InApply(a)
        /\ jobs'[a].want = jobs[a].want /\ jobs'[a].pending = jobs[a].pending
        /\ jobs'[a].active = jobs[a].active /\ jobs'[a].rotating = jobs[a].rotating
    BY DEF AppliesStay
  <2>2. PICK j : j = jobs[a]
    OBVIOUS
  <2>3. /\ \A r \in DOMAIN j.want : Past(r, j.want[r])
        /\ j.pending = j.active => j.pending = 0
        /\ \A c \in {j.pending, j.active} \ {0} : life[c] \notin {"none", "made"}
        /\ \A c \in Cycles : GivesTo(j, c) => Newest(j, c) /\ (Receives(c) \/ life[c] = "ended")
        /\ j.rotating /\ j.active # 0 => (j.active = active /\ rotating) \/ life[j.active] \in {"fenced", "ended"}
    BY <2>1, <2>2 DEF Pushing, Applies
  <2>4. Asks(j.want) /\ j.pending \in Slots /\ j.active \in Slots
    BY <2>1, <2>2 DEF Pushing, PushesShaped, JobsShaped, IsJob, InApply, Asks
  <2>5. \A r \in DOMAIN j.want : Past(r, j.want[r])'
    BY <2>3, <2>4, PastStays DEF Asks, Pushing, PushesShaped
  <2>6. \A c \in {j.pending, j.active} \ {0} : life'[c] \notin {"none", "made"}
    BY <2>3, <2>4 DEF LifeGoesOn, Slots
  <2>7. ASSUME NEW c \in Cycles, GivesTo(j, c)
        PROVE  /\ \A n \in names' : n[1] = c =>
                     IF n[2] \in DOMAIN j.want THEN n[3] <= j.want[n[2]] /\ (n[3] = j.want[n[2]] => Has(c, n[2], n[3])')
                                               ELSE n[3] < restarts'[n[2]]
               /\ Receives(c)' \/ life'[c] = "ended"
    <3>1. Newest(j, c) /\ (Receives(c) \/ life[c] = "ended")
      BY <2>3, <2>7
    <3>2. Receives(c)' \/ life'[c] = "ended"
      BY <2>1, <3>1 DEF SlotsStay, LifeGoesOn
    <3>3. ASSUME NEW n \in names, n[1] = c
          PROVE  IF n[2] \in DOMAIN j.want THEN n[3] <= j.want[n[2]] /\ (n[3] = j.want[n[2]] => Has(c, n[2], n[3])')
                                           ELSE n[3] < restarts'[n[2]]
      <4>1. n[2] \in Routes /\ n[3] \in Nat
        BY NameIs DEF Pushing, PushesShaped
      <4>2. CASE n[2] \in DOMAIN j.want
        BY <3>1, <3>3, <4>2, HasStays DEF Newest
      <4>3. CASE n[2] \notin DOMAIN j.want
        <5>1. n[3] < restarts[n[2]]
          BY <3>1, <3>3, <4>3 DEF Newest
        <5> QED BY <4>1, <4>3, <5>1 DEF PlanGrows, PlanShaped, Pushing, PushesShaped
      <4> QED BY <4>2, <4>3
    <3> QED BY <3>2, <3>3 DEF SameGens
  <2>8. j.rotating /\ j.active # 0 => (j.active = active' /\ rotating') \/ life'[j.active] \in {"fenced", "ended"}
    BY <2>1, <2>3, <2>4 DEF SlotsStay, LifeGoesOn, Slots
  <2>9. PICK k : k = jobs'[a]
    OBVIOUS
  <2>10. \A c \in Cycles : GivesTo(j, c) => Newest(j, c)'
    BY <2>7 DEF Newest
  <2>11. k.want = j.want /\ k.pending = j.pending /\ k.active = j.active /\ k.rotating = j.rotating
    BY <2>1, <2>2, <2>9
  <2>12. \A c \in Cycles : GivesTo(k, c) => GivesTo(j, c) /\ Newest(k, c)'
    BY <2>10, <2>11 DEF GivesTo, Newest
  <2> QED BY <2>3, <2>5, <2>6, <2>7, <2>8, <2>9, <2>11, <2>12 DEF Applies
<1> QED BY <1>1, <1>2, <1>3, <1>4, <1>5 DEF Pushing, SlotsStay, PlanGrows

\* A job begins, or ends, outside an apply.
LEMMA JobTurns ==
  ASSUME JobsShaped, NEW a \in Actors, NEW j, IsJob(j), j.step \notin {"pending", "active"},
         jobs' = [jobs EXCEPT ![a] = j]
  PROVE  AppliesStay
BY JobSet DEF AppliesStay, InApply

\* Nobody's job changes.
LEMMA JobsRest ==
  ASSUME JobsShaped, UNCHANGED jobs
  PROVE  AppliesStay
BY DEF AppliesStay, InApply, JobsShaped

\* Steps that leave the plan, the slots and the sessions alone.
LEMMA PushingMoves ==
  ASSUME Holding, Pushing, UNCHANGED <<desired, restarts, active, pending, rotating, table, life, names>>,
         AppliesStay, StatesPast', Rotates'
  PROVE  SameGens /\ Pushing'
<1>1. PlanGrows
  BY DEF PlanGrows, PlanShaped, Pushing, PushesShaped
<1>2. LifeGoesOn
  BY DEF LifeGoesOn
<1>3. SlotsStay
  BY DEF SlotsStay, Receives, Pushing, PushesShaped
<1>4. SameGens
  BY UntouchedGens DEF Pushing, PushesShaped
<1> QED BY <1>1, <1>2, <1>3, <1>4, PushingStays

\* A caller's change of the plan, and the end of its job.
LEMMA CallersPush ==
  ASSUME Holding, Pushing, NEW a \in Actors,
         Calling(a) \/ RetainRoutes(a) \/ SignalWake(a)
  PROVE  SameGens /\ Pushing'
<1>1. JobsShaped /\ PlanShaped /\ Rotates /\ StatesPast
  BY DEF Pushing, PushesShaped, NamesPast, StatesPast
<1>2. UNCHANGED <<active, pending, rotating, table, life, names, run>>
  BY DEF Calling, SetRoutes, RestartRoute, RetainRoutes, SignalWake, slots, sessions
<1>3. CASE RetainRoutes(a) \/ SignalWake(a)
  <2>1. \E j \in {NoJob, Applying, Healing} : jobs' = [jobs EXCEPT ![a] = j]
    BY <1>3 DEF RetainRoutes, SignalWake
  <2>2. AppliesStay
    BY <1>1, <2>1, JobsAre, JobTurns
  <2>3. UNCHANGED <<desired, restarts>>
    BY <1>3 DEF RetainRoutes, SignalWake, plan
  <2>4. StatesPast' /\ Rotates'
    BY <1>1, <1>2, <2>3 DEF StatesPast, Past, Rotates, Built
  <2> QED BY <1>2, <2>2, <2>3, <2>4, PushingMoves
<1>4. CASE Calling(a)
  <2>1. PlanGrows
    <3>1. ASSUME NEW r \in Routes, RestartRoute(a, r) PROVE PlanGrows
      BY <1>1, <3>1 DEF RestartRoute, PlanGrows, PlanShaped
    <3>2. ASSUME NEW next \in SUBSET Routes, NEW different, SetRoutes(a, next, different) PROVE PlanGrows
      BY <1>1, <3>2 DEF SetRoutes, PlanGrows, PlanShaped
    <3> QED BY <1>4, <3>1, <3>2 DEF Calling
  <2>2. AppliesStay
    <3>1. ASSUME NEW r \in Routes, RestartRoute(a, r) PROVE AppliesStay
      <4>1. jobs' = [jobs EXCEPT ![a] = Healing]
        BY <3>1 DEF RestartRoute
      <4> QED BY <1>1, <4>1, JobsAre, JobTurns
    <3>2. ASSUME NEW next \in SUBSET Routes, NEW different, SetRoutes(a, next, different) PROVE AppliesStay
      <4>1. jobs' = [jobs EXCEPT ![a] = Revoking(next, TRUE)]
        BY <3>2 DEF SetRoutes
      <4>2. IsJob(Revoking(next, TRUE)) /\ Revoking(next, TRUE).step = "retain"
        BY JobsAre
      <4> QED BY <1>1, <4>1, <4>2, JobTurns
    <3> QED BY <1>4, <3>1, <3>2 DEF Calling
  <2>3. SlotsStay /\ LifeGoesOn /\ SameGens
    BY <1>2, UntouchedGens DEF SlotsStay, LifeGoesOn, Receives, Pushing, PushesShaped
  <2>4. StatesPast'
    <3>1. ASSUME run.pc = "start", NEW r \in DOMAIN run.states PROVE Past(r, run.states[r].gen)'
      <4>1. r \in Routes /\ run.states[r].gen \in Nat /\ Past(r, run.states[r].gen)
        BY <1>1, <3>1 DEF StatesPast, IsTable, Registration
      <4> QED BY <1>1, <2>1, <4>1, <1>2, PastStays
    <3> QED BY <1>1, <1>2, <3>1 DEF StatesPast
  <2>5. Rotates'
    BY <1>1, <1>2 DEF Rotates, Built
  <2> QED BY <2>1, <2>2, <2>3, <2>4, <2>5, PushingStays
<1> QED BY <1>3, <1>4

\* What Run does to its place alone, or with a new job.
LEMMA MovesPush ==
  ASSUME Holding, Pushing,
         Begin \/ AdmitNext \/ Retry \/ DrainOld \/ ReportActive \/ RetainPromoted \/ CheckEmpty
           \/ Stopped \/ DrainsChanged \/ Woken \/ SessionChanged
  PROVE  SameGens /\ Pushing'
<1>1. JobsShaped /\ Rotates /\ StatesPast /\ RunShaped /\ SlotsPlaced
  BY DEF Pushing, PushesShaped, NamesPast, StatesPast, RunShaped, Holding, SlotsShaped
<1>2. UNCHANGED <<desired, restarts, active, pending, rotating, table, life, names>>
  BY DEF Begin, AdmitNext, Retry, DrainOld, ReportActive, RetainPromoted, CheckEmpty, Stopped, DrainsChanged,
         Woken, SessionChanged, plan, slots, sessions
<1>3. AppliesStay
  <2>1. CASE Woken \/ SessionChanged
    <3>1. UNCHANGED jobs \/ jobs' = [jobs EXCEPT ![Run] = Healing]
      BY <1>1, <2>1 DEF Woken, SessionChanged, HealDivergence, JobsShaped
    <3> QED BY <1>1, <3>1, JobsAre, JobTurns, JobsRest DEF Actors
  <2>2. CASE ~(Woken \/ SessionChanged)
    BY <1>1, <2>2, JobsRest DEF Begin, AdmitNext, Retry, DrainOld, ReportActive, RetainPromoted, CheckEmpty,
                                Stopped, DrainsChanged
  <2> QED BY <2>1, <2>2
<1>4. StatesPast' /\ Rotates'
  <2> USE DEF StatesPast, Rotates, Built
  <2>1. CASE Begin
    <3>1. run' = [run EXCEPT !.pc = "settle", !.then = "top"]
      BY <2>1 DEF Begin
    <3>2. run'.pc = "settle" /\ run'.then = "top"
      BY <1>1, <3>1 DEF RunShaped
    <3> QED BY <3>2
  <2>2. CASE AdmitNext
    BY <1>1, <1>2, <2>2, Going DEF AdmitNext, At
  <2>3. CASE Retry
    BY <1>1, <1>2, <2>3, Going DEF Retry, At
  <2>4. CASE DrainOld
    BY <1>1, <1>2, <2>4, Going DEF DrainOld, At
  <2>5. CASE ReportActive
    <3>1. run.pc = "report" /\ run' = [run EXCEPT !.pc = "judge", !.states = table[active]]
      BY <2>5 DEF ReportActive, At
    <3>2. run'.pc = "judge" /\ run'.then = run.then
      BY <1>1, <3>1 DEF RunShaped
    <3> QED BY <1>1, <3>1, <3>2 DEF SlotsPlaced
  <2>6. CASE RetainPromoted \/ CheckEmpty \/ Stopped \/ DrainsChanged
    <3>1. \E pc \in {"check", "exit", "top"} : Goto(pc)
      BY <2>6 DEF RetainPromoted, CheckEmpty, Stopped, DrainsChanged
    <3> QED BY <1>1, <3>1, Going
  <2>7. CASE Woken
    BY <1>1, <1>2, <2>7 DEF Woken, Past
  <2>8. CASE SessionChanged
    <3>1. run' = [run EXCEPT !.pc = "report", !.then = "check"]
      BY <2>8 DEF SessionChanged
    <3>2. run'.pc = "report"
      BY <1>1, <3>1 DEF RunShaped
    <3> QED BY <3>2
  <2> QED BY <2>1, <2>2, <2>3, <2>4, <2>5, <2>6, <2>7, <2>8
<1> QED BY <1>2, <1>3, <1>4, PushingMoves

\* The clock, the end of a drain and of the context.
LEMMA EnvironmentPushes ==
  ASSUME Holding, Pushing, UNCHANGED <<desired, restarts, active, pending, rotating, jobs, run, table, life, names>>
  PROVE  SameGens /\ Pushing'
<1>1. JobsShaped /\ Rotates /\ StatesPast
  BY DEF Pushing, PushesShaped, NamesPast, StatesPast
<1>2. AppliesStay
  BY <1>1, JobsRest
<1>3. StatesPast' /\ Rotates'
  BY <1>1 DEF StatesPast, Past, Rotates, Built
<1> QED BY <1>2, <1>3, PushingMoves

\* Sessions end, and observe their proxies.
LEMMA SessionsPush ==
  ASSUME Holding, Pushing, NEW c \in Cycles, UNCHANGED <<desired, restarts, active, pending, rotating, jobs, run>>,
         End(c) \/ \E r \in Routes : \E from, to \in Phases : Observe(c, r, from, to)
  PROVE  SameGens /\ Pushing'
<1>1. JobsShaped /\ Rotates /\ StatesPast /\ PlanShaped /\ TablesShaped
  BY DEF Pushing, PushesShaped, NamesPast, StatesPast
<1>2. AppliesStay
  BY <1>1, JobsRest
<1>3. StatesPast' /\ Rotates' /\ PlanGrows
  BY <1>1 DEF StatesPast, Past, Rotates, Built, PlanGrows, PlanShaped
<1>4. SameGens
  BY <1>1, EndKeepsGens, ObserveKeepsGens
<1>5. LifeGoesOn
  BY EndIsOne DEF LifeGoesOn, Observe, Holding, SlotsShaped
<1>6. SlotsStay
  BY <1>5 DEF SlotsStay, Receives, Pushing, PushesShaped
<1> QED BY <1>2, <1>3, <1>4, <1>5, <1>6, PushingStays

\* The empty table is one.
LEMMA EmptyIsTable == IsTable(<<>>)
<1>1. DOMAIN <<>> = {}
  OBVIOUS
<1>2. <<>> = [r \in {} |-> <<>>[r]]
  BY SMT
<1> QED BY <1>1, <1>2 DEF IsTable

\* A rotation begins when no apply is under way (setRotating).
LEMMA RotatePushes ==
  ASSUME Holding, Pushing, Rotate
  PROVE  SameGens /\ Pushing'
<1>1. /\ RunShaped /\ Goto("admit") /\ rotating' = TRUE /\ ~(\E a \in Actors : InApply(a))
      /\ UNCHANGED <<desired, restarts, active, pending, jobs, table, life, names>>
  BY DEF Holding, SlotsShaped, RunShaped, Rotate, plan, sessions
<1>2. AppliesStay /\ PlanGrows /\ SameGens /\ LifeGoesOn
  BY <1>1, JobsRest, UntouchedGens DEF Pushing, PushesShaped, PlanGrows, PlanShaped, LifeGoesOn
<1>3. SlotsStay
  BY <1>1 DEF SlotsStay, Receives
<1>4. StatesPast' /\ Rotates'
  BY <1>1, Going DEF StatesPast, Rotates
<1> QED BY <1>2, <1>3, <1>4, PushingStays

\* The routes a new session starts with are those of the plan at its admission
\* (startCycleAttempt).
LEMMA AdmitPushes ==
  ASSUME Holding, Pushing, Admit
  PROVE  SameGens /\ Pushing'
<1>1. /\ RunShaped /\ run.pc = "admit" /\ PlanShaped /\ JobsShaped /\ TablesShaped /\ Rotates
      /\ UNCHANGED <<desired, restarts, active, pending, rotating, jobs>>
  BY DEF Holding, SlotsShaped, RunShaped, Admit, At, plan, slots, Pushing, PushesShaped
<1>2. AppliesStay /\ PlanGrows
  BY <1>1, JobsRest DEF PlanGrows, PlanShaped
<1>3. LifeGoesOn /\ SameGens
  <2>1. CASE UNCHANGED <<table, life, names>>
    BY <1>1, <2>1, UntouchedGens DEF LifeGoesOn
  <2>2. ASSUME NEW c \in Cycles, Fresh(c), life' = [life EXCEPT ![c] = "made"], UNCHANGED <<table, names>>
        PROVE  LifeGoesOn /\ SameGens
    <3>1. LifeGoesOn
      BY <2>2 DEF LifeGoesOn, Fresh, Issued, Holding, SlotsShaped
    <3> QED BY <1>1, <2>2, <3>1, UntouchedGens
  <2>3. ASSUME NEW c \in Cycles, End(c) PROVE LifeGoesOn /\ SameGens
    BY <1>1, <2>3, EndIsOne, EndKeepsGens DEF LifeGoesOn, Holding, SlotsShaped
  <2> QED BY <2>1, <2>2, <2>3 DEF Admit, sessions
<1>4. SlotsStay
  BY <1>1, <1>3 DEF SlotsStay, Receives, Pushing, PushesShaped
<1>5. StatesPast' /\ Rotates'
  <2>1. CASE \E pc \in {"exit", "failed"} : Goto(pc)
    BY <1>1, <2>1, Going DEF StatesPast, Rotates, Built
  <2>2. CASE run' = [run EXCEPT !.pc = "start", !.states = Registered(<<>>, Wanted)]
    <3>1. run'.pc = "start" /\ run'.states = Registered(<<>>, Wanted)
      BY <1>1, <2>2 DEF RunShaped
    <3>2. /\ IsTable(run'.states) /\ DOMAIN run'.states = desired
          /\ \A r \in desired : run'.states[r].gen = restarts[r]
      BY <1>1, <3>1, WantedAsks, RegisteredIs, EmptyIsTable
    <3>3. \A r \in desired : Past(r, restarts[r])'
      BY <1>1 DEF Past, PlanShaped
    <3> QED BY <1>1, <3>1, <3>2, <3>3 DEF StatesPast, Rotates, Built
  <2> QED BY <2>1, <2>2 DEF Admit
<1> QED BY <1>2, <1>3, <1>4, <1>5, PushingStays

\* A cycle that fails before it took over gets nothing more (failCycle).
LEMMA FailPushes ==
  ASSUME Holding, Pushing, NEW c \in Cycles, End(c), c = pending \/ UNCHANGED pending,
         pending' \in {0, pending}, NEW pc \in {"failed", "exit"}, Goto(pc), Built \/ run.pc = "start",
         UNCHANGED <<desired, restarts, active, rotating, jobs>>
  PROVE  SameGens /\ Pushing'
<1>1. RunShaped /\ JobsShaped /\ TablesShaped /\ Rotates /\ PlanShaped
  BY DEF Holding, SlotsShaped, RunShaped, Pushing, PushesShaped
<1>2. AppliesStay /\ PlanGrows
  BY <1>1, JobsRest DEF PlanGrows, PlanShaped
<1>3. LifeGoesOn /\ SameGens /\ life'[c] = "ended"
  BY <1>1, EndIsOne, EndKeepsGens DEF LifeGoesOn, Holding, SlotsShaped
<1>4. SlotsStay
  BY <1>3 DEF SlotsStay, Receives, Pushing, PushesShaped
<1>5. StatesPast' /\ Rotates'
  BY <1>1, Going DEF StatesPast, Rotates, Built
<1> QED BY <1>2, <1>3, <1>4, <1>5, PushingStays

\* The readiness loop of a cycle being built (waitReady).
LEMMA ReadinessPushes ==
  ASSUME Holding, Pushing, ReadStates \/ Gate \/ AwaitReady
  PROVE  SameGens /\ Pushing'
<1>1. /\ RunShaped /\ JobsShaped /\ Rotates /\ Built /\ run.pc \in {"wait", "gate", "block"}
      /\ pending \in Cycles
  BY DEF Holding, SlotsShaped, RunShaped, SlotsPlaced, Slots, Pushing, PushesShaped, ReadStates, Gate, AwaitReady,
         At, Built
<1>2. ASSUME NEW pc \in {"failed", "exit"}, FailCycle(pc) PROVE SameGens /\ Pushing'
  <2>1. /\ End(pending) /\ pending' = 0 /\ Goto(pc)
        /\ UNCHANGED <<desired, restarts, active, rotating, jobs>>
    BY <1>2 DEF FailCycle, plan
  <2> QED BY <1>1, <2>1, FailPushes
<1>3. CASE /\ UNCHANGED <<desired, restarts, active, pending, rotating, jobs, table, life, names>>
           /\ \/ run' = [run EXCEPT !.pc = "judge", !.states = table[pending], !.then = "gate"]
              \/ run' = [run EXCEPT !.pc = "wait", !.late = TRUE]
              \/ \E pc \in {"wait", "block", "promote", "fence"} : Goto(pc)
              \/ run' = [run EXCEPT !.pc = "settle", !.then = "fence"]
  <2>1. run'.pc # "start"
    BY <1>1, <1>3, Going DEF RunShaped
  <2> QED BY <1>1, <1>3, <2>1, JobsRest, PushingMoves DEF StatesPast, Rotates
<1>4. CASE ReadStates
  BY <1>2, <1>3, <1>4 DEF ReadStates, plan, slots, sessions
<1>5. CASE Gate
  BY <1>2, <1>3, <1>5 DEF Gate, plan, slots, sessions
<1>6. CASE AwaitReady
  BY <1>2, <1>3, <1>6 DEF AwaitReady, plan, slots, sessions
<1> QED BY <1>4, <1>5, <1>6

\* Routes that are gone for good leave the plan, to come back under another
\* generation (withdrawGone).
LEMMA WithdrawPushes ==
  ASSUME Holding, Pushing, WithdrawGone
  PROVE  SameGens /\ Pushing'
<1>1. /\ RunShaped /\ JobsShaped /\ Rotates /\ PlanShaped /\ SlotsPlaced
      /\ run.pc = "judge" /\ Goto(run.then)
      /\ UNCHANGED <<active, pending, rotating, table, life, names>>
  BY DEF Holding, SlotsShaped, RunShaped, Pushing, PushesShaped, WithdrawGone, At, slots, sessions
<1>2. PlanGrows
  <2>1. CASE UNCHANGED plan
    BY <1>1, <2>1 DEF PlanGrows, PlanShaped, plan
  <2>2. CASE /\ desired' = desired \ Gone
             /\ restarts' = [r \in Routes |-> IF r \in Gone THEN restarts[r] + 1 ELSE restarts[r]]
    <3>1. \A r \in Routes : restarts'[r] = IF r \in Gone THEN restarts[r] + 1 ELSE restarts[r]
      BY <2>2
    <3>2. restarts' \in [Routes -> Nat]
      BY <1>1, <2>2 DEF PlanShaped
    <3> QED BY <1>1, <2>2, <3>1, <3>2 DEF PlanGrows, PlanShaped
  <2> QED BY <2>1, <2>2 DEF WithdrawGone
<1>3. AppliesStay
  <2>1. CASE UNCHANGED jobs
    BY <1>1, <2>1, JobsRest
  <2>2. CASE jobs' = [jobs EXCEPT ![Run] = Revoking(desired \ Gone, FALSE)]
    <3>1. IsJob(Revoking(desired \ Gone, FALSE)) /\ Revoking(desired \ Gone, FALSE).step = "retain"
      BY JobsAre
    <3> QED BY <1>1, <2>2, <3>1, JobTurns DEF Actors
  <2> QED BY <2>1, <2>2 DEF WithdrawGone
<1>4. SlotsStay /\ LifeGoesOn /\ SameGens
  BY <1>1, UntouchedGens DEF SlotsStay, LifeGoesOn, Receives, Pushing, PushesShaped
<1>5. StatesPast' /\ Rotates'
  <2>1. run'.pc = run.then /\ run.then \in {"gate", "check", "retain"}
    BY <1>1, Going DEF SlotsPlaced
  <2> QED BY <1>1, <2>1 DEF StatesPast, Rotates, Built
<1> QED BY <1>2, <1>3, <1>4, <1>5, PushingStays

\* Run lets go of the serving cycle, or waits for the drains.
LEMMA ReturnsPush ==
  ASSUME Holding, Pushing, GiveUp \/ SessionLost \/ Exit \/ Settle
  PROVE  SameGens /\ Pushing'
<1>1. /\ RunShaped /\ JobsShaped /\ TablesShaped /\ Rotates /\ PlanShaped /\ SlotsPlaced
      /\ UNCHANGED <<desired, restarts, jobs>>
  BY DEF Holding, SlotsShaped, RunShaped, Pushing, PushesShaped, GiveUp, SessionLost, Exit, Settle, plan
<1>2. AppliesStay /\ PlanGrows
  BY <1>1, JobsRest DEF PlanGrows, PlanShaped
<1>3. CASE GiveUp
  <2>1. /\ active \in Cycles /\ End(active) /\ active' = 0 /\ rotating' = FALSE /\ UNCHANGED pending
        /\ ~(\E a \in Actors : InApply(a)) /\ \E pc \in {"top", "exit"} : Goto(pc)
    BY <1>3 DEF GiveUp, GotoUnlessRetireFails, Holding, SlotsShaped, Slots
  <2>2. SameGens /\ LifeGoesOn
    BY <1>1, <2>1, EndKeepsGens, EndIsOne DEF LifeGoesOn, Holding, SlotsShaped
  <2>3. SlotsStay
    BY <2>1 DEF SlotsStay, Receives
  <2>4. StatesPast' /\ Rotates'
    BY <1>1, <2>1, Going DEF StatesPast, Rotates
  <2> QED BY <1>2, <2>2, <2>3, <2>4, PushingStays
<1>4. ASSUME active \in Cycles, active' = 0, UNCHANGED <<pending, rotating>>,
             End(active) \/ (life[active] = "ended" /\ UNCHANGED <<table, life, names>>), run'.pc # "start"
      PROVE  SameGens /\ Pushing'
  <2>1. SameGens /\ LifeGoesOn /\ life'[active] = "ended"
    BY <1>1, <1>4, EndKeepsGens, EndIsOne, UntouchedGens DEF LifeGoesOn, Holding, SlotsShaped
  <2>2. SlotsStay
    BY <1>4, <2>1 DEF SlotsStay, Receives, Pushing, PushesShaped
  <2> QED BY <1>2, <1>4, <2>1, <2>2, PushingStays DEF StatesPast, Rotates
<1>5. CASE SessionLost
  <2>1. /\ active # 0 /\ life[active] = "ended" /\ active' = 0 /\ UNCHANGED <<pending, rotating, table, life, names>>
        /\ \E pc \in {"top", "exit"} : Goto(pc)
    BY <1>5 DEF SessionLost, Selecting, GotoUnlessRetireFails, sessions
  <2> QED BY <1>1, <1>4, <2>1, Going DEF Holding, SlotsShaped, Slots
<1>6. CASE Exit
  <2>1. /\ active' = 0 /\ UNCHANGED <<pending, rotating>>
        /\ run' = [run EXCEPT !.pc = "settle", !.then = "done"]
        /\ IF active = 0 THEN UNCHANGED <<table, life, names>> ELSE End(active)
    BY <1>6 DEF Exit, sessions
  <2>2. run'.pc = "settle" /\ run'.then = "done"
    BY <1>1, <2>1 DEF RunShaped
  <2>3. CASE active = 0
    BY <1>2, <2>1, <2>2, <2>3, <1>1, PushingMoves DEF StatesPast, Rotates
  <2>4. CASE active # 0
    BY <1>4, <2>1, <2>2, <2>4 DEF Holding, SlotsShaped, Slots
  <2> QED BY <2>3, <2>4
<1>7. CASE Settle
  <2>1. run.pc = "settle" /\ UNCHANGED <<active, rotating>>
    BY <1>7 DEF Settle, At
  <2>2. CASE (drainErr \/ drains # {}) /\ run.then = "fence"
    <3>1. End(pending) /\ pending' = 0 /\ Goto("exit") /\ Built /\ pending \in Cycles
      BY <1>1, <1>7, <2>1, <2>2 DEF Settle, Built, SlotsPlaced, Holding, SlotsShaped, Slots
    <3> QED BY <1>1, <2>1, <3>1, FailPushes
  <2>3. CASE ~((drainErr \/ drains # {}) /\ run.then = "fence")
    <3>1. /\ UNCHANGED <<pending, table, life, names>>
          /\ Goto(IF drainErr \/ drains # {} THEN "done" ELSE run.then)
      BY <1>7, <2>3 DEF Settle, sessions
    <3>2. run'.pc = "done" \/ (run'.pc = run.then /\ run.then \in {"top", "done", "fence"})
      BY <1>1, <2>1, <3>1, Going DEF SlotsPlaced
    <3>3. StatesPast' /\ Rotates'
      BY <1>1, <2>1, <3>1, <3>2 DEF StatesPast, Rotates, Built
    <3> QED BY <1>1, <1>2, <2>1, <3>1, <3>3, PushingMoves
  <2> QED BY <2>2, <2>3
<1> QED BY <1>3, <1>5, <1>6, <1>7

\* The old session takes no more work, and the new one its place: an apply
\* under way never registers with the old one (prepareDrain, promote).
LEMMA ReplacingPushes ==
  ASSUME Holding, Pushing, FenceOld \/ Promote
  PROVE  SameGens /\ Pushing'
<1>1. /\ RunShaped /\ JobsShaped /\ TablesShaped /\ Rotates /\ PlanShaped /\ SlotsPlaced
      /\ UNCHANGED <<desired, restarts, jobs, table, names>>
  BY DEF Holding, SlotsShaped, RunShaped, Pushing, PushesShaped, FenceOld, Promote, plan, sessions
<1>2. AppliesStay /\ PlanGrows /\ SameGens
  BY <1>1, JobsRest, UntouchedGens DEF PlanGrows, PlanShaped
<1>3. CASE FenceOld
  <2>1. /\ run.pc = "fence" /\ Goto("insert") /\ UNCHANGED <<active, pending, rotating>>
        /\ life' = [life EXCEPT ![active] = IF @ = "up" THEN "fenced" ELSE @]
    BY <1>3 DEF FenceOld, At, slots
  <2>2. LifeGoesOn
    BY <2>1 DEF LifeGoesOn, Holding, SlotsShaped, Lives
  <2>3. SlotsStay
    BY <2>1, <2>2 DEF SlotsStay, Receives, Pushing, PushesShaped
  <2>4. StatesPast' /\ Rotates'
    BY <1>1, <2>1, Going DEF StatesPast, Rotates, Built
  <2> QED BY <1>2, <2>2, <2>3, <2>4, PushingStays
<1>4. CASE Promote
  <2>1. /\ run.pc = "promote" /\ active' = pending /\ pending' = 0 /\ rotating' = FALSE /\ UNCHANGED life
        /\ run' = [run EXCEPT !.pc = "report", !.then = IF active = 0 THEN "check" ELSE "retain"]
    BY <1>4 DEF Promote, At, sessions
  <2>2. run'.pc = "report"
    BY <1>1, <2>1 DEF RunShaped
  <2>3. active # 0 => rotating /\ life[active] \in {"fenced", "ended"}
    BY <1>1, <2>1 DEF Rotates, Built, SlotsPlaced
  <2>4. SlotsStay
    BY <2>1, <2>3, CyclesAreFinite DEF SlotsStay, Receives
  <2> QED BY <1>2, <2>1, <2>2, <2>4, PushingStays DEF StatesPast, Rotates, LifeGoesOn, Built
<1> QED BY <1>3, <1>4

--------------------------------------------------------------------------------
(***************************************************************************)
(* Pushing is kept by an apply.                                            *)
(***************************************************************************)
\* A session gets a registration only under a name it never had, and a rotating
\* one gets none.
Afresh ==
  /\ \A c \in Cycles : NeverRenewed(c)
  /\ rotating /\ active # 0 /\ active' = active => OnlyLoses(active)

\* A session is left with the registrations of t (Update).
Gives(c, t) ==
  table' = [table EXCEPT ![c] = t] /\ names' = names \union {<<c, r, t[r].gen>> : r \in DOMAIN t}

\* Where only phases change nothing is renewed.
LEMMA GensAreAfresh ==
  ASSUME SlotsShaped, SameGens
  PROVE  Afresh
BY DEF SlotsShaped, Slots, SameGens, Afresh, NeverRenewed, OnlyLoses

\* What a session is left with.
LEMMA GivenIs ==
  ASSUME TablesShaped, NEW c \in Cycles, NEW t, IsTable(t), Gives(c, t)
  PROVE  /\ TablesShaped'
         /\ table'[c] = t /\ \A d \in Cycles : d # c => table'[d] = table[d]
         /\ names \subseteq names' /\ \A r \in DOMAIN t : <<c, r, t[r].gen>> \in names'
         /\ \A n \in names' : n \in names \/ (n[1] = c /\ n[2] \in DOMAIN t /\ n[3] = t[n[2]].gen)
<1>1. table'[c] = t /\ (\A d \in Cycles : d # c => table'[d] = table[d]) /\ table' = [d \in Cycles |-> table'[d]]
  BY DEF TablesShaped, Gives
<1>2. /\ names \subseteq names' /\ \A r \in DOMAIN t : <<c, r, t[r].gen>> \in names'
      /\ \A n \in names' : n \in names \/ (n[1] = c /\ n[2] \in DOMAIN t /\ n[3] = t[n[2]].gen)
  BY DEF Gives
<1>3. names' \subseteq Cycles \X Routes \X Nat
  BY DEF TablesShaped, Gives, IsTable, Registration
<1> QED BY <1>1, <1>2, <1>3 DEF TablesShaped

\* A session gets what was asked for in the past.
LEMMA GivenIsPast ==
  ASSUME Pushing, NEW c \in Cycles, NEW t, IsTable(t), Gives(c, t), UNCHANGED <<desired, restarts>>,
         \A r \in DOMAIN t : Past(r, t[r].gen), life'[c] \notin {"none", "made"}, LifeGoesOn, StatesPast'
  PROVE  NamesPast'
<1>1. /\ TablesShaped' /\ table'[c] = t /\ \A d \in Cycles : d # c => table'[d] = table[d]
      /\ names \subseteq names' /\ \A r \in DOMAIN t : <<c, r, t[r].gen>> \in names'
      /\ \A n \in names' : n \in names \/ (n[1] = c /\ n[2] \in DOMAIN t /\ n[3] = t[n[2]].gen)
  BY GivenIs DEF Pushing, PushesShaped
<1>2. ASSUME NEW n \in names' PROVE Past(n[2], n[3])' /\ life'[n[1]] \notin {"none", "made"}
  <2>1. CASE n \in names
    <3>1. n[1] \in Cycles /\ Past(n[2], n[3]) /\ life[n[1]] \notin {"none", "made"}
      BY <2>1, NameIs DEF Pushing, PushesShaped, NamesPast
    <3> QED BY <3>1 DEF Past, LifeGoesOn
  <2>2. CASE n[1] = c /\ n[2] \in DOMAIN t /\ n[3] = t[n[2]].gen
    BY <2>2 DEF Past
  <2> QED BY <1>1, <2>1, <2>2
<1>3. \A d \in Cycles : \A r \in DOMAIN table'[d] : <<d, r, table'[d][r].gen>> \in names'
  BY <1>1 DEF Pushing, NamesPast
<1> QED BY <1>2, <1>3 DEF NamesPast, StatesPast

\* It keeps what it was last asked for.
LEMMA GivenIsKept ==
  ASSUME Pushing, NEW c \in Cycles, NEW t, IsTable(t), Gives(c, t), UNCHANGED <<desired, restarts>>,
         \A d \in Cycles : d # c /\ Receives(d)' => Receives(d),
         \A n \in names : n[1] = c /\ Receives(c)' /\ n[2] \in desired /\ n[3] = restarts[n[2]]
                            => n[2] \in DOMAIN t /\ t[n[2]].gen = n[3]
  PROVE  NamesKept'
<1>1. /\ table'[c] = t /\ \A d \in Cycles : d # c => table'[d] = table[d]
      /\ \A n \in names' : n \in names \/ (n[1] = c /\ n[2] \in DOMAIN t /\ n[3] = t[n[2]].gen)
  BY GivenIs DEF Pushing, PushesShaped
<1> SUFFICES ASSUME NEW n \in names', Receives(n[1])', n[2] \in desired, n[3] = restarts[n[2]]
             PROVE  Has(n[1], n[2], n[3])'
  BY DEF NamesKept
<1>2. CASE n \in names /\ n[1] # c
  <2>1. n[1] \in Cycles
    BY <1>2, NameIs DEF Pushing, PushesShaped
  <2> QED BY <1>1, <1>2, <2>1 DEF Pushing, NamesKept, Has
<1>3. CASE n \in names /\ n[1] = c
  BY <1>1, <1>3 DEF Has
<1>4. CASE n[1] = c /\ n[2] \in DOMAIN t /\ n[3] = t[n[2]].gen
  BY <1>1, <1>4 DEF Has
<1> QED BY <1>1, <1>2, <1>3, <1>4

\* An apply under way still pushes what is newest.
LEMMA AppliesGoOn ==
  ASSUME Pushing, NEW c \in Cycles, NEW t, IsTable(t), Gives(c, t), UNCHANGED <<desired, restarts, active, rotating>>,
         LifeGoesOn, \A d \in Cycles : Receives(d) => Receives(d)',
         NEW a \in Actors, InApply(a), jobs'[a].want = jobs[a].want, jobs'[a].pending = jobs[a].pending,
         jobs'[a].active = jobs[a].active, jobs'[a].rotating = jobs[a].rotating,
         GivesTo(jobs[a], c) => /\ DOMAIN t = DOMAIN jobs[a].want
                                /\ \A r \in DOMAIN t : t[r].gen = jobs[a].want[r]
  PROVE  Applies(a)'
<1>1. PICK j : j = jobs[a]
  OBVIOUS
<1>2. /\ \A r \in DOMAIN j.want : Past(r, j.want[r])
      /\ j.pending = j.active => j.pending = 0
      /\ \A d \in {j.pending, j.active} \ {0} : life[d] \notin {"none", "made"}
      /\ \A d \in Cycles : GivesTo(j, d) => Newest(j, d) /\ (Receives(d) \/ life[d] = "ended")
      /\ j.rotating /\ j.active # 0 => (j.active = active /\ rotating) \/ life[j.active] \in {"fenced", "ended"}
  BY <1>1 DEF Pushing, Applies
<1>3. Asks(j.want) /\ j.pending \in Slots /\ j.active \in Slots
  BY <1>1 DEF Pushing, PushesShaped, JobsShaped, IsJob, InApply, Asks
<1>4. PICK k : k = jobs'[a]
  OBVIOUS
<1>5. k.want = j.want /\ k.pending = j.pending /\ k.active = j.active /\ k.rotating = j.rotating
  BY <1>1, <1>4
<1>6. /\ table'[c] = t /\ \A d \in Cycles : d # c => table'[d] = table[d]
      /\ \A n \in names' : n \in names \/ (n[1] = c /\ n[2] \in DOMAIN t /\ n[3] = t[n[2]].gen)
  BY GivenIs DEF Pushing, PushesShaped
<1>7. \A r \in DOMAIN k.want : Past(r, k.want[r])'
  BY <1>2, <1>5 DEF Past
<1>8. \A d \in {k.pending, k.active} \ {0} : life'[d] \notin {"none", "made"}
  BY <1>2, <1>3, <1>5 DEF LifeGoesOn, Slots
<1>9. ASSUME NEW d \in Cycles, GivesTo(k, d)
      PROVE  Newest(k, d)' /\ (Receives(d)' \/ life'[d] = "ended")
  <2>1. GivesTo(j, d) /\ Newest(j, d) /\ (Receives(d) \/ life[d] = "ended")
    BY <1>2, <1>5, <1>9 DEF GivesTo
  <2>2. ASSUME NEW n \in names', n[1] = d
        PROVE  IF n[2] \in DOMAIN k.want THEN n[3] <= k.want[n[2]] /\ (n[3] = k.want[n[2]] => Has(d, n[2], n[3])')
                                         ELSE n[3] < restarts'[n[2]]
    <3>1. CASE d # c
      BY <1>5, <1>6, <2>1, <2>2, <3>1 DEF Newest, Has
    <3>2. CASE d = c
      <4>1. DOMAIN t = DOMAIN k.want /\ \A r \in DOMAIN t : t[r].gen = k.want[r]
        BY <1>1, <1>5, <2>1, <3>2
      <4>2. CASE n \in names
        BY <1>5, <1>6, <2>1, <2>2, <3>2, <4>1, <4>2 DEF Newest, Has
      <4>3. CASE n[1] = c /\ n[2] \in DOMAIN t /\ n[3] = t[n[2]].gen
        BY <1>3, <1>5, <1>6, <3>2, <4>1, <4>3 DEF Has, Asks
      <4> QED BY <1>6, <4>2, <4>3
    <3> QED BY <3>1, <3>2
  <2>3. Newest(k, d)'
    BY <2>2 DEF Newest
  <2> QED BY <2>1, <2>3 DEF LifeGoesOn
<1>10. k.rotating /\ k.active # 0 => (k.active = active' /\ rotating') \/ life'[k.active] \in {"fenced", "ended"}
  BY <1>2, <1>3, <1>5 DEF LifeGoesOn, Slots
<1> QED BY <1>2, <1>4, <1>5, <1>7, <1>8, <1>9, <1>10 DEF Applies

\* A session starts with what the plan asked for at its admission; an apply
\* that began before does not know it (startCycle).
LEMMA StartPushes ==
  ASSUME Holding, Pushing, StartCycle
  PROVE  Afresh /\ Pushing'
<1>1. /\ RunShaped /\ JobsShaped /\ TablesShaped /\ PlanShaped /\ Rotates /\ SlotsPlaced
      /\ run.pc = "start" /\ UNCHANGED <<desired, restarts, active, rotating>>
  BY DEF Holding, SlotsShaped, RunShaped, Pushing, PushesShaped, StartCycle, At, plan
<1>2. PICK c \in Cycles : c = Made
  BY <1>1, MadeIsTheOne
<1>3. life[c] = "made" /\ c # 0 /\ c # active /\ pending = 0
  BY <1>1, <1>2, MadeIsTheOne
<1>4. CASE End(c) /\ Goto("failed") /\ UNCHANGED <<pending, jobs>>
  <2>1. SameGens /\ Pushing'
    BY <1>1, <1>4, FailPushes
  <2> QED BY <2>1, GensAreAfresh DEF Holding
<1>5. CASE /\ life' = [life EXCEPT ![c] = "up"] /\ table' = [table EXCEPT ![c] = run.states]
           /\ names' = names \union {<<c, r, run.states[r].gen>> : r \in DOMAIN run.states}
           /\ pending' = c /\ jobs' = [jobs EXCEPT ![Run] = Applying]
           /\ run' = [run EXCEPT !.pc = "wait", !.late = FALSE]
  <2>1. PICK t : t = run.states
    OBVIOUS
  <2>2. IsTable(t) /\ (\A r \in DOMAIN t : Past(r, t[r].gen)) /\ Gives(c, t)
    BY <1>1, <1>5, <2>1 DEF Pushing, NamesPast, Gives
  <2>3. run'.pc = "wait"
    BY <1>1, <1>5 DEF RunShaped
  <2>4. life'[c] = "up" /\ LifeGoesOn
    BY <1>3, <1>5 DEF Holding, SlotsShaped, LifeGoesOn
  <2>5. AppliesStay
    BY <1>1, <1>5, JobsAre, JobTurns DEF Actors
  <2>6. TablesShaped' /\ NamesPast'
    BY <1>1, <2>2, <2>3, <2>4, GivenIs, GivenIsPast DEF StatesPast
  <2>7. \A n \in names : n[1] # c
    BY <1>3 DEF Pushing, NamesPast
  <2>8. NamesKept'
    <3>1. \A d \in Cycles : d # c /\ Receives(d)' => Receives(d)
      BY <1>1, <1>5 DEF Receives
    <3> QED BY <1>1, <2>2, <2>7, <3>1, GivenIsKept
  <2>9. ASSUME NEW a \in Actors, InApply(a)' PROVE Applies(a)'
    <3>1. /\ InApply(a)
          /\ jobs'[a].want = jobs[a].want /\ jobs'[a].pending = jobs[a].pending
          /\ jobs'[a].active = jobs[a].active /\ jobs'[a].rotating = jobs[a].rotating
      BY <2>5, <2>9 DEF AppliesStay
    <3>2. \A d \in Cycles : Receives(d) => Receives(d)'
      BY <1>1, <1>3 DEF Receives
    <3>3. ~GivesTo(jobs[a], c)
      BY <1>3, <3>1 DEF Pushing, Applies, GivesTo
    <3> QED BY <1>1, <2>2, <2>4, <3>1, <3>2, <3>3, AppliesGoOn
  <2>10. OneApply' /\ PushesShaped'
    BY <1>1, <2>5, <2>6 DEF OneApply, AppliesStay, Pushing, PushesShaped, PlanShaped
  <2>11. Rotates'
    BY <1>1, <2>3 DEF Rotates
  <2>12. Afresh
    <3>1. table'[c] = t /\ \A d \in Cycles : d # c => table'[d] = table[d]
      BY <1>1, <2>2, GivenIs
    <3>2. NeverRenewed(c)
      BY <2>7 DEF NeverRenewed
    <3>3. \A d \in Cycles : NeverRenewed(d)
      BY <3>1, <3>2 DEF NeverRenewed
    <3>4. active # 0 => OnlyLoses(active)
      BY <1>3, <3>1 DEF OnlyLoses, Holding, SlotsShaped, Slots
    <3> QED BY <3>3, <3>4 DEF Afresh
  <2>13. \A a \in Actors : Applies(a)'
    BY <2>9 DEF Applies
  <2> QED BY <2>6, <2>8, <2>10, <2>11, <2>12, <2>13 DEF Pushing
<1> QED BY <1>2, <1>4, <1>5 DEF StartCycle, slots

\* An apply takes its snapshot of plan and slots under applyMu (apply).
LEMMA LockPushes ==
  ASSUME Holding, Pushing, NEW a \in Actors, ApplyLock(a)
  PROVE  /\ Pushing' /\ InApply(a)' /\ jobs'[a].want = Wanted /\ jobs'[a].step = "pending"
         /\ jobs'[a].active = active /\ jobs'[a].pending = pending /\ jobs'[a].rotating = rotating
         /\ jobs'[a].record = jobs[a].record /\ jobs'[a].refused = jobs[a].refused
         /\ \A b \in Actors : ~InApply(b) /\ (b # a => jobs'[b] = jobs[b] /\ ~InApply(b)')
<1>1. /\ JobsShaped /\ PlanShaped /\ TablesShaped /\ Rotates /\ (\A b \in Actors : ~InApply(b))
      /\ UNCHANGED <<desired, restarts, active, pending, rotating, table, life, names, run>>
  BY DEF ApplyLock, Pushing, PushesShaped, plan, slots, sessions
<1>2. PICK k : k = [jobs[a] EXCEPT !.step = "pending", !.want = Wanted, !.active = active,
                                   !.pending = pending, !.rotating = rotating]
  OBVIOUS
<1>3. IsJob(jobs[a])
  BY <1>1 DEF JobsShaped
<1>4. /\ k.step = "pending" /\ k.want = Wanted /\ k.active = active /\ k.pending = pending
      /\ k.rotating = rotating /\ k.record = jobs[a].record /\ k.refused = jobs[a].refused
      /\ k.keep = jobs[a].keep
  BY <1>2, <1>3 DEF IsJob
<1>5. IsJob(k)
  <2>1. k = [step |-> k.step, keep |-> k.keep, want |-> k.want, active |-> k.active, pending |-> k.pending,
             rotating |-> k.rotating, refused |-> k.refused, record |-> k.record]
    BY <1>2, <1>3, <1>4 DEF IsJob
  <2>2. active \in Slots /\ pending \in Slots /\ rotating \in BOOLEAN
    BY DEF Holding, SlotsShaped, Pushing, PushesShaped
  <2>3. Asks(k.want)
    BY <1>1, <1>4, WantedAsks
  <2> QED BY <1>3, <1>4, <2>1, <2>2, <2>3 DEF IsJob, JobSteps, Asks
<1>6. jobs' = [jobs EXCEPT ![a] = k]
  BY <1>2 DEF ApplyLock
<1>7. JobsShaped' /\ jobs'[a] = k /\ \A b \in Actors : b # a => jobs'[b] = jobs[b]
  BY <1>1, <1>5, <1>6, JobSet
<1>8. InApply(a)' /\ \A b \in Actors : b # a => ~InApply(b)'
  BY <1>1, <1>4, <1>7 DEF InApply
<1>9. PushesShaped' /\ OneApply' /\ NamesPast' /\ NamesKept' /\ Rotates'
  <2>1. PushesShaped'
    BY <1>1, <1>7, UntouchedGens DEF Pushing, PushesShaped, PlanShaped, SameGens
  <2>2. OneApply'
    BY <1>8 DEF OneApply
  <2>3. NamesPast' /\ NamesKept' /\ Rotates'
    BY <1>1 DEF Pushing, NamesPast, Past, NamesKept, Receives, Has, Rotates, Built
  <2> QED BY <2>1, <2>2, <2>3
<1>10. Applies(a)'
  <2>1. DOMAIN k.want = desired /\ \A r \in desired : k.want[r] = restarts[r]
    BY <1>1, <1>4, WantedAsks
  <2>2. \A r \in DOMAIN k.want : Past(r, k.want[r])'
    BY <1>1, <2>1 DEF Past, PlanShaped
  <2>3. k.pending = k.active => k.pending = 0
    BY <1>4 DEF Holding, Custody
  <2>4. \A c \in {k.pending, k.active} \ {0} : life'[c] \notin {"none", "made"}
    BY <1>1, <1>4 DEF Holding, Custody, SlotsShaped, Slots
  <2>5. ASSUME NEW c \in Cycles, GivesTo(k, c) PROVE Newest(k, c)' /\ Receives(c)'
    <3>1. Receives(c)
      BY <1>4, <2>5 DEF GivesTo, Receives
    <3>2. ASSUME NEW n \in names, n[1] = c
          PROVE  IF n[2] \in DOMAIN k.want THEN n[3] <= k.want[n[2]] /\ (n[3] = k.want[n[2]] => Has(c, n[2], n[3]))
                                           ELSE n[3] < restarts[n[2]]
      BY <2>1, <3>1, <3>2 DEF Pushing, NamesPast, NamesKept, Past
    <3> QED BY <1>1, <3>1, <3>2 DEF Newest, Has, Receives
  <2>6. k.rotating /\ k.active # 0 => k.active = active' /\ rotating'
    BY <1>1, <1>4
  <2> QED BY <1>7, <2>2, <2>3, <2>4, <2>5, <2>6 DEF Applies
<1>11. \A b \in Actors : Applies(b)'
  BY <1>8, <1>10 DEF Applies
<1> QED BY <1>1, <1>4, <1>7, <1>8, <1>9, <1>11 DEF Pushing

\* An apply goes on to the active session with what it has (apply).
LEMMA PendingJob ==
  ASSUME JobsShaped, NEW a \in Actors, ApplyPending(a)
  PROVE  /\ AppliesStay /\ InApply(a) /\ InApply(a)' /\ jobs[a].step = "pending" /\ jobs'[a].step = "active"
         /\ jobs'[a].want = jobs[a].want /\ jobs'[a].active = jobs[a].active
         /\ jobs'[a].pending = jobs[a].pending /\ jobs'[a].rotating = jobs[a].rotating
         /\ jobs'[a].record = jobs[a].record
         /\ jobs' = [jobs EXCEPT ![a].step = "active"] => jobs'[a].refused = jobs[a].refused
         /\ jobs' = [jobs EXCEPT ![a].step = "active", ![a].refused = TRUE] => jobs'[a].refused
         /\ \A b \in Actors : b # a => jobs'[b] = jobs[b]
<1>1. jobs[a].step = "pending" /\ IsJob(jobs[a])
  BY DEF ApplyPending, JobsShaped
<1>2. ASSUME NEW k, IsJob(k), k.step = "active", jobs' = [jobs EXCEPT ![a] = k],
             k.want = jobs[a].want, k.active = jobs[a].active, k.pending = jobs[a].pending,
             k.rotating = jobs[a].rotating
      PROVE  /\ AppliesStay /\ InApply(a) /\ InApply(a)' /\ jobs'[a] = k
             /\ \A b \in Actors : b # a => jobs'[b] = jobs[b]
  BY <1>1, <1>2, JobSet DEF AppliesStay, InApply
<1>3. ASSUME jobs' = [jobs EXCEPT ![a].step = "active"]
      PROVE  /\ AppliesStay /\ InApply(a) /\ InApply(a)' /\ jobs'[a].step = "active"
             /\ jobs'[a].want = jobs[a].want /\ jobs'[a].active = jobs[a].active
             /\ jobs'[a].pending = jobs[a].pending /\ jobs'[a].rotating = jobs[a].rotating
             /\ jobs'[a].record = jobs[a].record /\ jobs'[a].refused = jobs[a].refused
             /\ \A b \in Actors : b # a => jobs'[b] = jobs[b]
  <2>1. PICK k : k = [jobs[a] EXCEPT !.step = "active"]
    OBVIOUS
  <2>2. /\ IsJob(k) /\ k.step = "active" /\ k.want = jobs[a].want /\ k.active = jobs[a].active
        /\ k.pending = jobs[a].pending /\ k.rotating = jobs[a].rotating /\ k.record = jobs[a].record
        /\ k.refused = jobs[a].refused
    BY <1>1, <2>1 DEF IsJob, JobSteps
  <2>3. jobs' = [jobs EXCEPT ![a] = k]
    BY <1>3, <2>1
  <2> QED BY <1>1, <1>2, <1>3, <2>2, <2>3
<1>4. ASSUME jobs' = [jobs EXCEPT ![a].step = "active", ![a].refused = TRUE]
      PROVE  /\ AppliesStay /\ InApply(a) /\ InApply(a)' /\ jobs'[a].step = "active"
             /\ jobs'[a].want = jobs[a].want /\ jobs'[a].active = jobs[a].active
             /\ jobs'[a].pending = jobs[a].pending /\ jobs'[a].rotating = jobs[a].rotating
             /\ jobs'[a].record = jobs[a].record /\ jobs'[a].refused
             /\ \A b \in Actors : b # a => jobs'[b] = jobs[b]
  <2>1. PICK k : k = [jobs[a] EXCEPT !.step = "active", !.refused = TRUE]
    OBVIOUS
  <2>2. /\ IsJob(k) /\ k.step = "active" /\ k.want = jobs[a].want /\ k.active = jobs[a].active
        /\ k.pending = jobs[a].pending /\ k.rotating = jobs[a].rotating /\ k.record = jobs[a].record
        /\ k.refused
    BY <1>1, <2>1 DEF IsJob, JobSteps
  <2>3. jobs' = [jobs EXCEPT ![a] = k]
    BY <1>1, <1>4, <2>1 DEF JobsShaped
  <2> QED BY <1>1, <1>2, <1>4, <2>2, <2>3
<1> QED BY <1>1, <1>3, <1>4 DEF ApplyPending

\* An apply ends, and a caller still has to wake Run (applyAndWake).
LEMMA ActiveJob ==
  ASSUME JobsShaped, NEW a \in Actors, ApplyActive(a)
  PROVE  /\ AppliesStay /\ InApply(a) /\ ~InApply(a)' /\ jobs[a].step = "active"
         /\ jobs'[a] = IF a \in Callers THEN Waking ELSE NoJob
         /\ \A b \in Actors : b # a => jobs'[b] = jobs[b]
<1>1. /\ jobs[a].step = "active" /\ jobs' = [jobs EXCEPT ![a] = IF a \in Callers THEN Waking ELSE NoJob]
  BY DEF ApplyActive
<1>2. PICK j \in {Waking, NoJob} : j = IF a \in Callers THEN Waking ELSE NoJob
  OBVIOUS
<1>3. IsJob(j) /\ j.step \notin {"pending", "active"}
  BY JobsAre
<1> QED BY <1>1, <1>2, <1>3, JobSet, JobTurns DEF InApply

\* What a session is registered with when an apply reaches it: nothing it had
\* before under the same name, and all of what it was asked for last.
LEMMA RegistersNew ==
  ASSUME Holding, Pushing, NEW a \in Actors, InApply(a), NEW c \in Cycles, GivesTo(jobs[a], c), life[c] = "up",
         NEW t, t = Registered(table[c], jobs[a].want), Gives(c, t),
         UNCHANGED <<desired, restarts, active, pending, rotating, life, run>>
  PROVE  /\ IsTable(t) /\ DOMAIN t = DOMAIN jobs[a].want /\ \A r \in DOMAIN t : t[r].gen = jobs[a].want[r]
         /\ TablesShaped' /\ NamesPast' /\ NamesKept' /\ Rotates' /\ Afresh
<1>1. PICK j : j = jobs[a]
  OBVIOUS
<1>2. Asks(j.want) /\ Newest(j, c) /\ Receives(c) /\ \A r \in DOMAIN j.want : Past(r, j.want[r])
  BY <1>1 DEF Pushing, PushesShaped, JobsShaped, IsJob, InApply, Asks, Applies
<1>3. IsTable(t) /\ DOMAIN t = DOMAIN j.want /\ \A r \in DOMAIN t : t[r].gen = j.want[r]
  BY <1>1, <1>2, RegisteredIs DEF Pushing, PushesShaped, TablesShaped
<1>4. LifeGoesOn /\ StatesPast' /\ Rotates'
  BY DEF LifeGoesOn, Pushing, NamesPast, StatesPast, Past, Rotates, Built
<1>5. TablesShaped' /\ NamesPast'
  BY <1>2, <1>3, <1>4, GivenIs, GivenIsPast DEF Pushing, PushesShaped
<1>6. NamesKept'
  <2>1. ASSUME NEW n \in names, n[1] = c, n[2] \in desired, n[3] = restarts[n[2]]
        PROVE  n[2] \in DOMAIN t /\ t[n[2]].gen = n[3]
    <3>1. n[2] \in Routes /\ n[3] \in Nat
      BY NameIs DEF Pushing, PushesShaped
    <3>2. n[2] \in DOMAIN j.want
      BY <1>2, <2>1, <3>1 DEF Newest
    <3>3. n[3] <= j.want[n[2]] /\ j.want[n[2]] <= n[3] /\ j.want[n[2]] \in Nat
      BY <1>2, <2>1, <3>2 DEF Newest, Past, Asks
    <3> QED BY <1>3, <3>1, <3>2, <3>3
  <2>2. \A d \in Cycles : Receives(d)' => Receives(d)
    BY DEF Receives
  <2> QED BY <1>3, <2>1, <2>2, GivenIsKept
<1>7. Afresh
  <2>1. table'[c] = t /\ \A d \in Cycles : d # c => table'[d] = table[d]
    BY <1>3, GivenIs DEF Pushing, PushesShaped
  <2>2. NeverRenewed(c)
    <3> SUFFICES ASSUME NEW r \in DOMAIN t, r \notin DOMAIN table[c] \/ table[c][r].gen # t[r].gen,
                        <<c, r, t[r].gen>> \in names
                 PROVE  FALSE
      BY <2>1 DEF NeverRenewed
    <3>1. PICK n \in names : n = <<c, r, t[r].gen>>
      OBVIOUS
    <3>2. n[1] = c /\ n[2] = r /\ n[3] = t[r].gen
      BY <3>1
    <3>3. n[2] \in DOMAIN j.want /\ n[3] = j.want[n[2]]
      BY <1>3, <3>2
    <3>4. Has(c, n[2], n[3])
      BY <1>2, <3>2, <3>3 DEF Newest
    <3> QED BY <3>2, <3>4 DEF Has
  <2>3. \A d \in Cycles : NeverRenewed(d)
    BY <2>1, <2>2 DEF NeverRenewed
  <2>4. rotating /\ active # 0 => OnlyLoses(active)
    <3>1. rotating /\ active # 0 => c # active
      BY <1>2 DEF Receives, Holding, Custody
    <3> QED BY <2>1, <3>1 DEF OnlyLoses, Holding, SlotsShaped, Slots
  <2> QED BY <2>3, <2>4 DEF Afresh
<1> QED BY <1>1, <1>3, <1>4, <1>5, <1>6, <1>7

\* The session being built is updated first.
LEMMA PendingPushes ==
  ASSUME Holding, Pushing, NEW a \in Actors, ApplyPending(a)
  PROVE  Afresh /\ Pushing'
<1>1. /\ JobsShaped /\ TablesShaped /\ PlanShaped /\ Rotates /\ StatesPast /\ OneApply
      /\ UNCHANGED <<desired, restarts, active, pending, rotating, life, run>>
  BY DEF ApplyPending, Pushing, PushesShaped, NamesPast, StatesPast, plan, slots, sessions, Update
<1>2. /\ AppliesStay /\ InApply(a) /\ InApply(a)'
      /\ jobs'[a].want = jobs[a].want /\ jobs'[a].active = jobs[a].active
      /\ jobs'[a].pending = jobs[a].pending /\ jobs'[a].rotating = jobs[a].rotating
  BY <1>1, PendingJob
<1>3. CASE UNCHANGED sessions
  <2>1. SameGens /\ Pushing'
    BY <1>1, <1>2, <1>3, PushingMoves DEF StatesPast, Past, Rotates, Built, sessions
  <2> QED BY <2>1, GensAreAfresh DEF Holding
<1>4. CASE ~UNCHANGED sessions
  <2>1. PICK c : c = IF jobs[a].pending = jobs[a].active THEN 0 ELSE jobs[a].pending
    OBVIOUS
  <2>2. Accepts(c) /\ Update(c, Registered(table[c], jobs[a].want))
    BY <1>4, <2>1 DEF ApplyPending
  <2>3. c \in Cycles /\ life[c] = "up" /\ GivesTo(jobs[a], c)
    BY <1>1, <2>1, <2>2 DEF Accepts, GivesTo, JobsShaped, IsJob, Slots
  <2>4. PICK t : t = Registered(table[c], jobs[a].want)
    OBVIOUS
  <2>5. Gives(c, t)
    BY <2>2, <2>4 DEF Update, Gives
  <2>6. /\ IsTable(t) /\ DOMAIN t = DOMAIN jobs[a].want /\ \A r \in DOMAIN t : t[r].gen = jobs[a].want[r]
        /\ TablesShaped' /\ NamesPast' /\ NamesKept' /\ Rotates' /\ Afresh
    BY <1>1, <1>2, <2>3, <2>4, <2>5, RegistersNew
  <2>7. OneApply' /\ PushesShaped'
    BY <1>1, <1>2, <2>6 DEF AppliesStay, OneApply, PushesShaped, PlanShaped, Pushing
  <2>8. Applies(a)'
    <3>1. LifeGoesOn /\ \A d \in Cycles : Receives(d) => Receives(d)'
      BY <1>1 DEF LifeGoesOn, Receives
    <3>2. GivesTo(jobs[a], c) => DOMAIN t = DOMAIN jobs[a].want /\ \A r \in DOMAIN t : t[r].gen = jobs[a].want[r]
      BY <2>6
    <3> QED BY <1>1, <1>2, <2>3, <2>5, <2>6, <3>1, <3>2, AppliesGoOn
  <2>9. \A b \in Actors : Applies(b)'
    BY <1>2, <2>7, <2>8 DEF OneApply, Applies
  <2> QED BY <2>6, <2>7, <2>9 DEF Pushing
<1> QED BY <1>3, <1>4

\* The serving session is updated last; one that rotates only loses routes.
LEMMA ActivePushes ==
  ASSUME Holding, Pushing, NEW a \in Actors, ApplyActive(a)
  PROVE  Afresh /\ Pushing'
<1>1. /\ JobsShaped /\ TablesShaped /\ PlanShaped /\ Rotates /\ StatesPast /\ OneApply
      /\ UNCHANGED <<desired, restarts, active, pending, rotating, life, run>>
  BY DEF ApplyActive, Pushing, PushesShaped, NamesPast, StatesPast, plan, slots, sessions, Update
<1>2. AppliesStay /\ InApply(a) /\ ~InApply(a)'
  BY <1>1, ActiveJob
<1>3. CASE UNCHANGED sessions
  <2>1. SameGens /\ Pushing'
    BY <1>1, <1>2, <1>3, PushingMoves DEF StatesPast, Past, Rotates, Built, sessions
  <2> QED BY <2>1, GensAreAfresh DEF Holding
<1>4. CASE ~UNCHANGED sessions
  <2>1. PICK c : c = jobs[a].active
    OBVIOUS
  <2>2. PICK t : t = IF jobs[a].rotating THEN Retained(table[c], jobs[a].want)
                                         ELSE Registered(table[c], jobs[a].want)
    OBVIOUS
  <2>3. Accepts(c) /\ Update(c, t)
    BY <1>4, <2>1, <2>2 DEF ApplyActive
  <2>4. c \in Cycles /\ c # 0 /\ life[c] = "up" /\ Gives(c, t)
    BY <1>1, <2>1, <2>3 DEF Accepts, Update, Gives, JobsShaped, IsJob, Slots
  <2>5. ASSUME TablesShaped', NamesPast', NamesKept', Rotates' PROVE Pushing'
    <3>1. \A b \in Actors : ~InApply(b)'
      BY <1>1, <1>2 DEF AppliesStay, OneApply
    <3>2. OneApply' /\ \A b \in Actors : Applies(b)'
      BY <3>1 DEF OneApply, Applies
    <3> QED BY <1>1, <1>2, <2>5, <3>2 DEF AppliesStay, PushesShaped, PlanShaped, Pushing
  <2>6. CASE ~jobs[a].rotating
    <3>1. GivesTo(jobs[a], c) /\ t = Registered(table[c], jobs[a].want)
      BY <2>1, <2>2, <2>4, <2>6 DEF GivesTo
    <3> QED BY <1>1, <1>2, <2>4, <2>5, <3>1, RegistersNew
  <2>7. CASE jobs[a].rotating
    <3>1. c = active /\ rotating
      BY <1>2, <2>1, <2>4, <2>7 DEF Pushing, Applies
    <3>2. IsTable(t) /\ DOMAIN t \subseteq DOMAIN table[c] /\ \A r \in DOMAIN t : t[r] = table[c][r]
      BY <1>1, <2>2, <2>4, <2>7, RetainedIs DEF TablesShaped
    <3>3. \A r \in DOMAIN t : <<c, r, t[r].gen>> \in names
      BY <2>4, <3>2 DEF Pushing, NamesPast
    <3>4. \A r \in DOMAIN t : Past(r, t[r].gen)
      <4> SUFFICES ASSUME NEW r \in DOMAIN t PROVE Past(r, t[r].gen)
        OBVIOUS
      <4>1. PICK n \in names : n = <<c, r, t[r].gen>>
        BY <3>3
      <4> QED BY <4>1 DEF Pushing, NamesPast
    <3>5. TablesShaped' /\ NamesPast'
      BY <1>1, <2>4, <3>2, <3>4, GivenIs, GivenIsPast DEF LifeGoesOn, StatesPast, Past
    <3>6. ~Receives(c)
      BY <2>4, <3>1 DEF Receives, Holding, Custody
    <3>7. NamesKept'
      BY <1>1, <2>4, <3>2, <3>6, GivenIsKept DEF Receives
    <3>8. Afresh
      <4>1. table'[c] = t /\ \A d \in Cycles : d # c => table'[d] = table[d]
        BY <1>1, <2>4, <3>2, GivenIs
      <4> QED BY <3>1, <3>2, <4>1 DEF Afresh, NeverRenewed, OnlyLoses
    <3> QED BY <1>1, <2>5, <3>5, <3>7, <3>8 DEF Rotates, Built
  <2> QED BY <2>6, <2>7
<1> QED BY <1>3, <1>4

\* At first no session has had a route (Init).
LEMMA InitPushing == Init => Pushing
<1> SUFFICES ASSUME Init PROVE Pushing
  OBVIOUS
<1>1. /\ active = 0 /\ pending = 0 /\ rotating = FALSE /\ run.pc = "idle" /\ names = {}
      /\ jobs = [a \in Actors |-> NoJob] /\ table = [c \in Cycles |-> <<>>]
      /\ desired \subseteq Routes /\ restarts = [r \in Routes |-> 0]
  BY DEF Init
<1>2. \A a \in Actors : jobs[a] = NoJob /\ ~InApply(a)
  BY <1>1, JobsAre DEF InApply
<1>3. JobsShaped
  BY <1>1, <1>2, JobsAre DEF JobsShaped
<1>4. PlanShaped
  BY <1>1 DEF PlanShaped
<1>5. TablesShaped
  BY <1>1, EmptyIsTable DEF TablesShaped
<1>6. NamesPast
  <2>1. \A c \in Cycles : DOMAIN table[c] = {}
    BY <1>1
  <2> QED BY <1>1, <2>1 DEF NamesPast
<1> QED BY <1>1, <1>2, <1>3, <1>4, <1>5, <1>6
           DEF Pushing, PushesShaped, OneApply, NamesKept, Rotates, Built, Applies

\* Every step keeps what sessions had in step with what is to come, and gives
\* them registrations under new names only.
LEMMA StepPushing ==
  ASSUME Holding, Pushing, [Next]_vars
  PROVE  Afresh /\ Pushing'
<1>1. ASSUME SameGens, Pushing' PROVE Afresh /\ Pushing'
  BY <1>1, GensAreAfresh DEF Holding
<1>2. CASE UNCHANGED vars
  BY <1>1, <1>2, EnvironmentPushes DEF vars, plan, slots, sessions
<1>3. CASE Building
  <2>1. CASE Retry
    BY <1>1, <2>1, MovesPush
  <2>2. CASE GiveUp
    BY <1>1, <2>2, ReturnsPush
  <2> QED BY <1>1, <1>3, <2>1, <2>2, AdmitPushes, StartPushes, ReadinessPushes, WithdrawPushes DEF Building
<1>4. CASE Promoting
  <2>1. CASE FenceOld \/ Promote
    BY <1>1, <2>1, ReplacingPushes
  <2> QED BY <1>1, <1>4, <2>1, MovesPush DEF Promoting
<1>5. CASE Running
  <2>1. CASE Rotate
    BY <1>1, <2>1, RotatePushes
  <2>2. CASE SessionLost \/ Exit \/ Settle
    BY <1>1, <2>2, ReturnsPush
  <2> QED BY <1>1, <1>5, <2>1, <2>2, MovesPush DEF Running
<1>6. ASSUME NEW a \in Callers, Calling(a) PROVE Afresh /\ Pushing'
  BY <1>1, <1>6, CallersPush DEF Actors
<1>7. ASSUME NEW a \in Actors, Apply(a) PROVE Afresh /\ Pushing'
  <2>1. CASE RetainRoutes(a) \/ SignalWake(a)
    BY <1>1, <2>1, CallersPush
  <2>2. CASE ApplyLock(a)
    <3>1. UNCHANGED <<table, names>> /\ Pushing'
      BY <2>2, LockPushes DEF ApplyLock, sessions
    <3> QED BY <1>1, <3>1, UntouchedGens DEF Pushing, PushesShaped
  <2> QED BY <1>7, <2>1, <2>2, PendingPushes, ActivePushes DEF Apply
<1>8. CASE Environment
  <2>1. ASSUME NEW c \in Cycles, DrainEnds(c) \/ Lose(c) PROVE Afresh /\ Pushing'
    <3>1. End(c) /\ UNCHANGED <<desired, restarts, active, pending, rotating, jobs, run>>
      BY <2>1 DEF DrainEnds, Lose, plan, slots
    <3> QED BY <1>1, <3>1, SessionsPush
  <2>2. ASSUME NEW c \in Cycles, NEW r \in Routes, Serve(c, r) \/ Flap(c, r) \/ Refuse(c, r)
        PROVE  Afresh /\ Pushing'
    <3>1. \E from, to \in Phases : Observe(c, r, from, to)
      BY <2>2 DEF Serve, Flap, Refuse, Phases
    <3>2. UNCHANGED <<desired, restarts, active, pending, rotating, jobs, run>>
      BY <3>1 DEF Observe, plan, slots
    <3> QED BY <1>1, <3>1, <3>2, SessionsPush
  <2>3. ASSUME Shutdown \/ \E c \in Cycles : DrainRetires(c) \/ Expire(c) PROVE Afresh /\ Pushing'
    <3>1. UNCHANGED <<desired, restarts, active, pending, rotating, jobs, run, table, life, names>>
      BY <2>3 DEF Shutdown, DrainRetires, Expire, plan, slots, sessions
    <3> QED BY <1>1, <3>1, EnvironmentPushes
  <2> QED BY <1>8, <2>1, <2>2, <2>3 DEF Environment
<1>9. CASE Begin
  BY <1>1, <1>9, MovesPush
<1> QED BY <1>2, <1>3, <1>4, <1>5, <1>6, <1>7, <1>8, <1>9 DEF Next

\* An apply never pushes to a session what is older than what the session had,
\* whatever changes, rotations and promotions came between its snapshot and its
\* pushes (apply, setRotating, promote).
THEOREM PushesAreNewest == Spec => []Pushing
<1>1. Holding /\ Pushing /\ [Next]_vars => Pushing'
  BY StepPushing
<1> QED BY <1>1, InitPushing, AdmissionsAreHeld, PTL DEF Spec

\* A session gets a route only under a proxy name it never had, and none while
\* it is being replaced (SetRoutes, withdrawGone, apply).
THEOREM RegistrationsAreAfresh == Spec => RegistersAfresh
<1>1. Holding /\ Pushing /\ [Next]_vars =>
        [/\ \A c \in Cycles : NeverRenewed(c)
         /\ rotating /\ active # 0 /\ active' = active => OnlyLoses(active)]_vars
  BY StepPushing DEF Afresh
<1> QED BY <1>1, AdmissionsAreHeld, PushesAreNewest, PTL DEF Spec, RegistersAfresh

--------------------------------------------------------------------------------
(***************************************************************************)
(* Healed is kept.                                                         *)
(***************************************************************************)
\* A job that has nothing left to push.
Idle(j) == j.step \in {"none", "wake"}

\* A session that agrees with the plan goes on to while phases change only.
LEMMA AgreesStays ==
  ASSUME NEW c \in Cycles, SameGens, UNCHANGED <<desired, restarts>>, Agrees(c)
  PROVE  Agrees(c)'
<1>1. Wanted' = Wanted
  BY DEF Wanted
<1>2. [r \in DOMAIN table'[c] |-> table'[c][r].gen] = [r \in DOMAIN table[c] |-> table[c][r].gen]
  BY DEF SameGens
<1> QED BY <1>1, <1>2 DEF Agrees

\* A session that was updated agrees with what it was given (Registered).
LEMMA GivenAgrees ==
  ASSUME NEW c \in Cycles, UNCHANGED <<desired, restarts>>, NEW t, table'[c] = t, DOMAIN t = DOMAIN Wanted,
         \A r \in DOMAIN t : t[r].gen = Wanted[r]
  PROVE  Agrees(c)'
<1>1. Wanted' = Wanted
  BY DEF Wanted
<1>2. [r \in DOMAIN t |-> t[r].gen] = Wanted
  BY DEF Wanted
<1> QED BY <1>1, <1>2 DEF Agrees

\* Steps that push nothing and ask for nothing.
LEMMA HealingStays ==
  ASSUME Healed, SameGens, DivergenceNoticed', stopping => stopping', divergent => divergent',
         UNCHANGED <<desired, restarts>>,
         \A b \in Actors : jobs'[b] = jobs[b] \/ (Idle(jobs[b]) /\ Idle(jobs'[b])),
         \A c \in Cycles : Receives(c)' /\ life'[c] = "up" => Receives(c) /\ life[c] = "up"
  PROVE  Healed'
<1>1. Wanted' = Wanted
  BY DEF Wanted
<1>2. Due <=> Due'
  BY DEF Due, Idle
<1>3. \A b \in Actors : ~Idle(jobs[b]) \/ ~Idle(jobs'[b]) => jobs'[b] = jobs[b]
  OBVIOUS
<1>4. \A b \in Actors : InApply(b) \/ InApply(b)' => jobs'[b] = jobs[b]
  BY <1>3 DEF InApply, Idle
<1>5. Records'
  <2>1. \A b \in Actors : jobs'[b].step \in {"retain", "lock", "pending", "active"} => jobs'[b] = jobs[b]
    BY <1>3 DEF Idle
  <2>2. Records
    BY DEF Healed
  <2>3. \A a \in Callers : jobs'[a].step \in {"retain", "lock", "pending", "active"} => jobs'[a].record
    BY <2>1, <2>2 DEF Records, Actors
  <2>4. InApply(Run)' /\ jobs'[Run].refused => stopping'
    BY <1>4, <2>2 DEF Records, Actors, InApply
  <2>5. \A a \in Actors : jobs'[a].step \in {"retain", "lock", "pending"} => ~jobs'[a].refused
    BY <2>1, <2>2 DEF Records
  <2> QED BY <2>3, <2>4, <2>5 DEF Records
<1>6. \A a \in Actors : InApply(a)' => jobs'[a].want = Wanted' \/ Due'
  BY <1>1, <1>2, <1>4 DEF Healed, InApply
<1>7. ASSUME NEW c \in Cycles, Receives(c)', life'[c] = "up"
      PROVE  Agrees(c)' \/ divergent' \/ stopping' \/ Due' \/ Reaching(c)'
  <2>1. Agrees(c) \/ divergent \/ stopping \/ Due \/ Reaching(c)
    BY <1>7 DEF Healed
  <2>2. CASE Agrees(c)
    BY <2>2, AgreesStays
  <2>3. CASE Reaching(c)
    <3>1. PICK a \in Actors : /\ InApply(a) /\ jobs[a].want = Wanted
                              /\ \/ jobs[a].refused
                                 \/ jobs[a].step = "pending" /\ GivesTo(jobs[a], c)
                                 \/ jobs[a].step = "active" /\ c = jobs[a].active /\ ~jobs[a].rotating
      BY <2>3 DEF Reaching
    <3>2. jobs'[a] = jobs[a]
      BY <1>4, <3>1
    <3>3. InApply(a)' /\ (GivesTo(jobs[a], c) => GivesTo(jobs'[a], c))
      BY <3>1, <3>2 DEF InApply
    <3> QED BY <1>1, <3>1, <3>2, <3>3 DEF Reaching, GivesTo
  <2> QED BY <1>2, <2>1, <2>2, <2>3
<1> QED BY <1>5, <1>6, <1>7 DEF Healed

\* An apply that is due will give every session what is wanted.
LEMMA HealingIsDue ==
  ASSUME Healed, JobsShaped, NEW a \in Actors, NEW j, IsJob(j), j.step \in {"retain", "lock"}, ~j.refused,
         a \in Callers => j.record, jobs' = [jobs EXCEPT ![a] = j], DivergenceNoticed', UNCHANGED stopping
  PROVE  Healed'
<1>1. jobs'[a] = j /\ \A b \in Actors : b # a => jobs'[b] = jobs[b]
  BY JobSet
<1>2. Due'
  BY <1>1 DEF Due
<1>3. Records'
  <2>1. Records
    BY DEF Healed
  <2>2. \A b \in Callers : jobs'[b].step \in {"retain", "lock", "pending", "active"} => jobs'[b].record
    BY <1>1, <2>1 DEF Records, Actors
  <2>3. InApply(Run)' /\ jobs'[Run].refused => stopping'
    BY <1>1, <2>1 DEF Records, Actors, InApply
  <2>4. \A b \in Actors : jobs'[b].step \in {"retain", "lock", "pending"} => ~jobs'[b].refused
    BY <1>1, <2>1 DEF Records
  <2> QED BY <2>2, <2>3, <2>4 DEF Records
<1> QED BY <1>2, <1>3 DEF Healed

\* A caller that changes the plan applies it, and wakes Run afterwards
\* (SetRoutes, RestartRoute, applyAndWake).
LEMMA CallersHeal ==
  ASSUME Holding, Pushing, Healed, NEW a \in Actors,
         (a \in Callers /\ Calling(a)) \/ RetainRoutes(a) \/ SignalWake(a)
  PROVE  Healed'
<1>1. JobsShaped /\ TablesShaped /\ DivergenceNoticed
  BY DEF Pushing, PushesShaped, Healed
<1>2. CASE a \in Callers /\ Calling(a)
  <2>1. UNCHANGED <<divergent, wake, stopping>> /\ jobs[a].step = "none"
    BY <1>2 DEF Calling, SetRoutes, RestartRoute, signals
  <2>2. PICK j : /\ IsJob(j) /\ j.step \in {"retain", "lock"} /\ ~j.refused /\ j.record
                 /\ jobs' = [jobs EXCEPT ![a] = j]
    <3>1. CASE \E next \in SUBSET Routes \ {{}}, different \in SUBSET Routes :
                 (next # desired \/ different # {}) /\ SetRoutes(a, next, different)
      <4>1. PICK next : jobs' = [jobs EXCEPT ![a] = Revoking(next, TRUE)]
        BY <3>1 DEF SetRoutes
      <4> QED BY <4>1, JobsAre
    <3>2. CASE \E r \in Routes : RestartRoute(a, r)
      BY <3>2, JobsAre DEF RestartRoute
    <3> QED BY <1>2, <3>1, <3>2 DEF Calling
  <2>3. \A b \in Actors : b # a => jobs'[b] = jobs[b]
    BY <1>1, <2>2, JobSet
  <2>4. DivergenceNoticed'
    BY <1>1, <2>1, <2>3 DEF DivergenceNoticed, Actors
  <2> QED BY <1>1, <2>1, <2>2, <2>4, HealingIsDue
<1>3. CASE RetainRoutes(a)
  <2>1. /\ UNCHANGED <<divergent, wake, stopping>> /\ jobs[a].step = "retain"
        /\ jobs' = [jobs EXCEPT ![a] = IF jobs[a].record THEN Healing ELSE Applying]
    BY <1>3 DEF RetainRoutes, signals
  <2>2. PICK j : j = IF jobs[a].record THEN Healing ELSE Applying
    OBVIOUS
  <2>3. IsJob(j) /\ j.step = "lock" /\ ~j.refused /\ (a \in Callers => j.record)
    BY <2>1, <2>2, JobsAre DEF Healed, Records
  <2>4. jobs' = [jobs EXCEPT ![a] = j]
    BY <2>1, <2>2
  <2>5. \A b \in Actors : b # a => jobs'[b] = jobs[b]
    BY <1>1, <2>3, <2>4, JobSet
  <2>6. DivergenceNoticed'
    BY <1>1, <2>1, <2>5 DEF DivergenceNoticed, Actors
  <2> QED BY <1>1, <2>1, <2>3, <2>4, <2>6, HealingIsDue
<1>4. CASE SignalWake(a)
  <2>1. /\ jobs[a].step = "wake" /\ wake' = TRUE /\ jobs' = [jobs EXCEPT ![a] = NoJob]
        /\ UNCHANGED <<desired, restarts, active, pending, rotating, divergent, stopping, table, life, names>>
    BY <1>4 DEF SignalWake, plan, slots, sessions
  <2>2. jobs'[a] = NoJob /\ \A b \in Actors : b # a => jobs'[b] = jobs[b]
    BY <1>1, <2>1, JobsAre, JobSet
  <2>3. \A b \in Actors : jobs'[b] = jobs[b] \/ (Idle(jobs[b]) /\ Idle(jobs'[b]))
    BY <2>1, <2>2, JobsAre DEF Idle
  <2>4. DivergenceNoticed' /\ SameGens
    BY <1>1, <2>1, UntouchedGens DEF DivergenceNoticed
  <2> QED BY <2>1, <2>3, <2>4, HealingStays DEF Receives
<1> QED BY <1>2, <1>3, <1>4

\* An apply's snapshot is what is wanted (apply).
LEMMA LockHeals ==
  ASSUME Holding, Pushing, Healed, NEW a \in Actors, ApplyLock(a)
  PROVE  Healed'
<1>1. /\ jobs[a].step = "lock"
      /\ UNCHANGED <<desired, restarts, active, pending, rotating, divergent, wake, stopping, table, life>>
  BY DEF ApplyLock, plan, slots, signals, sessions
<1>2. /\ InApply(a)' /\ jobs'[a].want = Wanted /\ jobs'[a].step = "pending"
      /\ jobs'[a].active = active /\ jobs'[a].pending = pending /\ jobs'[a].rotating = rotating
      /\ jobs'[a].record = jobs[a].record /\ jobs'[a].refused = jobs[a].refused
      /\ \A b \in Actors : b # a => jobs'[b] = jobs[b] /\ ~InApply(b)'
  BY LockPushes
<1>3. Records /\ DivergenceNoticed /\ Wanted' = Wanted
  BY <1>1 DEF Healed, Wanted
<1>4. DivergenceNoticed'
  BY <1>1, <1>2, <1>3 DEF DivergenceNoticed, Actors
<1>5. Records'
  <2>1. \A b \in Callers : jobs'[b].step \in {"retain", "lock", "pending", "active"} => jobs'[b].record
    BY <1>1, <1>2, <1>3 DEF Records, Actors
  <2>2. ~(InApply(Run)' /\ jobs'[Run].refused)
    BY <1>1, <1>2, <1>3 DEF Records, Actors
  <2>3. \A b \in Actors : jobs'[b].step \in {"retain", "lock", "pending"} => ~jobs'[b].refused
    BY <1>1, <1>2, <1>3 DEF Records
  <2> QED BY <2>1, <2>2, <2>3 DEF Records
<1>6. \A b \in Actors : InApply(b)' => jobs'[b].want = Wanted'
  BY <1>2, <1>3
<1>7. ASSUME NEW c \in Cycles, Receives(c)' PROVE Reaching(c)'
  <2>1. GivesTo(jobs'[a], c)
    BY <1>1, <1>2, <1>7 DEF Receives, GivesTo
  <2> QED BY <1>2, <1>3, <2>1 DEF Reaching, GivesTo
<1> QED BY <1>4, <1>5, <1>6, <1>7 DEF Healed

\* The session being built is given what it was to get, or the apply was
\* refused and will say so (apply).
LEMMA PendingHeals ==
  ASSUME Holding, Pushing, Healed, NEW a \in Actors, ApplyPending(a)
  PROVE  Healed'
<1>1. /\ JobsShaped /\ TablesShaped /\ PlanShaped /\ OneApply /\ Records /\ DivergenceNoticed
      /\ UNCHANGED <<desired, restarts, active, pending, rotating, divergent, wake, stopping, life>>
  BY DEF ApplyPending, Pushing, PushesShaped, Healed, plan, slots, signals, sessions, Update
<1>2. /\ InApply(a) /\ InApply(a)' /\ jobs[a].step = "pending" /\ jobs'[a].step = "active"
      /\ jobs'[a].want = jobs[a].want /\ jobs'[a].active = jobs[a].active
      /\ jobs'[a].pending = jobs[a].pending /\ jobs'[a].rotating = jobs[a].rotating
      /\ jobs'[a].record = jobs[a].record
      /\ \A b \in Actors : b # a => jobs'[b] = jobs[b]
  BY <1>1, PendingJob
<1>3. Wanted' = Wanted /\ (Due <=> Due') /\ ~jobs[a].refused
  BY <1>1, <1>2 DEF Wanted, Due, Records
<1>4. DivergenceNoticed'
  BY <1>1, <1>2 DEF DivergenceNoticed, Actors
<1>5. PICK c : c = IF jobs[a].pending = jobs[a].active THEN 0 ELSE jobs[a].pending
  OBVIOUS
<1>6. \/ Accepts(c) /\ Update(c, Registered(table[c], jobs[a].want)) /\ ~jobs'[a].refused
      \/ ~Accepts(c) /\ UNCHANGED sessions /\ ~jobs'[a].refused
      \/ Refusal(a, c) /\ UNCHANGED sessions /\ jobs'[a].refused
  <2>1. /\ jobs' = [jobs EXCEPT ![a].step = "active"] => jobs'[a].refused = jobs[a].refused
        /\ jobs' = [jobs EXCEPT ![a].step = "active", ![a].refused = TRUE] => jobs'[a].refused
    BY <1>1, PendingJob
  <2> QED BY <1>3, <1>5, <2>1 DEF ApplyPending
<1>7. Records'
  <2>1. \A b \in Callers : jobs'[b].step \in {"retain", "lock", "pending", "active"} => jobs'[b].record
    BY <1>1, <1>2 DEF Records, Actors
  <2>2. ASSUME InApply(Run)', jobs'[Run].refused PROVE stopping'
    <3>1. CASE a = Run
      BY <1>1, <1>3, <1>6, <2>2, <3>1 DEF Refusal
    <3>2. CASE a # Run
      BY <1>1, <1>2, <2>2, <3>2 DEF Records, InApply, Actors
    <3> QED BY <3>1, <3>2
  <2>3. \A b \in Actors : jobs'[b].step \in {"retain", "lock", "pending"} => ~jobs'[b].refused
    BY <1>1, <1>2 DEF Records
  <2> QED BY <2>1, <2>2, <2>3 DEF Records
<1>8. \A b \in Actors : InApply(b)' => jobs'[b].want = Wanted' \/ Due'
  BY <1>2, <1>3 DEF Healed, InApply
<1>9. ASSUME NEW d \in Cycles, Receives(d)', life'[d] = "up", ~divergent, ~stopping, ~Due
      PROVE  Agrees(d)' \/ Reaching(d)'
  <2>1. jobs[a].want = Wanted /\ (Agrees(d) \/ Reaching(d)) /\ d # 0
    BY <1>1, <1>2, <1>9 DEF Healed, Receives
  <2>2. CASE jobs'[a].refused
    BY <1>2, <1>3, <2>1, <2>2 DEF Reaching
  <2>3. CASE d = jobs[a].active /\ ~jobs[a].rotating
    BY <1>2, <1>3, <2>1, <2>3 DEF Reaching
  <2>4. CASE ~jobs'[a].refused /\ ~(d = jobs[a].active /\ ~jobs[a].rotating)
    <3>1. Agrees(d) \/ d = jobs[a].pending
      BY <1>1, <1>2, <1>3, <2>1, <2>4 DEF Reaching, GivesTo, OneApply
    <3>2. d = jobs[a].pending => c = d
      BY <1>2, <1>5, <2>1 DEF Pushing, Applies
    <3>3. CASE ~Accepts(c) /\ UNCHANGED sessions
      <4>1. d # jobs[a].pending
        BY <1>1, <1>9, <2>1, <3>2, <3>3 DEF Accepts
      <4>2. SameGens
        BY <1>1, <3>3, UntouchedGens DEF sessions
      <4> QED BY <1>1, <3>1, <4>1, <4>2, AgreesStays
    <3>4. CASE Accepts(c) /\ Update(c, Registered(table[c], jobs[a].want))
      <4>1. PICK t : t = Registered(table[c], Wanted)
        OBVIOUS
      <4>2. c \in Cycles /\ table' = [table EXCEPT ![c] = t]
        BY <1>1, <1>5, <2>1, <3>4, <4>1 DEF Accepts, Update, JobsShaped, IsJob, Slots
      <4>3. table'[c] = t /\ (d # c => table'[d] = table[d])
        BY <1>1, <4>2 DEF TablesShaped
      <4>4. DOMAIN t = DOMAIN Wanted /\ \A r \in DOMAIN t : t[r].gen = Wanted[r]
        BY <1>1, <4>1, <4>2, RegisteredIs, WantedAsks DEF TablesShaped
      <4>5. CASE d = c
        BY <1>1, <4>3, <4>4, <4>5, GivenAgrees
      <4>6. CASE d # c
        BY <1>3, <3>1, <3>2, <4>3, <4>6 DEF Agrees
      <4> QED BY <4>5, <4>6
    <3> QED BY <1>6, <2>4, <3>3, <3>4
  <2> QED BY <2>2, <2>3, <2>4
<1> QED BY <1>1, <1>3, <1>4, <1>7, <1>8, <1>9 DEF Healed

\* The serving session is given what it was to get, or Run is told that it was
\* not (apply, applyAndWake).
LEMMA ActiveHeals ==
  ASSUME Holding, Pushing, Healed, NEW a \in Actors, ApplyActive(a)
  PROVE  Healed'
<1>1. /\ JobsShaped /\ TablesShaped /\ PlanShaped /\ OneApply /\ Records /\ DivergenceNoticed
      /\ UNCHANGED <<desired, restarts, active, pending, rotating, wake, stopping, life>>
  BY DEF ApplyActive, Pushing, PushesShaped, Healed, plan, slots, sessions, Update
<1>2. /\ InApply(a) /\ ~InApply(a)' /\ jobs[a].step = "active"
      /\ jobs'[a] = IF a \in Callers THEN Waking ELSE NoJob
      /\ \A b \in Actors : b # a => jobs'[b] = jobs[b]
  BY <1>1, ActiveJob
<1>3. jobs'[a].step \in {"wake", "none"} /\ (a \in Callers => jobs'[a].step = "wake")
  BY <1>2, JobsAre
<1>4. Wanted' = Wanted /\ (Due <=> Due')
  BY <1>1, <1>2, <1>3 DEF Wanted, Due
<1>5. PICK c : c = jobs[a].active
  OBVIOUS
<1>6. \/ /\ Accepts(c) /\ ~jobs[a].refused /\ UNCHANGED divergent
         /\ Update(c, IF jobs[a].rotating THEN Retained(table[c], jobs[a].want)
                                          ELSE Registered(table[c], jobs[a].want))
      \/ ~Accepts(c) /\ ~jobs[a].refused /\ UNCHANGED <<divergent, sessions>>
      \/ Refusal(a, c) /\ divergent' = (divergent \/ jobs[a].record) /\ UNCHANGED sessions
  BY <1>5 DEF ApplyActive
<1>7. Refusal(a, c) => stopping \/ (a \in Callers /\ jobs[a].record)
  BY <1>1, <1>2 DEF Refusal, Records, Actors
<1>8. DivergenceNoticed'
  <2>1. CASE a \in Callers
    BY <1>3, <2>1 DEF DivergenceNoticed
  <2>2. CASE a \notin Callers
    <3>1. UNCHANGED divergent \/ stopping
      BY <1>6, <1>7, <2>2
    <3> QED BY <1>1, <1>2, <2>2, <3>1 DEF DivergenceNoticed, Actors
  <2> QED BY <2>1, <2>2
<1>9. Records'
  <2>1. \A b \in Callers : jobs'[b].step \in {"retain", "lock", "pending", "active"} => jobs'[b].record
    BY <1>1, <1>2, <1>3 DEF Records, Actors
  <2>2. InApply(Run)' /\ jobs'[Run].refused => stopping'
    BY <1>1, <1>2 DEF Records, InApply, Actors
  <2>3. \A b \in Actors : jobs'[b].step \in {"retain", "lock", "pending"} => ~jobs'[b].refused
    BY <1>1, <1>2, <1>3 DEF Records
  <2> QED BY <2>1, <2>2, <2>3 DEF Records
<1>10. \A b \in Actors : ~InApply(b)'
  BY <1>1, <1>2 DEF OneApply, InApply
<1>11. ASSUME NEW d \in Cycles, Receives(d)', life'[d] = "up", ~divergent', ~stopping, ~Due
       PROVE  Agrees(d)'
  <2>1. ~divergent /\ ~jobs[a].refused /\ ~(Refusal(a, c) /\ divergent' = (divergent \/ jobs[a].record))
    <3>1. ~(Refusal(a, c) /\ divergent' = (divergent \/ jobs[a].record))
      BY <1>7, <1>11, Zenon
    <3>2. UNCHANGED divergent /\ ~jobs[a].refused
      BY <1>6, <3>1
    <3> QED BY <1>11, <3>1, <3>2, Zenon
  <2>2. jobs[a].want = Wanted /\ (Agrees(d) \/ Reaching(d)) /\ d # 0 /\ Receives(d)
    BY <1>1, <1>2, <1>11, <2>1 DEF Healed, Receives
  <2>3. Agrees(d) \/ (d = c /\ ~jobs[a].rotating)
    BY <1>1, <1>2, <1>5, <2>1, <2>2 DEF Reaching, OneApply
  <2>4. CASE ~Accepts(c) /\ UNCHANGED sessions
    <3>1. d # c
      BY <1>1, <1>11, <2>2, <2>4 DEF Accepts
    <3>2. SameGens
      BY <1>1, <2>4, UntouchedGens DEF sessions
    <3> QED BY <1>1, <2>3, <3>1, <3>2, AgreesStays
  <2>5. CASE /\ Accepts(c)
             /\ Update(c, IF jobs[a].rotating THEN Retained(table[c], jobs[a].want)
                                              ELSE Registered(table[c], jobs[a].want))
    <3>1. PICK t : t = IF jobs[a].rotating THEN Retained(table[c], Wanted) ELSE Registered(table[c], Wanted)
      OBVIOUS
    <3>2. c \in Cycles /\ table' = [table EXCEPT ![c] = t]
      BY <1>1, <1>5, <2>2, <2>5, <3>1 DEF Accepts, Update, JobsShaped, IsJob, Slots
    <3>3. table'[c] = t /\ (d # c => table'[d] = table[d])
      BY <1>1, <3>2 DEF TablesShaped
    <3>4. CASE d = c
      <4>1. ~jobs[a].rotating
        BY <1>1, <1>2, <1>5, <1>11, <2>2, <3>4 DEF Pushing, Applies, Receives, Holding, Custody
      <4>2. DOMAIN t = DOMAIN Wanted /\ \A r \in DOMAIN t : t[r].gen = Wanted[r]
        BY <1>1, <3>1, <3>2, <4>1, RegisteredIs, WantedAsks DEF TablesShaped
      <4> QED BY <1>1, <3>3, <3>4, <4>2, GivenAgrees
    <3>5. CASE d # c
      BY <1>4, <2>3, <3>3, <3>5 DEF Agrees
    <3> QED BY <3>4, <3>5
  <2> QED BY <1>6, <2>1, <2>4, <2>5
<1> QED BY <1>1, <1>4, <1>8, <1>9, <1>10, <1>11 DEF Healed

\* Steps that only let go of sessions.
LEMMA LosingHeals ==
  ASSUME Healed, SameGens, UNCHANGED <<desired, restarts, divergent, wake, jobs>>, stopping => stopping',
         \A c \in Cycles : Receives(c)' => Receives(c),
         \A c \in Cycles : life'[c] = "up" => life[c] = "up"
  PROVE  Healed'
<1>1. DivergenceNoticed'
  BY DEF Healed, DivergenceNoticed
<1> QED BY <1>1, HealingStays

\* A session that ends was or was not up; the others stay (End).
LEMMA EndingLoses ==
  ASSUME Holding, NEW c \in Cycles, End(c)
  PROVE  \A d \in Cycles : life'[d] = "up" => life[d] = "up"
<1>1. life'[c] = "ended" /\ \A d \in Cycles : d # c => life'[d] = life[d]
  BY EndIsOne DEF Holding, SlotsShaped
<1> QED BY <1>1

\* Run moves on, admits, fails a cycle, lets go of one, or lets one take over.
LEMMA RunHeals ==
  ASSUME Holding, Pushing, Healed,
         \/ Begin \/ AdmitNext \/ Retry \/ DrainOld \/ ReportActive \/ RetainPromoted \/ CheckEmpty
         \/ Stopped \/ DrainsChanged \/ Rotate \/ Admit \/ ReadStates \/ Gate \/ AwaitReady
         \/ GiveUp \/ SessionLost \/ Exit \/ Settle \/ FenceOld \/ Promote
  PROVE  Healed'
<1>1. SameGens
  BY MovesPush, RotatePushes, AdmitPushes, ReadinessPushes, ReturnsPush, ReplacingPushes
<1>2. UNCHANGED <<desired, restarts, divergent, wake, jobs, stopping>>
  BY DEF Begin, AdmitNext, Retry, DrainOld, ReportActive, RetainPromoted, CheckEmpty, Stopped, DrainsChanged,
         Rotate, Admit, ReadStates, Gate, AwaitReady, FailCycle, GiveUp, SessionLost, Exit, Settle, FenceOld,
         Promote, plan, signals
<1>3. SlotsPlaced /\ active \in Slots /\ pending \in Slots /\ life \in [Cycles -> Lives]
  BY DEF Holding, SlotsShaped
<1>4. ASSUME UNCHANGED <<active, pending, rotating, life>> PROVE Healed'
  BY <1>1, <1>2, <1>4, LosingHeals DEF Receives
<1>5. ASSUME \A c \in Cycles : Receives(c)' => Receives(c), life' = life \/ \E c \in Cycles : End(c)
      PROVE  Healed'
  BY <1>1, <1>2, <1>5, EndingLoses, LosingHeals
<1>6. CASE Begin \/ AdmitNext \/ Retry \/ DrainOld \/ ReportActive \/ RetainPromoted \/ CheckEmpty
           \/ Stopped \/ DrainsChanged
  BY <1>4, <1>6 DEF Begin, AdmitNext, Retry, DrainOld, ReportActive, RetainPromoted, CheckEmpty, Stopped,
                    DrainsChanged, slots, sessions
<1>7. CASE Rotate
  <2>1. rotating' = TRUE /\ UNCHANGED <<active, pending, life>>
    BY <1>7 DEF Rotate, sessions
  <2> QED BY <1>5, <2>1 DEF Receives
<1>8. CASE Admit
  <2>1. UNCHANGED <<active, pending, rotating>>
    BY <1>8 DEF Admit, slots
  <2>2. ASSUME NEW c \in Cycles, life' = [life EXCEPT ![c] = "made"]
        PROVE  \A d \in Cycles : life'[d] = "up" => life[d] = "up"
    BY <1>3, <2>2
  <2>3. \A c \in Cycles : life'[c] = "up" => life[c] = "up"
    BY <1>8, <2>2, EndingLoses DEF Admit, sessions
  <2> QED BY <1>1, <1>2, <2>1, <2>3, LosingHeals DEF Receives
<1>9. CASE ReadStates \/ Gate \/ AwaitReady
  <2>1. run.pc \in {"wait", "gate", "block"}
    BY <1>9 DEF ReadStates, Gate, AwaitReady, At
  <2>2. pending \in Cycles
    BY <1>3, <2>1 DEF SlotsPlaced, Built, Slots
  <2>3. ASSUME NEW pc, FailCycle(pc) PROVE Healed'
    <3>1. End(pending) /\ pending' = 0 /\ UNCHANGED <<active, rotating>>
      BY <2>3 DEF FailCycle
    <3> QED BY <1>5, <2>2, <3>1 DEF Receives
  <2> QED BY <1>4, <1>9, <2>3 DEF ReadStates, Gate, AwaitReady, slots, sessions
<1>10. CASE GiveUp
  <2>1. active \in Cycles /\ End(active) /\ active' = 0 /\ UNCHANGED pending
    BY <1>3, <1>10 DEF GiveUp, Slots
  <2> QED BY <1>5, <2>1 DEF Receives
<1>11. CASE SessionLost
  <2>1. active' = 0 /\ UNCHANGED <<pending, rotating, life>>
    BY <1>11 DEF SessionLost, sessions
  <2> QED BY <1>5, <2>1 DEF Receives
<1>12. CASE Exit
  <2>1. active' = 0 /\ UNCHANGED <<pending, rotating>> /\ (UNCHANGED life \/ (active # 0 /\ End(active)))
    BY <1>12 DEF Exit, sessions
  <2> QED BY <1>3, <1>5, <2>1 DEF Receives, Slots
<1>13. CASE Settle
  <2>1. run.pc = "settle" /\ UNCHANGED <<active, rotating>>
    BY <1>13 DEF Settle, At
  <2>2. \/ run.then = "fence" /\ End(pending) /\ pending' = 0
        \/ UNCHANGED <<pending, life>>
    BY <1>13 DEF Settle, sessions
  <2>3. run.then = "fence" => pending \in Cycles
    BY <1>3, <2>1 DEF SlotsPlaced, Built, Slots
  <2> QED BY <1>5, <2>1, <2>2, <2>3 DEF Receives
<1>14. CASE FenceOld
  <2>1. life' = [life EXCEPT ![active] = IF @ = "up" THEN "fenced" ELSE @] /\ UNCHANGED <<active, pending, rotating>>
    BY <1>14 DEF FenceOld, slots
  <2>2. \A c \in Cycles : life'[c] = "up" => life[c] = "up"
    BY <1>3, <2>1
  <2> QED BY <1>1, <1>2, <2>1, <2>2, LosingHeals DEF Receives
<1>15. CASE Promote
  <2>1. active' = pending /\ pending' = 0 /\ UNCHANGED life
    BY <1>15 DEF Promote, sessions
  <2> QED BY <1>5, <2>1 DEF Receives
<1> QED BY <1>6, <1>7, <1>8, <1>9, <1>10, <1>11, <1>12, <1>13, <1>14, <1>15

\* Run takes up a divergence with an apply of its own (healDivergence), and
\* applies when it has withdrawn routes or started a session (withdrawGone,
\* startCycleAttempt).
LEMMA RunApplies ==
  ASSUME Holding, Pushing, Healed, Woken \/ SessionChanged \/ WithdrawGone \/ StartCycle
  PROVE  Healed'
<1>1. JobsShaped /\ TablesShaped /\ DivergenceNoticed /\ Run \in Actors /\ Run \notin Callers
  BY GroupAssumption DEF Pushing, PushesShaped, Healed, Actors
<1>2. UNCHANGED stopping
  BY DEF Woken, SessionChanged, WithdrawGone, StartCycle
<1>3. ASSUME NEW j, IsJob(j), j.step \in {"retain", "lock"}, ~j.refused, jobs' = [jobs EXCEPT ![Run] = j],
             ~divergent' \/ UNCHANGED <<divergent, wake>>
      PROVE  Healed'
  <2>1. \A b \in Actors : b # Run => jobs'[b] = jobs[b]
    BY <1>1, <1>3, JobSet
  <2>2. DivergenceNoticed'
    <3>1. \A b \in Callers : jobs'[b] = jobs[b]
      BY <1>1, <2>1 DEF Actors
    <3>2. CASE ~divergent'
      BY <3>2 DEF DivergenceNoticed
    <3>3. CASE UNCHANGED <<divergent, wake>>
      BY <1>1, <1>2, <3>1, <3>3 DEF DivergenceNoticed
    <3> QED BY <1>3, <3>2, <3>3
  <2> QED BY <1>1, <1>2, <1>3, <2>2, HealingIsDue
<1>4. CASE Woken \/ SessionChanged
  <2>1. /\ divergent' = FALSE /\ UNCHANGED <<desired, restarts, active, pending, rotating, life>>
        /\ jobs' = [jobs EXCEPT ![Run] = IF divergent THEN Healing ELSE @]
    BY <1>4 DEF Woken, SessionChanged, HealDivergence, plan, slots, sessions
  <2>2. CASE divergent
    BY <1>3, <2>1, <2>2, JobsAre
  <2>3. CASE ~divergent
    <3>1. UNCHANGED jobs
      BY <1>1, <2>1, <2>3 DEF JobsShaped
    <3>2. SameGens
      BY <1>4, MovesPush
    <3>3. DivergenceNoticed'
      BY <2>1 DEF DivergenceNoticed
    <3> QED BY <1>2, <2>1, <2>3, <3>1, <3>2, <3>3, HealingStays DEF Receives
  <2> QED BY <2>2, <2>3
<1>5. CASE WithdrawGone
  <2>1. UNCHANGED <<divergent, wake, active, pending, rotating, life, table, names>>
    BY <1>5 DEF WithdrawGone, slots, signals, sessions
  <2>2. CASE UNCHANGED <<plan, jobs>>
    BY <1>1, <1>2, <2>1, <2>2, UntouchedGens, LosingHeals DEF plan, Receives
  <2>3. CASE jobs' = [jobs EXCEPT ![Run] = Revoking(desired \ Gone, FALSE)]
    BY <1>3, <2>1, <2>3, JobsAre
  <2> QED BY <1>5, <2>2, <2>3 DEF WithdrawGone
<1>6. CASE StartCycle
  <2>1. UNCHANGED <<divergent, wake, desired, restarts, active, rotating>>
    BY <1>6 DEF StartCycle, plan, signals
  <2>2. CASE jobs' = [jobs EXCEPT ![Run] = Applying]
    BY <1>3, <2>1, <2>2, JobsAre
  <2>3. CASE End(Made) /\ UNCHANGED <<pending, jobs>> /\ Goto("failed")
    <3>1. run.pc = "start" /\ SlotsPlaced
      BY <1>6 DEF StartCycle, At, Holding
    <3>2. Made \in Cycles
      BY <3>1, MadeIsTheOne
    <3>3. SameGens
      BY <2>1, <2>3, <3>1, <3>2, FailPushes
    <3> QED BY <1>2, <2>1, <2>3, <3>2, <3>3, EndingLoses, LosingHeals DEF Receives
  <2> QED BY <1>6, <2>2, <2>3 DEF StartCycle
<1> QED BY <1>4, <1>5, <1>6

\* At first no session serves and nobody applies (Init).
LEMMA InitHealed == Init => Healed
<1> SUFFICES ASSUME Init PROVE Healed
  OBVIOUS
<1>1. /\ active = 0 /\ pending = 0 /\ divergent = FALSE /\ jobs = [a \in Actors |-> NoJob]
      /\ Callers \subseteq Actors /\ Run \in Actors
  BY DEF Init, Actors
<1>2. \A a \in Actors : jobs[a].step = "none"
  BY <1>1, JobsAre
<1>3. Records
  BY <1>1, <1>2 DEF Records, InApply
<1>4. DivergenceNoticed
  BY <1>1 DEF DivergenceNoticed
<1> QED BY <1>1, <1>2, <1>3, <1>4 DEF Healed, InApply, Receives

\* Every step keeps what was asked for on its way to the sessions.
LEMMA StepHealed ==
  ASSUME Holding, Pushing, Healed, [Next]_vars
  PROVE  Healed'
<1>1. ASSUME SameGens, UNCHANGED <<desired, restarts, active, pending, rotating, divergent, wake, jobs>>,
             stopping => stopping', \A c \in Cycles : life'[c] = "up" => life[c] = "up"
      PROVE  Healed'
  BY <1>1, LosingHeals DEF Receives
<1>2. CASE UNCHANGED vars
  BY <1>1, <1>2, UntouchedGens DEF vars, plan, slots, signals, sessions, Pushing, PushesShaped
<1>3. CASE Building
  <2>1. CASE StartCycle \/ WithdrawGone
    BY <2>1, RunApplies
  <2> QED BY <1>3, <2>1, RunHeals DEF Building
<1>4. CASE Promoting
  BY <1>4, RunHeals DEF Promoting
<1>5. CASE Running
  <2>1. CASE Woken \/ SessionChanged
    BY <2>1, RunApplies
  <2> QED BY <1>5, <2>1, RunHeals DEF Running
<1>6. ASSUME NEW a \in Callers, Calling(a) PROVE Healed'
  BY <1>6, CallersHeal DEF Actors
<1>7. ASSUME NEW a \in Actors, Apply(a) PROVE Healed'
  <2>1. CASE RetainRoutes(a) \/ SignalWake(a)
    BY <2>1, CallersHeal
  <2> QED BY <1>7, <2>1, LockHeals, PendingHeals, ActiveHeals DEF Apply
<1>8. CASE Environment
  <2>1. ASSUME NEW c \in Cycles, DrainEnds(c) \/ Lose(c) PROVE Healed'
    <3>1. /\ End(c)
          /\ UNCHANGED <<desired, restarts, active, pending, rotating, divergent, wake, jobs, run, stopping>>
      BY <2>1 DEF DrainEnds, Lose, plan, slots, signals
    <3>2. SameGens
      BY <3>1, SessionsPush
    <3> QED BY <1>1, <3>1, <3>2, EndingLoses
  <2>2. ASSUME NEW c \in Cycles, NEW r \in Routes, Serve(c, r) \/ Flap(c, r) \/ Refuse(c, r)
        PROVE  Healed'
    <3>1. \E from, to \in Phases : Observe(c, r, from, to)
      BY <2>2 DEF Serve, Flap, Refuse, Phases
    <3>2. UNCHANGED <<desired, restarts, active, pending, rotating, divergent, wake, jobs, run, stopping, life>>
      BY <3>1 DEF Observe, plan, slots, signals
    <3>3. SameGens
      BY <3>1, <3>2, SessionsPush
    <3> QED BY <1>1, <3>2, <3>3
  <2>3. ASSUME Shutdown \/ \E c \in Cycles : DrainRetires(c) \/ Expire(c) PROVE Healed'
    <3>1. UNCHANGED <<desired, restarts, active, pending, rotating, divergent, wake, jobs, run, table, life, names>>
      BY <2>3 DEF Shutdown, DrainRetires, Expire, plan, slots, signals, sessions
    <3>2. stopping => stopping'
      BY <2>3 DEF Shutdown, DrainRetires, Expire
    <3>3. SameGens
      BY <3>1, UntouchedGens DEF Pushing, PushesShaped
    <3> QED BY <1>1, <3>1, <3>2, <3>3
  <2> QED BY <1>8, <2>1, <2>2, <2>3 DEF Environment
<1>9. CASE Begin
  BY <1>9, RunHeals
<1> QED BY <1>2, <1>3, <1>4, <1>5, <1>6, <1>7, <1>8, <1>9 DEF Next

\* A change of the plan is on its way to every session that takes
\* registrations, or is remembered as not applied, until the session carries it
\* (apply, applyAndWake, healDivergence).
THEOREM ChangesReachSessions == Spec => []Healed
<1>1. Holding /\ Pushing /\ Healed /\ [Next]_vars => Healed'
  BY StepHealed
<1> QED BY <1>1, InitHealed, AdmissionsAreHeld, PushesAreNewest, PTL DEF Spec

\* With no call under way and nothing to heal, the serving session carries the
\* desired set under the generations it asks for, and a change that could not
\* be applied is not forgotten, for any number of callers, routes and rotations
\* (SetRoutes, RestartRoute, apply, Run).
THEOREM SessionsConverge == Spec => []Converged
<1>1. Holding /\ Healed => Converged
  <2> SUFFICES ASSUME Holding, Healed PROVE SessionsAgree /\ DivergenceNoticed
    BY DEF Converged
  <2>1. DivergenceNoticed
    BY DEF Healed
  <2>2. ASSUME active # 0, ~rotating, ~divergent, ~stopping, life[active] = "up",
               \A a \in Actors : jobs[a].step = "none"
        PROVE  Agrees(active)
    <3>1. active \in Cycles /\ Receives(active)
      BY <2>2 DEF Holding, SlotsShaped, Slots, Receives
    <3>2. ~Due /\ ~Reaching(active)
      BY <2>2 DEF Due, Reaching, InApply
    <3> QED BY <2>2, <3>1, <3>2 DEF Healed
  <2> QED BY <2>1, <2>2 DEF SessionsAgree, Agrees
<1> QED BY <1>1, AdmissionsAreHeld, ChangesReachSessions, PTL

--------------------------------------------------------------------------------
(***************************************************************************)
(* Revoked is kept.                                                        *)
(***************************************************************************)
\* What a drained session works for is left alone by whoever revokes nothing.
Unrevoked ==
  /\ drains' \subseteq drains
  /\ \A c \in drains : /\ life'[c] = "fenced" => life[c] = "fenced" /\ DOMAIN table'[c] = DOMAIN table[c]
                       /\ closed'[c] = closed[c]

\* The jobs that are to revoke work.
RevokersStay == \A b \in Actors : jobs[b].step = "retain" => jobs'[b] = jobs[b]

\* Steps that leave the work of the drained sessions to those who revoke it.
LEMMA RevokedStays ==
  ASSUME Revoked, Unrevoked, Promoted => Promoted',
         \A r \in desired : r \in desired' \/ Ends(r)', \A r : Ends(r) => Ends(r)'
  PROVE  Revoked'
BY DEF Revoked, Unrevoked

\* Who revokes still will.
LEMMA EndsStays ==
  ASSUME RevokersStay
  PROVE  \A r : Ends(r) => Ends(r)'
<1> SUFFICES ASSUME NEW r, Ends(r) PROVE Ends(r)'
  OBVIOUS
<1>1. PICK a \in Actors : jobs[a].step = "retain" /\ r \notin jobs[a].keep
  BY DEF Ends
<1>2. jobs'[a] = jobs[a]
  BY <1>1 DEF RevokersStay
<1> QED BY <1>1, <1>2 DEF Ends

\* An update reaches no drained session: it takes none (Accepts).
LEMMA UpdatesRevokeNothing ==
  ASSUME Holding, TablesShaped, NEW c \in Cycles, life[c] \notin {"fenced", "ended"}, NEW t,
         table' = [table EXCEPT ![c] = t], UNCHANGED <<drains, closed>>,
         \A d \in Cycles : d # c => life'[d] = life[d]
  PROVE  Unrevoked
<1>1. \A d \in drains : d \in Cycles /\ d # c
  BY DEF Holding, SlotsShaped, Custody
<1>2. \A d \in drains : table'[d] = table[d] /\ life'[d] = life[d]
  BY <1>1 DEF TablesShaped
<1> QED BY <1>2 DEF Unrevoked

\* Callers revoke the work of the routes that leave before they apply, and an
\* apply revokes nothing (SetRoutes, RestartRoute, apply).
LEMMA CallersRevoke ==
  ASSUME Holding, Pushing, Revoked, NEW a \in Actors, (a \in Callers /\ Calling(a)) \/ Apply(a)
  PROVE  Revoked'
<1>1. /\ JobsShaped /\ TablesShaped /\ PlanShaped /\ UNCHANGED <<drains, life, run, active>>
  BY DEF Pushing, PushesShaped, Calling, SetRoutes, RestartRoute, Apply, RetainRoutes, ApplyLock, ApplyPending,
         ApplyActive, SignalWake, Update, slots, sessions, draining
<1>2. Promoted => Promoted'
  BY <1>1 DEF Promoted
<1>3. ASSUME NEW next, NEW different, SetRoutes(a, next, different) PROVE Revoked'
  <2>1. /\ jobs[a].step = "none" /\ jobs' = [jobs EXCEPT ![a] = Revoking(next, TRUE)] /\ desired' = next
        /\ UNCHANGED <<table, closed>>
    BY <1>3 DEF SetRoutes, sessions, draining
  <2>2. jobs'[a].step = "retain" /\ jobs'[a].keep = next /\ \A b \in Actors : b # a => jobs'[b] = jobs[b]
    <3>1. PICK j : j = Revoking(next, TRUE)
      OBVIOUS
    <3>2. IsJob(j) /\ j.step = "retain" /\ j.keep = next
      BY <3>1, JobsAre
    <3>3. jobs' = [jobs EXCEPT ![a] = j]
      BY <2>1, <3>1
    <3> QED BY <1>1, <3>2, <3>3, JobSet
  <2>3. \A r : r \in desired' \/ Ends(r)'
    BY <2>1, <2>2 DEF Ends
  <2>4. \A r : Ends(r) => Ends(r)'
    BY <2>1, <2>2, EndsStays DEF RevokersStay
  <2> QED BY <1>1, <1>2, <2>1, <2>3, <2>4, RevokedStays DEF Unrevoked
<1>4. CASE RetainRoutes(a)
  <2>1. /\ jobs[a].step = "retain" /\ RetainDrained(jobs[a].keep) /\ UNCHANGED <<desired, table>>
        /\ jobs' = [jobs EXCEPT ![a] = IF jobs[a].record THEN Healing ELSE Applying]
    BY <1>4 DEF RetainRoutes, plan, sessions
  <2>2. \A b \in Actors : b # a => jobs'[b] = jobs[b]
    BY <1>1, <2>1 DEF JobsShaped
  <2>3. drains \subseteq Cycles
    BY DEF Holding, SlotsShaped
  <2>4. ASSUME ~Promoted', NEW c \in drains, life[c] = "fenced", NEW r \in DOMAIN table[c] \ closed'[c]
        PROVE  r \in desired \/ Ends(r)'
    <3>1. r \notin closed[c] /\ r \in jobs[a].keep
      BY <2>1, <2>3, <2>4 DEF RetainDrained
    <3>2. CASE r \in desired
      BY <3>2
    <3>3. CASE Ends(r)
      <4>1. PICK b \in Actors : jobs[b].step = "retain" /\ r \notin jobs[b].keep
        BY <3>3 DEF Ends
      <4>2. jobs'[b] = jobs[b]
        BY <2>2, <3>1, <4>1
      <4> QED BY <4>1, <4>2 DEF Ends
    <3> QED BY <1>2, <2>4, <3>1, <3>2, <3>3 DEF Revoked
  <2> QED BY <1>1, <2>1, <2>4 DEF Revoked
<1>5. ASSUME UNCHANGED <<desired, closed>>, Unrevoked,
             \E j : jobs' = [jobs EXCEPT ![a] = j], jobs[a].step # "retain"
      PROVE  Revoked'
  <2>1. \A b \in Actors : b # a => jobs'[b] = jobs[b]
    BY <1>1, <1>5 DEF JobsShaped
  <2>2. RevokersStay
    BY <1>5, <2>1 DEF RevokersStay
  <2> QED BY <1>2, <1>5, <2>2, EndsStays, RevokedStays
<1>6. ASSUME NEW r, RestartRoute(a, r) PROVE Revoked'
  <2>1. /\ jobs[a].step = "none" /\ jobs' = [jobs EXCEPT ![a] = Healing]
        /\ UNCHANGED <<desired, table, closed>>
    BY <1>6 DEF RestartRoute, sessions, draining
  <2> QED BY <1>1, <1>5, <2>1 DEF Unrevoked
<1>7. CASE SignalWake(a)
  <2>1. /\ jobs[a].step = "wake" /\ jobs' = [jobs EXCEPT ![a] = NoJob]
        /\ UNCHANGED <<desired, table, closed>>
    BY <1>7 DEF SignalWake, plan, sessions, draining
  <2> QED BY <1>1, <1>5, <2>1 DEF Unrevoked
<1>8. CASE ApplyLock(a)
  <2>1. /\ jobs[a].step = "lock" /\ UNCHANGED <<desired, table, closed>>
        /\ \A b \in Actors : b # a => jobs'[b] = jobs[b]
    BY <1>8, LockPushes DEF ApplyLock, plan, sessions, draining
  <2>2. RevokersStay
    BY <2>1 DEF RevokersStay
  <2> QED BY <1>1, <1>2, <2>1, <2>2, EndsStays, RevokedStays DEF Unrevoked
<1>9. CASE ApplyPending(a) \/ ApplyActive(a)
  <2>1. /\ jobs[a].step \in {"pending", "active"} /\ \A b \in Actors : b # a => jobs'[b] = jobs[b]
    BY <1>1, <1>9, PendingJob, ActiveJob
  <2>2. RevokersStay
    BY <2>1 DEF RevokersStay
  <2>3. UNCHANGED <<desired, closed>>
    BY <1>9 DEF ApplyPending, ApplyActive, plan, draining
  <2>4. UNCHANGED table \/ \E c : Accepts(c) /\ c \in Slots /\ \E t : table' = [table EXCEPT ![c] = t]
    <3>1. jobs[a].active \in Slots /\ jobs[a].pending \in Slots /\ 0 \in Slots
      BY <1>1 DEF JobsShaped, IsJob, Slots
    <3>2. CASE ApplyPending(a)
      BY <3>1, <3>2 DEF ApplyPending, Update, sessions
    <3>3. CASE ApplyActive(a)
      BY <3>1, <3>3 DEF ApplyActive, Update, sessions
    <3> QED BY <1>9, <3>2, <3>3
  <2>5. Unrevoked
    <3>1. CASE UNCHANGED table
      BY <1>1, <2>3, <3>1 DEF Unrevoked
    <3>2. ASSUME NEW c, Accepts(c), c \in Slots, NEW t, table' = [table EXCEPT ![c] = t] PROVE Unrevoked
      BY <1>1, <2>3, <3>2, UpdatesRevokeNothing DEF Accepts, Slots
    <3> QED BY <2>4, <3>1, <3>2
  <2> QED BY <1>2, <2>2, <2>3, <2>5, EndsStays, RevokedStays
<1> QED BY <1>3, <1>4, <1>6, <1>7, <1>8, <1>9 DEF Calling, Apply

\* A session that ends is fenced no more (End).
LEMMA EndingRevokes ==
  ASSUME Holding, TablesShaped, NEW c \in Cycles, End(c), UNCHANGED closed, drains' \subseteq drains
  PROVE  Unrevoked
<1>1. SameGens
  BY EndKeepsGens
<1>2. \A d \in Cycles : life'[d] = "fenced" => life[d] = "fenced"
  <2>1. life'[c] = "ended" /\ \A d \in Cycles : d # c => life'[d] = life[d]
    BY EndIsOne DEF Holding, SlotsShaped
  <2> QED BY <2>1
<1>3. drains \subseteq Cycles
  BY DEF Holding, SlotsShaped
<1> QED BY <1>1, <1>2, <1>3 DEF Unrevoked, SameGens

\* Run builds, fails and lets go of cycles, and heals: it revokes nothing.
LEMMA RunRevokesNothing ==
  ASSUME Holding, Pushing, Revoked,
         \/ Begin \/ AdmitNext \/ Retry \/ CheckEmpty \/ Stopped \/ DrainsChanged \/ Rotate \/ Admit
         \/ StartCycle \/ ReadStates \/ Gate \/ AwaitReady \/ GiveUp \/ SessionLost \/ Exit \/ Settle \/ FenceOld
         \/ Woken \/ SessionChanged
  PROVE  Revoked'
<1>1. /\ JobsShaped /\ TablesShaped /\ SlotsPlaced /\ Custody /\ drains \subseteq Cycles
      /\ active \in Slots /\ pending \in Slots /\ life \in [Cycles -> Lives]
  BY DEF Pushing, PushesShaped, Holding, SlotsShaped
<1>2. run.pc \notin {"promote", "report", "judge", "retain"} /\ UNCHANGED <<desired, closed, drains>>
  BY DEF Begin, AdmitNext, Retry, CheckEmpty, Stopped, DrainsChanged, Rotate, Admit, StartCycle, ReadStates,
         Gate, AwaitReady, FailCycle, GiveUp, SessionLost, Exit, Settle, FenceOld, Woken, SessionChanged,
         At, Selecting, plan, draining
<1>3. ~Promoted
  BY <1>2 DEF Promoted
<1>4. RevokersStay
  <2>1. UNCHANGED jobs \/ (jobs[Run].step = "none" /\ \E j : jobs' = [jobs EXCEPT ![Run] = j])
    BY DEF Begin, AdmitNext, Retry, CheckEmpty, Stopped, DrainsChanged, Rotate, Admit, StartCycle, ReadStates,
           Gate, AwaitReady, FailCycle, GiveUp, SessionLost, Exit, Settle, FenceOld, Woken, SessionChanged,
           HealDivergence, At, Selecting
  <2>2. ASSUME NEW j, jobs' = [jobs EXCEPT ![Run] = j] PROVE \A b \in Actors : b # Run => jobs'[b] = jobs[b]
    BY <1>1, <2>2 DEF JobsShaped
  <2> QED BY <2>1, <2>2 DEF RevokersStay
<1>5. ASSUME Unrevoked PROVE Revoked'
  BY <1>2, <1>3, <1>4, <1>5, EndsStays, RevokedStays
<1>6. ASSUME UNCHANGED <<table, life>> PROVE Revoked'
  BY <1>2, <1>5, <1>6 DEF Unrevoked
<1>7. ASSUME NEW c \in Cycles, End(c) PROVE Revoked'
  BY <1>1, <1>2, <1>5, <1>7, EndingRevokes
<1>8. CASE Begin \/ AdmitNext \/ Retry \/ CheckEmpty \/ Stopped \/ DrainsChanged \/ Rotate
           \/ SessionLost \/ Woken \/ SessionChanged
  BY <1>6, <1>8 DEF Begin, AdmitNext, Retry, CheckEmpty, Stopped, DrainsChanged, Rotate, SessionLost, Woken,
                    SessionChanged, sessions
<1>9. CASE Admit
  <2>1. ASSUME NEW c \in Cycles, life' = [life EXCEPT ![c] = "made"], UNCHANGED table PROVE Unrevoked
    BY <1>1, <1>2, <2>1 DEF Unrevoked
  <2> QED BY <1>5, <1>6, <1>7, <1>9, <2>1 DEF Admit, sessions
<1>10. CASE StartCycle
  <2>1. run.pc = "start"
    BY <1>10 DEF StartCycle, At
  <2>2. Made \in Cycles /\ life[Made] = "made"
    BY <2>1, MadeIsTheOne
  <2>3. ASSUME life' = [life EXCEPT ![Made] = "up"], table' = [table EXCEPT ![Made] = run.states]
        PROVE  Unrevoked
    <3>1. \A d \in Cycles : d # Made => life'[d] = life[d]
      BY <1>1, <2>3
    <3> QED BY <1>1, <1>2, <2>2, <2>3, <3>1, UpdatesRevokeNothing
  <2> QED BY <1>5, <1>7, <1>10, <2>2, <2>3 DEF StartCycle
<1>11. CASE ReadStates \/ Gate \/ AwaitReady
  <2>1. run.pc \in {"wait", "gate", "block"}
    BY <1>11 DEF ReadStates, Gate, AwaitReady, At
  <2>2. pending \in Cycles
    BY <1>1, <2>1 DEF SlotsPlaced, Built, Slots
  <2> QED BY <1>6, <1>7, <1>11, <2>2 DEF ReadStates, Gate, AwaitReady, FailCycle, sessions
<1>12. CASE GiveUp \/ Exit
  BY <1>1, <1>6, <1>7, <1>12 DEF GiveUp, Exit, sessions, Slots
<1>13. CASE Settle
  <2>1. run.pc = "settle" /\ (UNCHANGED <<table, life>> \/ (run.then = "fence" /\ End(pending)))
    BY <1>13 DEF Settle, At, sessions
  <2>2. run.then = "fence" => pending \in Cycles
    BY <1>1, <2>1 DEF SlotsPlaced, Built, Slots
  <2> QED BY <1>6, <1>7, <2>1, <2>2
<1>14. CASE FenceOld
  <2>1. /\ run.pc = "fence" /\ life' = [life EXCEPT ![active] = IF @ = "up" THEN "fenced" ELSE @]
        /\ UNCHANGED table
    BY <1>14 DEF FenceOld, At
  <2>2. active \notin drains
    BY <1>1, <2>1 DEF SlotsPlaced, Replacing, Custody
  <2>3. Unrevoked
    BY <1>1, <1>2, <2>1, <2>2 DEF Unrevoked
  <2> QED BY <1>5, <2>3
<1> QED BY <1>8, <1>9, <1>10, <1>11, <1>12, <1>13, <1>14

\* From the moment a session joins the drains to the end of its promotion, what
\* left the group meanwhile may be unknown to it; then it is told of the desired
\* set (cycleDrainSet.start, promote, retainRoutes, withdrawGone).
LEMMA PromotionRevokes ==
  ASSUME Holding, Pushing, Revoked, DrainOld \/ Promote \/ ReportActive \/ RetainPromoted \/ WithdrawGone
  PROVE  Revoked'
<1>1. JobsShaped /\ TablesShaped /\ RunShaped /\ SlotsPlaced /\ drains \subseteq Cycles
  BY DEF Pushing, PushesShaped, Holding, SlotsShaped, RunShaped
<1>2. UNCHANGED <<table, life>>
  BY DEF DrainOld, Promote, ReportActive, RetainPromoted, WithdrawGone, sessions
<1>3. CASE DrainOld
  <2>1. run.pc = "insert" /\ Goto("promote") /\ UNCHANGED active
    BY <1>3 DEF DrainOld, At, slots
  <2>2. Promoted'
    BY <1>1, <2>1, Going DEF SlotsPlaced, Replacing, Promoted
  <2> QED BY <2>2 DEF Revoked
<1>4. ASSUME UNCHANGED <<desired, jobs, closed, drains>>, Promoted => Promoted' PROVE Revoked'
  <2>1. Unrevoked /\ RevokersStay
    BY <1>2, <1>4 DEF Unrevoked, RevokersStay
  <2> QED BY <1>4, <2>1, EndsStays, RevokedStays
<1>5. CASE Promote
  <2>1. /\ run.pc = "promote" /\ UNCHANGED <<desired, jobs, closed, drains>>
        /\ run' = [run EXCEPT !.pc = "report", !.then = IF active = 0 THEN "check" ELSE "retain"]
    BY <1>5 DEF Promote, At, plan, draining
  <2>2. active # 0 => run'.pc = "report" /\ run'.then = "retain"
    BY <1>1, <2>1 DEF RunShaped
  <2> QED BY <1>4, <2>1, <2>2 DEF Promoted
<1>6. CASE ReportActive
  <2>1. /\ run.pc = "report" /\ UNCHANGED <<desired, jobs, closed, drains>>
        /\ run' = [run EXCEPT !.pc = "judge", !.states = table[active]]
    BY <1>6 DEF ReportActive, At, plan, draining
  <2>2. run'.pc = "judge" /\ run'.then = run.then
    BY <1>1, <2>1 DEF RunShaped
  <2> QED BY <1>4, <2>1, <2>2 DEF Promoted
<1>7. CASE RetainPromoted
  <2>1. RetainDrained(desired) /\ UNCHANGED <<desired, drains>>
    BY <1>7 DEF RetainPromoted, plan
  <2>2. ASSUME NEW c \in drains, NEW r \in DOMAIN table[c] \ closed'[c] PROVE r \in desired
    BY <1>1, <2>1, <2>2 DEF RetainDrained
  <2> QED BY <1>2, <2>1, <2>2 DEF Revoked
<1>8. CASE WithdrawGone
  <2>1. run.pc = "judge" /\ jobs[Run].step = "none" /\ Goto(run.then) /\ UNCHANGED <<closed, drains, active>>
    BY <1>8 DEF WithdrawGone, At, slots, draining
  <2>2. Promoted => Promoted'
    BY <1>1, <2>1, Going DEF Promoted
  <2>3. CASE UNCHANGED <<plan, jobs>>
    BY <1>4, <2>1, <2>2, <2>3 DEF plan
  <2>4. CASE desired' = desired \ Gone /\ jobs' = [jobs EXCEPT ![Run] = Revoking(desired \ Gone, FALSE)]
    <3>1. PICK j : j = Revoking(desired \ Gone, FALSE)
      OBVIOUS
    <3>2. IsJob(j) /\ j.step = "retain" /\ j.keep = desired \ Gone
      BY <3>1, JobsAre
    <3>3. Run \in Actors /\ jobs' = [jobs EXCEPT ![Run] = j]
      BY <2>4, <3>1 DEF Actors
    <3>4. jobs'[Run] = j /\ \A b \in Actors : b # Run => jobs'[b] = jobs[b]
      BY <1>1, <3>2, <3>3, JobSet
    <3>5. \A r : r \in desired' \/ Ends(r)'
      BY <2>4, <3>2, <3>3, <3>4 DEF Ends
    <3>6. RevokersStay
      BY <2>1, <3>4 DEF RevokersStay
    <3> QED BY <1>2, <2>1, <2>2, <3>5, <3>6, EndsStays, RevokedStays DEF Unrevoked
  <2> QED BY <1>8, <2>3, <2>4 DEF WithdrawGone
<1> QED BY <1>3, <1>5, <1>6, <1>7, <1>8

\* At first nothing drains (Init).
LEMMA InitRevoked == Init => Revoked
BY DEF Init, Revoked

\* Every step leaves the drained sessions what they may work for, or someone
\* to revoke it.
LEMMA StepRevoked ==
  ASSUME Holding, Pushing, Revoked, [Next]_vars
  PROVE  Revoked'
<1>1. ASSUME Unrevoked, UNCHANGED <<desired, jobs, run, active>> PROVE Revoked'
  <2>1. RevokersStay /\ (Promoted => Promoted')
    BY <1>1 DEF RevokersStay, Promoted
  <2> QED BY <1>1, <2>1, EndsStays, RevokedStays
<1>2. TablesShaped /\ drains \subseteq Cycles
  BY DEF Pushing, PushesShaped, Holding, SlotsShaped
<1>3. CASE UNCHANGED vars
  BY <1>1, <1>3 DEF vars, plan, slots, sessions, draining, Unrevoked
<1>4. CASE Building \/ Promoting \/ Running \/ Begin
  BY <1>4, RunRevokesNothing, PromotionRevokes DEF Building, Promoting, Running
<1>5. ASSUME NEW a \in Callers, Calling(a) PROVE Revoked'
  BY <1>5, CallersRevoke DEF Actors
<1>6. ASSUME NEW a \in Actors, Apply(a) PROVE Revoked'
  BY <1>6, CallersRevoke
<1>7. CASE Environment
  <2>1. ASSUME NEW c \in Cycles, DrainEnds(c) \/ Lose(c) PROVE Revoked'
    <3>1. End(c) /\ UNCHANGED <<desired, jobs, run, active, closed, drains>>
      BY <2>1 DEF DrainEnds, Lose, plan, slots, draining
    <3> QED BY <1>1, <1>2, <3>1, EndingRevokes
  <2>2. ASSUME NEW c \in Cycles, NEW r \in Routes, Serve(c, r) \/ Flap(c, r) \/ Refuse(c, r)
        PROVE  Revoked'
    <3>1. \E from, to \in Phases : Observe(c, r, from, to)
      BY <2>2 DEF Serve, Flap, Refuse, Phases
    <3>2. UNCHANGED <<desired, jobs, run, active, life, closed, drains>>
      BY <3>1 DEF Observe, plan, slots, draining
    <3>3. SameGens
      BY <1>2, <3>1, ObserveKeepsGens
    <3> QED BY <1>1, <1>2, <3>2, <3>3 DEF Unrevoked, SameGens
  <2>3. ASSUME Shutdown \/ \E c \in Cycles : DrainRetires(c) \/ Expire(c) PROVE Revoked'
    <3>1. UNCHANGED <<desired, jobs, run, active, table, life, closed>> /\ drains' \subseteq drains
      BY <2>3 DEF Shutdown, DrainRetires, Expire, plan, slots, sessions, draining
    <3> QED BY <1>1, <3>1 DEF Unrevoked
  <2> QED BY <1>7, <2>1, <2>2, <2>3 DEF Environment
<1> QED BY <1>3, <1>4, <1>5, <1>6, <1>7 DEF Next

\* What a retired session works for is of the desired set, or someone is about
\* to revoke it: the caller that removed the route, or Run, which withdrew it or
\* has just promoted (retainRoutes).
THEOREM RetiredWorkIsRevoked == Spec => []Revoked
<1>1. Holding /\ Pushing /\ Revoked /\ [Next]_vars => Revoked'
  BY StepRevoked
<1> QED BY <1>1, InitRevoked, AdmissionsAreHeld, PushesAreNewest, PTL DEF Spec

\* "Removed routes revoke existing work even after routing has been withdrawn":
\* once a promotion is complete and no revocation is under way, no retired
\* session works for a route that left (group_frp.go:1049, promote).
THEOREM RemovedRoutesEnd == Spec => []RemovedWorkEnds
<1>1. Revoked => RemovedWorkEnds
  BY DEF Revoked, RemovedWorkEnds, Promoted, Ends
<1> QED BY <1>1, RetiredWorkIsRevoked, PTL
================================================================================
