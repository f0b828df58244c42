----------------------------- MODULE SessionGroup -----------------------------
(***************************************************************************)
(* SessionGroupRunner (pkg/share/group.go) and its drain set               *)
(* (cycleDrainSet, pkg/share/session.go): one goroutine in Run replaces an *)
(* admission before it expires while callers change the route set, and     *)
(* retired sessions finish their work in goroutines of their own.          *)
(*                                                                         *)
(* A cycle is one admission with its session.  Sessions are seen as the    *)
(* runner sees a GroupServingSession: a table of registrations, each in a  *)
(* phase, replaced by Update and ended by Stop or by itself.  A critical   *)
(* section of the runner's mu is one step; drains.retainRoutes is a step   *)
(* of its own after it, applyMu is held from an apply's snapshot to its    *)
(* end, and stopping a session is one step with retiring its admission.    *)
(* Timers may fire late, admissions expire in any order, and every call    *)
(* to the admitter or a session may fail.                                  *)
(***************************************************************************)
EXTENDS Naturals, FiniteSets

CONSTANTS
  Routes,     \* route identities
  Callers,    \* goroutines calling SetRoutes and RestartRoute
  Run,        \* the goroutine inside SessionGroupRunner.Run
  MaxCycle,   \* bound on the admissions made
  MaxGen,     \* bound on a route's restart generation
  Faults      \* the faults the environment may show, of FaultKinds

FaultKinds == {"admit", "start", "retire", "timeout", "lost", "gone", "flap", "cancel", "stop"}

ASSUME GroupAssumption ==
  /\ Run \notin Callers
  /\ MaxCycle \in Nat /\ MaxGen \in Nat
  /\ Routes # {} /\ IsFiniteSet(Routes)
  /\ Faults \subseteq FaultKinds

VARIABLES
  desired,    \* routes of the desired set
  restarts,   \* route -> generation of its next registration
  active,     \* the cycle that serves, 0 for none
  pending,    \* the cycle being built, 0 for none
  rotating,
  divergent,  \* a caller's apply failed before the sessions saw it
  wake,       \* the wake channel holds a token
  jobs,       \* actor -> its progress inside apply
  run,        \* the Run goroutine
  table,      \* cycle -> what its session carries: route -> registration
  life,       \* cycle -> the state of its session
  changed,    \* cycles whose Changes channel holds a token
  expired,    \* cycles whose admission window has passed
  retires,    \* cycle -> calls of Admitter.Retire for its admission
  drains,     \* cycles in the drain set
  canceled,   \* drains told to stop
  closed,     \* cycle -> routes whose connections a drained session closed
  drained,    \* the drain set's changed channel holds a token
  drainErr,   \* the drain set holds an error
  stopping,   \* Run's context has ended
  names       \* history: registrations every session was given

plan == <<desired, restarts>>
slots == <<active, pending, rotating>>
signals == <<divergent, wake>>
sessions == <<table, life, changed, names>>
admissions == <<expired, retires>>
draining == <<drains, canceled, closed, drained, drainErr>>
vars == <<plan, slots, signals, jobs, run, sessions, admissions, draining, stopping>>

Cycles == 1..MaxCycle
Actors == Callers \union {Run}

\* The desired set with the generations it must be registered under.
Wanted == [r \in desired |-> restarts[r]]

Serving(t) == {r \in DOMAIN t : t[r].phase = "serving"}

\* An admission was made for c.
Issued(c) == life[c] # "none"
Fresh(c) == ~Issued(c) /\ \A b \in Cycles : b < c => Issued(b)

--------------------------------------------------------------------------------
(***************************************************************************)
(* The session's side of Update: an unchanged registration keeps its       *)
(* phase, a new generation registers afresh.                               *)
(***************************************************************************)
Registered(t, want) ==
  [r \in DOMAIN want |->
     IF r \in DOMAIN t /\ t[r].gen = want[r] THEN t[r]
                                             ELSE [gen |-> want[r], phase |-> "pending"]]

\* retainRoutes: what a rotating session carries and the group still wants,
\* each under the generation it carries.
Retained(t, want) ==
  [r \in {q \in DOMAIN t \intersect DOMAIN want : t[q].phase # "failed"} |-> t[r]]

Update(c, t) ==
  /\ table' = [table EXCEPT ![c] = t]
  /\ changed' = changed \union {c}
  /\ names' = names \union {<<c, r, t[r].gen>> : r \in DOMAIN t}
  /\ UNCHANGED life

NoJob == [step |-> "none", keep |-> {}, want |-> <<>>, active |-> 0, pending |-> 0,
          rotating |-> FALSE, refused |-> FALSE, record |-> FALSE]
Applying == [NoJob EXCEPT !.step = "lock"]
Healing  == [Applying EXCEPT !.record = TRUE]
Waking == [NoJob EXCEPT !.step = "wake"]
Revoking(keep, record) == [NoJob EXCEPT !.step = "retain", !.keep = keep, !.record = record]

InApply(a) == jobs[a].step \in {"pending", "active"}

\* drains.retainRoutes: the drained sessions close the connections of every
\* route they carry that is not in keep.
RetainDrained(keep) ==
  closed' = [c \in Cycles |-> IF c \in drains THEN closed[c] \union (DOMAIN table[c] \ keep)
                                              ELSE closed[c]]

\* A change of the desired set reaches the drained sessions before the apply.
RetainRoutes(a) ==
  /\ jobs[a].step = "retain"
  /\ RetainDrained(jobs[a].keep)
  /\ jobs' = [jobs EXCEPT ![a] = IF jobs[a].record THEN Healing ELSE Applying]
  /\ UNCHANGED <<plan, slots, signals, run, sessions, admissions, drains, canceled, drained, drainErr, stopping>>

\* Mutant: apply snapshots the desired set before it takes applyMu.
ApplyLockLate(a) ==
  \/ /\ jobs[a].step = "lock" /\ jobs[a].want = <<>>
     /\ jobs' = [jobs EXCEPT ![a].want = Wanted]
     /\ UNCHANGED <<plan, slots, signals, run, sessions, admissions, draining, stopping>>
  \/ /\ jobs[a].step = "lock" /\ jobs[a].want # <<>> /\ \A b \in Actors : ~InApply(b)
     /\ jobs' = [jobs EXCEPT ![a] = [@ EXCEPT !.step = "pending",
                   !.active = active, !.pending = pending, !.rotating = rotating]]
     /\ UNCHANGED <<plan, slots, signals, run, sessions, admissions, draining, stopping>>

\* apply takes applyMu and snapshots what it is about to push.
ApplyLock(a) ==
  /\ jobs[a].step = "lock" /\ \A b \in Actors : ~InApply(b)
  /\ jobs' = [jobs EXCEPT ![a] = [@ EXCEPT !.step = "pending", !.want = Wanted,
                !.active = active, !.pending = pending, !.rotating = rotating]]
  /\ UNCHANGED <<plan, slots, signals, run, sessions, admissions, draining, stopping>>

\* Whose context has ended is refused by every Update it makes; a session that
\* ended, or takes no more work, makes an Update a benign no-op.
Alive(c) == c # 0 /\ life[c] \in {"up", "fenced"}
Refusal(a, c) ==
  \/ jobs[a].refused
  \/ Alive(c) /\ (IF a = Run THEN stopping ELSE "cancel" \in Faults)
Accepts(c) == c # 0 /\ life[c] = "up"

ApplyPending(a) ==
  LET job == jobs[a]
      c == IF job.pending = job.active THEN 0 ELSE job.pending
  IN  /\ job.step = "pending"
      /\ \/ /\ Accepts(c)
            /\ Update(c, Registered(table[c], job.want))
            /\ jobs' = [jobs EXCEPT ![a].step = "active"]
         \/ /\ ~Accepts(c)
            /\ jobs' = [jobs EXCEPT ![a].step = "active"]
            /\ UNCHANGED sessions
         \/ /\ Refusal(a, c)
            /\ jobs' = [jobs EXCEPT ![a].step = "active", ![a].refused = TRUE]
            /\ UNCHANGED sessions
      /\ UNCHANGED <<plan, slots, signals, run, admissions, draining, stopping>>

\* The active session last: a rotating one only ever loses routes.  A failure
\* of a caller's apply, or of a healing one, is recorded for Run to heal.
ApplyActive(a) ==
  LET job == jobs[a]
      c == job.active
      push == IF job.rotating THEN Retained(table[c], job.want) ELSE Registered(table[c], job.want)
  IN  /\ job.step = "active"
      /\ jobs' = [jobs EXCEPT ![a] = IF a \in Callers THEN Waking ELSE NoJob]
      /\ \/ /\ Accepts(c) /\ ~job.refused
            /\ Update(c, push)
            /\ UNCHANGED divergent
         \/ /\ ~Accepts(c) /\ ~job.refused
            /\ UNCHANGED <<divergent, sessions>>
         \/ /\ Refusal(a, c)
            /\ divergent' = (divergent \/ job.record)
            /\ UNCHANGED sessions
      /\ UNCHANGED <<plan, slots, wake, run, admissions, draining, stopping>>

\* applyAndWake: a caller wakes Run after its apply, whatever came of it.
SignalWake(a) ==
  /\ jobs[a].step = "wake"
  /\ wake' = TRUE
  /\ jobs' = [jobs EXCEPT ![a] = NoJob]
  /\ UNCHANGED <<plan, slots, divergent, run, sessions, admissions, draining, stopping>>

--------------------------------------------------------------------------------
(***************************************************************************)
(* Callers.                                                                *)
(***************************************************************************)
\* SetRoutes: routes that leave, and routes whose target or headers changed,
\* must not come back under a name the server may still hold.
SetRoutes(a, next, different) ==
  LET renamed == (desired \ next) \union different
  IN  /\ jobs[a].step = "none"
      /\ different \subseteq desired \intersect next
      /\ \A r \in renamed : restarts[r] < MaxGen
      /\ \A r \in next : restarts[r] <= MaxGen
      /\ desired' = next
      /\ restarts' = [r \in Routes |-> IF r \in renamed THEN restarts[r] + 1 ELSE restarts[r]]
      /\ jobs' = [jobs EXCEPT ![a] = Revoking(next, TRUE)]
      /\ UNCHANGED <<slots, signals, run, sessions, admissions, draining, stopping>>

RestartRoute(a, r) ==
  /\ jobs[a].step = "none" /\ r \in desired /\ restarts[r] < MaxGen
  /\ restarts' = [restarts EXCEPT ![r] = @ + 1]
  /\ jobs' = [jobs EXCEPT ![a] = Healing]
  /\ UNCHANGED <<desired, slots, signals, run, sessions, admissions, draining, stopping>>

--------------------------------------------------------------------------------
(***************************************************************************)
(* Run.  run.pc is the place in Run or in the calls it makes, run.states   *)
(* the route states it read last, run.late whether the readiness deadline  *)
(* of the cycle being built has passed, and run.then where Run goes on.    *)
(***************************************************************************)
At(pc) == run.pc = pc /\ jobs[Run].step = "none"
Goto(pc) == run' = [run EXCEPT !.pc = pc]

\* A failure the environment may show, or one the deadline or Run's context
\* forces.
MayFail(fault) ==
  \/ fault \in Faults \/ stopping
  \/ active # 0 /\ expired[active]

Made == CHOOSE c \in Cycles : life[c] = "made"
Carried(c) == IF c = 0 THEN <<>> ELSE table[c]

\* run of a session demotes what served once the session has ended.
End(c) ==
  /\ life' = [life EXCEPT ![c] = "ended"]
  /\ table' = [table EXCEPT ![c] =
                 [r \in DOMAIN @ |-> IF @[r].phase = "serving"
                                     THEN [@[r] EXCEPT !.phase = "pending"] ELSE @[r]]]
  /\ changed' = changed \union {c}
  /\ UNCHANGED names

Retire(c) ==
  /\ retires' = [retires EXCEPT ![c] = @ + 1]
  /\ UNCHANGED expired

\* Where Run goes when the retirement of an old admission may have failed.
GotoUnlessRetireFails(pc) == Goto(pc) \/ ("retire" \in Faults /\ Goto("exit"))

\* Run starts by waiting for the drains a prior Run left behind.
Begin ==
  /\ run.pc \in {"idle", "done"} /\ ~stopping
  /\ canceled' = canceled \union drains
  /\ run' = [run EXCEPT !.pc = "settle", !.then = "top"]
  /\ UNCHANGED <<plan, slots, signals, jobs, sessions, admissions, drains, closed, drained, drainErr, stopping>>

AdmitNext ==
  /\ At("top") /\ active = 0
  /\ Goto(IF stopping THEN "exit" ELSE "admit")
  /\ UNCHANGED <<plan, slots, signals, jobs, sessions, admissions, draining, stopping>>

\* startCycleAttempt: no knock for an empty set; an admission that fails
\* validation is retired at once; the routes are read after the admission.
Admit ==
  /\ At("admit")
  /\ \/ /\ desired = {} /\ Goto("exit")
        /\ UNCHANGED <<sessions, admissions>>
     \/ \E c \in Cycles :
          /\ desired # {} /\ Fresh(c)
          /\ life' = [life EXCEPT ![c] = "made"]
          /\ run' = [run EXCEPT !.pc = "start", !.states = Registered(<<>>, Wanted)]
          /\ UNCHANGED <<table, changed, names, admissions>>
     \/ \E c \in Cycles :
          /\ desired # {} /\ Fresh(c) /\ "admit" \in Faults
          /\ End(c) /\ Retire(c) /\ Goto("failed")
     \/ /\ desired # {}
        /\ MayFail("admit") \/ ~\E c \in Cycles : Fresh(c)
        /\ Goto("failed") \/ ("admit" \in Faults /\ Goto("exit"))
        /\ UNCHANGED <<sessions, admissions>>
  /\ UNCHANGED <<plan, slots, signals, jobs, draining, stopping>>

\* Mutant: the desired set is not applied once the cycle is pending.
StartCycleOnce ==
  /\ At("start")
  /\ life' = [life EXCEPT ![Made] = "up"]
  /\ table' = [table EXCEPT ![Made] = run.states]
  /\ names' = names \union {<<Made, r, run.states[r].gen>> : r \in DOMAIN run.states}
  /\ pending' = Made
  /\ run' = [run EXCEPT !.pc = "wait", !.late = FALSE]
  /\ UNCHANGED <<plan, active, rotating, signals, jobs, changed, admissions, draining, stopping>>

\* The session starts with the routes read at admission; what changed since
\* lands with the apply that follows setPending.
StartCycle ==
  /\ At("start")
  /\ \/ /\ life' = [life EXCEPT ![Made] = "up"]
        /\ table' = [table EXCEPT ![Made] = run.states]
        /\ names' = names \union {<<Made, r, run.states[r].gen>> : r \in DOMAIN run.states}
        /\ pending' = Made
        /\ jobs' = [jobs EXCEPT ![Run] = Applying]
        /\ run' = [run EXCEPT !.pc = "wait", !.late = FALSE]
        /\ UNCHANGED <<changed, admissions>>
     \/ /\ MayFail("start")
        /\ End(Made) /\ Retire(Made) /\ Goto("failed")
        /\ UNCHANGED <<pending, jobs>>
  /\ UNCHANGED <<plan, active, rotating, signals, draining, stopping>>

\* Mutant: the admission of a cycle that never became ready is kept.
FailCycleOnly(pc) ==
  /\ End(pending) /\ pending' = 0 /\ Goto(pc)
  /\ UNCHANGED <<plan, active, rotating, signals, jobs, admissions, draining, stopping>>

FailCycle(pc) ==
  /\ End(pending) /\ Retire(pending) /\ pending' = 0 /\ Goto(pc)
  /\ UNCHANGED <<plan, active, rotating, signals, jobs, draining, stopping>>

\* After a failed attempt: again while the old admission lasts, then without it.
Retry ==
  /\ At("failed") /\ ~(active # 0 /\ expired[active])
  /\ Goto(IF active = 0 \/ stopping THEN "top" ELSE "admit")
  /\ UNCHANGED <<plan, slots, signals, jobs, sessions, admissions, draining, stopping>>

GiveUp ==
  /\ At("failed") /\ active # 0 /\ expired[active] /\ \A a \in Actors : ~InApply(a)
  /\ End(active) /\ Retire(active)
  /\ active' = 0 /\ rotating' = FALSE
  /\ GotoUnlessRetireFails("top")
  /\ UNCHANGED <<plan, pending, signals, jobs, draining, stopping>>

\* The readiness loop reads the states of the cycle being built, ...
ReadStates ==
  /\ At("wait")
  /\ IF life[pending] = "ended" /\ ~run.late THEN FailCycle("failed")
     ELSE /\ run' = [run EXCEPT !.pc = "judge", !.states = table[pending], !.then = "gate"]
          /\ UNCHANGED <<plan, slots, signals, jobs, sessions, admissions, draining, stopping>>

\* ... withdraws the routes that are gone for good (withdrawGone), ...
Gone == {r \in DOMAIN run.states \intersect desired : run.states[r].phase = "failed"}

WithdrawGone ==
  /\ At("judge")
  /\ Goto(run.then)
  /\ \/ /\ Gone = {}
        /\ UNCHANGED <<plan, jobs>>
     \/ /\ Gone # {}
        /\ desired' = desired \ Gone
        /\ restarts' = [r \in Routes |-> IF r \in Gone THEN restarts[r] + 1 ELSE restarts[r]]
        /\ jobs' = [jobs EXCEPT ![Run] = Revoking(desired \ Gone, FALSE)]
  /\ UNCHANGED <<slots, signals, sessions, admissions, draining, stopping>>

\* ... and promotes once every route the old session still serves is serving,
\* or, at the deadline, with whatever serves (cycleServing).
Needed == Serving(Carried(active)) \intersect desired

Ready ==
  IF run.late THEN active # 0 /\ Serving(run.states) # {}
  ELSE IF Needed = {} THEN Serving(run.states) # {}
  ELSE Needed \subseteq Serving(run.states)

\* Mutant: a third session is drained beside two that still drain.
GateUnbounded ==
  /\ At("gate")
  /\ \/ /\ desired = {} /\ FailCycle("exit")
     \/ /\ desired # {} /\ ~Ready /\ run.late /\ FailCycle("failed")
     \/ /\ desired # {} /\ (Ready \/ ~run.late)
        /\ Goto(IF ~Ready THEN "block" ELSE IF active = 0 THEN "promote" ELSE "fence")
        /\ UNCHANGED <<plan, slots, signals, jobs, sessions, admissions, draining, stopping>>

\* Two drains may be under way; both are ended before a third begins.
Gate ==
  /\ At("gate")
  /\ \/ /\ desired = {} /\ FailCycle("exit")
     \/ /\ desired # {} /\ ~Ready /\ run.late /\ FailCycle("failed")
     \/ /\ desired # {} /\ (Ready \/ ~run.late) /\ ~(Ready /\ active # 0 /\ Cardinality(drains) >= 2)
        /\ Goto(IF ~Ready THEN "block" ELSE IF active = 0 THEN "promote" ELSE "fence")
        /\ UNCHANGED <<plan, slots, signals, jobs, sessions, admissions, draining, stopping>>
     \/ /\ desired # {} /\ Ready /\ active # 0 /\ Cardinality(drains) >= 2
        /\ canceled' = canceled \union drains
        /\ run' = [run EXCEPT !.pc = "settle", !.then = "fence"]
        /\ UNCHANGED <<plan, slots, signals, jobs, sessions, admissions, drains, closed, drained, drainErr, stopping>>

\* Mutant: the readiness loop waits for its session only.
AwaitSessionOnly ==
  /\ At("block")
  /\ \/ life[pending] = "ended" /\ FailCycle("failed")
     \/ /\ pending \in changed
        /\ changed' = changed \ {pending} /\ Goto("wait")
        /\ UNCHANGED <<plan, slots, signals, jobs, table, life, names, admissions, draining, stopping>>

AwaitReady ==
  /\ At("block")
  /\ \/ /\ expired[pending] \/ (active # 0 /\ expired[active]) \/ stopping
        /\ run' = [run EXCEPT !.pc = "wait", !.late = TRUE]
        /\ UNCHANGED <<plan, slots, signals, jobs, sessions, admissions, draining, stopping>>
     \/ life[pending] = "ended" /\ FailCycle("failed")
     \/ /\ pending \in changed
        /\ changed' = changed \ {pending} /\ Goto("wait")
        /\ UNCHANGED <<plan, slots, signals, jobs, table, life, names, admissions, draining, stopping>>

\* drains.start: the old session takes no more work (prepareDrain), ...
FenceOld ==
  /\ At("fence")
  /\ life' = [life EXCEPT ![active] = IF @ = "up" THEN "fenced" ELSE @]
  /\ Goto("insert")
  /\ UNCHANGED <<plan, slots, signals, jobs, table, changed, names, admissions, draining, stopping>>

\* ... then joins the drain set.
DrainOld ==
  /\ At("insert")
  /\ drains' = drains \union {active}
  /\ Goto("promote")
  /\ UNCHANGED <<plan, slots, signals, jobs, sessions, admissions, canceled, closed, drained, drainErr, stopping>>

Promote ==
  /\ At("promote")
  /\ active' = pending /\ pending' = 0 /\ rotating' = FALSE
  /\ run' = [run EXCEPT !.pc = "report", !.then = IF active = 0 THEN "check" ELSE "retain"]
  /\ UNCHANGED <<plan, signals, jobs, sessions, admissions, draining, stopping>>

ReportActive ==
  /\ At("report")
  /\ run' = [run EXCEPT !.pc = "judge", !.states = table[active]]
  /\ UNCHANGED <<plan, slots, signals, jobs, sessions, admissions, draining, stopping>>

\* Mutant: the drains are not told of the desired set after a promotion.
RetainNothing ==
  /\ At("retain")
  /\ Goto("check")
  /\ UNCHANGED <<plan, slots, signals, jobs, sessions, admissions, draining, stopping>>

RetainPromoted ==
  /\ At("retain")
  /\ RetainDrained(desired)
  /\ Goto("check")
  /\ UNCHANGED <<plan, slots, signals, jobs, sessions, admissions, drains, canceled, drained, drainErr, stopping>>

CheckEmpty ==
  /\ At("check")
  /\ Goto(IF desired = {} THEN "exit" ELSE "top")
  /\ UNCHANGED <<plan, slots, signals, jobs, sessions, admissions, draining, stopping>>

--------------------------------------------------------------------------------
(***************************************************************************)
(* Run's select on a serving cycle.                                        *)
(***************************************************************************)
Selecting == At("top") /\ active # 0

Stopped ==
  /\ Selecting /\ stopping /\ Goto("exit")
  /\ UNCHANGED <<plan, slots, signals, jobs, sessions, admissions, draining, stopping>>

DrainsChanged ==
  /\ Selecting /\ drained
  /\ drained' = FALSE /\ drainErr' = FALSE
  /\ Goto(IF drainErr THEN "exit" ELSE "top")
  /\ UNCHANGED <<plan, slots, signals, jobs, sessions, admissions, drains, canceled, closed, stopping>>

\* healDivergence takes the flag, then applies.
HealDivergence ==
  /\ divergent' = FALSE
  /\ jobs' = [jobs EXCEPT ![Run] = IF divergent THEN Healing ELSE @]

Woken ==
  /\ Selecting /\ wake
  /\ wake' = FALSE
  /\ HealDivergence
  /\ UNCHANGED <<plan, slots, run, sessions, admissions, draining, stopping>>

SessionLost ==
  /\ Selecting /\ life[active] = "ended"
  /\ active' = 0 /\ Retire(active)
  /\ GotoUnlessRetireFails("top")
  /\ UNCHANGED <<plan, pending, rotating, signals, jobs, sessions, draining, stopping>>

SessionChanged ==
  /\ Selecting /\ active \in changed
  /\ changed' = changed \ {active}
  /\ HealDivergence
  /\ run' = [run EXCEPT !.pc = "report", !.then = "check"]
  /\ UNCHANGED <<plan, slots, wake, table, life, names, admissions, draining, stopping>>

\* Mutant: rotation begins under an apply that read the flag before.
RotateUnlocked ==
  /\ Selecting
  /\ rotating' = TRUE /\ Goto("admit")
  /\ UNCHANGED <<plan, active, pending, signals, jobs, sessions, admissions, draining, stopping>>

\* The rotation timer; setRotating waits for an apply under way.
Rotate ==
  /\ Selecting /\ \A a \in Actors : ~InApply(a)
  /\ rotating' = TRUE /\ Goto("admit")
  /\ UNCHANGED <<plan, active, pending, signals, jobs, sessions, admissions, draining, stopping>>

\* Run returns: every drain is canceled, the serving cycle stopped and retired.
Exit ==
  /\ At("exit")
  /\ canceled' = canceled \union drains
  /\ active' = 0
  /\ run' = [run EXCEPT !.pc = "settle", !.then = "done"]
  /\ IF active = 0 THEN UNCHANGED <<sessions, admissions>> ELSE End(active) /\ Retire(active)
  /\ UNCHANGED <<plan, pending, rotating, signals, jobs, drains, closed, drained, drainErr, stopping>>

\* stopAndWait: for the drains to end, or not longer than its budget; their
\* errors are taken.
Settle ==
  /\ At("settle")
  /\ drains = {} \/ "timeout" \in Faults
  /\ drainErr' = FALSE
  /\ IF (drainErr \/ drains # {}) /\ run.then = "fence"
     THEN End(pending) /\ Retire(pending) /\ pending' = 0 /\ Goto("exit")
     ELSE /\ Goto(IF drainErr \/ drains # {} THEN "done" ELSE run.then)
          /\ UNCHANGED <<sessions, admissions, pending>>
  /\ UNCHANGED <<plan, active, rotating, signals, jobs, drains, canceled, closed, drained, stopping>>

--------------------------------------------------------------------------------
(***************************************************************************)
(* The drain goroutines, the sessions and the clock.                       *)
(***************************************************************************)
\* Mutant: the drain has no deadline of its own.
DrainEndsWhenCanceled(c) ==
  /\ c \in drains /\ c \in canceled /\ life[c] # "ended"
  /\ End(c)
  /\ UNCHANGED <<plan, slots, signals, jobs, run, admissions, draining, stopping>>

\* The work of a drained session is done, or its deadline or a cancellation
\* ends it.
DrainEnds(c) ==
  /\ c \in drains /\ life[c] # "ended"
  /\ End(c)
  /\ UNCHANGED <<plan, slots, signals, jobs, run, admissions, draining, stopping>>

DrainRetires(c) ==
  /\ c \in drains /\ life[c] = "ended"
  /\ Retire(c)
  /\ drains' = drains \ {c} /\ drained' = TRUE
  /\ drainErr' \in {drainErr, drainErr \/ "retire" \in Faults}
  /\ UNCHANGED <<plan, slots, signals, jobs, run, sessions, canceled, closed, stopping>>

Observe(c, r, from, to) ==
  /\ life[c] = "up" /\ r \in DOMAIN table[c] /\ table[c][r].phase = from
  /\ table' = [table EXCEPT ![c][r].phase = to]
  /\ changed' = changed \union {c}
  /\ UNCHANGED <<plan, slots, signals, jobs, run, life, names, admissions, draining, stopping>>

Lose(c) ==
  /\ "lost" \in Faults /\ life[c] \in {"up", "fenced"}
  /\ End(c)
  /\ UNCHANGED <<plan, slots, signals, jobs, run, admissions, draining, stopping>>

Expire(c) ==
  /\ Issued(c) /\ ~expired[c]
  /\ expired' = [expired EXCEPT ![c] = TRUE]
  /\ UNCHANGED <<plan, slots, signals, jobs, run, sessions, retires, draining, stopping>>

Shutdown ==
  /\ "stop" \in Faults /\ ~stopping
  /\ stopping' = TRUE
  /\ UNCHANGED <<plan, slots, signals, jobs, run, sessions, admissions, draining>>

--------------------------------------------------------------------------------
Init ==
  /\ desired \in SUBSET Routes \ {{}}
  /\ restarts = [r \in Routes |-> 0]
  /\ active = 0 /\ pending = 0 /\ rotating = FALSE
  /\ divergent = FALSE /\ wake = FALSE
  /\ jobs = [a \in Actors |-> NoJob]
  /\ run = [pc |-> "idle", states |-> <<>>, late |-> FALSE, then |-> "top"]
  /\ table = [c \in Cycles |-> <<>>]
  /\ life = [c \in Cycles |-> "none"]
  /\ changed = {} /\ names = {}
  /\ expired = [c \in Cycles |-> FALSE]
  /\ retires = [c \in Cycles |-> 0]
  /\ drains = {} /\ canceled = {} /\ closed = [c \in Cycles |-> {}]
  /\ drained = FALSE /\ drainErr = FALSE
  /\ stopping = FALSE

Apply(a) == RetainRoutes(a) \/ ApplyLock(a) \/ ApplyPending(a) \/ ApplyActive(a) \/ SignalWake(a)

Building ==
  \/ Admit \/ StartCycle \/ Retry \/ GiveUp \/ ReadStates \/ WithdrawGone \/ Gate \/ AwaitReady

Promoting ==
  FenceOld \/ DrainOld \/ Promote \/ ReportActive \/ RetainPromoted \/ CheckEmpty

Running ==
  \/ AdmitNext \/ Stopped \/ DrainsChanged \/ Woken \/ SessionLost \/ SessionChanged \/ Rotate
  \/ Exit \/ Settle

\* A call that changes nothing only applies again, as a restart does.
Calling(a) ==
  \/ \E next \in SUBSET Routes \ {{}}, different \in SUBSET Routes :
       (next # desired \/ different # {}) /\ SetRoutes(a, next, different)
  \/ \E r \in Routes : RestartRoute(a, r)

Serve(c, r)  == Observe(c, r, "pending", "serving")
Flap(c, r)   == "flap" \in Faults /\ Observe(c, r, "serving", "pending")
Refuse(c, r) ==
  "gone" \in Faults /\ \E from \in {"pending", "serving"} : Observe(c, r, from, "failed")

Environment ==
  \/ \E c \in Cycles : DrainEnds(c) \/ DrainRetires(c) \/ Lose(c) \/ Expire(c)
  \/ \E c \in Cycles, r \in Routes : Serve(c, r) \/ Flap(c, r) \/ Refuse(c, r)
  \/ Shutdown

Next ==
  \/ Begin \/ Building \/ Promoting \/ Running
  \/ \E a \in Callers : Calling(a)
  \/ \E a \in Actors : Apply(a)
  \/ Environment

Spec == Init /\ [][Next]_vars

\* Goroutines that can run do, a mutex is handed to who waits for it, a select
\* does not pass over a ready case for ever, admissions expire, and a drain's
\* deadline ends it.
LiveSpec ==
  /\ Spec
  /\ WF_vars(Building \/ Promoting \/ Exit \/ Settle \/ AdmitNext)
  /\ SF_vars(Stopped) /\ SF_vars(Woken) /\ SF_vars(SessionLost) /\ SF_vars(Rotate) /\ SF_vars(GiveUp)
  /\ \A a \in Actors : WF_vars(RetainRoutes(a) \/ ApplyPending(a) \/ ApplyActive(a) \/ SignalWake(a)) /\ SF_vars(ApplyLock(a))
  /\ \A c \in Cycles :
       /\ WF_vars(Expire(c))
       /\ WF_vars((expired[c] \/ c \in canceled) /\ DrainEnds(c)) /\ WF_vars(DrainRetires(c))

--------------------------------------------------------------------------------
\* Every admission is retired exactly once, and not before the runner has let
\* go of it: whatever ends a cycle, a slot or a drain still holds it or it was
\* retired (failCycle, stopCycle, cycleDrainSet.start).  Only a drain that ends
\* before the promotion retires the cycle the promotion is about to replace.
RetiredOnce ==
  \A c \in Cycles :
    /\ retires[c] <= 1
    /\ retires[c] = 0 /\ Issued(c) => c \in {active, pending} \union drains \/ life[c] = "made"
    /\ retires[c] = 1 => c # pending /\ c \notin drains /\ (c = active => run.pc = "promote")

SessionsAgree ==
  (/\ active # 0 /\ ~rotating /\ ~divergent /\ ~stopping /\ life[active] = "up"
   /\ \A a \in Actors : jobs[a].step = "none"
   /\ run.pc = "top")
  => [r \in DOMAIN table[active] |-> table[active][r].gen] = Wanted

DivergenceNoticed ==
  divergent /\ ~stopping => wake \/ \E a \in Callers : jobs[a].step = "wake"

\* With no call under way and nothing left to heal, a serving session carries
\* the desired set under the generations it asks for, however calls, rotations
\* and promotions overlapped (apply, startCycleAttempt).  A change that could
\* not be applied is not forgotten: until Run has taken it up a wake is due, so
\* Run cannot wait for its next rotation with the sessions behind (applyAndWake,
\* healDivergence).
Converged == SessionsAgree /\ DivergenceNoticed

\* Once a promotion is complete, no retired session keeps working for a route
\* that has left the group ("Removed routes revoke existing work even after
\* routing has been withdrawn.", group_frp.go:1049).
RemovedWorkEnds ==
  (run.pc \in {"top", "admit", "block"} /\ \A a \in Actors : jobs[a].step # "retain") =>
    \A c \in drains : life[c] = "fenced" => DOMAIN table[c] \ closed[c] \subseteq desired

\* At most two retired sessions hold a control connection beside the serving
\* one and its replacement (cycleDrainSet.start).
DrainsBounded == Cardinality(drains) <= 2

NeverRenewed(c) ==
  \A r \in DOMAIN table'[c] :
    (r \notin DOMAIN table[c] \/ table[c][r].gen # table'[c][r].gen)
      => <<c, r, table'[c][r].gen>> \notin names

OnlyLoses(c) ==
  \A r \in DOMAIN table'[c] : r \in DOMAIN table[c] /\ table'[c][r].gen = table[c][r].gen

\* A session gets a route only under a name it never had before: what leaves
\* its table comes back under another generation (SetRoutes, withdrawGone).
\* While it is being replaced it gets none (apply, setRotating).
RegistersAfresh ==
  [][/\ \A c \in Cycles : NeverRenewed(c)
     /\ rotating /\ active # 0 /\ active' = active => OnlyLoses(active)]_vars

\* An admission does not outlive its window: when it has passed, its session
\* is stopped and it is retired (cycleDrain's deadline, Run's rotation).
ExpiredIsRetired ==
  \A c \in Cycles : expired[c] ~> retires[c] > 0

\* Run returns once its context has ended, wherever it was.
ShutdownEnds == stopping ~> run.pc \in {"idle", "done"}

--------------------------------------------------------------------------------
\* "A replacement must first carry every route the old session is still
\* serving, so promotion never regresses a route that was up." (group.go:850-852):
\* unless the old admission expires first, every route of the group that serves
\* on the session being replaced serves on its replacement when it takes over.
PromotionKeepsServing ==
  [][active # 0 /\ active' = pending /\ pending # 0 /\ ~run.late
       => \A r \in desired \intersect DOMAIN table[active] :
            table[active][r].phase = "serving" =>
              r \in DOMAIN table[pending] /\ table[pending][r].phase = "serving"]_vars

\* "RouteFailed is terminal for this proxy registration" (group_frp.go:146), and
\* a route removed and added again "registers under a fresh proxy name so the
\* server sees a new NewProxy rather than the stale one" (group.go:544-547): a
\* route is withdrawn on the refusal of the registration it has, never on that
\* of an earlier one.
WithdrawnWasRefused ==
  [][WithdrawGone => \A r \in desired \ desired' : run.states[r].gen = restarts[r]]_vars
================================================================================
