---------------------------- MODULE MCSessionGroup ----------------------------
(***************************************************************************)
(* Instances of SessionGroup for TLC.                                      *)
(***************************************************************************)
EXTENDS SessionGroup, TLC

RouteSymmetry == Permutations(Routes)
CallerSymmetry == Permutations(Callers)

\* What later steps and the safety properties can still tell apart: of a cycle
\* that is neither in a slot nor drained, only how it ended; of Run's locals,
\* only those its place still reads.
Held == Cycles \intersect ({active, pending} \union drains)
Relevant ==
  [table    |-> [c \in Held |-> IF c \in drains /\ life[c] = "ended" THEN {} ELSE table[c]],
   closed   |-> [c \in Held \intersect drains |-> closed[c]],
   changed  |-> changed \intersect {active, pending},
   expired  |-> {c \in Cycles : expired[c] /\ (c \in {active, pending} \/ life[c] = "made")},
   names    |-> {n \in names : n[1] \in {active, pending}},
   states   |-> IF run.pc \in {"start", "judge", "gate"} THEN run.states ELSE {},
   late     |-> run.late /\ run.pc \in {"wait", "judge", "gate", "fence", "insert", "promote"},
   then     |-> IF run.pc \in {"judge", "report", "settle"} THEN run.then ELSE run.pc,
   pc       |-> run.pc]

View == <<plan, slots, signals, jobs, Relevant, life, retires, drains, drained, drainErr, stopping>>

CONSTANT Second  \* routes beside the one the callers and failures meet

\* Late cycles are explored without edits of the routes, and further routes
\* beside an unchanged one, with one caller at a time whose context lasts, two
\* cycles and no refusal.
EditsOrCycles ==
  /\ (\A c \in Cycles : c > 2 => life[c] = "none") \/ \A r \in Routes : restarts[r] = 0
  /\ (\E r \in Second : r \in desired \/ restarts[r] > 0) =>
       /\ \A c \in Cycles : c > 2 => life[c] = "none"
       /\ \E a \in Callers : jobs[a].step = "none"
       /\ ~divergent /\ ~stopping
       /\ \A r \in Routes \ Second : r \in desired /\ restarts[r] = 0
       /\ \A c \in Cycles : \A r \in DOMAIN table[c] : table[c][r].phase # "failed"
================================================================================
