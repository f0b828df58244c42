----------------------- MODULE MCNativeSessionOperations -----------------------
(***************************************************************************)
(* Instances of NativeSessionOperations for TLC.  One tick of the clock is *)
(* one RecoveryMaxDelay (two seconds); delays below it count as one tick.  *)
(***************************************************************************)
EXTENDS NativeSessionOperations, TLC

CONSTANTS a1, a2, b1, A, B

MCCellOf == [e \in Endpoints |-> IF e = b1 THEN B ELSE A]

MCRecoveryBackoff == [n \in 1..MaxAttempts |-> RecoveryMaxDelay]
MCNoReplyBackoff ==
  [n \in 1..MaxAttempts |-> IF n = 1 THEN 2 * RecoveryMaxDelay ELSE NoReplyMaxDelay]

\* The endpoints of one cell are alike.
RaceSymmetry == Permutations(Procs) \union Permutations({a1, a2})
RollSymmetry == Permutations(Ops) \union Permutations({a1, a2})

\* silences and packets are histories that no action reads: a run that does not
\* ask about one need not tell states apart by it.
WithoutSilences == <<durable, proc, host, network, packets, abandoned>>
WithoutPackets == <<durable, proc, host, network, silences, abandoned>>

\* The cell moves to another endpoint around the first recovery attempt, while
\* the processes recover what a crash left; a record that was not pinned there
\* by then meets no second attempt, and one that was is not given up.
MovesOnce ==
  /\ \/ assigned \in alive /\ \A o \in Ops : journal[o] # Absent => journal[o].endpoint = assigned
     \/ /\ clock = 0 /\ \A o \in Ops : journal[o] # Absent => journal[o].attempt > 0
        /\ \A p \in Procs : proc[p].task \in {"none", "orphans"}
  /\ \A o \in Ops : {k[2] : k \in packets[o]} = {a1, a2} =>
       /\ \A p \in Procs : proc[p].task \in {"none", "orphans"}
       /\ journal[o] # Absent => journal[o].noReply = 0

\* An admission under way meets at most one recovery attempt of the others.
AdmitsEarly ==
  \A o \in Ops : journal[o] # Absent /\ journal[o].attempt > 1 =>
    \A p \in Procs : proc[p].task # "admit"

\* A second operation is explored at one time, in one cell, at an endpoint that
\* answers and without an unanswered recovery attempt before it; a third one
\* before any attempt of the operations the journal holds.
Handover ==
  Cardinality(issued) > 1 =>
    /\ clock = 0 /\ CellOf[assigned] = A /\ assigned \in alive
    /\ \A o \in Ops : journal[o] # Absent => journal[o].attempt <= 1
    /\ \A o \in Ops : silences[o] = {}
    /\ Cardinality(issued) > 2 =>
         \A o \in Ops : journal[o] # Absent => journal[o].attempt = 0
================================================================================
