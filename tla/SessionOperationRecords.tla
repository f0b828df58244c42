------------------------ MODULE SessionOperationRecords ------------------------
(***************************************************************************)
(* The durable record of one native admission (SessionOperationRecord of   *)
(* pkg/agentstate) and the three judgements the code passes on records:    *)
(* which records are well formed, which replacement the journal accepts,   *)
(* and which record a recovery that lost an optimistic write recognises as *)
(* the legitimate work of a competitor.                                    *)
(*                                                                         *)
(* What identifies an operation (operation ID, owner, resource, run, cell, *)
(* expiry) never changes; here it is the operation itself, its cell and    *)
(* its expiry.  The receipt of an admission is a function of the operation *)
(* (CellID, RunID, RunAttempt and a server session), so a record only says *)
(* whether it holds it.                                                    *)
(***************************************************************************)
EXTENDS Integers

CONSTANTS
  Endpoints,   \* NHP server endpoints (host and server key) a record may pin
  Cells,       \* cells; each holds its own durable operation store
  CellOf       \* the cell an endpoint serves

ASSUME CellsAssumption == CellOf \in [Endpoints -> Cells]

Status == {"PREPARED", "DISPATCHING", "MAPPED", "CLOSING", "CANCELED", "CLOSED"}
Terminal == {"CANCELED", "CLOSED"}
WithAdmission == {"MAPPED", "CLOSING", "CLOSED"}

Record ==
  [status: Status, admission: BOOLEAN, endpoint: Endpoints, cell: Cells,
   expires: Nat, attempt: Nat, notBefore: Nat, noReply: Nat]

Absent == [status |-> "ABSENT"]

NewRecord(endpoint, expires) ==
  [status |-> "PREPARED", admission |-> FALSE, endpoint |-> endpoint,
   cell |-> CellOf[endpoint], expires |-> expires,
   attempt |-> 0, notBefore |-> 0, noReply |-> 0]

ValidRecord(r) ==
  /\ (r.attempt = 0) <=> (r.notBefore = 0)
  /\ r.noReply <= r.attempt
  /\ r.admission <=> r.status \in WithAdmission

(***************************************************************************)
(* What TransitionSessionOperation accepts.                                *)
(***************************************************************************)
SameOperation(prev, next) == prev.cell = next.cell /\ prev.expires = next.expires

KeepsAdmission(prev, next) == prev.admission => next.admission

NoRegress(prev, next) ==
  /\ next.attempt >= prev.attempt
  /\ next.notBefore >= prev.notBefore
  /\ next.noReply >= prev.noReply

RecoveryProgress(prev, next) ==
  LET attempts == next.attempt - prev.attempt
      failures == next.noReply - prev.noReply
  IN  /\ NoRegress(prev, next)
      /\ \/ attempts = 0 /\ failures = 0 /\ next.notBefore = prev.notBefore
         \/ /\ <<attempts, failures>> \in {<<1, 0>>, <<0, 1>>}
            /\ next.notBefore > prev.notBefore

Transitions ==
  {<<"PREPARED", "DISPATCHING">>, <<"PREPARED", "CANCELED">>}
  \union {"DISPATCHING"} \X {"DISPATCHING", "MAPPED", "CANCELED", "CLOSING", "CLOSED"}
  \union {"MAPPED", "CLOSING"} \X {"CLOSING", "CLOSED"}

ValidTransition(prev, next) ==
  /\ ValidRecord(prev) /\ ValidRecord(next)
  /\ SameOperation(prev, next)
  /\ KeepsAdmission(prev, next)
  /\ RecoveryProgress(prev, next)
  /\ <<prev.status, next.status>> \in Transitions

(***************************************************************************)
(* What a recovery that lost a compare-and-swap accepts as progress.  A    *)
(* PREPARED record may only have been cancelled by a competitor: being     *)
(* dispatched after recovery chose to cancel it is a different intent.     *)
(***************************************************************************)
ReachableWithoutCancel ==   \* mutant: the code forgets a case
  {"DISPATCHING"} \X {"DISPATCHING", "MAPPED", "CLOSING", "CLOSED"}
  \union {"MAPPED", "CLOSING"} \X {"CLOSING", "CLOSED"}

Reachable ==
  {<<"PREPARED", "CANCELED">>}
  \union {"DISPATCHING"} \X {"DISPATCHING", "MAPPED", "CLOSING", "CANCELED", "CLOSED"}
  \union {"MAPPED", "CLOSING"} \X {"CLOSING", "CLOSED"}

MonotonicAdvance(prev, cur) ==
  LET counted == cur.attempt > prev.attempt \/ cur.noReply > prev.noReply
  IN  /\ SameOperation(prev, cur)
      /\ NoRegress(prev, cur)
      /\ counted => cur.notBefore > prev.notBefore
      /\ ~counted => cur.notBefore = prev.notBefore
      /\ KeepsAdmission(prev, cur)
      /\ cur.admission <=> cur.status \in WithAdmission
      /\ <<prev.status, cur.status>> \in Reachable
      /\ \/ cur.status # prev.status
         \/ counted
         \/ cur.endpoint # prev.endpoint
         \/ cur.admission # prev.admission
================================================================================
