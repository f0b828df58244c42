-------------------- MODULE NativeSessionOperations_proofs --------------------
(***************************************************************************)
(* Theorems about NativeSessionOperations, for every set of processes,     *)
(* operations, endpoints and cells, every backoff table and every bound:   *)
(* records, cells and packets first; then Custody and its refinement, that *)
(* what the journal keeps answers for every session the server may hold.   *)
(***************************************************************************)
EXTENDS NativeSessionOperations, TLAPS, FiniteSetTheorems

--------------------------------------------------------------------------------
(***************************************************************************)
(* Facts about records.                                                    *)
(***************************************************************************)
\* What the journal lets replace a record is, except for the dispatch of a
\* PREPARED one and a pure rewrite, what a recovery that lost the race accepts
\* as progress: validSessionOperationTransition and
\* monotonicSessionOperationAdvance agree.
THEOREM TransitionIsProgress ==
  ASSUME NEW r \in Record, NEW n \in Record, ValidTransition(r, n),
         r.status # "PREPARED",
         \/ n.status # r.status \/ n.attempt # r.attempt \/ n.noReply # r.noReply
         \/ n.endpoint # r.endpoint
  PROVE  MonotonicAdvance(r, n)
BY DEF ValidTransition, MonotonicAdvance, Record, ValidRecord, SameOperation, KeepsAdmission,
       NoRegress, RecoveryProgress, Transitions, Reachable, WithAdmission, Status

\* Progress composes: however many writes competitors made in between, the
\* record they left is still progress over the one recovery held, or that
\* very record.
THEOREM ProgressComposes ==
  ASSUME NEW r \in Record, NEW m \in Record, NEW n \in Record,
         r.status # "PREPARED",
         m = r \/ MonotonicAdvance(r, m), ValidTransition(m, n)
  PROVE  n = r \/ MonotonicAdvance(r, n)
BY DEF ValidTransition, MonotonicAdvance, Record, ValidRecord, SameOperation, KeepsAdmission,
       NoRegress, RecoveryProgress, Transitions, Reachable, WithAdmission, Status

--------------------------------------------------------------------------------
(***************************************************************************)
(* Type correctness and cell fencing.  TypeOK is not inductive: a process  *)
(* acts on the record it holds, so the invariant adds that a process that  *)
(* is about to write holds a record, of the cell its endpoint serves, with *)
(* an attempt counter inside the bound.                                    *)
(***************************************************************************)
Resting == {"idle", "sweep", "pendings", "prepare"}
Holding ==
  {"dispatch", "mapWrite", "cancel", "closing", "gate", "attempt", "exchange",
   "silent", "pin", "unexpected", "count", "finish", "delete", "reconcile"}

Sane(r) == r \in Record /\ r.attempt <= MaxAttempts /\ CellOf[r.endpoint] = r.cell

Sound(s) ==
  /\ s \in Process
  /\ s.pc \notin Resting => s.op \in Ops
  /\ s.pc \in Holding => Sane(s.held)
  /\ s.pc = "pin" => Sane(s.moved)

ProcsSound == proc \in [Procs -> Process] /\ \A p \in Procs : Sound(proc[p])

JournalSane ==
  /\ journal \in [Ops -> Record \union {Absent}]
  /\ \A o \in Ops : journal[o] # Absent => Sane(journal[o])

RestTyped ==
  /\ issued \subseteq Ops
  /\ clock \in Nat /\ settled \in BOOLEAN
  /\ assigned \in Endpoints /\ alive \subseteq Endpoints /\ gone \in BOOLEAN
  /\ server \in [Ops -> {"unknown", "open", "ended"}]
  /\ knocks \subseteq Ops /\ acks \subseteq Ops /\ abandoned \subseteq Ops
  /\ packets \in [Ops -> SUBSET (Nat \X Endpoints)] /\ silences \in [Ops -> SUBSET Nat]

Sanity == ProcsSound /\ JournalSane /\ RestTyped

\* The constants of session_operation.go are naturals, and so is every delay.
LEMMA Bounds ==
  /\ MaxRecords \in Nat /\ AbandonAttempts \in Nat /\ MaxAttempts \in Nat
  /\ MaxRecords > 0 /\ AbandonAttempts > 0 /\ MaxAttempts > 0
  /\ Lifetime \in Nat /\ AbandonMargin \in Nat /\ RecoveryMaxDelay \in Nat
  /\ NoReplyMaxDelay \in Nat /\ MaxClock \in Nat
  /\ \A n \in 1..MaxAttempts : RecoveryBackoff[n] \in Nat /\ NoReplyBackoff[n] \in Nat
BY OperationsAssumption

\* The record updates recovery makes (attempt, endpoint, status, admission) give
\* well-formed records.
LEMMA UpdatesAreSane ==
  ASSUME NEW r, Sane(r)
  PROVE  /\ \A a \in Nat, b \in Nat :
              a <= MaxAttempts => Sane([r EXCEPT !.attempt = a, !.notBefore = b])
         /\ \A c \in Nat, b \in Nat : Sane([r EXCEPT !.noReply = c, !.notBefore = b])
         /\ \A e \in Endpoints : CellOf[e] = r.cell => Sane([r EXCEPT !.endpoint = e])
         /\ \A st \in Status : Sane([r EXCEPT !.status = st])
<1>1. ASSUME NEW a \in Nat, NEW b \in Nat, a <= MaxAttempts
      PROVE  Sane([r EXCEPT !.attempt = a, !.notBefore = b])
  BY <1>1 DEF Sane, Record
<1>2. ASSUME NEW c \in Nat, NEW b \in Nat PROVE Sane([r EXCEPT !.noReply = c, !.notBefore = b])
  BY DEF Sane, Record
<1>3. ASSUME NEW e \in Endpoints, CellOf[e] = r.cell PROVE Sane([r EXCEPT !.endpoint = e])
  BY <1>3 DEF Sane, Record
<1>4. ASSUME NEW st \in Status PROVE Sane([r EXCEPT !.status = st])
  BY DEF Sane, Record
<1> QED BY <1>1, <1>2, <1>3, <1>4

\* A missing journal entry is told apart from every record.
LEMMA AbsentIsNoRecord == Absent \notin Record
BY DEF Absent, Record, Status

\* However a call ends, what the process keeps is well formed.
LEMMA EndingsAreSound ==
  ASSUME NEW s \in Process
  PROVE  /\ Sound(Rest(s)) /\ Sound(Fail(s)) /\ Sound(Refuse(s)) /\ Sound(Succeed(s))
         /\ s.op \in Ops => Sound(Cleanup(s)) /\ Sound(Reload(s))
         /\ s.op \in Ops /\ Sane(s.held) => Sound(Reconcile(s))
<1>0. /\ {"idle", "sweep", "pendings", "load", "reconcile"} \subseteq Steps
      /\ {"none", "cleanup"} \subseteq Tasks /\ "none" \in Replies
      /\ {"none", "permanent", "retryable"} = Faults
  BY DEF Steps, Tasks, Replies, Faults
<1>1. \A t \in Process : Rest(t) \in Process /\ Rest(t).pc = "idle"
  BY <1>0 DEF Rest, Process
<1>2. ASSUME NEW f \in Faults PROVE Swept(s, f) \in Process /\ Swept(s, f).pc = "sweep"
  <2>1. Worse(s.fault, f) \in Faults
    BY <1>0 DEF Worse, Process
  <2>2. s.todo \ {s.op} \in SUBSET Ops /\ s.task \in Tasks
    BY DEF Process
  <2>3. Rest(s) \in Process
    BY <1>1
  <2> QED BY <1>0, <2>1, <2>2, <2>3 DEF Swept, Process
<1>3. ASSUME NEW f \in Faults PROVE Ends(s, f) \in Process /\ Ends(s, f).pc \in Resting
  <2>1. \A b \in BOOLEAN : [Rest(s) EXCEPT !.queued = b] \in Process
                           /\ [Rest(s) EXCEPT !.queued = b].pc = "idle"
    BY <1>1 DEF Process
  <2> QED BY <1>1, <1>2, <2>1 DEF Ends, Resting
<1>4. Retired(s) \in Process
  <2>1. s.live \ {s.op} \in SUBSET Ops /\ s.pending \ {s.op} \in SUBSET Ops
    BY DEF Process
  <2> QED BY <2>1 DEF Retired, Process
<1>5. Succeed(s) \in Process /\ Succeed(s).pc \in Resting
  <2>1. \A t \in Process, task \in Tasks :
          /\ [t EXCEPT !.pc = "pendings", !.task = task] \in Process
          /\ [t EXCEPT !.pc = "pendings", !.task = task].pc = "pendings"
    BY <1>0 DEF Process
  <2>2. s.task \in Tasks
    BY DEF Process
  <2> QED BY <1>0, <1>1, <1>2, <1>4, <2>1, <2>2, ZenonT(60) DEF Succeed, Resting
<1>6. s.op \in Ops => Sound(Cleanup(s)) /\ Sound(Reload(s))
  BY <1>0 DEF Cleanup, Reload, Sound, Process, Holding
<1>7. s.op \in Ops /\ Sane(s.held) => Sound(Reconcile(s))
  BY <1>0 DEF Reconcile, Sound, Process
<1>8. \A t \in Process : t.pc \in Resting => Sound(t)
  BY DEF Sound, Resting, Holding
<1>9. \A f \in Faults : Sound(Ends(s, f))
  BY <1>3, <1>8
<1> QED BY <1>0, <1>1, <1>5, <1>6, <1>7, <1>8, <1>9 DEF Fail, Refuse, Resting

\* The steps, tasks and replies the actions of the admitter name exist.
LEMMA Vocabulary ==
  /\ "idle" \in Steps /\ "sweep" \in Steps /\ "pendings" \in Steps /\ "prepare" \in Steps
  /\ "dispatch" \in Steps /\ "knock" \in Steps /\ "knocking" \in Steps /\ "mapLoad" \in Steps
  /\ "mapWrite" \in Steps /\ "track" \in Steps /\ "retire" \in Steps /\ "load" \in Steps
  /\ "cancel" \in Steps /\ "closing" \in Steps /\ "gate" \in Steps /\ "attempt" \in Steps
  /\ "exchange" \in Steps /\ "silent" \in Steps /\ "pin" \in Steps /\ "unexpected" \in Steps
  /\ "count" \in Steps /\ "finish" \in Steps /\ "delete" \in Steps /\ "reconcile" \in Steps
  /\ "none" \in Tasks /\ "orphans" \in Tasks /\ "admit" \in Tasks /\ "pendings" \in Tasks
  /\ "queue" \in Tasks /\ "knock" \in Tasks /\ "cleanup" \in Tasks /\ "retire" \in Tasks
  /\ "none" \in Faults /\ "none" \in Replies /\ "silent" \in Replies /\ "unsent" \in Replies
  /\ "complete" \in Replies
BY DEF Steps, Tasks, Faults, Replies

\* A restarted process (NativeAdmitter before its first call) is well formed.
LEMMA FreshIsSound == Sound(Fresh)
BY Vocabulary DEF Fresh, Sound, Process, Resting, Holding

\* A step of one process leaves the volatile state of the others as it was.
LEMMA BecomeIsSound ==
  ASSUME ProcsSound, NEW p \in Procs, NEW s, Sound(s), Become(p, s)
  PROVE  ProcsSound'
BY DEF ProcsSound, Become, Sound

\* Whatever a locked write does, the journal and the process stay well formed.
LEMMA WriteIsSound ==
  ASSUME ProcsSound, JournalSane, NEW p \in Procs, NEW next, NEW done, NEW lost, NEW err,
         proc[p].op \in Ops,
         Legal(proc[p].held, next) => Sound(done) /\ (next = Absent \/ Sane(next)),
         Sound(lost), Sound(err),
         Write(p, next, done, lost, err)
  PROVE  ProcsSound' /\ JournalSane'
<1>1. CASE UNCHANGED journal /\ (Become(p, lost) \/ Become(p, err))
  BY <1>1, BecomeIsSound DEF JournalSane
<1>2. CASE /\ Legal(proc[p].held, next)
           /\ journal' = [journal EXCEPT ![proc[p].op] = next]
           /\ Become(p, done) \/ Become(p, err)
  <2>1. ProcsSound'
    BY <1>2, BecomeIsSound
  <2>2. JournalSane'
    BY <1>2 DEF JournalSane, Sane
  <2> QED BY <2>1, <2>2
<1> QED BY <1>1, <1>2 DEF Write

\* Every step of the admission and retirement paths keeps Sanity.
LEMMA AdmittingIsSane ==
  ASSUME Sanity, NEW p \in Procs, Admitting(p) \/ RecoverPending(p, "orphans")
  PROVE  Sanity'
<1> USE CellsAssumption, Bounds
<1> DEFINE s == proc[p]
<1>0. s \in Process /\ Sound(s)
  BY DEF Sanity, ProcsSound
<1> USE DEF At
<1>1. ASSUME NEW task \in {"orphans", "admit"}, RecoverPending(p, task) PROVE Sanity'
  <2>1. {o \in Ops : journal[o] # Absent} \ s.live \in SUBSET Ops
    OBVIOUS
  <2>2. task \in Tasks
    BY Vocabulary
  <2>3. \A todo \in SUBSET Ops :
          Sound([s EXCEPT !.pc = "sweep", !.task = task, !.todo = todo])
    BY <1>0, <2>2, Vocabulary DEF Sound, Process, Resting, Holding
  <2> QED BY <1>1, <2>1, <2>3, BecomeIsSound
       DEF RecoverPending, Sanity, RestTyped, JournalSane, durable, host, network, history
<1>2. CASE CreateOperation(p)
  <2> DEFINE record == NewRecord(assigned, clock + Lifetime)
  <2>1. record \in Record /\ record.attempt = 0 /\ CellOf[record.endpoint] = record.cell
    BY DEF NewRecord, Record, Status, Sanity, RestTyped
  <2>2. Sane(record)
    BY <2>1 DEF Sane
  <2>3. \A o \in Ops : Sound([s EXCEPT !.pc = "dispatch", !.op = o, !.held = record])
    <3> HIDE DEF record
    <3> QED BY <1>0, <2>1, <2>2, Vocabulary DEF Sound, Process
  <2>4. Sound(Fail(s))
    BY <1>0, EndingsAreSound
  <2> HIDE DEF record
  <2>5. ASSUME NEW o \in Ops, journal' = [journal EXCEPT ![o] = record] PROVE JournalSane'
    BY <2>1, <2>2, <2>5 DEF Sanity, JournalSane
  <2>6. ProcsSound' /\ JournalSane' /\ issued' \subseteq Ops
    BY <1>2, <2>3, <2>4, <2>5, BecomeIsSound
    DEF CreateOperation, record, Sanity, RestTyped, JournalSane, durable
  <2> QED BY <1>2, <2>6 DEF CreateOperation, Sanity, RestTyped, host, network, history
<1>3. CASE PersistDispatching(p)
  <2>1. s.pc = "dispatch" /\ s.op \in Ops /\ Sane(s.held)
    BY <1>0, <1>3 DEF PersistDispatching, Sound, Resting, Holding
  <2>2. Sane([s.held EXCEPT !.status = "DISPATCHING"])
    BY <2>1 DEF Sane, Record, Status
  <2>3. Sound([s EXCEPT !.pc = "knock", !.held = Absent])
    BY <1>0, <2>1, Vocabulary DEF Sound, Process, Resting, Holding
  <2>4. Sound(Fail(s))
    BY <1>0, EndingsAreSound
  <2>5. ProcsSound' /\ JournalSane'
    BY <1>3, <2>1, <2>2, <2>3, <2>4, WriteIsSound DEF PersistDispatching, Sanity
  <2> QED BY <1>3, <2>5 DEF PersistDispatching, Sanity, RestTyped, host, network, history
<1>4. CASE SendKnock(p)
  <2>1. s.op \in Ops /\ Sound([s EXCEPT !.pc = "knocking"])
    BY <1>0, <1>4, Vocabulary DEF SendKnock, Sound, Process, Resting, Holding
  <2>2. ProcsSound'
    BY <1>4, <2>1, BecomeIsSound DEF SendKnock, Sanity
  <2> QED BY <1>4, <2>1, <2>2 DEF SendKnock, Sanity, RestTyped, JournalSane, durable, host, history
<1>5. CASE KnockReturns(p)
  <2>1. Sound([s EXCEPT !.pc = "mapLoad"]) /\ Sound(Cleanup(s))
    BY <1>0, <1>5, Vocabulary, EndingsAreSound DEF KnockReturns, Sound, Process, Resting, Holding
  <2>2. ProcsSound'
    BY <1>5, <2>1, BecomeIsSound DEF KnockReturns, Sanity
  <2> QED BY <1>5, <2>2
       DEF KnockReturns, Sanity, RestTyped, JournalSane, durable, host, network, history
<1>6. CASE RecordMapped(p)
  <2>1. s.op \in Ops /\ Sound(Cleanup(s))
    BY <1>0, <1>6, EndingsAreSound DEF RecordMapped, Sound, Resting
  <2>2. CASE s.pc = "mapLoad"
    <3>1. ASSUME journal[s.op].status = "DISPATCHING"
          PROVE  Sound([s EXCEPT !.pc = "mapWrite", !.held = journal[s.op]])
      <4>1. Sane(journal[s.op]) /\ journal[s.op] \in Record \union {Absent}
        BY <2>1, <3>1 DEF Absent, Sanity, JournalSane
      <4> QED BY <1>0, <2>1, <4>1, Vocabulary DEF Sound, Process, Resting
    <3>2. ProcsSound'
      BY <1>6, <2>1, <2>2, <3>1, BecomeIsSound DEF RecordMapped, Sanity
    <3> QED BY <1>6, <2>2, <3>2
         DEF RecordMapped, Sanity, RestTyped, JournalSane, durable, host, network, history
  <2>3. CASE s.pc = "mapWrite"
    <3>1. Sane(s.held)
      BY <1>0, <2>3 DEF Sound, Holding
    <3>2. Sane([s.held EXCEPT !.status = "MAPPED", !.admission = TRUE])
      BY <3>1 DEF Sane, Record, Status
    <3>3. Sound([s EXCEPT !.pc = "track", !.held = Absent])
      BY <1>0, <2>1, Vocabulary DEF Sound, Process, Resting, Holding
    <3>4. ProcsSound' /\ JournalSane'
      BY <1>6, <2>1, <2>3, <3>1, <3>2, <3>3, WriteIsSound DEF RecordMapped, Sanity
    <3> QED BY <1>6, <2>3, <3>4 DEF RecordMapped, Sanity, RestTyped, host, network, history
  <2> QED BY <1>6, <2>2, <2>3 DEF RecordMapped
<1>7. CASE TrackAdmission(p)
  <2> DEFINE t == [s EXCEPT !.live = @ \union {s.op}]
  <2>1. s.op \in Ops /\ s.live \union {s.op} \in SUBSET Ops /\ s.pending \union {s.op} \in SUBSET Ops
    BY <1>0, <1>7 DEF TrackAdmission, Sound, Process, Resting
  <2>2. t \in Process /\ t.op = s.op /\ t.pending = s.pending
    BY <1>0, <2>1 DEF Process
  <2>3. t.pending \union {t.op} \in SUBSET Ops
    BY <2>1, <2>2
  <2>4. Sound(Rest(t))
    BY <2>2, EndingsAreSound
  <2>5. Sound([t EXCEPT !.pc = "retire", !.task = "retire", !.pending = @ \union {t.op}])
    <3> HIDE DEF t
    <3> QED BY <2>1, <2>2, <2>3, Vocabulary DEF Sound, Process, Resting, Holding
  <2>7. Sound(Cleanup(s))
    BY <1>0, <2>1, EndingsAreSound
  <2>6. ProcsSound'
    BY <1>7, <2>4, <2>5, <2>7, BecomeIsSound DEF TrackAdmission, Sanity
  <2> QED BY <1>7, <2>6
       DEF TrackAdmission, Sanity, RestTyped, JournalSane, durable, host, network, history
<1> QED BY <1>1, <1>2, <1>3, <1>4, <1>5, <1>6, <1>7 DEF Admitting

\* Every step of Retire and of the queued-retirement worker keeps Sanity.
LEMMA RetiringIsSane ==
  ASSUME Sanity, NEW p \in Procs, Retiring(p)
  PROVE  Sanity'
<1> DEFINE s == proc[p]
<1>0. s \in Process /\ Sound(s)
  BY DEF Sanity, ProcsSound
<1> USE DEF At
<1>1. CASE RetireAdmission(p)
  <2>1. ASSUME NEW o \in s.live
        PROVE  Sound([s EXCEPT !.pc = "retire", !.task = "retire", !.op = o,
                               !.pending = @ \union {o}])
    <3>1. o \in Ops /\ s.pending \union {o} \in SUBSET Ops
      BY <1>0 DEF Process
    <3> QED BY <1>0, <3>1, Vocabulary DEF Sound, Process, Resting, Holding
  <2>2. ProcsSound'
    BY <1>1, <2>1, BecomeIsSound DEF RetireAdmission, Sanity
  <2> QED BY <1>1, <2>2
       DEF RetireAdmission, Sanity, RestTyped, JournalSane, durable, host, network, history
<1>2. CASE RecoverQueued(p)
  <2>1. Sound([s EXCEPT !.pc = "pendings", !.task = "queue"])
    BY <1>0, Vocabulary DEF Sound, Process, Resting, Holding
  <2>2. ProcsSound'
    BY <1>2, <2>1, BecomeIsSound DEF RecoverQueued, Sanity
  <2> QED BY <1>2, <2>2
       DEF RecoverQueued, Sanity, RestTyped, JournalSane, durable, host, network, history
<1>3. CASE RetirePendingForResource(p)
  <2>1. \A o \in s.pending : Sound([s EXCEPT !.pc = "retire", !.op = o])
    BY <1>0, Vocabulary DEF Sound, Process, Resting, Holding
  <2>2. Sound([s EXCEPT !.pc = "prepare", !.task = "knock"])
    BY <1>0, Vocabulary DEF Sound, Process, Resting, Holding
  <2>3. Sound([Rest(s) EXCEPT !.queued = FALSE])
    <3>1. Rest(s) \in Process /\ Rest(s).pc = "idle"
      BY <1>0, EndingsAreSound DEF Rest, Sound
    <3> QED BY <3>1 DEF Sound, Process, Resting, Holding
  <2>4. ProcsSound'
    BY <1>3, <2>1, <2>2, <2>3, BecomeIsSound DEF RetirePendingForResource, Sanity
  <2> QED BY <1>3, <2>4
       DEF RetirePendingForResource, Sanity, RestTyped, JournalSane, durable, host, network, history
<1>4. CASE Retire(p)
  <2>1. Sound([s EXCEPT !.pc = "load"])
    BY <1>0, <1>4, Vocabulary DEF Retire, Sound, Process, Resting, Holding
  <2>2. ProcsSound'
    BY <1>0, <1>4, <2>1, EndingsAreSound, BecomeIsSound DEF Retire, Sanity
  <2> QED BY <1>4, <2>2
       DEF Retire, Sanity, RestTyped, JournalSane, durable, host, network, history
<1> QED BY <1>1, <1>2, <1>3, <1>4 DEF Retiring

\* Faults, the network, the server and the clock.
LEMMA EnvironmentIsSane ==
  ASSUME Sanity, Environment \/ \E p \in Procs : Crash(p)
  PROVE  Sanity'
<1> USE DEF Sanity, RestTyped, JournalSane, ProcsSound, durable, host, network, history
<1>1. ASSUME NEW p \in Procs, Crash(p) PROVE Sanity'
  <2>1. ProcsSound'
    BY <1>1, FreshIsSound, BecomeIsSound DEF Crash
  <2> QED BY <1>1, <2>1 DEF Crash
<1>2. ASSUME NEW o \in Ops, KnockArrives(o) PROVE Sanity'
  BY <1>2 DEF KnockArrives
<1>3. ASSUME NEW e \in Endpoints, NEW f \in Endpoints, RollEndpoint(e, f) PROVE Sanity'
  BY <1>3 DEF RollEndpoint
<1>4. ASSUME NEW e \in Endpoints, RenewAssignment(e) PROVE Sanity'
  BY <1>4 DEF RenewAssignment
<1>8. CASE DeleteResource
  BY <1>8 DEF DeleteResource
<1>5. CASE Tick
  <2>1. clock' \in Nat
    BY <1>5 DEF Tick
  <2> QED BY <1>5, <2>1 DEF Tick
<1>7. CASE Settle
  BY <1>7 DEF Settle
<1>6. ASSUME NEW t \in 0..MaxClock, CorrectClock(t) PROVE Sanity'
  BY <1>6, Bounds DEF CorrectClock
<1> QED BY <1>1, <1>2, <1>3, <1>4, <1>5, <1>6, <1>7, <1>8 DEF Environment

\* Every step of a recovery keeps Sanity.
LEMMA RecoveringIsSane ==
  ASSUME Sanity, NEW p \in Procs, Recovering(p)
  PROVE  Sanity'
<1> USE CellsAssumption, Bounds
<1> DEFINE s == proc[p]
           Others == UNCHANGED <<issued, clock, settled, assigned, alive, knocks, acks>>
<1>0. s \in Process /\ Sound(s) /\ Sound(Fail(s)) /\ Sound(Refuse(s)) /\ Sound(Succeed(s))
  BY EndingsAreSound DEF Sanity, ProcsSound
<1>00. ASSUME s.op \in Ops, Sane(s.held) PROVE Sound(Reconcile(s)) /\ Sound(Reload(s))
  BY <1>0, <1>00, EndingsAreSound
<1> USE DEF At
<1>1. CASE RecoverNext(p)
  <2>1. \A o \in s.todo : Sound([s EXCEPT !.pc = "load", !.op = o])
    BY <1>0, Vocabulary DEF Sound, Process, Resting, Holding
  <2>2. ProcsSound'
    BY <1>1, <2>1, BecomeIsSound DEF RecoverNext, Sanity
  <2> QED BY <1>1, <2>2
       DEF RecoverNext, Sanity, RestTyped, JournalSane, durable, host, network, history
<1>2. CASE RecoverPendingEnds(p)
  <2>1. Sound(Rest(s)) /\ Rest(s) \in Process /\ Rest(s).pc = "idle"
    BY <1>0, EndingsAreSound DEF Rest, Sound
  <2>2. \A b \in BOOLEAN : Sound([Rest(s) EXCEPT !.swept = b])
    BY <2>1 DEF Sound, Process, Resting, Holding
  <2>3. Sound([Rest(s) EXCEPT !.pc = "pendings", !.task = "pendings"])
    BY <2>1, Vocabulary DEF Sound, Process, Resting, Holding
  <2>4. ProcsSound'
    BY <1>2, <2>1, <2>2, <2>3, BecomeIsSound DEF RecoverPendingEnds, Sanity
  <2> QED BY <1>2, <2>4
       DEF RecoverPendingEnds, Sanity, RestTyped, JournalSane, durable, host, network, history
<1>3. CASE LoadOperation(p)
  <2>1. s.op \in Ops
    BY <1>0, <1>3 DEF LoadOperation, Sound, Resting
  <2>2. ASSUME NEW pc \in {"delete", "cancel", "closing", "gate"},
               journal[s.op].status \in Status
        PROVE  Sound([s EXCEPT !.pc = pc, !.held = journal[s.op]])
    <3>1. Sane(journal[s.op]) /\ journal[s.op] \in Record \union {Absent} /\ pc \in Steps
      BY <2>1, <2>2, Vocabulary DEF Absent, Status, Sanity, JournalSane
    <3> QED BY <1>0, <2>1, <3>1 DEF Sound, Process, Resting
  <2>3. ProcsSound'
    BY <1>0, <1>3, <2>2, BecomeIsSound DEF LoadOperation, Sanity, Terminal, Status
  <2> QED BY <1>3, <2>3
       DEF LoadOperation, Sanity, RestTyped, JournalSane, durable, host, network, history
<1>4. ASSUME NEW from \in {"cancel", "closing"}, NEW status \in Status,
             NEW pc \in {"delete", "gate"}, MoveTo(p, from, status, pc)
      PROVE  Sanity'
  <2> DEFINE next == [s.held EXCEPT !.status = status]
  <2>1. s.op \in Ops /\ Sane(s.held)
    BY <1>0, <1>4 DEF MoveTo, Sound, Resting, Holding
  <2>2. Sane(next) /\ next \in Record
    BY <2>1 DEF Sane, Record
  <2>3. Sound([s EXCEPT !.pc = pc, !.held = next])
    <3> HIDE DEF next
    <3> QED BY <1>0, <2>1, <2>2, Vocabulary DEF Sound, Process, Resting
  <2>4. ProcsSound' /\ JournalSane'
    BY <1>0, <1>00, <1>4, <2>1, <2>2, <2>3, WriteIsSound DEF MoveTo, Sanity
  <2> QED BY <1>4, <2>4 DEF MoveTo, Sanity, RestTyped, host, network, history
<1>5. CASE CancelPrepared(p) \/ CloseMapped(p)
  BY <1>4, <1>5 DEF CancelPrepared, CloseMapped, Status
<1>6. CASE DeleteTerminal(p)
  <2>1. s.op \in Ops /\ Sane(s.held)
    BY <1>0, <1>6 DEF DeleteTerminal, Sound, Resting, Holding
  <2>2. ProcsSound' /\ JournalSane'
    BY <1>0, <1>00, <1>6, <2>1, WriteIsSound DEF DeleteTerminal, Sanity
  <2> QED BY <1>6, <2>2 DEF DeleteTerminal, Sanity, RestTyped, host, network, history
<1>7. CASE AwaitDeadline(p)
  <2>1. s.op \in Ops /\ Sane(s.held)
    BY <1>0, <1>7 DEF AwaitDeadline, Sound, Resting, Holding
  <2>2. Sound([s EXCEPT !.pc = "attempt"])
    BY <1>0, <2>1, Vocabulary DEF Sound, Process, Resting, Holding
  <2>3. ProcsSound'
    BY <1>0, <1>7, <2>2, BecomeIsSound DEF AwaitDeadline, Sanity
  <2>4. clock' \in Nat
    <3>1. s.held.notBefore \in Int /\ clock \in Nat
      BY <2>1 DEF Sane, Record, Sanity, RestTyped
    <3> QED BY <1>7, <3>1 DEF AwaitDeadline
  <2> QED BY <1>7, <2>3, <2>4
       DEF AwaitDeadline, Sanity, RestTyped, JournalSane, durable, network, history
<1>8. CASE CountAttempt(p)
  <2> DEFINE n == s.held.attempt + 1
             next == [s.held EXCEPT !.attempt = n, !.notBefore = Later(s.held, RecoveryBackoff[n])]
  <2>1. s.op \in Ops /\ Sane(s.held)
    BY <1>0, <1>8 DEF CountAttempt, Sound, Resting, Holding
  <2>2. CASE s.held.attempt < MaxAttempts
    <3>1. n \in 1..MaxAttempts /\ Later(s.held, RecoveryBackoff[n]) \in Nat
      <4>1. s.held.attempt \in Nat /\ s.held.notBefore \in Nat /\ clock \in Nat
        BY <2>1 DEF Sane, Record, Sanity, RestTyped
      <4>2. n \in 1..MaxAttempts /\ RecoveryBackoff[n] \in Nat
        BY <2>2, <4>1
      <4> QED BY <4>1, <4>2 DEF Later
    <3>2. Sane(next) /\ next \in Record
      <4>1. n \in Nat /\ n <= MaxAttempts
        BY <3>1
      <4>2. Sane([s.held EXCEPT !.attempt = n, !.notBefore = Later(s.held, RecoveryBackoff[n])])
        <5> HIDE DEF n
        <5> QED BY <2>1, <3>1, <4>1, UpdatesAreSane
      <4> QED BY <4>2 DEF Sane
    <3>3. Sound([s EXCEPT !.pc = "exchange", !.held = next])
      <4> HIDE DEF next
      <4> QED BY <1>0, <2>1, <3>2, Vocabulary DEF Sound, Process, Resting
    <3>4. ProcsSound' /\ JournalSane'
      <4>1. s.held.attempt # MaxAttempts
        BY <2>1, <2>2 DEF Sane, Record
      <4> QED BY <1>0, <1>00, <1>8, <2>1, <3>2, <3>3, <4>1, WriteIsSound DEF CountAttempt, Sanity
    <3> QED BY <1>8, <3>4 DEF CountAttempt, Sanity, RestTyped, host, network, history
  <2>3. CASE s.held.attempt = MaxAttempts
    <3>1. ProcsSound' /\ JournalSane'
      BY <1>0, <1>8, <2>3, BecomeIsSound DEF CountAttempt, Sanity, JournalSane
    <3> QED BY <1>8, <3>1 DEF CountAttempt, Sanity, RestTyped, host, network, history
  <2> QED BY <1>8, <2>2, <2>3 DEF CountAttempt
<1>9. CASE ExchangePinned(p)
  <2>1. s.op \in Ops /\ Sane(s.held) /\ s.held.endpoint \in Endpoints /\ s.held.attempt \in Nat
    BY <1>0, <1>9 DEF ExchangePinned, Sound, Resting, Holding, Sane, Record
  <2>2. \A reply \in Replies : Sound(Answered(s, reply))
    <3>1. Sound([s EXCEPT !.pc = "finish", !.reply = "complete", !.moved = Absent])
      BY <1>0, <2>1, Vocabulary DEF Sound, Process, Resting
    <3>2. Sound([s EXCEPT !.pc = "unexpected", !.reply = "none", !.moved = Absent])
      BY <1>0, <2>1, Vocabulary DEF Sound, Process, Resting
    <3> QED BY <1>0, <1>00, <2>1, <3>1, <3>2 DEF Answered
  <2>3. \A reply \in Replies : Sound([s EXCEPT !.pc = "silent", !.reply = reply])
    BY <1>0, <2>1, Vocabulary DEF Sound, Process, Resting
  <2>4. server' \in [Ops -> {"unknown", "open", "ended"}]
    BY <1>9, <2>1 DEF ExchangePinned, Serve, Unanswered, Sanity, RestTyped
  <2>5. packets' \in [Ops -> SUBSET (Nat \X Endpoints)]
    BY <1>9, <2>1 DEF ExchangePinned, Sends, Sanity, RestTyped
  <2>6. ProcsSound'
    BY <1>0, <1>9, <2>2, <2>3, Vocabulary, BecomeIsSound DEF ExchangePinned, Sanity
  <2> QED BY <1>9, <2>4, <2>5, <2>6
       DEF ExchangePinned, Sanity, RestTyped, JournalSane, durable, host
<1>10. CASE ExchangeRefenced(p)
  <2>1. s.op \in Ops /\ Sane(s.held) /\ s.held.attempt \in Nat /\ assigned \in Endpoints
    BY <1>0, <1>10 DEF ExchangeRefenced, Sound, Resting, Holding, Sane, Record, Sanity, RestTyped
  <2>2. Sound([s EXCEPT !.pc = "count", !.reply = "none"])
    BY <1>0, <2>1, Vocabulary DEF Sound, Process, Resting
  <2>3. ASSUME CanRefence(s), NEW reply \in Replies
        PROVE  Sound([s EXCEPT !.pc = "pin", !.reply = reply,
                               !.moved = [s.held EXCEPT !.endpoint = assigned]])
    <3>1. Sane([s.held EXCEPT !.endpoint = assigned])
      BY <2>1, <2>3, UpdatesAreSane DEF CanRefence
    <3>2. ASSUME NEW m, Sane(m), m \in Record
          PROVE  Sound([s EXCEPT !.pc = "pin", !.reply = reply, !.moved = m])
      BY <1>0, <2>1, <3>2, Vocabulary DEF Sound, Process, Resting
    <3> QED BY <3>1, <3>2 DEF Sane
  <2>4. server' \in [Ops -> {"unknown", "open", "ended"}]
    BY <1>10, <2>1 DEF ExchangeRefenced, Serve, Unanswered, Sanity, RestTyped
  <2>5. silences' \in [Ops -> SUBSET Nat]
    <3>1. silences \in [Ops -> SUBSET Nat] /\ silences[s.op] \union {s.held.attempt} \in SUBSET Nat
      BY <2>1 DEF Sanity, RestTyped
    <3>2. \/ silences' = silences
          \/ silences' = [silences EXCEPT ![s.op] = @ \union {s.held.attempt}]
      BY <1>10 DEF ExchangeRefenced
    <3> QED BY <2>1, <3>1, <3>2
  <2>7. packets' \in [Ops -> SUBSET (Nat \X Endpoints)]
    <3>1. packets' = packets \/ Sends(s, assigned)
      BY <1>10 DEF ExchangeRefenced
    <3> QED BY <2>1, <3>1 DEF Sends, Sanity, RestTyped
  <2>6. ProcsSound'
    BY <1>0, <1>10, <2>2, <2>3, BecomeIsSound DEF ExchangeRefenced, Sanity
  <2> QED BY <1>10, <2>4, <2>5, <2>6, <2>7
       DEF ExchangeRefenced, Sanity, RestTyped, JournalSane, durable, host
<1>11. CASE PinEndpoint(p)
  <2>1. s.op \in Ops /\ Sane(s.held) /\ Sane(s.moved) /\ s.reply \in Replies
    BY <1>0, <1>11 DEF PinEndpoint, Sound, Resting, Holding, Process
  <2> DEFINE t == [s EXCEPT !.held = s.moved]
  <2>2. t \in Process /\ t.op \in Ops /\ Sane(t.held) /\ t.pc = "pin" /\ t.reply = s.reply
    BY <1>0, <1>11, <2>1 DEF PinEndpoint, Process, Sane
  <2>3. Sound(Answered(t, s.reply))
    <3> HIDE DEF t
    <3>1. Sound([t EXCEPT !.pc = "finish", !.reply = "complete", !.moved = Absent])
      BY <2>2, Vocabulary DEF Sound, Process, Resting
    <3>2. Sound([t EXCEPT !.pc = "unexpected", !.reply = "none", !.moved = Absent])
      BY <2>2, Vocabulary DEF Sound, Process, Resting
    <3> QED BY <2>2, <3>1, <3>2, EndingsAreSound DEF Answered
  <2>4. ProcsSound' /\ JournalSane'
    BY <1>0, <1>00, <1>11, <2>1, <2>3, WriteIsSound DEF PinEndpoint, Sanity
  <2> QED BY <1>11, <2>4 DEF PinEndpoint, Sanity, RestTyped, host, network, history
<1>12. CASE MapUnexpected(p)
  <2> DEFINE next == [s.held EXCEPT !.status = "MAPPED", !.admission = TRUE]
  <2>1. s.op \in Ops /\ Sane(s.held)
    BY <1>0, <1>12 DEF MapUnexpected, Sound, Resting, Holding
  <2>2. Sane(next)
    BY <2>1 DEF Sane, Record, Status
  <2>3. ProcsSound' /\ JournalSane'
    BY <1>0, <1>00, <1>12, <2>1, <2>2, WriteIsSound, BecomeIsSound DEF MapUnexpected, Sanity, JournalSane
  <2> QED BY <1>12, <2>3 DEF MapUnexpected, Sanity, RestTyped, host, network, history
<1>13. CASE CountNoReply(p)
  <2> DEFINE n == s.held.noReply + 1
             next == [s.held EXCEPT !.noReply = n, !.notBefore = Later(s.held, NoReplyBackoff[n])]
             giveUp == [s EXCEPT !.pc = "finish", !.held = next, !.reply = "silent"]
  <2>1. s.op \in Ops /\ Sane(s.held)
    BY <1>0, <1>13 DEF CountNoReply, Sound, Resting, Holding
  <2>2. ASSUME Legal(s.held, next) PROVE Sane(next) /\ Sound(giveUp)
    <3>1. /\ s.held.noReply \in Nat /\ s.held.attempt \in Nat /\ s.held.notBefore \in Nat
          /\ clock \in Nat /\ s.held.attempt <= MaxAttempts /\ s.held \in Record
      BY <2>1 DEF Sane, Record, Sanity, RestTyped
    <3>2. next # Absent /\ next.noReply = n /\ next.attempt = s.held.attempt
      BY <3>1 DEF Record, Absent
    <3>3. n <= s.held.attempt
      <4> HIDE DEF next
      <4> QED BY <2>2, <3>2 DEF Legal, ValidTransition, ValidRecord
    <3>4. n \in 1..MaxAttempts
      BY <3>1, <3>3
    <3>5. Later(s.held, NoReplyBackoff[n]) \in Nat
      BY <3>1, <3>4 DEF Later
    <3>6. Sane(next) /\ next \in Record
      <4>1. Sane([s.held EXCEPT !.noReply = n, !.notBefore = Later(s.held, NoReplyBackoff[n])])
        <5>1. n \in Nat
          BY <3>1
        <5> HIDE DEF n
        <5> QED BY <2>1, <3>5, <5>1, UpdatesAreSane
      <4> QED BY <4>1 DEF Sane
    <3>7. Sound(giveUp)
      <4> HIDE DEF next
      <4> QED BY <1>0, <2>1, <3>6, Vocabulary DEF Sound, Process, Resting
    <3> QED BY <3>6, <3>7
  <2>3. CASE PastAbandonMargin(s.held)
    <3> HIDE DEF next, giveUp
    <3>1. ProcsSound' /\ JournalSane'
      BY <1>0, <1>00, <1>13, <2>1, <2>2, <2>3, WriteIsSound DEF CountNoReply, Sanity, next, giveUp
    <3> QED BY <1>13, <3>1 DEF CountNoReply, Sanity, RestTyped, host, network, history
  <2>4. CASE ~PastAbandonMargin(s.held)
    <3>1. ProcsSound' /\ JournalSane'
      BY <1>0, <1>13, <2>4, BecomeIsSound DEF CountNoReply, Sanity, JournalSane
    <3> QED BY <1>13, <3>1 DEF CountNoReply, Sanity, RestTyped, host, network, history
  <2> QED BY <2>3, <2>4
<1>14. CASE FinishOperation(p)
  <2> DEFINE next == [s.held EXCEPT !.status = IF s.held.admission THEN "CLOSED" ELSE "CANCELED"]
  <2>1. s.op \in Ops /\ Sane(s.held)
    BY <1>0, <1>14 DEF FinishOperation, Sound, Resting, Holding
  <2>2. Sane(next) /\ next \in Record
    <3>1. (IF s.held.admission THEN "CLOSED" ELSE "CANCELED") \in Status
      BY DEF Status
    <3> QED BY <2>1, <3>1, UpdatesAreSane DEF Sane
  <2>3. Sound([s EXCEPT !.pc = "delete", !.held = next, !.reply = "none"])
    <3> HIDE DEF next
    <3> QED BY <1>0, <2>1, <2>2, Vocabulary DEF Sound, Process, Resting
  <2>4. ProcsSound' /\ JournalSane'
    BY <1>0, <1>00, <1>14, <2>1, <2>2, <2>3, WriteIsSound DEF FinishOperation, Sanity
  <2> QED BY <1>14, <2>1, <2>4 DEF FinishOperation, Sanity, RestTyped, host, network
<1>15. CASE ReconcileConflict(p)
  <2>1. s.op \in Ops /\ Sane(s.held)
    BY <1>0, <1>15 DEF ReconcileConflict, Sound, Resting, Holding
  <2>2. ProcsSound'
    BY <1>0, <1>00, <1>15, <2>1, BecomeIsSound DEF ReconcileConflict, Sanity
  <2> QED BY <1>15, <2>2
       DEF ReconcileConflict, Sanity, RestTyped, JournalSane, durable, host, network, history
<1> QED BY <1>1, <1>2, <1>3, <1>5, <1>6, <1>7, <1>8, <1>9, <1>10, <1>11, <1>12, <1>13, <1>14, <1>15
     DEF Recovering

\* A new state directory, with no journal and no process running, is sane.
LEMMA InitIsSane == Init => Sanity
<1> SUFFICES ASSUME Init PROVE Sanity
  OBVIOUS
<1>1. ProcsSound
  BY FreshIsSound DEF Init, ProcsSound, Sound
<1>2. JournalSane /\ RestTyped
  BY DEF Init, JournalSane, RestTyped
<1> QED BY <1>1, <1>2 DEF Sanity

\* Sanity is inductive: no step of any process or of the environment breaks it.
LEMMA StepIsSane == Sanity /\ [Next]_vars => Sanity'
<1> SUFFICES ASSUME Sanity, [Next]_vars PROVE Sanity'
  OBVIOUS
<1>1. CASE UNCHANGED vars
  BY <1>1 DEF vars, durable, host, network, history, Sanity, ProcsSound, JournalSane, RestTyped
<1>2. CASE Next
  BY <1>2, AdmittingIsSane, RecoveringIsSane, RetiringIsSane, EnvironmentIsSane DEF Next
<1> QED BY <1>1, <1>2

\* Every process that recovers holds a record of the operation it works on, and
\* every journal entry is absent or a well-formed record pinned to its own cell
\* (RecoverOperation and TransitionSessionOperation).
THEOREM SanityHolds == Spec => []Sanity
BY InitIsSane, StepIsSane, PTL DEF Spec

\* Every variable keeps its shape: no path of PrepareDispatch, RecoverOperation
\* or Retire writes a record it does not hold, or counts past the bound.
THEOREM TypeCorrect == Spec => []TypeOK
<1>1. Sanity => TypeOK
  BY DEF Sanity, ProcsSound, JournalSane, RestTyped, TypeOK
<1> QED BY <1>1, SanityHolds, PTL

\* No interleaving, lost write or assignment change pins an endpoint of another
\* cell in the journal (nativeSessionRefenceEndpoint).
THEOREM CellsAreFenced == Spec => []CellFenced
<1>1. Sanity => CellFenced
  BY DEF Sanity, JournalSane, Sane, CellFenced
<1> QED BY <1>1, SanityHolds, PTL

--------------------------------------------------------------------------------
(***************************************************************************)
(* Recovery packets are counted.  PacketsCounted is not inductive: two     *)
(* processes could both be about to send under one number.  The invariant  *)
(* adds that attempt numbers on their way to a packet are distinct and not *)
(* ahead of the journal; both hold because a number is taken by one        *)
(* compare-and-swap over the journal's last number.  A process still       *)
(* sends under its number after the pinned endpoint stayed silent.         *)
(***************************************************************************)
Dispatches == {"exchange", "silent"}
Sending(p) == proc[p].pc \in Dispatches

\* What may have left already under the number of a process about to send.
Pinned(s) ==
  IF s.pc = "silent" /\ s.reply = "silent" THEN {<<s.held.attempt, s.held.endpoint>>} ELSE {}

AtMostTwo(P) ==
  \A i, j, k \in P : i[1] = j[1] /\ j[1] = k[1] => i = j \/ j = k \/ i = k

Numbered ==
  /\ \A o \in Ops : packets[o] # {} \/ journal[o] # Absent => o \in issued
  /\ \A o \in Ops : journal[o] # Absent => \A k \in packets[o] : k[1] \in 1..journal[o].attempt
  /\ \A o \in Ops : AtMostTwo(packets[o])
  /\ \A p \in Procs : Sending(p) =>
       LET o == proc[p].op
           n == proc[p].held.attempt
       IN  /\ n > 0 /\ o \in issued /\ Under(packets[o], n) = Pinned(proc[p])
           /\ journal[o] # Absent => n <= journal[o].attempt
  /\ \A p, q \in Procs : p # q /\ Sending(p) /\ Sending(q) /\ proc[p].op = proc[q].op
                           => proc[p].held.attempt # proc[q].held.attempt

\* A step that sends nothing, opens no operation and starts no attempt.
Quiet ==
  /\ UNCHANGED <<packets, issued>>
  /\ \A p \in Procs : Sending(p)' => proc'[p] = proc[p]
  /\ \A o \in Ops : \/ journal'[o] = journal[o]
                    \/ journal'[o] = Absent
                    \/ journal[o] # Absent /\ journal'[o].attempt >= journal[o].attempt

\* A step that sends nothing and takes no attempt number keeps the numbering.
LEMMA QuietKeepsNumbers ==
  ASSUME Sanity, Sanity', Numbered, Quiet
  PROVE  Numbered'
<1>0. /\ \A o \in Ops : journal[o] # Absent => journal[o].attempt \in Nat
      /\ \A o \in Ops : journal'[o] # Absent => journal'[o].attempt \in Nat
      /\ \A o \in Ops : packets[o] \in SUBSET (Nat \X Endpoints)
      /\ \A p \in Procs : Sending(p) => proc[p].op \in Ops /\ proc[p].held.attempt \in Nat
  BY DEF Sanity, JournalSane, RestTyped, ProcsSound, Sound, Sending, Dispatches, Holding, Resting,
         Sane, Record
<1>1. \A p \in Procs : Sending(p)' => Sending(p) /\ proc'[p] = proc[p]
  BY DEF Quiet, Sending
<1>2. \A o \in Ops : journal'[o] # Absent =>
        journal[o] # Absent /\ journal'[o].attempt >= journal[o].attempt
  BY <1>0 DEF Quiet
<1>3. packets' = packets /\ issued' = issued
  BY DEF Quiet
<1>4. \A o \in Ops : journal'[o] # Absent => \A k \in packets'[o] : k[1] \in 1..journal'[o].attempt
  <2> SUFFICES ASSUME NEW o \in Ops, journal'[o] # Absent, NEW k \in packets[o]
               PROVE  k[1] \in 1..journal'[o].attempt
    BY <1>3
  <2>1. k[1] \in Nat
    BY <1>0
  <2> QED BY <1>0, <1>2, <2>1 DEF Numbered
<1>5. \A p \in Procs : Sending(p)' =>
        LET o == proc'[p].op
            n == proc'[p].held.attempt
        IN  /\ n > 0 /\ o \in issued' /\ Under(packets'[o], n) = Pinned(proc'[p])
            /\ journal'[o] # Absent => n <= journal'[o].attempt
  BY <1>0, <1>1, <1>2, <1>3 DEF Numbered, Under
<1>6. \A o \in Ops : AtMostTwo(packets'[o])
  BY <1>3 DEF Numbered
<1> QED BY <1>1, <1>2, <1>3, <1>4, <1>5, <1>6 DEF Numbered, Sending, Under, Pinned, AtMostTwo

\* However a call of RecoverOperation or Retire returns, it sends no packet.
LEMMA EndingsSendNothing ==
  ASSUME NEW s \in Process
  PROVE  /\ Rest(s).pc \notin Dispatches /\ Fail(s).pc \notin Dispatches /\ Refuse(s).pc \notin Dispatches
         /\ Succeed(s).pc \notin Dispatches /\ Cleanup(s).pc \notin Dispatches
         /\ Reload(s).pc \notin Dispatches /\ Reconcile(s).pc \notin Dispatches
<1>1. Cleanup(s).pc = "load" /\ Reload(s).pc = "load" /\ Reconcile(s).pc = "reconcile"
  BY DEF Process, Cleanup, Reload, Reconcile
<1>2. Rest(s).pc = "idle" /\ \A t : Rest(t).pc = "idle"
  BY DEF Rest
<1>3. \A f : Swept(s, f).pc = "sweep"
  BY DEF Swept, Rest
<1>4. \A f : Ends(s, f).pc \notin Dispatches
  BY <1>3 DEF Ends, Rest, Dispatches
<1>5. Succeed(s).pc \notin Dispatches
  BY <1>2, <1>3 DEF Succeed, Rest, Dispatches
<1> QED BY <1>1, <1>2, <1>4, <1>5 DEF Fail, Refuse, Dispatches

\* A step that only moves one process, and not to its exchange, is quiet.
LEMMA BecomeIsQuiet ==
  ASSUME ProcsSound, NEW p \in Procs, NEW s, s.pc \notin Dispatches, Become(p, s),
         UNCHANGED <<journal, packets, issued>>
  PROVE  Quiet
BY DEF ProcsSound, Become, Quiet, Sending

\* Every journal write but the one that takes an attempt number is quiet.
LEMMA WriteIsQuiet ==
  ASSUME Sanity, NEW p \in Procs, proc[p].op \in Ops, NEW next, NEW done, NEW lost, NEW err,
         done.pc \notin Dispatches, lost.pc \notin Dispatches, err.pc \notin Dispatches,
         next = Absent \/ next \in Record, proc[p].held \in Record,
         Write(p, next, done, lost, err), UNCHANGED <<packets, issued>>
  PROVE  Quiet
<1> DEFINE o == proc[p].op
<1>1. \A q \in Procs : Sending(q)' => proc'[q] = proc[q]
  BY DEF Write, Become, Sending, Sanity, ProcsSound
<1>2. CASE UNCHANGED journal
  BY <1>1, <1>2 DEF Quiet
<1>3. CASE Legal(proc[p].held, next) /\ journal[o] = proc[p].held
           /\ journal' = [journal EXCEPT ![o] = next]
  <2>1. next # Absent => next.attempt >= proc[p].held.attempt
    BY <1>3 DEF Legal, ValidTransition, RecoveryProgress, NoRegress
  <2>2. journal[o] # Absent
    BY <1>3, AbsentIsNoRecord
  <2>3. \A x \in Ops : x # o => journal'[x] = journal[x]
    BY <1>3 DEF Sanity, JournalSane
  <2>4. journal'[o] = next
    BY <1>3 DEF Sanity, JournalSane
  <2> QED BY <1>1, <1>3, <2>1, <2>2, <2>3, <2>4 DEF Quiet
<1> QED BY <1>2, <1>3 DEF Write

\* PrepareDispatch opens an operation no packet was ever sent for.
LEMMA CreationKeepsNumbers ==
  ASSUME Sanity, Numbered, NEW p \in Procs, CreateOperation(p)
  PROVE  Numbered'
<1> DEFINE record == NewRecord(assigned, clock + Lifetime)
<1>1. packets' = packets
  BY DEF CreateOperation, history
<1>2. \A q \in Procs : Sending(q)' => Sending(q) /\ proc'[q] = proc[q]
  <2>1. Fail(proc[p]).pc \notin Dispatches
    BY EndingsSendNothing DEF Sanity, ProcsSound
  <2>2. \A o : [proc[p] EXCEPT !.pc = "dispatch", !.op = o, !.held = record].pc \notin Dispatches
    BY DEF Sanity, ProcsSound, Process, Dispatches
  <2>3. PICK t : t.pc \notin Dispatches /\ Become(p, t)
    BY <2>1, <2>2 DEF CreateOperation
  <2> QED BY <2>3 DEF Become, Sending, Sanity, ProcsSound
<1>3. CASE UNCHANGED durable
  BY <1>1, <1>2, <1>3 DEF Numbered, Sending, Under, Pinned, AtMostTwo, durable
<1>4. ASSUME NEW o \in Ops \ issued, issued' = issued \union {o},
             journal' = [journal EXCEPT ![o] = record]
      PROVE  Numbered'
  <2>1. journal'[o] = record /\ \A x \in Ops : x # o => journal'[x] = journal[x]
    BY <1>4 DEF Sanity, JournalSane
  <2>2. packets[o] = {}
    BY DEF Numbered
  <2>3. \A q \in Procs : Sending(q) => proc[q].op # o
    BY DEF Numbered
  <2>4. \A q \in Procs : Sending(q) => proc[q].op \in Ops
    BY DEF Sanity, ProcsSound, Sound, Sending, Resting, Dispatches
  <2>5. \A q \in Procs : Sending(q)' =>
          LET x == proc'[q].op
              n == proc'[q].held.attempt
          IN  /\ n > 0 /\ x \in issued' /\ Under(packets'[x], n) = Pinned(proc'[q])
              /\ journal'[x] # Absent => n <= journal'[x].attempt
    <3> HIDE DEF record
    <3> QED BY <1>1, <1>2, <1>4, <2>1, <2>3, <2>4 DEF Numbered, Under
  <2> HIDE DEF record
  <2> QED BY <1>1, <1>2, <1>4, <2>1, <2>2, <2>5 DEF Numbered, Sending, Under, Pinned, AtMostTwo
<1> QED BY <1>3, <1>4 DEF CreateOperation

\* A recovery attempt takes the number after the journal's, once.
LEMMA AttemptKeepsNumbers ==
  ASSUME Sanity, Sanity', Numbered, NEW p \in Procs, CountAttempt(p)
  PROVE  Numbered'
<1> USE Bounds DEF At
<1> DEFINE s == proc[p]
           n == s.held.attempt + 1
           next == [s.held EXCEPT !.attempt = n, !.notBefore = Later(s.held, RecoveryBackoff[n])]
           on == [s EXCEPT !.pc = "exchange", !.held = next]
<1>1. s \in Process /\ s.pc = "attempt" /\ s.op \in Ops /\ Sane(s.held) /\ s.held \in Record
  BY DEF CountAttempt, Sanity, ProcsSound, Sound, Resting, Holding, Sane
<1>2. packets' = packets /\ issued' = issued
  BY DEF CountAttempt, history
<1>3. Fail(s).pc \notin Dispatches /\ Reconcile(s).pc \notin Dispatches
  BY <1>1, EndingsSendNothing
<1>4. CASE UNCHANGED journal /\ (Become(p, Fail(s)) \/ Become(p, Reconcile(s)))
  <2>1. Quiet
    BY <1>2, <1>3, <1>4, BecomeIsQuiet DEF Sanity
  <2> QED BY <2>1, QuietKeepsNumbers
<1>5. CASE /\ Legal(s.held, next) /\ journal[s.op] = s.held
           /\ journal' = [journal EXCEPT ![s.op] = next]
           /\ Become(p, on) \/ Become(p, Fail(s))
  <2>1. /\ on.pc = "exchange" /\ on.op = s.op /\ on.held = next
        /\ next.attempt = n /\ n \in Nat /\ n > s.held.attempt /\ next # Absent
    <3>1. n \in Nat /\ n > s.held.attempt
      BY <1>1 DEF Record
    <3>2. next.attempt = n /\ next # Absent
      BY <1>1 DEF Record, Absent
    <3>3. on.pc = "exchange" /\ on.op = s.op /\ on.held = next
      <4> HIDE DEF next
      <4> QED BY <1>1 DEF Process
    <3> QED BY <3>1, <3>2, <3>3
  <2>2. journal[s.op] # Absent /\ journal[s.op].attempt = s.held.attempt /\ s.held.attempt \in Nat
    BY <1>1, <1>5, AbsentIsNoRecord DEF Record
  <2>3. journal'[s.op] = next /\ \A x \in Ops : x # s.op => journal'[x] = journal[x]
    BY <1>1, <1>5 DEF Sanity, JournalSane
  <2>4. /\ \A x \in packets[s.op] : x[1] \in Nat /\ x[1] <= s.held.attempt
        /\ \A q \in Procs : Sending(q) /\ proc[q].op = s.op => proc[q].held.attempt <= s.held.attempt
        /\ s.op \in issued
    BY <1>1, <2>2 DEF Numbered
  <2>5. \A q \in Procs : Sending(q)' => q = p \/ (Sending(q) /\ proc'[q] = proc[q])
    BY <1>5 DEF Become, Sending, Sanity, ProcsSound
  <2>6. Sending(p)' => proc'[p] = on
    BY <1>3, <1>5 DEF Become, Sending, Sanity, ProcsSound
  <2>7. \A q \in Procs : Sending(q) => proc[q].op \in Ops /\ proc[q].held.attempt \in Nat
    BY DEF Sanity, ProcsSound, Sound, Sending, Dispatches, Resting, Holding, Sane, Record
  <2>8. Under(packets[s.op], n) = {} /\ Pinned(on) = {}
    <3>1. \A x \in packets[s.op] : x[1] # n
      BY <2>1, <2>2, <2>4
    <3> QED BY <2>1, <3>1 DEF Under, Pinned
  <2> HIDE DEF next, on, n
  <2>9. \A o \in Ops : journal'[o] # Absent => \A k \in packets'[o] : k[1] \in 1..journal'[o].attempt
    <3> SUFFICES ASSUME NEW o \in Ops, journal'[o] # Absent, NEW x \in packets[o]
                 PROVE  x[1] \in 1..journal'[o].attempt
      BY <1>2
    <3>1. CASE o = s.op
      <4>1. x[1] \in 1..s.held.attempt
        BY <2>2, <3>1 DEF Numbered
      <4> QED BY <2>1, <2>2, <2>3, <3>1, <4>1
    <3>2. CASE o # s.op
      BY <2>3, <3>2 DEF Numbered
    <3> QED BY <3>1, <3>2
  <2>10. \A q \in Procs : Sending(q)' =>
           LET o == proc'[q].op
               k == proc'[q].held.attempt
           IN  /\ k > 0 /\ o \in issued' /\ Under(packets'[o], k) = Pinned(proc'[q])
               /\ journal'[o] # Absent => k <= journal'[o].attempt
    <3> SUFFICES ASSUME NEW q \in Procs, Sending(q)'
                 PROVE  LET o == proc'[q].op
                            k == proc'[q].held.attempt
                        IN  /\ k > 0 /\ o \in issued /\ Under(packets[o], k) = Pinned(proc'[q])
                            /\ journal'[o] # Absent => k <= journal'[o].attempt
      BY <1>2 DEF Under
    <3>1. CASE q = p
      <4>1. proc'[q] = on
        BY <2>6, <3>1
      <4>2. /\ proc'[q].op = s.op /\ proc'[q].held.attempt = n /\ n > 0
            /\ journal'[s.op].attempt = n /\ s.op \in issued
        BY <2>1, <2>2, <2>3, <2>4, <4>1
      <4> QED BY <2>1, <2>8, <4>1, <4>2
    <3>2. CASE q # p /\ proc[q].op = s.op
      BY <2>1, <2>2, <2>3, <2>4, <2>5, <2>7, <3>2 DEF Numbered
    <3>3. CASE q # p /\ proc[q].op # s.op
      BY <2>3, <2>5, <2>7, <3>3 DEF Numbered
    <3> QED BY <3>1, <3>2, <3>3
  <2>11. \A q, r \in Procs : q # r /\ Sending(q)' /\ Sending(r)' /\ proc'[q].op = proc'[r].op
                              => proc'[q].held.attempt # proc'[r].held.attempt
    BY <2>1, <2>2, <2>4, <2>5, <2>6, <2>7 DEF Numbered
  <2>12. \A o \in Ops : (packets'[o] # {} \/ journal'[o] # Absent) => o \in issued'
    BY <1>2, <2>2, <2>3, <2>4 DEF Numbered
  <2>13. \A o \in Ops : AtMostTwo(packets'[o])
    BY <1>2 DEF Numbered
  <2> QED BY <1>2, <2>9, <2>10, <2>11, <2>12, <2>13 DEF Numbered, Sending, Under, Pinned, AtMostTwo
<1> QED BY <1>4, <1>5 DEF CountAttempt, Write

\* A packet leaves under the number its process took: one to the pinned
\* endpoint, and one to another when that one stayed silent.
LEMMA PacketKeepsNumbers ==
  ASSUME Sanity, Sanity', Numbered, NEW p \in Procs, NEW e \in Endpoints, NEW t,
         LET s == proc[p]
         IN  /\ Sending(p) /\ Become(p, t) /\ UNCHANGED <<journal, issued>>
             /\ \/ packets' = packets /\ (t.pc \in Dispatches => Pinned(s) = {} /\ Pinned(t) = {})
                \/ /\ Sends(s, e) /\ <<s.held.attempt, e>> \notin Pinned(s)
                   /\ t.pc \in Dispatches => Pinned(s) = {} /\ Pinned(t) = {<<s.held.attempt, e>>}
             /\ t.pc \in Dispatches => t.op = s.op /\ t.held = s.held
  PROVE  Numbered'
<1> DEFINE s == proc[p]
           k == s.held.attempt
           o == s.op
<1>1. s \in Process /\ o \in Ops /\ k \in Nat /\ journal' = journal /\ issued' = issued
  BY DEF Sanity, ProcsSound, Sound, Resting, Holding, Sane, Record, Sending, Dispatches
<1>2. /\ k > 0 /\ o \in issued /\ Under(packets[o], k) = Pinned(s)
      /\ journal[o] # Absent => k <= journal[o].attempt
  BY DEF Numbered
<1>3. \/ packets' = packets
      \/ packets' = [packets EXCEPT ![o] = @ \union {<<k, e>>}]
  BY DEF Sends
<1>4. \A x \in Ops : \A m \in packets'[x] : m \in packets[x] \/ (x = o /\ m = <<k, e>>)
  BY <1>1, <1>3 DEF Sanity, RestTyped
<1>5. \A q \in Procs : q # p => proc'[q] = proc[q]
  BY DEF Become, Sanity, ProcsSound
<1>6. proc'[p] = t
  BY DEF Become, Sanity, ProcsSound
<1>7. \A x \in Ops : packets'[x] # {} \/ journal'[x] # Absent => x \in issued'
  BY <1>1, <1>2, <1>4 DEF Numbered
<1>8. \A x \in Ops : journal'[x] # Absent => \A m \in packets'[x] : m[1] \in 1..journal'[x].attempt
  <2> SUFFICES ASSUME NEW x \in Ops, journal[x] # Absent, NEW m \in packets'[x]
               PROVE  m[1] \in 1..journal[x].attempt
    BY <1>1
  <2>1. CASE m \in packets[x]
    BY <2>1 DEF Numbered
  <2>2. CASE x = o /\ m = <<k, e>>
    <3>1. journal[o].attempt \in Nat /\ k <= journal[o].attempt
      BY <1>1, <1>2, <2>2 DEF Sanity, JournalSane, Sane, Record
    <3> QED BY <1>1, <1>2, <2>2, <3>1
  <2> QED BY <1>4, <2>1, <2>2
<1>9. \A x \in Ops : AtMostTwo(packets'[x])
  <2> SUFFICES ASSUME NEW x \in Ops, NEW i \in packets'[x], NEW j \in packets'[x], NEW m \in packets'[x],
                      i[1] = j[1], j[1] = m[1]
               PROVE  i = j \/ j = m \/ i = m
    BY DEF AtMostTwo
  <2>1. CASE i \in packets[x] /\ j \in packets[x] /\ m \in packets[x]
    BY <2>1 DEF Numbered, AtMostTwo
  <2>2. CASE <<k, e>> \in {i, j, m} /\ x = o
    <3>1. i[1] = k /\ j[1] = k /\ m[1] = k
      BY <2>2
    <3>2. \A y \in {i, j, m} : y = <<k, e>> \/ y \in Pinned(s)
      BY <1>2, <1>4, <2>2, <3>1 DEF Under
    <3>3. \A y, z \in Pinned(s) : y = z
      BY DEF Pinned
    <3> QED BY <2>2, <3>2, <3>3
  <2> QED BY <1>4, <2>1, <2>2
<1>10. \A q \in Procs : Sending(q)' =>
        LET x == proc'[q].op
            n == proc'[q].held.attempt
        IN  /\ n > 0 /\ x \in issued' /\ Under(packets'[x], n) = Pinned(proc'[q])
            /\ journal'[x] # Absent => n <= journal'[x].attempt
  <2> SUFFICES ASSUME NEW q \in Procs, Sending(q)'
               PROVE  LET x == proc'[q].op
                          n == proc'[q].held.attempt
                      IN  /\ n > 0 /\ x \in issued /\ Under(packets'[x], n) = Pinned(proc'[q])
                          /\ journal[x] # Absent => n <= journal[x].attempt
    BY <1>1
  <2>1. CASE q = p
    <3>1. t.pc \in Dispatches /\ t.op = o /\ t.held = s.held
      BY <1>6, <2>1 DEF Sending
    <3>2. CASE packets' = packets /\ Pinned(s) = {} /\ Pinned(t) = {}
      BY <1>2, <1>6, <2>1, <3>1, <3>2 DEF Under
    <3>3. CASE Sends(s, e) /\ Pinned(s) = {} /\ Pinned(t) = {<<k, e>>}
      <4>1. packets'[o] = packets[o] \union {<<k, e>>}
        BY <1>1, <3>3 DEF Sends, Sanity, RestTyped
      <4>2. {m \in packets[o] : m[1] = k} = {}
        BY <1>2, <3>3 DEF Under
      <4>3. {m \in packets'[o] : m[1] = k} = {<<k, e>>}
        BY <4>1, <4>2
      <4> QED BY <1>2, <1>6, <2>1, <3>1, <3>3, <4>3 DEF Under
    <3> QED BY <3>1, <3>2, <3>3
  <2>2. CASE q # p
    <3>1. Sending(q) /\ proc'[q] = proc[q] /\ proc[q].op \in Ops
      BY <1>5, <2>2 DEF Sanity, ProcsSound, Sound, Sending, Resting, Dispatches
    <3>2. proc[q].op = o => proc[q].held.attempt # k
      BY <2>2, <3>1 DEF Numbered
    <3>3. Under(packets'[proc[q].op], proc[q].held.attempt) = Under(packets[proc[q].op], proc[q].held.attempt)
      <4>1. \A m \in packets'[proc[q].op] : m[1] = proc[q].held.attempt => m \in packets[proc[q].op]
        BY <1>4, <3>1, <3>2
      <4>2. packets[proc[q].op] \subseteq packets'[proc[q].op]
        BY <1>1, <1>3, <3>1 DEF Sanity, RestTyped
      <4> QED BY <3>1, <4>1, <4>2 DEF Under
    <3> QED BY <2>2, <3>1, <3>3 DEF Numbered
  <2> QED BY <2>1, <2>2
<1>11. \A q, r \in Procs : q # r /\ Sending(q)' /\ Sending(r)' /\ proc'[q].op = proc'[r].op
                              => proc'[q].held.attempt # proc'[r].held.attempt
  BY <1>5, <1>6 DEF Numbered, Sending
<1> QED BY <1>7, <1>8, <1>9, <1>10, <1>11 DEF Numbered, Sending, Under, Pinned, AtMostTwo

\* The exchange with the pinned endpoint.
LEMMA ExchangeKeepsNumbers ==
  ASSUME Sanity, Sanity', Numbered, NEW p \in Procs, ExchangePinned(p)
  PROVE  Numbered'
<1> USE DEF At
<1> DEFINE s == proc[p]
           e == s.held.endpoint
           still(q) == [s EXCEPT !.pc = "silent", !.reply = q]
<1>1. /\ s \in Process /\ Sending(p) /\ Pinned(s) = {} /\ e \in Endpoints
      /\ journal' = journal /\ issued' = issued
  BY DEF ExchangePinned, Sanity, ProcsSound, Sound, Resting, Holding, Sane, Record, Sending,
         Dispatches, Pinned, durable
<1>2. /\ \A reply : Answered(s, reply).pc \notin Dispatches
      /\ Fail(s).pc \notin Dispatches
  <2>1. /\ \A m, q : [s EXCEPT !.pc = "finish", !.reply = q, !.moved = m].pc \notin Dispatches
        /\ \A m, q : [s EXCEPT !.pc = "unexpected", !.reply = q, !.moved = m].pc \notin Dispatches
    BY <1>1 DEF Process, Dispatches
  <2> QED BY <1>1, <2>1, EndingsSendNothing DEF Answered
<1>3. \A q : still(q).pc = "silent" /\ still(q).reply = q /\ still(q).op = s.op /\ still(q).held = s.held
  BY <1>1 DEF Process
<1>4. Pinned(still("silent")) = {<<s.held.attempt, e>>} /\ Pinned(still("unsent")) = {}
  BY <1>3 DEF Pinned
<1>5. PICK t : /\ Become(p, t)
               /\ \/ Sends(s, e) /\ (t.pc \notin Dispatches \/ t = still("silent"))
                  \/ packets' = packets /\ t = still("unsent")
  BY <1>2 DEF ExchangePinned
<1>6. t.pc \in Dispatches => t.op = s.op /\ t.held = s.held
  BY <1>3, <1>5
<1> HIDE DEF still
<1>7. CASE Sends(s, e) /\ (t.pc \notin Dispatches \/ t = still("silent"))
  BY <1>1, <1>4, <1>5, <1>6, <1>7, PacketKeepsNumbers
<1>8. CASE packets' = packets /\ t = still("unsent")
  BY <1>1, <1>4, <1>5, <1>6, <1>8, PacketKeepsNumbers
<1> QED BY <1>5, <1>7, <1>8

\* The second exchange of the same attempt goes to another endpoint.
LEMMA RefenceKeepsNumbers ==
  ASSUME Sanity, Sanity', Numbered, NEW p \in Procs, ExchangeRefenced(p)
  PROVE  Numbered'
<1> USE DEF At
<1> DEFINE s == proc[p]
<1>1. /\ s \in Process /\ Sending(p) /\ assigned \in Endpoints
      /\ journal' = journal /\ issued' = issued
  BY DEF ExchangeRefenced, Sanity, ProcsSound, RestTyped, Sending, Dispatches, durable
<1>2. /\ [s EXCEPT !.pc = "count", !.reply = "none"].pc \notin Dispatches
      /\ \A q, m : [s EXCEPT !.pc = "pin", !.reply = q, !.moved = m].pc \notin Dispatches
      /\ Fail(s).pc \notin Dispatches
  BY <1>1, EndingsSendNothing DEF Process, Dispatches
<1>3. PICK t : Become(p, t) /\ t.pc \notin Dispatches
  BY <1>2 DEF ExchangeRefenced
<1>4. packets' = packets \/ (CanRefence(s) /\ Sends(s, assigned))
  BY DEF ExchangeRefenced
<1>5. CanRefence(s) => <<s.held.attempt, assigned>> \notin Pinned(s)
  BY DEF CanRefence, Pinned
<1> QED BY <1>1, <1>3, <1>4, <1>5, PacketKeepsNumbers

\* Every other step sends nothing and takes no number.
LEMMA OthersAreQuiet ==
  ASSUME Sanity, NEW p \in Procs,
         \/ \E task \in {"orphans", "admit"} : RecoverPending(p, task)
         \/ PersistDispatching(p) \/ SendKnock(p) \/ KnockReturns(p) \/ RecordMapped(p)
         \/ TrackAdmission(p) \/ Retiring(p) \/ RecoverNext(p) \/ RecoverPendingEnds(p)
         \/ LoadOperation(p) \/ CancelPrepared(p) \/ CloseMapped(p) \/ DeleteTerminal(p)
         \/ AwaitDeadline(p) \/ PinEndpoint(p) \/ MapUnexpected(p)
         \/ CountNoReply(p) \/ FinishOperation(p) \/ ReconcileConflict(p) \/ Crash(p)
  PROVE  Quiet
<1> DEFINE s == proc[p]
           Silent(t) == t.pc \notin Dispatches
<1>0. /\ s \in Process /\ Sound(s) /\ ProcsSound
      /\ Silent(Rest(s)) /\ Silent(Fail(s)) /\ Silent(Refuse(s)) /\ Silent(Succeed(s))
      /\ Silent(Cleanup(s)) /\ Silent(Reload(s)) /\ Silent(Reconcile(s))
  BY EndingsSendNothing DEF Sanity, ProcsSound
<1>1. ASSUME NEW t, Silent(t), Become(p, t), UNCHANGED <<journal, packets, issued>> PROVE Quiet
  BY <1>0, <1>1, BecomeIsQuiet
<1>2. ASSUME s.pc \notin Resting, s.pc \in Holding,
             NEW next, NEW done, NEW lost, NEW err, Silent(done), Silent(lost), Silent(err),
             next = Absent \/ next \in Record,
             Write(p, next, done, lost, err), UNCHANGED <<packets, issued>>
      PROVE  Quiet
  BY <1>0, <1>2, WriteIsQuiet DEF Sound, Sane
<1>3. \A r \in Record : /\ \A st \in Status : [r EXCEPT !.status = st] \in Record
                        /\ [r EXCEPT !.status = "MAPPED", !.admission = TRUE] \in Record
  <2>1. "MAPPED" \in Status
    BY DEF Status
  <2> QED BY <2>1 DEF Record
<1>4. s.pc \in Holding => s.held \in Record
  BY <1>0 DEF Sound, Sane
<1> USE DEF At, Dispatches, durable, host, network, history
<1>5. CASE \E task \in {"orphans", "admit"} : RecoverPending(p, task)
  <2>1. \A task, todo : Silent([s EXCEPT !.pc = "sweep", !.task = task, !.todo = todo])
    BY <1>0 DEF Process
  <2> QED BY <1>1, <1>5, <2>1 DEF RecoverPending
<1>6. CASE PersistDispatching(p)
  <2> DEFINE next == [s.held EXCEPT !.status = "DISPATCHING"]
             done == [s EXCEPT !.pc = "knock", !.held = Absent]
  <2>1. Silent(done)
    BY <1>0 DEF Process
  <2>2. s.pc \in Holding /\ s.pc \notin Resting
    BY <1>6 DEF PersistDispatching, Resting, Holding
  <2>3. next \in Record
    BY <1>3, <1>4, <2>2 DEF Status
  <2>4. Write(p, next, done, Fail(s), Fail(s)) /\ UNCHANGED <<packets, issued>>
    BY <1>6 DEF PersistDispatching
  <2> HIDE DEF next, done
  <2> QED BY <1>0, <1>2, <2>1, <2>2, <2>3, <2>4
<1>7. CASE SendKnock(p) \/ KnockReturns(p)
  <2>1. Silent([s EXCEPT !.pc = "knocking"]) /\ Silent([s EXCEPT !.pc = "mapLoad"])
    BY <1>0 DEF Process
  <2> QED BY <1>0, <1>1, <1>7, <2>1 DEF SendKnock, KnockReturns
<1>8. CASE RecordMapped(p)
  <2>1. /\ \A r : Silent([s EXCEPT !.pc = "mapWrite", !.held = r])
        /\ Silent([s EXCEPT !.pc = "track", !.held = Absent])
    BY <1>0 DEF Process
  <2>2. CASE s.pc = "mapLoad"
    BY <1>0, <1>1, <1>8, <2>1, <2>2 DEF RecordMapped
  <2>3. CASE s.pc = "mapWrite"
    <3> DEFINE next == [s.held EXCEPT !.status = "MAPPED", !.admission = TRUE]
               done == [s EXCEPT !.pc = "track", !.held = Absent]
    <3>1. s.pc \in Holding /\ s.pc \notin Resting
      BY <2>3 DEF Resting, Holding
    <3>2. next \in Record
      BY <1>3, <1>4, <3>1
    <3>3. Write(p, next, done, Cleanup(s), Cleanup(s)) /\ UNCHANGED <<packets, issued>>
      BY <1>8, <2>3 DEF RecordMapped
    <3>4. Silent(done)
      BY <2>1
    <3> HIDE DEF next, done
    <3> QED BY <1>0, <1>2, <3>1, <3>2, <3>3, <3>4
  <2> QED BY <1>8, <2>2, <2>3 DEF RecordMapped
<1>9. CASE TrackAdmission(p)
  <2> DEFINE t == [s EXCEPT !.live = @ \union {s.op}]
  <2>1. t.pc = s.pc /\ Silent(Rest(t))
    BY <1>0 DEF Process, Rest
  <2>2. \A x : Silent([t EXCEPT !.pc = "retire", !.task = "retire", !.pending = x])
    BY <1>0 DEF Process
  <2> HIDE DEF t
  <2>3. \E u : Silent(u) /\ Become(p, u) /\ UNCHANGED <<journal, packets, issued>>
    BY <1>0, <1>9, <2>1, <2>2 DEF TrackAdmission, t
  <2> QED BY <1>1, <2>3
<1>10. CASE Retiring(p)
  <2>1. /\ \A o, x : Silent([s EXCEPT !.pc = "retire", !.task = "retire", !.op = o, !.pending = x])
        /\ Silent([s EXCEPT !.pc = "pendings", !.task = "queue"])
        /\ \A o : Silent([s EXCEPT !.pc = "retire", !.op = o])
        /\ Silent([s EXCEPT !.pc = "prepare", !.task = "knock"])
        /\ Silent([s EXCEPT !.pc = "load"])
    BY <1>0 DEF Process
  <2>2. Silent([Rest(s) EXCEPT !.queued = FALSE])
    BY DEF Rest
  <2>3. CASE RetireAdmission(p)
    BY <1>1, <2>1, <2>3 DEF RetireAdmission
  <2>4. CASE RecoverQueued(p)
    BY <1>1, <2>1, <2>4 DEF RecoverQueued
  <2>5. CASE RetirePendingForResource(p)
    BY <1>1, <2>1, <2>2, <2>5 DEF RetirePendingForResource
  <2>6. CASE Retire(p)
    BY <1>0, <1>1, <2>1, <2>6 DEF Retire
  <2> QED BY <1>10, <2>3, <2>4, <2>5, <2>6 DEF Retiring
<1>11. CASE RecoverNext(p) \/ RecoverPendingEnds(p)
  <2>1. \A o : Silent([s EXCEPT !.pc = "load", !.op = o])
    BY <1>0 DEF Process
  <2>2. /\ \A b : Silent([Rest(s) EXCEPT !.swept = b])
        /\ Silent([Rest(s) EXCEPT !.pc = "pendings", !.task = "pendings"])
    BY DEF Rest
  <2>3. CASE RecoverNext(p)
    BY <1>1, <2>1, <2>3 DEF RecoverNext
  <2>4. CASE RecoverPendingEnds(p)
    <3>1. \E u : Silent(u) /\ Become(p, u) /\ UNCHANGED <<journal, packets, issued>>
      BY <1>0, <2>2, <2>4 DEF RecoverPendingEnds
    <3> QED BY <1>1, <3>1
  <2> QED BY <1>11, <2>3, <2>4
<1>12. CASE LoadOperation(p)
  <2>1. /\ \A r : Silent([s EXCEPT !.pc = "delete", !.held = r])
        /\ \A r : Silent([s EXCEPT !.pc = "cancel", !.held = r])
        /\ \A r : Silent([s EXCEPT !.pc = "closing", !.held = r])
        /\ \A r : Silent([s EXCEPT !.pc = "gate", !.held = r])
    BY <1>0 DEF Process
  <2> QED BY <1>0, <1>1, <1>12, <2>1 DEF LoadOperation
<1>13. ASSUME NEW from \in {"cancel", "closing"}, NEW st \in Status,
              NEW pc \in {"delete", "gate"}, MoveTo(p, from, st, pc)
       PROVE  Quiet
  <2> DEFINE next == [s.held EXCEPT !.status = st]
             done == [s EXCEPT !.pc = pc, !.held = next]
  <2>1. s.pc \in Holding /\ s.pc \notin Resting
    BY <1>13 DEF MoveTo, Resting, Holding
  <2>2. next \in Record
    BY <1>3, <1>4, <2>1
  <2>3. Write(p, next, done, Reconcile(s), Fail(s)) /\ UNCHANGED <<packets, issued>>
    BY <1>13 DEF MoveTo
  <2>4. Silent(done)
    <3> HIDE DEF next
    <3> QED BY <1>0 DEF Process
  <2> HIDE DEF next, done
  <2> QED BY <1>0, <1>2, <2>1, <2>2, <2>3, <2>4
<1>14. CASE CancelPrepared(p) \/ CloseMapped(p)
  BY <1>13, <1>14 DEF CancelPrepared, CloseMapped, Status
<1>15. CASE DeleteTerminal(p)
  BY <1>0, <1>2, <1>15 DEF DeleteTerminal, Resting, Holding
<1>16. CASE AwaitDeadline(p)
  <2>1. Silent([s EXCEPT !.pc = "attempt"])
    BY <1>0 DEF Process
  <2> QED BY <1>0, <1>1, <1>16, <2>1 DEF AwaitDeadline
<1>18. CASE PinEndpoint(p)
  <2> DEFINE t == [s EXCEPT !.held = s.moved]
  <2>1. t \in Process
    BY <1>0, <1>18 DEF PinEndpoint, Process
  <2>2. Silent(Answered(t, s.reply))
    <3> HIDE DEF t
    <3>1. /\ \A m, q : Silent([t EXCEPT !.pc = "finish", !.reply = q, !.moved = m])
          /\ \A m, q : Silent([t EXCEPT !.pc = "unexpected", !.reply = q, !.moved = m])
      BY <2>1 DEF Process
    <3> QED BY <2>1, <3>1, EndingsSendNothing DEF Answered
  <2>3. s.moved \in Record /\ s.pc \in Holding /\ s.pc \notin Resting
    BY <1>0, <1>18 DEF PinEndpoint, Sound, Sane, Holding, Resting
  <2>4. Silent(IF s.reply = "admitted" THEN Refuse(s) ELSE Reconcile(s))
    BY <1>0
  <2> QED BY <1>0, <1>2, <1>18, <2>2, <2>3, <2>4 DEF PinEndpoint
<1>19. CASE MapUnexpected(p)
  <2>1. s.pc \in Holding /\ s.pc \notin Resting
    BY <1>19 DEF MapUnexpected, Holding, Resting
  <2>2. [s.held EXCEPT !.status = "MAPPED", !.admission = TRUE] \in Record
    BY <1>3, <1>4, <2>1
  <2>3. CASE s.held.status = "DISPATCHING"
    BY <1>0, <1>2, <1>19, <2>1, <2>2, <2>3 DEF MapUnexpected
  <2>4. CASE s.held.status # "DISPATCHING"
    BY <1>0, <1>1, <1>19, <2>4 DEF MapUnexpected
  <2> QED BY <2>3, <2>4
<1>20. CASE CountNoReply(p)
  <2> DEFINE n == s.held.noReply + 1
             next == [s.held EXCEPT !.noReply = n, !.notBefore = Later(s.held, NoReplyBackoff[n])]
             giveUp == [s EXCEPT !.pc = "finish", !.held = next, !.reply = "silent"]
             done == IF n < AbandonAttempts THEN Fail(s) ELSE giveUp
  <2>1. s.pc \in Holding /\ s.pc \notin Resting /\ Sane(s.held) /\ s.op \in Ops
    BY <1>0, <1>20 DEF CountNoReply, Holding, Resting, Sound
  <2>2. Silent(giveUp)
    <3> HIDE DEF next
    <3> QED BY <1>0 DEF Process
  <2>3. Silent(done)
    <3> HIDE DEF giveUp
    <3> QED BY <1>0, <2>2
  <2>4. CASE PastAbandonMargin(s.held)
    <3>1. Write(p, next, done, Reconcile(s), Fail(s)) /\ UNCHANGED <<packets, issued>>
      BY <1>20, <2>4 DEF CountNoReply
    <3>2. CASE Legal(s.held, next)
      <4>1. next \in Record
        <5>1. /\ s.held.noReply \in Nat /\ s.held.attempt \in Nat /\ s.held.notBefore \in Nat
              /\ clock \in Nat /\ s.held.attempt <= MaxAttempts /\ s.held \in Record
          BY <2>1 DEF Sane, Record, Sanity, RestTyped
        <5>2. next # Absent /\ next.noReply = n /\ next.attempt = s.held.attempt
          BY <5>1 DEF Record, Absent
        <5>3. n <= s.held.attempt
          <6> HIDE DEF next
          <6> QED BY <3>2, <5>2 DEF Legal, ValidTransition, ValidRecord
        <5>4. n \in 1..MaxAttempts
          BY <5>1, <5>3, Bounds
        <5>5. Later(s.held, NoReplyBackoff[n]) \in Nat
          BY <5>1, <5>4, Bounds DEF Later
        <5>6. \A c, b \in Nat : [s.held EXCEPT !.noReply = c, !.notBefore = b] \in Record
          BY <5>1 DEF Record
        <5>7. n \in Nat
          BY <5>4
        <5> HIDE DEF n
        <5> QED BY <5>5, <5>6, <5>7
      <4> HIDE DEF next, done
      <4> QED BY <1>0, <1>2, <2>1, <2>3, <3>1, <4>1
    <3>3. CASE ~Legal(s.held, next)
      <4> HIDE DEF next, done
      <4> QED BY <1>0, <1>1, <3>1, <3>3 DEF Write
    <3> QED BY <3>2, <3>3
  <2>5. CASE ~PastAbandonMargin(s.held)
    BY <1>0, <1>1, <1>20, <2>5 DEF CountNoReply
  <2> QED BY <2>4, <2>5
<1>21. CASE FinishOperation(p)
  <2> DEFINE next == [s.held EXCEPT !.status = IF s.held.admission THEN "CLOSED" ELSE "CANCELED"]
  <2>1. s.pc \in Holding /\ s.pc \notin Resting
    BY <1>21 DEF FinishOperation, Holding, Resting
  <2>2. next \in Record
    <3>1. (IF s.held.admission THEN "CLOSED" ELSE "CANCELED") \in Status
      BY DEF Status
    <3> QED BY <1>3, <1>4, <2>1, <3>1
  <2> DEFINE done == [s EXCEPT !.pc = "delete", !.held = next, !.reply = "none"]
  <2>3. Silent(done)
    <3> HIDE DEF next
    <3> QED BY <1>0 DEF Process
  <2>4. Write(p, next, done, Reconcile(s), Fail(s)) /\ UNCHANGED <<packets, issued>>
    BY <1>21 DEF FinishOperation
  <2> HIDE DEF next, done
  <2> QED BY <1>0, <1>2, <2>1, <2>2, <2>3, <2>4
<1>22. CASE ReconcileConflict(p)
  BY <1>0, <1>1, <1>22 DEF ReconcileConflict
<1>23. CASE Crash(p)
  BY <1>1, <1>23 DEF Crash, Fresh
<1> QED BY <1>5, <1>6, <1>7, <1>8, <1>9, <1>10, <1>11, <1>12, <1>14, <1>15, <1>16,
          <1>18, <1>19, <1>20, <1>21, <1>22, <1>23

\* The numbering of attempts is inductive under Sanity.
LEMMA StepKeepsNumbers == Sanity /\ Numbered /\ [Next]_vars => Numbered'
<1> SUFFICES ASSUME Sanity, Numbered, [Next]_vars PROVE Numbered'
  OBVIOUS
<1>1. Sanity'
  BY StepIsSane
<1>2. CASE UNCHANGED vars \/ Environment
  <2>1. proc' = proc /\ journal' = journal /\ issued' = issued /\ packets' = packets
    BY <1>2 DEF vars, Environment, KnockArrives, RollEndpoint, RenewAssignment, DeleteResource,
                Tick, Settle, CorrectClock, durable, host, network, history
  <2> QED BY <2>1 DEF Numbered, Sending, Under, Pinned, AtMostTwo
<1>3. ASSUME NEW p \in Procs, CreateOperation(p) \/ CountAttempt(p) \/ ExchangePinned(p) \/ ExchangeRefenced(p)
      PROVE  Numbered'
  BY <1>1, <1>3, CreationKeepsNumbers, AttemptKeepsNumbers, ExchangeKeepsNumbers, RefenceKeepsNumbers
<1>4. CASE Quiet
  BY <1>1, <1>4, QuietKeepsNumbers
<1> QED BY <1>2, <1>3, <1>4, OthersAreQuiet DEF Next, Admitting, Recovering

\* Every recovery packet is counted in the journal before it leaves, and one
\* number covers at most the packet to the pinned endpoint and, when nothing
\* answered that one, one to the endpoint the cell moved to, for any number of
\* processes and however they crash or lose writes
\* (validSessionOperationRecoveryProgress, session_operation.go:280-321).
THEOREM PacketsAreCounted == Spec => []PacketsCounted
<1>1. Init => Numbered
  BY DEF Init, Numbered, Sending, Dispatches, Fresh, AtMostTwo
<1>2. Numbered => PacketsCounted
  BY DEF Numbered, Sending, Dispatches, Pinned, AtMostTwo, PacketsCounted
<1> QED BY <1>1, <1>2, SanityHolds, StepKeepsNumbers, PTL DEF Spec

--------------------------------------------------------------------------------
(***************************************************************************)
(* The inductive invariant.  Custody says nothing of the processes, so it  *)
(* is not inductive: a recovery acts on the record it loaded, whatever     *)
(* the journal holds by then.  Keeps says what each process may rely on    *)
(* at the step it has reached.                                             *)
(***************************************************************************)
Custodied == {"DISPATCHING", "MAPPED", "CLOSING"}

\* Steps that act on a record past the ambiguity boundary.
Acting ==
  {"mapWrite", "closing", "gate", "attempt", "exchange", "silent", "pin",
   "unexpected", "count", "finish"}

\* What the server did or may still do for an operation is answered for.
Safe(o) == o \in abandoned \/ server[o] = "ended" \/ journal[o].status \in Custodied

\* How many of the first n recovery attempts nothing answered.
Heard(o, n) == Cardinality(silences[o] \cap 1..n)

Keeps(s) ==
  /\ s.pc \in Holding \union {"knock"} => s.op \in issued
  /\ s.pc \in Acting \union {"knock"} => Safe(s.op)
  /\ s.pc \in Acting => s.held.status \in Custodied
  /\ s.pc \in {"dispatch", "cancel"} => s.held.status = "PREPARED"
  /\ s.pc = "closing" => s.held.status = "MAPPED"
  /\ s.pc \in {"exchange", "silent", "pin", "count"} =>
       s.held.noReply <= Heard(s.op, s.held.attempt - 1)
  /\ s.pc = "count" => s.held.attempt \in silences[s.op]
  /\ s.pc = "pin" =>
       /\ s.moved = [s.held EXCEPT !.endpoint = s.moved.endpoint]
       /\ s.reply = "complete" => server[s.op] = "ended"
  /\ s.pc = "finish" =>
       \/ s.reply = "complete" /\ server[s.op] = "ended"
       \/ s.reply = "silent" /\ Cardinality(silences[s.op]) >= AbandonAttempts

\* An operation is written down before anything happens in its name; what the
\* server heard or may hear of is answered for; no counter outruns the evidence.
Answerable(o) ==
  /\ \/ journal[o] # Absent
     \/ o \in abandoned
     \/ o \in knocks
     \/ server[o] # "unknown"
     => o \in issued
  /\ o \in knocks \/ server[o] # "unknown" => Safe(o)
  /\ IsFiniteSet(silences[o])
  /\ journal[o] # Absent => journal[o].noReply <= Heard(o, journal[o].attempt)
  /\ o \in abandoned => Cardinality(silences[o]) >= AbandonAttempts

World == \A o \in Ops : Answerable(o)

Kept == World /\ \A p \in Procs : Keeps(proc[p])

\* What no step takes back.
Onward ==
  /\ issued \subseteq issued'
  /\ \A o \in Ops :
       /\ Safe(o) => Safe(o)'
       /\ server[o] = "ended" => server'[o] = "ended"
       /\ silences[o] \subseteq silences'[o] /\ IsFiniteSet(silences'[o])

\* A step is a step of AdmissionCustody, or none.
Promised == [Promise!Next]_(Promise!vars)

--------------------------------------------------------------------------------
(***************************************************************************)
(* Counting the silence.                                                   *)
(***************************************************************************)
\* A longer history of silences never counts less (countPostExpiryNoReply only
\* ever counts up).
LEMMA MoreIsHeard ==
  ASSUME NEW S, NEW T, S \subseteq T, IsFiniteSet(T), NEW m \in Int, NEW n \in Int, m <= n
  PROVE  /\ IsFiniteSet(S \cap 1..m) /\ IsFiniteSet(T \cap 1..n)
         /\ Cardinality(S \cap 1..m) \in Nat /\ Cardinality(T \cap 1..n) \in Nat
         /\ Cardinality(S \cap 1..m) <= Cardinality(T \cap 1..n)
         /\ Cardinality(T \cap 1..n) <= Cardinality(T)
         /\ Cardinality(T) \in Nat /\ Cardinality(S) <= Cardinality(T)
<1>1. S \cap 1..m \in SUBSET (T \cap 1..n) /\ T \cap 1..n \in SUBSET T /\ S \in SUBSET T
  OBVIOUS
<1>2. IsFiniteSet(T \cap 1..n) /\ Cardinality(T \cap 1..n) <= Cardinality(T)
  BY <1>1, FS_Subset
<1>3. IsFiniteSet(S \cap 1..m) /\ Cardinality(S \cap 1..m) <= Cardinality(T \cap 1..n)
  BY <1>1, <1>2, FS_Subset
<1>4. IsFiniteSet(S) /\ Cardinality(S) <= Cardinality(T)
  BY <1>1, FS_Subset
<1> QED BY <1>2, <1>3, <1>4, FS_CardinalityType

\* An attempt nothing answered adds one to what was heard before it.
LEMMA OneMoreSilence ==
  ASSUME NEW S, IsFiniteSet(S), NEW n \in Nat, n >= 1, n \in S
  PROVE  Cardinality(S \cap 1..n) = Cardinality(S \cap 1..(n - 1)) + 1
<1>1. S \cap 1..n = (S \cap 1..(n - 1)) \union {n}
  OBVIOUS
<1>2. n \notin S \cap 1..(n - 1)
  OBVIOUS
<1>3. IsFiniteSet(S \cap 1..(n - 1))
  BY MoreIsHeard
<1> QED BY <1>1, <1>2, <1>3, FS_AddElement

--------------------------------------------------------------------------------
(***************************************************************************)
(* What a process relies on survives the steps of the others.              *)
(***************************************************************************)
\* A process that keeps, or reaches with a step, a state that was justified
\* before the step is justified after it: what RecoverOperation learnt of the
\* journal and of the server does not go stale.
LEMMA KeepsOn ==
  ASSUME Sanity, Onward, NEW p \in Procs, NEW t, proc'[p] = t, Sound(t), Keeps(t)
  PROVE  Keeps(proc[p])'
<1>1. t.pc \in Holding \union {"knock"} => t.op \in Ops
  BY DEF Sound, Holding, Resting
<1>2. ASSUME t.pc \in {"exchange", "silent", "pin", "count"}
      PROVE  t.held.noReply <= Cardinality(silences'[t.op] \cap 1..(t.held.attempt - 1))
  <2>1. t.op \in Ops /\ t.held.noReply \in Nat /\ t.held.attempt - 1 \in Int
    BY <1>1, <1>2 DEF Sound, Sane, Record, Holding
  <2>2. silences[t.op] \subseteq silences'[t.op] /\ IsFiniteSet(silences'[t.op])
    BY <2>1 DEF Onward
  <2>3. t.held.noReply <= Cardinality(silences[t.op] \cap 1..(t.held.attempt - 1))
    BY <1>2 DEF Keeps, Heard
  <2> DEFINE n == t.held.attempt - 1
  <2>4. n \in Int /\ n <= n /\ t.held.noReply \in Nat
    BY <2>1
  <2> HIDE DEF n
  <2>5. /\ Cardinality(silences[t.op] \cap 1..n) \in Nat
        /\ Cardinality(silences'[t.op] \cap 1..n) \in Nat
        /\ Cardinality(silences[t.op] \cap 1..n) <= Cardinality(silences'[t.op] \cap 1..n)
    BY <2>2, <2>4, MoreIsHeard
  <2> QED BY <2>3, <2>4, <2>5 DEF n
<1>3. ASSUME t.pc \in Holding
      PROVE  Cardinality(silences[t.op]) >= AbandonAttempts
               => Cardinality(silences'[t.op]) >= AbandonAttempts
  <2>1. silences[t.op] \subseteq silences'[t.op] /\ IsFiniteSet(silences'[t.op])
    BY <1>1, <1>3 DEF Onward
  <2>2. IsFiniteSet(silences[t.op])
    BY <2>1, FS_Subset
  <2> QED BY <2>1, <2>2, FS_Subset, FS_CardinalityType, Bounds
<1>4. t.pc \in Acting \union {"knock"} => Safe(t.op)'
  <2>1. t.pc \in Acting \union {"knock"} => t.op \in Ops /\ Safe(t.op)
    BY <1>1 DEF Keeps, Acting, Holding
  <2> QED BY <2>1 DEF Onward, Safe
<1>5. Acting \subseteq Holding
  BY DEF Acting, Holding
<1>6. t.pc = "count" => t.held.attempt \in silences'[t.op]
  BY <1>1 DEF Keeps, Onward, Holding
<1>7. t.pc = "pin" =>
        /\ t.moved = [t.held EXCEPT !.endpoint = t.moved.endpoint]
        /\ t.reply = "complete" => server'[t.op] = "ended"
  BY <1>1 DEF Keeps, Onward, Holding
<1>8. t.pc = "finish" =>
       \/ t.reply = "complete" /\ server'[t.op] = "ended"
       \/ t.reply = "silent" /\ Cardinality(silences'[t.op]) >= AbandonAttempts
  BY <1>1, <1>3 DEF Keeps, Onward, Holding
<1>9. /\ t.pc \in Holding \union {"knock"} => t.op \in issued'
      /\ t.pc \in Acting => t.held.status \in Custodied
      /\ t.pc \in {"dispatch", "cancel"} => t.held.status = "PREPARED"
      /\ t.pc = "closing" => t.held.status = "MAPPED"
  BY DEF Keeps, Onward
<1>10. t.pc \in Acting \union {"knock"} =>
         t.op \in abandoned' \/ server'[t.op] = "ended" \/ journal'[t.op].status \in Custodied
  BY <1>4 DEF Safe
<1> HIDE DEF Custodied
<1> QED BY <1>2, <1>6, <1>7, <1>8, <1>9, <1>10 DEF Keeps, Heard, Safe

\* One process moves and the world moves on with it: the others keep what they
\* relied on.
LEMMA OthersKeep ==
  ASSUME Sanity, Kept, Onward, World', NEW p \in Procs, Keeps(proc[p])',
         \A q \in Procs : q # p => proc'[q] = proc[q]
  PROVE  Kept'
<1>1. ASSUME NEW q \in Procs, q # p PROVE Keeps(proc[q])'
  <2>1. proc'[q] = proc[q] /\ Sound(proc[q]) /\ Keeps(proc[q])
    BY <1>1 DEF Kept, Sanity, ProcsSound
  <2> QED BY <2>1, KeepsOn
<1> QED BY <1>1 DEF Kept

\* A step that leaves the journal, the server and the histories alone.
LEMMA AloneKeeps ==
  ASSUME Sanity, Sanity', Kept, NEW p \in Procs, NEW t, Keeps(t), Become(p, t),
         UNCHANGED <<journal, issued, server, knocks, silences, abandoned>>
  PROVE  Kept' /\ Promised
<1>1. Onward /\ World'
  BY DEF Onward, Safe, Kept, World, Answerable, Heard
<1>2. proc'[p] = t /\ \A q \in Procs : q # p => proc'[q] = proc[q]
  BY DEF Become, Sanity, ProcsSound
<1>3. Keeps(proc[p])'
  <2>1. Sound(t)
    BY <1>2 DEF Sanity, ProcsSound, Sound
  <2> QED BY <1>1, <1>2, <2>1, KeepsOn
<1>4. Promised
  BY DEF Promised, Promise!vars, Phase
<1> QED BY <1>1, <1>2, <1>3, <1>4, OthersKeep

\* Nothing is asked of a process that neither holds a record nor knocks.
LEMMA NothingHeld ==
  ASSUME NEW t, t.pc \notin Holding \union {"knock"}
  PROVE  Keeps(t)
BY DEF Keeps, Holding, Acting

\* However a call of RecoverOperation or Retire ends, it relies on nothing more;
\* a reconciliation only needs the operation to have been issued.
LEMMA EndingsKeep ==
  ASSUME NEW s \in Process
  PROVE  /\ Keeps(Rest(s)) /\ Keeps(Fail(s)) /\ Keeps(Refuse(s)) /\ Keeps(Succeed(s))
         /\ Keeps(Cleanup(s)) /\ Keeps(Reload(s))
         /\ s.op \in issued => Keeps(Reconcile(s))
<1>1. /\ Cleanup(s).pc = "load" /\ Reload(s).pc = "load"
      /\ Reconcile(s).pc = "reconcile" /\ Reconcile(s).op = s.op
  BY DEF Process, Cleanup, Reload, Reconcile
<1>2. \A t : Rest(t).pc = "idle"
  BY DEF Rest
<1>3. \A f : Swept(s, f).pc = "sweep"
  BY DEF Swept, Rest
<1>4. \A f : Ends(s, f).pc \in {"idle", "sweep"}
  BY <1>3 DEF Ends, Rest
<1>5. Succeed(s).pc \in {"idle", "sweep", "pendings"}
  BY <1>2, <1>3 DEF Succeed, Rest
<1>6. \A t : t.pc \in {"idle", "sweep", "pendings", "load"} => Keeps(t)
  BY NothingHeld DEF Holding
<1>7. s.op \in issued => Keeps(Reconcile(s))
  BY <1>1 DEF Keeps, Acting
<1> QED BY <1>1, <1>2, <1>4, <1>5, <1>6, <1>7 DEF Fail, Refuse

--------------------------------------------------------------------------------
(***************************************************************************)
(* What a locked write does to custody.                                    *)
(***************************************************************************)
\* A write that does not end a custodied record keeps the world answerable, and
\* is a step of AdmissionCustody or none.
LEMMA WriteMovesOn ==
  ASSUME Sanity, Kept, NEW p \in Procs, proc[p].op \in Ops, Sane(proc[p].held),
         NEW next, NEW done, NEW lost, NEW err,
         Legal(proc[p].held, next) /\ proc[p].held.status \in Custodied
           => next.status \in Custodied,
         Legal(proc[p].held, next) /\ next # Absent /\ journal[proc[p].op] = proc[p].held
           => next.noReply <= Heard(proc[p].op, next.attempt),
         Write(p, next, done, lost, err),
         UNCHANGED <<issued, server, knocks, silences, abandoned>>
  PROVE  /\ Onward /\ World' /\ Promised
         /\ \A q \in Procs : q # p => proc'[q] = proc[q]
         /\ \/ /\ Legal(proc[p].held, next) /\ journal[proc[p].op] = proc[p].held
               /\ journal'[proc[p].op] = next /\ proc'[p] = done
            \/ proc'[p] \in {lost, err}
<1>0. PICK o \in Ops, prev \in Record : o = proc[p].op /\ prev = proc[p].held
  BY DEF Sane
<1>1. \A q \in Procs : q # p => proc'[q] = proc[q]
  BY DEF Write, Become, Sanity, ProcsSound
<1>2. CASE UNCHANGED journal /\ (Become(p, lost) \/ Become(p, err))
  <2>1. Onward /\ World'
    BY <1>2 DEF Onward, Safe, Kept, World, Answerable, Heard
  <2>2. Promised
    BY <1>2 DEF Promised, Promise!vars, Phase
  <2>3. proc'[p] \in {lost, err}
    BY <1>2 DEF Become, Sanity, ProcsSound
  <2> QED BY <1>1, <2>1, <2>2, <2>3
<1>3. CASE /\ Legal(prev, next) /\ journal[o] = prev
           /\ journal' = [journal EXCEPT ![o] = next]
           /\ Become(p, done) \/ Become(p, err)
  <2>1. journal'[o] = next /\ \A x \in Ops : x # o => journal'[x] = journal[x]
    BY <1>0, <1>3 DEF Sanity, JournalSane
  <2>2. prev # Absent /\ o \in issued
    BY <1>0, <1>3, AbsentIsNoRecord DEF Sane, Kept, World, Answerable
  <2>3. prev.status \in Custodied => next.status \in Custodied
    BY <1>0, <1>3
  <2>4. Onward
    BY <1>3, <2>1, <2>3 DEF Onward, Safe, Kept, World, Answerable
  <2>5. World'
    <3> SUFFICES ASSUME NEW x \in Ops PROVE Answerable(x)'
      BY DEF World
    <3>1. CASE x # o
      BY <2>1, <3>1 DEF Kept, World, Answerable, Safe, Heard
    <3>2. CASE x = o
      <4>1. next # Absent => next.noReply <= Heard(o, next.attempt)
        BY <1>0, <1>3
      <4>2. Safe(o) => Safe(o)'
        BY <2>4 DEF Onward
      <4>3. Answerable(o)
        BY DEF Kept, World
      <4> QED BY <2>1, <2>2, <3>2, <4>1, <4>2, <4>3 DEF Answerable, Heard
    <3> QED BY <3>1, <3>2
  <2>6. Promised
    <3>1. \A x \in Ops : x # o => Phase(x)' = Phase(x)
      BY <2>1 DEF Phase
    <3>2. CASE Phase(o)' = Phase(o)
      BY <3>1, <3>2 DEF Promised, Promise!vars
    <3>3. CASE Phase(o) = "prepared" /\ Phase(o)' \in {"held", "resolved"}
      <4>1. [x \in Ops |-> Phase(x)]' = [[x \in Ops |-> Phase(x)] EXCEPT ![o] = Phase(o)']
        BY <3>1
      <4>2. Promise!Dispatch(o) \/ Promise!Cancel(o)
        BY <3>3, <4>1 DEF Promise!Dispatch, Promise!Cancel, Promise!Move
      <4> QED BY <4>2 DEF Promised, Promise!Next
    <3>4. Phase(o)' = Phase(o) \/ (Phase(o) = "prepared" /\ Phase(o)' \in {"held", "resolved"})
      <4>1. CASE next = Absent
        <5>1. prev.status \in Terminal
          BY <1>3, <4>1 DEF Legal
        <5> QED BY <1>3, <2>1, <4>1, <5>1 DEF Phase, Terminal, Absent
      <4>2. CASE next # Absent
        <5>1. <<prev.status, next.status>> \in Transitions
          BY <1>3, <4>2 DEF Legal, ValidTransition
        <5>2. /\ journal[o].status = prev.status /\ journal'[o].status = next.status
              /\ abandoned' = abandoned /\ issued' = issued
          BY <1>3, <2>1
        <5> QED BY <2>2, <2>3, <5>1, <5>2 DEF Phase, Transitions, Custodied
      <4> QED BY <4>1, <4>2
    <3> QED BY <3>2, <3>3, <3>4
  <2>7. proc'[p] \in {done, err}
    BY <1>3 DEF Become, Sanity, ProcsSound
  <2> QED BY <1>0, <1>1, <1>3, <2>1, <2>4, <2>5, <2>6, <2>7
<1> QED BY <1>0, <1>2, <1>3 DEF Write

\* A write whose three outcomes were justified beforehand keeps custody.
LEMMA WriteKeeps ==
  ASSUME Sanity, Sanity', Kept, NEW p \in Procs, proc[p].op \in Ops, Sane(proc[p].held),
         NEW next, NEW done, NEW lost, NEW err,
         Legal(proc[p].held, next) /\ proc[p].held.status \in Custodied
           => next.status \in Custodied,
         Legal(proc[p].held, next) /\ next # Absent /\ journal[proc[p].op] = proc[p].held
           => next.noReply <= Heard(proc[p].op, next.attempt),
         Legal(proc[p].held, next) /\ journal[proc[p].op] = proc[p].held => Keeps(done),
         Keeps(lost), Keeps(err),
         Write(p, next, done, lost, err),
         UNCHANGED <<issued, server, knocks, silences, abandoned>>
  PROVE  Kept' /\ Promised
<1>1. /\ Onward /\ World' /\ Promised
      /\ \A q \in Procs : q # p => proc'[q] = proc[q]
      /\ \/ /\ Legal(proc[p].held, next) /\ journal[proc[p].op] = proc[p].held
            /\ journal'[proc[p].op] = next /\ proc'[p] = done
         \/ proc'[p] \in {lost, err}
  BY WriteMovesOn
<1>2. PICK t : proc'[p] = t /\ Keeps(t)
  BY <1>1
<1>4. Sound(t)
  BY <1>2 DEF Sanity, ProcsSound, Sound
<1>3. Keeps(proc[p])'
  BY <1>1, <1>2, <1>4, KeepsOn
<1> QED BY <1>1, <1>3, OthersKeep

\* A write that moves neither the silence count nor the attempt backwards is
\* covered by the evidence for the record it replaces.
LEMMA EvidenceStands ==
  ASSUME Sanity, Kept, NEW o \in Ops, NEW prev, Sane(prev), journal[o] = prev,
         NEW next, next.noReply = prev.noReply, next.attempt \in Nat,
         next.attempt >= prev.attempt
  PROVE  next.noReply <= Heard(o, next.attempt)
<1>1. prev.noReply <= Heard(o, prev.attempt) /\ IsFiniteSet(silences[o])
  BY AbsentIsNoRecord DEF Kept, World, Answerable, Sane
<1>2. prev.attempt \in Nat /\ prev.noReply \in Nat
  BY DEF Sane, Record
<1>3. /\ Heard(o, prev.attempt) \in Nat /\ Heard(o, next.attempt) \in Nat
      /\ Heard(o, prev.attempt) <= Heard(o, next.attempt)
  <2> DEFINE S == silences[o]
             m == prev.attempt
             n == next.attempt
  <2>1. IsFiniteSet(S) /\ S \subseteq S /\ m \in Int /\ n \in Int /\ m <= n
    BY <1>1, <1>2
  <2> HIDE DEF S, m, n
  <2>2. /\ Cardinality(S \cap 1..m) \in Nat /\ Cardinality(S \cap 1..n) \in Nat
        /\ Cardinality(S \cap 1..m) <= Cardinality(S \cap 1..n)
    BY <2>1, MoreIsHeard
  <2> QED BY <2>2 DEF Heard, S, m, n
<1> QED BY <1>1, <1>2, <1>3

--------------------------------------------------------------------------------
(***************************************************************************)
(* Admission keeps custody.                                                *)
(***************************************************************************)
\* PrepareDispatch writes an operation down before it exists anywhere else.
LEMMA CreationKeeps ==
  ASSUME Sanity, Sanity', Kept, NEW p \in Procs, CreateOperation(p)
  PROVE  Kept' /\ Promised
<1> DEFINE s == proc[p]
           record == NewRecord(assigned, clock + Lifetime)
<1> USE DEF host, network, history, durable
<1>0. s \in Process /\ Keeps(Fail(s))
  BY EndingsKeep DEF Sanity, ProcsSound
<1>1. CASE Become(p, Fail(s)) /\ UNCHANGED durable
  BY <1>0, <1>1, AloneKeeps DEF CreateOperation
<1>2. ASSUME NEW o \in Ops \ issued, issued' = issued \union {o},
             journal' = [journal EXCEPT ![o] = record],
             \/ Become(p, [s EXCEPT !.pc = "dispatch", !.op = o, !.held = record])
             \/ Become(p, Fail(s))
      PROVE  Kept' /\ Promised
  <2>1. journal'[o] = record /\ \A x \in Ops : x # o => journal'[x] = journal[x]
    BY <1>2 DEF Sanity, JournalSane
  <2>2. UNCHANGED <<server, knocks, silences, abandoned>>
    BY DEF CreateOperation
  <2>3. record.status = "PREPARED" /\ record.noReply = 0 /\ record.attempt = 0
    BY DEF NewRecord
  <2>4. journal[o] = Absent /\ o \notin abandoned /\ o \notin knocks /\ server[o] = "unknown"
    BY <1>2 DEF Kept, World, Answerable
  <2> HIDE DEF record
  <2>5. Onward
    BY <1>2, <2>1, <2>2, <2>4 DEF Onward, Safe, Kept, World, Answerable, Custodied, Absent
  <2>6. World'
    <3>1. ASSUME NEW x \in Ops, x # o PROVE Answerable(x)'
      BY <1>2, <2>1, <2>2, <3>1 DEF Kept, World, Answerable, Safe, Heard
    <3>2. IsFiniteSet(silences[o] \cap 1..0) /\ Cardinality(silences[o] \cap 1..0) = 0
      BY FS_EmptySet
    <3>3. journal'[o].noReply <= Cardinality(silences'[o] \cap 1..journal'[o].attempt)
      <4>1. silences'[o] = silences[o] /\ journal'[o].noReply = 0 /\ journal'[o].attempt = 0
        BY <2>1, <2>2, <2>3
      <4> QED BY <3>2, <4>1
    <3>4. Answerable(o)'
      BY <1>2, <2>2, <2>4, <3>3 DEF Kept, World, Answerable, Heard
    <3> QED BY <3>1, <3>4 DEF World
  <2>7. \A q \in Procs : q # p => proc'[q] = proc[q]
    BY <1>2 DEF Become, Sanity, ProcsSound
  <2>8. Keeps(proc[p])'
    <3>1. CASE proc'[p] = Fail(s)
      <4>1. Sound(Fail(s))
        BY <1>0, EndingsAreSound
      <4> QED BY <1>0, <2>5, <3>1, <4>1, KeepsOn
    <3>2. CASE proc'[p] = [s EXCEPT !.pc = "dispatch", !.op = o, !.held = record]
      <4>1. proc'[p].pc = "dispatch" /\ proc'[p].op = o /\ proc'[p].held = record
        BY <1>0, <3>2 DEF Process
      <4> QED BY <1>2, <2>3, <4>1 DEF Keeps, Holding, Acting
    <3> QED BY <1>2, <3>1, <3>2 DEF Become, Sanity, ProcsSound
  <2>9. Promised
    <3>1. \A x \in Ops : x # o => Phase(x)' = Phase(x)
      BY <1>2, <2>1, <2>2 DEF Phase
    <3>2. Phase(o) = "none" /\ Phase(o)' = "prepared"
      BY <1>2, <2>1, <2>2, <2>3, <2>4 DEF Phase
    <3>3. [x \in Ops |-> Phase(x)]' = [[x \in Ops |-> Phase(x)] EXCEPT ![o] = "prepared"]
      BY <3>1, <3>2
    <3>4. Promise!Prepare(o)
      BY <2>2, <3>2, <3>3 DEF Promise!Prepare, Promise!Move
    <3> QED BY <3>4 DEF Promised, Promise!Next
  <2> QED BY <2>5, <2>6, <2>7, <2>8, <2>9, OthersKeep
<1> QED BY <1>1, <1>2 DEF CreateOperation

\* The knock may leave only once the boundary was written.
LEMMA DispatchKeeps ==
  ASSUME Sanity, Sanity', Kept, NEW p \in Procs, PersistDispatching(p)
  PROVE  Kept' /\ Promised
<1> DEFINE s == proc[p]
           next == [s.held EXCEPT !.status = "DISPATCHING"]
           done == [s EXCEPT !.pc = "knock", !.held = Absent]
<1>1. /\ s \in Process /\ s.pc = "dispatch" /\ s.op \in Ops /\ Sane(s.held) /\ s.op \in issued
      /\ s.held.status = "PREPARED" /\ Keeps(Fail(s)) /\ Sound(Fail(s))
  BY EndingsKeep, EndingsAreSound
  DEF PersistDispatching, At, Sanity, ProcsSound, Sound, Resting, Holding, Kept, Keeps
<1>2. /\ next.status = "DISPATCHING" /\ next.noReply = s.held.noReply
      /\ next.attempt = s.held.attempt /\ next.attempt \in Nat
  BY <1>1 DEF Sane, Record
<1>3. done.pc = "knock" /\ done.op = s.op
  BY <1>1 DEF Process
<1>4. Write(p, next, done, Fail(s), Fail(s)) /\ UNCHANGED <<issued, server, knocks, silences, abandoned>>
  BY DEF PersistDispatching, host, network, history
<1> HIDE DEF next, done
<1>5. journal[s.op] = s.held => next.noReply <= Heard(s.op, next.attempt)
  BY <1>1, <1>2, EvidenceStands DEF Sane, Record
<1>6. /\ Onward /\ World' /\ Promised
      /\ \A q \in Procs : q # p => proc'[q] = proc[q]
      /\ (journal'[s.op] = next /\ proc'[p] = done) \/ proc'[p] = Fail(s)
  BY <1>1, <1>2, <1>4, <1>5, WriteMovesOn DEF Custodied
<1>7. Keeps(proc[p])'
  <2>1. CASE proc'[p] = Fail(s)
    BY <1>1, <1>6, <2>1, KeepsOn
  <2>2. CASE journal'[s.op] = next /\ proc'[p] = done
    BY <1>1, <1>2, <1>3, <1>4, <2>2 DEF Keeps, Safe, Custodied, Holding, Acting
  <2> QED BY <1>6, <2>1, <2>2
<1> QED BY <1>6, <1>7, OthersKeep

\* A step that only moves one process, to a step that relies on nothing or on
\* what the journal says at that moment.
LEMMA MoveKeeps ==
  ASSUME Sanity, Sanity', Kept, NEW p \in Procs, NEW t, Become(p, t),
         \/ t.pc \notin Holding \union {"knock"}
         \/ /\ t.op \in Ops /\ t.held = journal[t.op] /\ t.held # Absent
            /\ \/ t.pc \in {"mapWrite", "gate"} /\ t.held.status \in Custodied
               \/ t.pc = "closing" /\ t.held.status = "MAPPED"
               \/ t.pc = "cancel" /\ t.held.status = "PREPARED"
               \/ t.pc = "delete",
         UNCHANGED <<journal, issued, server, knocks, silences, abandoned>>
  PROVE  Kept' /\ Promised
<1>1. CASE t.pc \notin Holding \union {"knock"}
  BY <1>1, NothingHeld, AloneKeeps
<1>2. CASE /\ t.op \in Ops /\ t.held = journal[t.op] /\ t.held # Absent
           /\ \/ t.pc \in {"mapWrite", "gate"} /\ t.held.status \in Custodied
              \/ t.pc = "closing" /\ t.held.status = "MAPPED"
              \/ t.pc = "cancel" /\ t.held.status = "PREPARED"
              \/ t.pc = "delete"
  <2>1. t.op \in issued
    BY <1>2 DEF Kept, World, Answerable
  <2>2. (t.held.status \in Custodied => Safe(t.op)) /\ "MAPPED" \in Custodied
    BY <1>2 DEF Safe, Custodied
  <2>3. Keeps(t)
    <3> HIDE DEF Custodied
    <3> QED BY <1>2, <2>1, <2>2 DEF Keeps, Acting
  <2> QED BY <2>3, AloneKeeps
<1> QED BY <1>1, <1>2

\* Every step of an admission keeps custody: the knock, its answer and the
\* mapping of the receipt (admitOnce).
LEMMA AdmittingKeeps ==
  ASSUME Sanity, Sanity', Kept, NEW p \in Procs, Admitting(p) \/ RecoverPending(p, "orphans")
  PROVE  Kept' /\ Promised
<1> DEFINE s == proc[p]
           Still == UNCHANGED <<journal, issued, server, knocks, silences, abandoned>>
           Off(t) == t.pc \notin Holding \union {"knock"}
<1> USE DEF At, durable, host, network, history
<1>0. /\ s \in Process /\ Sound(s) /\ Keeps(s) /\ Keeps(Cleanup(s))
      /\ Cleanup(s).pc = "load"
  BY EndingsKeep DEF Sanity, ProcsSound, Kept, Cleanup, Process
<1>1. ASSUME NEW t, Become(p, t), Off(t), Still PROVE Kept' /\ Promised
  BY <1>1, MoveKeeps
<1>2. ASSUME NEW task \in {"orphans", "admit"}, RecoverPending(p, task) PROVE Kept' /\ Promised
  <2>1. \A todo : Off([s EXCEPT !.pc = "sweep", !.task = task, !.todo = todo])
    BY <1>0 DEF Process, Holding
  <2> QED BY <1>1, <1>2, <2>1 DEF RecoverPending
<1>3. CASE SendKnock(p)
  <2>1. s.pc = "knock" /\ s.op \in Ops /\ s.op \in issued /\ Safe(s.op)
    BY <1>0, <1>3 DEF SendKnock, Sound, Resting, Keeps
  <2>2. UNCHANGED <<journal, issued, server, silences, abandoned>> /\ knocks' = knocks \union {s.op}
    BY <1>3 DEF SendKnock
  <2>3. Onward /\ World'
    BY <2>1, <2>2 DEF Onward, Safe, Kept, World, Answerable, Heard
  <2>4. proc'[p] = [s EXCEPT !.pc = "knocking"] /\ \A q \in Procs : q # p => proc'[q] = proc[q]
    BY <1>3 DEF SendKnock, Become, Sanity, ProcsSound
  <2>5. Keeps(proc[p])'
    <3>1. proc'[p].pc = "knocking"
      BY <1>0, <2>4 DEF Process
    <3> QED BY <3>1 DEF Keeps, Holding, Acting
  <2>6. Promised
    BY <2>2 DEF Promised, Promise!vars, Phase
  <2> QED BY <2>3, <2>4, <2>5, <2>6, OthersKeep
<1>4. CASE KnockReturns(p)
  <2>1. Off([s EXCEPT !.pc = "mapLoad"]) /\ Off(Cleanup(s))
    BY <1>0 DEF Process, Holding
  <2> QED BY <1>1, <1>4, <2>1 DEF KnockReturns
<1>5. CASE RecordMapped(p)
  <2>0. s.op \in Ops
    BY <1>0, <1>5 DEF RecordMapped, Sound, Resting
  <2>1. CASE s.pc = "mapLoad"
    <3>1. CASE Become(p, Cleanup(s))
      BY <1>0, <1>1, <1>5, <2>1, <3>1 DEF RecordMapped, Holding
    <3>2. CASE /\ journal[s.op].status = "DISPATCHING"
               /\ Become(p, [s EXCEPT !.pc = "mapWrite", !.held = journal[s.op]])
      <4> DEFINE t == [s EXCEPT !.pc = "mapWrite", !.held = journal[s.op]]
      <4>1. t.pc = "mapWrite" /\ t.op = s.op /\ t.held = journal[s.op]
        BY <1>0 DEF Process
      <4>2. Still
        BY <1>5, <2>1 DEF RecordMapped
      <4>3. t.held # Absent /\ t.held.status \in Custodied
        BY <3>2, <4>1 DEF Absent, Custodied
      <4>4. Become(p, t)
        BY <3>2
      <4> HIDE DEF t
      <4> QED BY <2>0, <4>1, <4>2, <4>3, <4>4, MoveKeeps
    <3> QED BY <1>5, <2>1, <3>1, <3>2 DEF RecordMapped
  <2>2. CASE s.pc = "mapWrite"
    <3> DEFINE next == [s.held EXCEPT !.status = "MAPPED", !.admission = TRUE]
               done == [s EXCEPT !.pc = "track", !.held = Absent]
    <3>1. Sane(s.held)
      BY <1>0, <2>2 DEF Sound, Holding
    <3>2. /\ next.status \in Custodied /\ next.noReply = s.held.noReply
          /\ next.attempt = s.held.attempt /\ next.attempt \in Nat
      BY <3>1 DEF Sane, Record, Custodied
    <3>3. Off(done)
      BY <1>0 DEF Process, Holding
    <3>4. /\ Write(p, next, done, Cleanup(s), Cleanup(s))
          /\ UNCHANGED <<issued, server, knocks, silences, abandoned>>
      BY <1>5, <2>2 DEF RecordMapped
    <3> HIDE DEF next, done
    <3>5. journal[s.op] = s.held => next.noReply <= Heard(s.op, next.attempt)
      BY <2>0, <3>1, <3>2, EvidenceStands DEF Sane, Record
    <3>6. Keeps(done)
      BY <3>3, NothingHeld
    <3> QED BY <1>0, <2>0, <3>1, <3>2, <3>4, <3>5, <3>6, WriteKeeps
  <2> QED BY <1>5, <2>1, <2>2 DEF RecordMapped
<1>6. CASE TrackAdmission(p)
  <2> DEFINE t == [s EXCEPT !.live = @ \union {s.op}]
  <2>1. DOMAIN t = DOMAIN s /\ t.pc = s.pc
    BY <1>0 DEF Process
  <2>2. Off(Rest(t))
    BY DEF Rest, Holding
  <2>3. \A x : Off([t EXCEPT !.pc = "retire", !.task = "retire", !.pending = x])
    BY <1>0 DEF Process, Holding
  <2>4. Off(Cleanup(s))
    BY <1>0 DEF Holding
  <2>5. \/ Become(p, Rest(t)) \/ Become(p, Cleanup(s))
        \/ \E x : Become(p, [t EXCEPT !.pc = "retire", !.task = "retire", !.pending = x])
    BY <1>6 DEF TrackAdmission
  <2>6. Still
    BY <1>6 DEF TrackAdmission
  <2> HIDE DEF t
  <2>7. \E u : Off(u) /\ Become(p, u) /\ Still
    BY <2>2, <2>3, <2>4, <2>5, <2>6
  <2> QED BY <1>1, <2>7
<1> QED BY <1>2, <1>3, <1>4, <1>5, <1>6, CreationKeeps, DispatchKeeps DEF Admitting

\* Retire and the queued-retirement worker only choose what to recover.
LEMMA RetiringKeeps ==
  ASSUME Sanity, Sanity', Kept, NEW p \in Procs, Retiring(p) \/ Crash(p)
  PROVE  Kept' /\ Promised
<1> DEFINE s == proc[p]
           Still == UNCHANGED <<journal, issued, server, knocks, silences, abandoned>>
           Off(t) == t.pc \notin Holding \union {"knock"}
<1> USE DEF At, durable, host, network, history
<1>0. s \in Process /\ Keeps(Fail(s)) /\ Keeps(Refuse(s)) /\ Keeps(Succeed(s))
  BY EndingsKeep DEF Sanity, ProcsSound
<1>1. ASSUME NEW t, Become(p, t), Off(t) \/ Keeps(t), Still PROVE Kept' /\ Promised
  BY <1>1, MoveKeeps, AloneKeeps
<1>2. /\ \A o, x : Off([s EXCEPT !.pc = "retire", !.task = "retire", !.op = o, !.pending = x])
      /\ Off([s EXCEPT !.pc = "pendings", !.task = "queue"])
      /\ \A o : Off([s EXCEPT !.pc = "retire", !.op = o])
      /\ Off([s EXCEPT !.pc = "prepare", !.task = "knock"])
      /\ Off([s EXCEPT !.pc = "load"])
  BY <1>0 DEF Process, Holding
<1>3. Off([Rest(s) EXCEPT !.queued = FALSE]) /\ Off(Fresh)
  BY DEF Rest, Fresh, Holding
<1>4. CASE RetireAdmission(p)
  BY <1>1, <1>2, <1>4 DEF RetireAdmission
<1>5. CASE RecoverQueued(p)
  BY <1>1, <1>2, <1>5 DEF RecoverQueued
<1>6. CASE RetirePendingForResource(p)
  BY <1>1, <1>2, <1>3, <1>6 DEF RetirePendingForResource
<1>7. CASE Retire(p)
  BY <1>0, <1>1, <1>2, <1>7 DEF Retire
<1>8. CASE Crash(p)
  BY <1>1, <1>3, <1>8 DEF Crash
<1> QED BY <1>4, <1>5, <1>6, <1>7, <1>8 DEF Retiring

--------------------------------------------------------------------------------
(***************************************************************************)
(* Recovery keeps custody.                                                 *)
(***************************************************************************)
\* The steps of a recovery pass that choose, load, wait or reconcile, and write
\* nothing (RecoverPending, loadRecovery, waitRecovery).
LEMMA LookingKeeps ==
  ASSUME Sanity, Sanity', Kept, NEW p \in Procs,
         \/ RecoverNext(p) \/ RecoverPendingEnds(p) \/ LoadOperation(p)
         \/ AwaitDeadline(p) \/ ReconcileConflict(p)
  PROVE  Kept' /\ Promised
<1> DEFINE s == proc[p]
           Still == UNCHANGED <<journal, issued, server, knocks, silences, abandoned>>
           Off(t) == t.pc \notin Holding \union {"knock"}
<1> USE DEF At, durable, host, network, history
<1>0. /\ s \in Process /\ Sound(s) /\ Keeps(s)
      /\ Keeps(Rest(s)) /\ Keeps(Fail(s)) /\ Keeps(Refuse(s)) /\ Keeps(Succeed(s))
      /\ Keeps(Reload(s))
  BY EndingsKeep DEF Sanity, ProcsSound, Kept
<1>1. ASSUME NEW t, Become(p, t), Off(t) \/ Keeps(t), Still PROVE Kept' /\ Promised
  BY <1>1, MoveKeeps, AloneKeeps
<1>2. CASE RecoverNext(p)
  <2>1. \A o : Off([s EXCEPT !.pc = "load", !.op = o])
    BY <1>0 DEF Process, Holding
  <2> QED BY <1>1, <1>2, <2>1 DEF RecoverNext
<1>3. CASE RecoverPendingEnds(p)
  <2>1. /\ \A b : Off([Rest(s) EXCEPT !.swept = b])
        /\ Off([Rest(s) EXCEPT !.pc = "pendings", !.task = "pendings"])
    BY DEF Rest, Holding
  <2>2. \E u : (Off(u) \/ Keeps(u)) /\ Become(p, u) /\ Still
    BY <1>0, <1>3, <2>1 DEF RecoverPendingEnds
  <2> QED BY <1>1, <2>2
<1>4. CASE LoadOperation(p)
  <2>1. s.op \in Ops /\ Still
    BY <1>0, <1>4 DEF LoadOperation, Sound, Resting
  <2>2. ASSUME NEW pc, Become(p, [s EXCEPT !.pc = pc, !.held = journal[s.op]]),
               journal[s.op] # Absent,
               \/ pc \in {"mapWrite", "gate"} /\ journal[s.op].status \in Custodied
               \/ pc = "closing" /\ journal[s.op].status = "MAPPED"
               \/ pc = "cancel" /\ journal[s.op].status = "PREPARED"
               \/ pc = "delete"
        PROVE  Kept' /\ Promised
    <3> DEFINE t == [s EXCEPT !.pc = pc, !.held = journal[s.op]]
    <3>1. t.pc = pc /\ t.op = s.op /\ t.held = journal[s.op] /\ Become(p, t)
      BY <1>0, <2>2 DEF Process
    <3> HIDE DEF t
    <3> QED BY <2>1, <2>2, <3>1, MoveKeeps
  <2>3. CASE Become(p, Succeed(s)) \/ Become(p, Fail(s))
    BY <1>0, <1>1, <2>1, <2>3
  <2>4. journal[s.op].status \in Status => journal[s.op] # Absent
    BY DEF Absent, Status
  <2>5. /\ Terminal \subseteq Status /\ "PREPARED" \in Status
        /\ "MAPPED" \in Status \intersect Custodied
        /\ {"DISPATCHING", "CLOSING"} \subseteq Status \intersect Custodied
    BY DEF Terminal, Status, Custodied
  <2> HIDE DEF Custodied
  <2> QED BY <1>4, <2>2, <2>3, <2>4, <2>5 DEF LoadOperation
<1>5. CASE AwaitDeadline(p)
  <2>1. CASE Become(p, Fail(s))
    BY <1>0, <1>1, <1>5, <2>1 DEF AwaitDeadline
  <2>2. CASE Become(p, [s EXCEPT !.pc = "attempt"])
    <3> DEFINE t == [s EXCEPT !.pc = "attempt"]
    <3>1. t.pc = "attempt" /\ t.op = s.op /\ t.held = s.held /\ s.pc = "gate"
      BY <1>0, <1>5 DEF Process, AwaitDeadline
    <3> HIDE DEF t
    <3>2. Keeps(t)
      BY <1>0, <3>1 DEF Keeps, Acting, Holding
    <3> QED BY <1>1, <1>5, <2>2, <3>2 DEF AwaitDeadline, t
  <2> QED BY <1>5, <2>1, <2>2 DEF AwaitDeadline
<1>6. CASE ReconcileConflict(p)
  BY <1>0, <1>1, <1>6 DEF ReconcileConflict
<1> QED BY <1>2, <1>3, <1>4, <1>5, <1>6

\* The writes of a recovery that change neither the silence count nor, unless
\* the record was not yet dispatched, its custody.
LEMMA WritingKeeps ==
  ASSUME Sanity, Sanity', Kept, NEW p \in Procs,
         \/ CancelPrepared(p) \/ CloseMapped(p) \/ DeleteTerminal(p)
         \/ CountAttempt(p) \/ PinEndpoint(p) \/ MapUnexpected(p)
  PROVE  Kept' /\ Promised
<1> DEFINE s == proc[p]
           Rests == UNCHANGED <<issued, server, knocks, silences, abandoned>>
<1> USE DEF At, durable, host, network, history
<1>0. /\ s \in Process /\ Sound(s) /\ Keeps(s) /\ s.pc \in Holding
      /\ s.op \in Ops /\ s.op \in issued /\ Sane(s.held) /\ s.held \in Record
      /\ Keeps(Fail(s)) /\ Keeps(Refuse(s)) /\ Keeps(Succeed(s)) /\ Keeps(Reload(s))
      /\ Keeps(Reconcile(s))
  <2>1. s.pc \in Holding /\ s.pc \notin Resting /\ s \in Process /\ Sound(s) /\ Keeps(s)
    BY DEF CancelPrepared, CloseMapped, MoveTo, DeleteTerminal, CountAttempt, PinEndpoint,
           MapUnexpected, Holding, Resting, Sanity, ProcsSound, Kept
  <2>2. s.op \in Ops /\ Sane(s.held) /\ s.held \in Record
    BY <2>1 DEF Sound, Sane
  <2>3. s.op \in issued
    BY <2>1 DEF Keeps
  <2> QED BY <2>1, <2>2, <2>3, EndingsKeep
<1>1. ASSUME NEW next, NEW done, NEW lost, Write(p, next, done, lost, Fail(s)), Rests,
             next.noReply = s.held.noReply, next.attempt \in Nat, next.attempt >= s.held.attempt,
             s.held.status \in Custodied => next.status \in Custodied,
             Legal(s.held, next) /\ journal[s.op] = s.held => Keeps(done),
             lost \in {Refuse(s), Reconcile(s)}
      PROVE  Kept' /\ Promised
  <2>1. journal[s.op] = s.held => next.noReply <= Heard(s.op, next.attempt)
    BY <1>0, <1>1, EvidenceStands
  <2> QED BY <1>0, <1>1, <2>1, WriteKeeps
<1>2. CASE CancelPrepared(p)
  <2> DEFINE next == [s.held EXCEPT !.status = "CANCELED"]
             done == [s EXCEPT !.pc = "delete", !.held = next]
  <2>1. /\ s.held.status = "PREPARED" /\ next.noReply = s.held.noReply
        /\ next.attempt = s.held.attempt /\ next.attempt \in Nat
    BY <1>0, <1>2 DEF CancelPrepared, MoveTo, Keeps, Record
  <2>2. done.pc = "delete" /\ done.op = s.op
    BY <1>0 DEF Process
  <2>3. Write(p, next, done, Reconcile(s), Fail(s)) /\ Rests
    BY <1>2 DEF CancelPrepared, MoveTo
  <2> HIDE DEF next, done
  <2>4. Keeps(done)
    BY <1>0, <2>2 DEF Keeps, Acting
  <2> QED BY <1>1, <2>1, <2>3, <2>4 DEF Custodied, Record
<1>3. CASE CloseMapped(p)
  <2> DEFINE next == [s.held EXCEPT !.status = "CLOSING"]
             done == [s EXCEPT !.pc = "gate", !.held = next]
  <2>1. /\ next.status = "CLOSING" /\ next.noReply = s.held.noReply
        /\ next.attempt = s.held.attempt /\ next.attempt \in Nat
    BY <1>0 DEF Record
  <2>2. done.pc = "gate" /\ done.op = s.op /\ done.held = next
    <3> HIDE DEF next
    <3> QED BY <1>0 DEF Process
  <2>3. Write(p, next, done, Reconcile(s), Fail(s)) /\ Rests
    BY <1>3 DEF CloseMapped, MoveTo
  <2> HIDE DEF next, done
  <2>4. Safe(s.op)
    BY <1>0, <1>3 DEF CloseMapped, MoveTo, Keeps, Acting
  <2>5. Keeps(done)
    BY <1>0, <2>1, <2>2, <2>4 DEF Keeps, Acting, Custodied
  <2> QED BY <1>1, <2>1, <2>3, <2>5 DEF Custodied, Record
<1>4. CASE DeleteTerminal(p)
  <2>1. Write(p, Absent, Succeed(s), Reconcile(s), Fail(s)) /\ Rests
    BY <1>4 DEF DeleteTerminal
  <2>2. Legal(s.held, Absent) => s.held.status \notin Custodied
    BY DEF Legal, Terminal, Custodied
  <2> QED BY <1>0, <2>1, <2>2, WriteKeeps
<1>5. CASE CountAttempt(p)
  <2> DEFINE n == s.held.attempt + 1
             next == [s.held EXCEPT !.attempt = n, !.notBefore = Later(s.held, RecoveryBackoff[n])]
             done == [s EXCEPT !.pc = "exchange", !.held = next]
  <2>1. CASE Become(p, Fail(s)) /\ UNCHANGED journal
    BY <1>0, <1>5, <2>1, AloneKeeps DEF CountAttempt
  <2>2. CASE Write(p, next, done, Reconcile(s), Fail(s))
    <3>1. /\ next.status = s.held.status /\ next.noReply = s.held.noReply
          /\ next.attempt = n /\ n \in Nat /\ n >= s.held.attempt /\ n - 1 = s.held.attempt
      BY <1>0 DEF Record
    <3>2. done.pc = "exchange" /\ done.op = s.op /\ done.held = next
      <4> HIDE DEF next
      <4> QED BY <1>0 DEF Process
    <3>3. Write(p, next, done, Reconcile(s), Fail(s)) /\ Rests
      BY <1>5, <2>2 DEF CountAttempt
    <3>4. Safe(s.op) /\ s.held.status \in Custodied
      BY <1>0, <1>5 DEF CountAttempt, Keeps, Acting
    <3> HIDE DEF n, next, done
    <3>5. ASSUME journal[s.op] = s.held PROVE Keeps(done)
      <4>1. s.held.noReply <= Heard(s.op, s.held.attempt)
        BY <1>0, <3>5, AbsentIsNoRecord DEF Kept, World, Answerable
      <4>2. next.noReply <= Heard(done.op, next.attempt - 1)
        BY <3>1, <3>2, <4>1
      <4> HIDE DEF Custodied
      <4> QED BY <1>0, <3>1, <3>2, <3>4, <4>2 DEF Keeps, Acting, Holding
    <3> QED BY <1>1, <3>1, <3>3, <3>4, <3>5
  <2> QED BY <1>5, <2>1, <2>2 DEF CountAttempt
<1>6. CASE PinEndpoint(p)
  <2> DEFINE t == [s EXCEPT !.held = s.moved]
             lost == IF s.reply = "admitted" THEN Refuse(s) ELSE Reconcile(s)
  <2>1. /\ s.moved.status = s.held.status /\ s.moved.noReply = s.held.noReply
        /\ s.moved.attempt = s.held.attempt /\ s.moved.attempt \in Nat
        /\ s.moved \in Record
    <3>1. s.moved = [s.held EXCEPT !.endpoint = s.moved.endpoint] /\ Sane(s.moved)
      BY <1>0, <1>6 DEF PinEndpoint, Keeps, Sound
    <3> QED BY <1>0, <3>1 DEF Sane, Record
  <2>2. t \in Process /\ t.op = s.op /\ t.held = s.moved
    BY <1>0, <2>1 DEF Process
  <2>3. /\ Safe(s.op) /\ s.held.status \in Custodied
        /\ s.reply = "complete" => server[s.op] = "ended"
    BY <1>0, <1>6 DEF PinEndpoint, Keeps, Acting
  <2>4. Write(p, s.moved, Answered(t, s.reply), lost, Fail(s)) /\ Rests
    BY <1>6 DEF PinEndpoint
  <2>5. lost \in {Refuse(s), Reconcile(s)}
    OBVIOUS
  <2> HIDE DEF t, lost
  <2>6. Keeps(Answered(t, s.reply))
    <3>1. Keeps(Reload(t)) /\ Keeps(Fail(t)) /\ Keeps(Refuse(t))
      BY <2>2, EndingsKeep
    <3>2. CASE s.reply = "complete"
      <4> DEFINE u == [t EXCEPT !.pc = "finish", !.reply = "complete", !.moved = Absent]
      <4>1. u.pc = "finish" /\ u.op = s.op /\ u.held = s.moved /\ u.reply = "complete"
        BY <2>2 DEF Process
      <4> HIDE DEF u, Custodied
      <4>2. Keeps(u)
        BY <1>0, <2>1, <2>3, <3>2, <4>1 DEF Keeps, Acting
      <4> QED BY <3>2, <4>2 DEF Answered, u
    <3>3. CASE s.reply = "admitted"
      <4> DEFINE u == [t EXCEPT !.pc = "unexpected", !.reply = "none", !.moved = Absent]
      <4>1. u.pc = "unexpected" /\ u.op = s.op /\ u.held = s.moved
        BY <2>2 DEF Process
      <4> HIDE DEF u, Custodied
      <4>2. Keeps(u)
        BY <1>0, <2>1, <2>3, <4>1 DEF Keeps, Acting
      <4> QED BY <3>3, <4>2 DEF Answered, u
    <3> QED BY <3>1, <3>2, <3>3 DEF Answered
  <2> QED BY <1>0, <1>1, <2>1, <2>3, <2>4, <2>5, <2>6 DEF Record
<1>7. CASE MapUnexpected(p)
  <2> DEFINE next == [s.held EXCEPT !.status = "MAPPED", !.admission = TRUE]
  <2>1. CASE Become(p, Refuse(s)) /\ UNCHANGED journal
    BY <1>0, <1>7, <2>1, AloneKeeps DEF MapUnexpected
  <2>2. CASE Write(p, next, Reload(s), Refuse(s), Fail(s))
    <3>1. /\ next.status = "MAPPED" /\ next.noReply = s.held.noReply
          /\ next.attempt = s.held.attempt /\ next.attempt \in Nat
      BY <1>0 DEF Record
    <3>2. Rests
      BY <1>7 DEF MapUnexpected
    <3> HIDE DEF next
    <3> QED BY <1>0, <1>1, <2>2, <3>1, <3>2 DEF Custodied
  <2> QED BY <1>7, <2>1, <2>2 DEF MapUnexpected
<1> QED BY <1>2, <1>3, <1>4, <1>5, <1>6, <1>7

\* A silence is counted only after it was suffered, and recovery gives up only
\* with enough of them (countPostExpiryNoReply).
LEMMA CountingKeeps ==
  ASSUME Sanity, Sanity', Kept, NEW p \in Procs, CountNoReply(p)
  PROVE  Kept' /\ Promised
<1> DEFINE s == proc[p]
           n == s.held.noReply + 1
           next == [s.held EXCEPT !.noReply = n, !.notBefore = Later(s.held, NoReplyBackoff[n])]
           giveUp == [s EXCEPT !.pc = "finish", !.held = next, !.reply = "silent"]
           done == IF n < AbandonAttempts THEN Fail(s) ELSE giveUp
           Rests == UNCHANGED <<issued, server, knocks, silences, abandoned>>
<1> USE DEF At, durable, host, network, history
<1>0. /\ s \in Process /\ s.pc = "count" /\ s.op \in Ops /\ s.op \in issued
      /\ Sane(s.held) /\ s.held \in Record /\ Safe(s.op) /\ s.held.status \in Custodied
      /\ Keeps(Fail(s)) /\ Keeps(Reconcile(s))
      /\ s.held.attempt \in silences[s.op]
      /\ s.held.noReply <= Heard(s.op, s.held.attempt - 1)
  <2>1. s.pc = "count" /\ s \in Process /\ Sound(s) /\ Keeps(s)
    BY DEF CountNoReply, Sanity, ProcsSound, Kept
  <2>2. s.op \in issued /\ s.op \in Ops /\ Sane(s.held) /\ Safe(s.op)
    BY <2>1 DEF Keeps, Sound, Holding, Resting, Acting
  <2> HIDE DEF Custodied
  <2>3. Keeps(Fail(s)) /\ Keeps(Reconcile(s))
    BY <2>1, <2>2, EndingsKeep
  <2>4. s.held \in Record /\ s.held.status \in Custodied
    BY <2>1, <2>2 DEF Sane, Keeps, Acting
  <2>5. s.held.attempt \in silences[s.op] /\ s.held.noReply <= Heard(s.op, s.held.attempt - 1)
    BY <2>1 DEF Keeps
  <2> QED BY <2>1, <2>2, <2>3, <2>4, <2>5
<1>1. CASE Become(p, Fail(s)) /\ UNCHANGED journal
  <2>1. Rests
    BY DEF CountNoReply
  <2> HIDE DEF Custodied
  <2> QED BY <1>0, <1>1, <2>1, AloneKeeps
<1>2. CASE Write(p, next, done, Reconcile(s), Fail(s))
  <2>1. /\ next.status = s.held.status /\ next.noReply = n /\ next.attempt = s.held.attempt
        /\ n \in Nat /\ n = s.held.noReply + 1 /\ s.held.attempt \in Nat
    <3> HIDE DEF Custodied
    <3> QED BY <1>0 DEF Record
  <2>2. giveUp.pc = "finish" /\ giveUp.op = s.op /\ giveUp.held = next /\ giveUp.reply = "silent"
    <3> HIDE DEF next
    <3> QED BY <1>0 DEF Process
  <2> HIDE DEF next, giveUp, n
  <2>3. ASSUME Legal(s.held, next)
        PROVE  n <= Heard(s.op, next.attempt) /\ n <= Cardinality(silences[s.op])
    <3>1. s.held.attempt >= 1
      <4>1. next # Absent
        BY <1>0, <2>1 DEF Absent, Custodied
      <4> QED BY <2>1, <2>3, <1>0, <4>1 DEF Legal, ValidTransition, ValidRecord, Record
    <3>2. IsFiniteSet(silences[s.op])
      BY <1>0 DEF Kept, World, Answerable
    <3> DEFINE S == silences[s.op]
               a == s.held.attempt
    <3>3. IsFiniteSet(S) /\ a \in Nat /\ a >= 1 /\ a \in S /\ next.attempt = a
      BY <1>0, <2>1, <3>1, <3>2
    <3>4. n - 1 <= Cardinality(S \cap 1..(a - 1))
      BY <1>0, <2>1 DEF Heard, Record
    <3> HIDE DEF S, a
    <3>5. Cardinality(S \cap 1..a) = Cardinality(S \cap 1..(a - 1)) + 1
      BY <3>3, OneMoreSilence
    <3>6. Cardinality(S \cap 1..a) \in Nat /\ Cardinality(S \cap 1..(a - 1)) \in Nat
          /\ Cardinality(S \cap 1..a) <= Cardinality(S) /\ Cardinality(S) \in Nat
      <4>1. S \subseteq S /\ a - 1 \in Int /\ a \in Int /\ a - 1 <= a
        BY <3>3
      <4>2. \A b \in Int : b <= a => Cardinality(S \cap 1..b) \in Nat
        BY <3>3, <4>1, MoreIsHeard
      <4>3. Cardinality(S \cap 1..a) <= Cardinality(S) /\ Cardinality(S) \in Nat
        BY <3>3, <4>1, MoreIsHeard
      <4> QED BY <3>3, <4>1, <4>2, <4>3
    <3>7. n <= Cardinality(S \cap 1..a) /\ n <= Cardinality(S)
      BY <2>1, <3>4, <3>5, <3>6
    <3> QED BY <3>3, <3>7 DEF Heard, S
  <2>4. ASSUME Legal(s.held, next) PROVE Keeps(done)
    <3>1. CASE n < AbandonAttempts
      BY <1>0, <3>1
    <3>2. CASE ~(n < AbandonAttempts)
      <4>1. Cardinality(silences[s.op]) >= AbandonAttempts
        <5>1. Cardinality(silences[s.op]) \in Nat
          BY <1>0, FS_CardinalityType DEF Kept, World, Answerable
        <5> QED BY <2>1, <2>3, <2>4, <3>2, <5>1, Bounds
      <4> HIDE DEF Custodied
      <4>2. Keeps(giveUp)
        BY <1>0, <2>1, <2>2, <4>1 DEF Keeps, Acting
      <4> QED BY <3>2, <4>2
    <3> QED BY <3>1, <3>2
  <2>5. Rests
    BY DEF CountNoReply
  <2>6. Legal(s.held, next) => next.noReply <= Heard(s.op, next.attempt)
    BY <2>1, <2>3
  <2>7. s.held.status \in Custodied => next.status \in Custodied
    BY <2>1
  <2> HIDE DEF done, Custodied
  <2> QED BY <1>0, <1>2, <2>4, <2>5, <2>6, <2>7, WriteKeeps
<1> QED BY <1>1, <1>2 DEF CountNoReply

\* Whatever the server does in the name of an operation that is answered for,
\* and whatever silence is recorded, the world stays answerable.
LEMMA ServingMovesOn ==
  ASSUME Sanity, Kept, NEW o \in Ops, o \in issued, Safe(o),
         \/ server' = server
         \/ server' = [server EXCEPT ![o] = "ended"]
         \/ server[o] = "unknown" /\ server' = [server EXCEPT ![o] = "open"],
         silences' = silences \/ \E k : silences' = [silences EXCEPT ![o] = @ \union {k}],
         UNCHANGED <<journal, issued, knocks, abandoned>>
  PROVE  Onward /\ World' /\ Promised
<1>1. \A x \in Ops : /\ x # o => server'[x] = server[x]
                     /\ server[x] = "ended" => server'[x] = "ended"
                     /\ server'[x] # "unknown" => server[x] # "unknown" \/ x = o
  BY DEF Sanity, RestTyped
<1>2. \A x \in Ops : silences[x] \subseteq silences'[x] /\ IsFiniteSet(silences'[x])
  <2> SUFFICES ASSUME NEW x \in Ops
               PROVE  silences[x] \subseteq silences'[x] /\ IsFiniteSet(silences'[x])
    OBVIOUS
  <2>1. IsFiniteSet(silences[x])
    BY DEF Kept, World, Answerable
  <2>2. silences'[x] = silences[x] \/ \E k : silences'[x] = silences[x] \union {k}
    BY DEF Sanity, RestTyped
  <2> QED BY <2>1, <2>2, FS_AddElement
<1>3. Onward
  BY <1>1, <1>2 DEF Onward, Safe
<1>4. ASSUME NEW x \in Ops PROVE Answerable(x)'
  <2>1. Answerable(x)
    BY DEF Kept, World
  <2>2. Safe(x) => Safe(x)'
    BY <1>3 DEF Onward
  <2>3. x \in knocks' \/ server'[x] # "unknown" => x \in issued' /\ Safe(x)'
    BY <1>1, <2>1, <2>2 DEF Answerable
  <2>4. journal'[x] # Absent =>
          journal'[x].noReply <= Cardinality(silences'[x] \cap 1..journal'[x].attempt)
    <3> SUFFICES ASSUME journal[x] # Absent
                 PROVE  journal[x].noReply <= Cardinality(silences'[x] \cap 1..journal[x].attempt)
      OBVIOUS
    <3> DEFINE n == journal[x].attempt
               k == journal[x].noReply
    <3>1. n \in Int /\ n <= n /\ k \in Nat /\ k <= Cardinality(silences[x] \cap 1..n)
      BY <2>1 DEF Answerable, Heard, Sanity, JournalSane, Sane, Record
    <3> HIDE DEF n, k
    <3>2. /\ Cardinality(silences[x] \cap 1..n) \in Nat /\ Cardinality(silences'[x] \cap 1..n) \in Nat
          /\ Cardinality(silences[x] \cap 1..n) <= Cardinality(silences'[x] \cap 1..n)
      BY <1>2, <3>1, MoreIsHeard
    <3>3. k <= Cardinality(silences'[x] \cap 1..n)
      BY <3>1, <3>2
    <3> QED BY <3>3 DEF n, k
  <2>5. x \in abandoned' => Cardinality(silences'[x]) >= AbandonAttempts
    <3>1. /\ Cardinality(silences[x]) \in Nat /\ Cardinality(silences'[x]) \in Nat
          /\ Cardinality(silences[x]) <= Cardinality(silences'[x])
      <4>1. silences[x] \in SUBSET silences'[x]
        BY <1>2
      <4> QED BY <1>2, <4>1, FS_Subset, FS_CardinalityType
    <3> QED BY <2>1, <3>1, Bounds DEF Answerable
  <2>6. journal'[x] # Absent \/ x \in abandoned' => x \in issued'
    BY <2>1 DEF Answerable
  <2> QED BY <1>2, <2>3, <2>4, <2>5, <2>6 DEF Answerable, Heard
<1>5. Promised
  <2>1. [x \in Ops |-> Phase(x)]' = [x \in Ops |-> Phase(x)]
    BY DEF Phase
  <2>2. CASE server' = server
    BY <2>1, <2>2 DEF Promised, Promise!vars
  <2>3. CASE server' # server
    <3>1. server[o] # "ended"
      BY <2>3 DEF Sanity, RestTyped
    <3>2. Phase(o) \in {"held", "abandoned"}
      BY <3>1 DEF Phase, Safe, Custodied
    <3>3. Promise!Open(o) \/ Promise!End(o)
      BY <2>1, <2>3, <3>1, <3>2 DEF Promise!Open, Promise!End
    <3> QED BY <3>3 DEF Promised, Promise!Next
  <2> QED BY <2>2, <2>3
<1> QED BY <1>3, <1>4, <1>5 DEF World

\* What a recovery packet may do to the server, wherever it went.
LEMMA WhatServesDo ==
  ASSUME Sanity, NEW s, NEW e, s.op \in Ops
  PROVE  /\ \A reply \in Replies : Serve(s, e, reply) =>
              \/ server' = server
              \/ server' = [server EXCEPT ![s.op] = "ended"]
              \/ server[s.op] = "unknown" /\ server' = [server EXCEPT ![s.op] = "open"]
         /\ Unanswered(s, e) =>
              \/ server' = server
              \/ server' = [server EXCEPT ![s.op] = "ended"]
              \/ server[s.op] = "unknown" /\ server' = [server EXCEPT ![s.op] = "open"]
         /\ Serve(s, e, "complete") /\ CellOf[e] = s.held.cell => server'[s.op] = "ended"
<1>1. \A reply : Serve(s, e, reply) =>
              \/ server' = server
              \/ server' = [server EXCEPT ![s.op] = "ended"]
              \/ server[s.op] = "unknown" /\ server' = [server EXCEPT ![s.op] = "open"]
  BY DEF Serve
<1>2. Serve(s, e, "complete") /\ CellOf[e] = s.held.cell => server'[s.op] = "ended"
  BY DEF Serve, Sanity, RestTyped
<1> QED BY <1>1, <1>2 DEF Unanswered

\* What an exchange has just taught a process is true when it acts on it: the
\* server has ended the session, or the attempt stands among the silences.
LEMMA WhatIsLearntKeeps ==
  ASSUME Sanity, Sanity', Kept, Onward, NEW p \in Procs, NEW t, proc'[p] = t,
         proc[p].pc \in {"exchange", "silent"}, t.op = proc[p].op, t.held = proc[p].held,
         \/ t.pc = "finish" /\ t.reply = "complete" /\ server'[t.op] = "ended"
         \/ t.pc = "count" /\ t.held.attempt \in silences'[t.op]
         \/ /\ t.pc = "pin" /\ t.moved = [t.held EXCEPT !.endpoint = t.moved.endpoint]
            /\ t.reply = "complete" => server'[t.op] = "ended"
  PROVE  Keeps(proc[p])'
<1>1. Keeps(proc[p]) /\ Sound(proc[p])
  BY DEF Kept, Sanity, ProcsSound
<1>2. /\ t.op \in Ops /\ t.op \in issued' /\ t.held.status \in Custodied
      /\ t.held.noReply <= Heard(t.op, t.held.attempt - 1)
      /\ Sane(t.held) /\ Safe(t.op)
  <2> HIDE DEF Custodied
  <2> QED BY <1>1 DEF Keeps, Sound, Holding, Resting, Acting, Onward
<1>3. t.op \in abandoned' \/ server'[t.op] = "ended" \/ journal'[t.op].status \in Custodied
  BY <1>2 DEF Onward, Safe
<1>4. t.held.noReply <= Cardinality(silences'[t.op] \cap 1..(t.held.attempt - 1))
  <2> DEFINE S == silences[t.op]
             T == silences'[t.op]
             n == t.held.attempt - 1
             k == t.held.noReply
  <2>1. /\ n \in Int /\ n <= n /\ k \in Nat /\ k <= Cardinality(S \cap 1..n)
        /\ S \subseteq T /\ IsFiniteSet(T)
    BY <1>2 DEF Heard, Onward, Sane, Record
  <2> HIDE DEF S, T, n, k
  <2>2. /\ Cardinality(S \cap 1..n) \in Nat /\ Cardinality(T \cap 1..n) \in Nat
        /\ Cardinality(S \cap 1..n) <= Cardinality(T \cap 1..n)
    BY <2>1, MoreIsHeard
  <2>3. k <= Cardinality(T \cap 1..n)
    BY <2>1, <2>2
  <2> QED BY <2>3 DEF T, n, k
<1> HIDE DEF Custodied
<1> QED BY <1>2, <1>3, <1>4 DEF Keeps, Heard, Safe, Acting, Holding

\* The exchanges of one attempt, with the pinned and with the current endpoint.
LEMMA ExchangingKeeps ==
  ASSUME Sanity, Sanity', Kept, NEW p \in Procs, ExchangePinned(p) \/ ExchangeRefenced(p)
  PROVE  Kept' /\ Promised
<1> DEFINE s == proc[p]
<1> USE DEF At, durable, host, network, history
<1>0. /\ s \in Process /\ s.pc \in {"exchange", "silent"} /\ s.op \in Ops /\ s.op \in issued
      /\ Sane(s.held) /\ Safe(s.op) /\ Keeps(s)
      /\ Keeps(Fail(s)) /\ Keeps(Refuse(s)) /\ Keeps(Reload(s))
  <2>1. s.pc \in {"exchange", "silent"} /\ s \in Process /\ Sound(s) /\ Keeps(s)
    BY DEF ExchangePinned, ExchangeRefenced, Sanity, ProcsSound, Kept
  <2>2. s.op \in Ops /\ Sane(s.held)
    BY <2>1 DEF Sound, Holding, Resting
  <2>3. s.op \in issued /\ Safe(s.op)
    BY <2>1 DEF Keeps, Holding, Acting
  <2> QED BY <2>1, <2>2, <2>3, EndingsKeep
<1>1. CellOf[s.held.endpoint] = s.held.cell
  <2>1. Sane(s.held)
    BY <1>0, Zenon
  <2> QED BY <2>1 DEF Sane
<1>2. UNCHANGED <<journal, issued, knocks, abandoned>>
  BY DEF ExchangePinned, ExchangeRefenced
<1>3. /\ \/ server' = server
         \/ server' = [server EXCEPT ![s.op] = "ended"]
         \/ server[s.op] = "unknown" /\ server' = [server EXCEPT ![s.op] = "open"]
      /\ silences' = silences \/ \E k : silences' = [silences EXCEPT ![s.op] = @ \union {k}]
  <2>1. CASE ExchangePinned(p)
    BY <1>0, <2>1, WhatServesDo DEF ExchangePinned
  <2>2. CASE ExchangeRefenced(p)
    BY <1>0, <2>2, WhatServesDo DEF ExchangeRefenced
  <2> QED BY <2>1, <2>2
<1>4. Onward /\ World' /\ Promised
  <2>1. PICK o \in Ops : o = s.op
    BY <1>0
  <2> QED BY <1>0, <1>2, <1>3, <2>1, ServingMovesOn
<1>5. ASSUME NEW t, Become(p, t), Keeps(t) PROVE Kept'
  <2>1. proc'[p] = t /\ \A q \in Procs : q # p => proc'[q] = proc[q]
    BY <1>5 DEF Become, Sanity, ProcsSound
  <2>2. Sound(t)
    BY <2>1 DEF Sanity, ProcsSound, Sound
  <2> QED BY <1>4, <1>5, <2>1, <2>2, KeepsOn, OthersKeep
<1>6. ASSUME NEW t, Become(p, t), t.op = s.op, t.held = s.held,
             \/ t.pc = "finish" /\ t.reply = "complete" /\ server'[t.op] = "ended"
             \/ t.pc = "count" /\ t.held.attempt \in silences'[t.op]
             \/ /\ t.pc = "pin" /\ t.moved = [t.held EXCEPT !.endpoint = t.moved.endpoint]
                /\ t.reply = "complete" => server'[t.op] = "ended"
      PROVE  Kept'
  <2>1. proc'[p] = t /\ \A q \in Procs : q # p => proc'[q] = proc[q]
    BY <1>6 DEF Become, Sanity, ProcsSound
  <2>2. Keeps(proc[p])'
    BY <1>0, <1>4, <1>6, <2>1, WhatIsLearntKeeps, ZenonT(30)
  <2> QED BY <1>4, <2>1, <2>2, OthersKeep
<1>7. CASE ExchangePinned(p)
  <2>1. CASE Become(p, Fail(s)) \/ Become(p, Reload(s)) \/ Become(p, Refuse(s))
    BY <1>0, <1>4, <1>5, <2>1
  <2>2. ASSUME NEW r, Become(p, [s EXCEPT !.pc = "silent", !.reply = r]) PROVE Kept'
    <3> DEFINE t == [s EXCEPT !.pc = "silent", !.reply = r]
    <3>1. t.pc = "silent" /\ t.op = s.op /\ t.held = s.held /\ s.pc = "exchange"
      BY <1>0, <1>7 DEF Process, ExchangePinned
    <3>2. Become(p, t)
      BY <2>2
    <3> HIDE DEF t, Custodied
    <3>3. Keeps(t)
      BY <1>0, <3>1 DEF Keeps, Acting, Holding
    <3> QED BY <1>5, <3>2, <3>3
  <2>3. ASSUME Become(p, [s EXCEPT !.pc = "unexpected", !.reply = "none", !.moved = Absent])
        PROVE  Kept'
    <3> DEFINE t == [s EXCEPT !.pc = "unexpected", !.reply = "none", !.moved = Absent]
    <3>1. t.pc = "unexpected" /\ t.op = s.op /\ t.held = s.held /\ s.pc = "exchange"
      BY <1>0, <1>7 DEF Process, ExchangePinned
    <3>2. Become(p, t)
      BY <2>3
    <3> HIDE DEF t, Custodied
    <3>3. Keeps(t)
      BY <1>0, <3>1 DEF Keeps, Acting, Holding
    <3> QED BY <1>5, <3>2, <3>3
  <2>4. ASSUME Serve(s, s.held.endpoint, "complete"),
               Become(p, [s EXCEPT !.pc = "finish", !.reply = "complete", !.moved = Absent])
        PROVE  Kept'
    <3> DEFINE t == [s EXCEPT !.pc = "finish", !.reply = "complete", !.moved = Absent]
    <3>1. t.pc = "finish" /\ t.op = s.op /\ t.held = s.held /\ t.reply = "complete"
      BY <1>0 DEF Process
    <3>2. server'[s.op] = "ended" /\ Become(p, t)
      BY <1>0, <1>1, <2>4, WhatServesDo
    <3> HIDE DEF t
    <3> QED BY <1>6, <3>1, <3>2
  <2>5. ASSUME NEW r \in Replies, Serve(s, s.held.endpoint, r), Become(p, Answered(s, r))
        PROVE  Kept'
    BY <2>1, <2>3, <2>4, <2>5, ZenonT(30) DEF Answered
  <2> QED BY <1>4, <1>7, <2>1, <2>2, <2>5 DEF ExchangePinned
<1>8. CASE ExchangeRefenced(p)
  <2>1. CASE Become(p, Fail(s))
    BY <1>0, <1>4, <1>5, <2>1
  <2>2. ASSUME Become(p, [s EXCEPT !.pc = "count", !.reply = "none"]),
               silences' = [silences EXCEPT ![s.op] = @ \union {s.held.attempt}]
        PROVE  Kept'
    <3> DEFINE t == [s EXCEPT !.pc = "count", !.reply = "none"]
    <3>1. t.pc = "count" /\ t.op = s.op /\ t.held = s.held
      BY <1>0 DEF Process
    <3>2. s.held.attempt \in silences'[s.op] /\ Become(p, t)
      BY <1>0, <2>2 DEF Sanity, RestTyped
    <3> HIDE DEF t
    <3> QED BY <1>6, <3>1, <3>2
  <2>3. ASSUME CanRefence(s), NEW r \in Replies, Serve(s, assigned, r),
               Become(p, [s EXCEPT !.pc = "pin", !.reply = r,
                                   !.moved = [s.held EXCEPT !.endpoint = assigned]])
        PROVE  Kept'
    <3> DEFINE m == [s.held EXCEPT !.endpoint = assigned]
               t == [s EXCEPT !.pc = "pin", !.reply = r, !.moved = m]
    <3>1. m = [s.held EXCEPT !.endpoint = m.endpoint]
      BY <1>0 DEF Sane, Record
    <3>2. t.pc = "pin" /\ t.op = s.op /\ t.held = s.held /\ t.reply = r /\ t.moved = m
      <4> HIDE DEF m
      <4> QED BY <1>0 DEF Process
    <3>3. r = "complete" => server'[s.op] = "ended"
      BY <1>0, <2>3, WhatServesDo DEF CanRefence
    <3>4. Become(p, t)
      BY <2>3
    <3> HIDE DEF t, m
    <3> QED BY <1>6, <3>1, <3>2, <3>3, <3>4
  <2> QED BY <1>4, <1>8, <2>1, <2>2, <2>3 DEF ExchangeRefenced
<1> QED BY <1>4, <1>7, <1>8

\* finishOperation takes a record out of custody only when the server has ended
\* its session for good, or as the one abandonment the bound allows.
LEMMA FinishKeeps ==
  ASSUME Sanity, Sanity', Kept, NEW p \in Procs, FinishOperation(p)
  PROVE  Kept' /\ Promised
<1> DEFINE s == proc[p]
           next == [s.held EXCEPT !.status = IF s.held.admission THEN "CLOSED" ELSE "CANCELED"]
           done == [s EXCEPT !.pc = "delete", !.held = next, !.reply = "none"]
<1> USE DEF At, durable, host, network, history
<1>0. /\ s \in Process /\ s.pc = "finish" /\ s.op \in Ops /\ s.op \in issued
      /\ Sane(s.held) /\ s.held \in Record /\ Safe(s.op) /\ s.held.status \in Custodied
      /\ Keeps(Fail(s)) /\ Keeps(Reconcile(s))
      /\ \/ s.reply = "complete" /\ server[s.op] = "ended"
         \/ s.reply = "silent" /\ Cardinality(silences[s.op]) >= AbandonAttempts
  <2>1. s.pc = "finish" /\ s \in Process /\ Sound(s) /\ Keeps(s)
    BY DEF FinishOperation, Sanity, ProcsSound, Kept
  <2>2. s.op \in issued /\ s.op \in Ops /\ Sane(s.held) /\ Safe(s.op)
    BY <2>1 DEF Keeps, Sound, Holding, Resting, Acting
  <2> HIDE DEF Custodied
  <2>3. Keeps(Fail(s)) /\ Keeps(Reconcile(s))
    BY <2>1, <2>2, EndingsKeep
  <2>4. s.held \in Record /\ s.held.status \in Custodied
    BY <2>1, <2>2 DEF Sane, Keeps, Acting
  <2>5. \/ s.reply = "complete" /\ server[s.op] = "ended"
        \/ s.reply = "silent" /\ Cardinality(silences[s.op]) >= AbandonAttempts
    BY <2>1 DEF Keeps
  <2> QED BY <2>1, <2>2, <2>3, <2>4, <2>5
<1>1. /\ next.status \in Terminal /\ next.noReply = s.held.noReply
      /\ next.attempt = s.held.attempt /\ next.attempt \in Nat /\ next # Absent
  BY <1>0 DEF Record, Terminal, Absent
<1>2. done.pc = "delete" /\ done.op = s.op
  <2> HIDE DEF next
  <2> QED BY <1>0 DEF Process
<1>3. /\ Write(p, next, done, Reconcile(s), Fail(s))
      /\ abandoned' = IF s.reply = "silent" /\ journal' # journal
                      THEN abandoned \union {s.op} ELSE abandoned
      /\ UNCHANGED <<issued, server, knocks, silences>>
  BY DEF FinishOperation
<1> HIDE DEF next, done, Custodied
<1>4. CASE journal' = journal
  <2>1. UNCHANGED <<journal, issued, server, knocks, silences, abandoned>>
    BY <1>3, <1>4
  <2>2. Keeps(done)
    BY <1>0, <1>2 DEF Keeps, Acting
  <2>3. Become(p, done) \/ Become(p, Reconcile(s)) \/ Become(p, Fail(s))
    BY <1>3 DEF Write
  <2> QED BY <1>0, <2>1, <2>2, <2>3, AloneKeeps
<1>5. CASE journal' # journal
  <2>1. /\ Legal(s.held, next) /\ journal[s.op] = s.held
        /\ journal' = [journal EXCEPT ![s.op] = next]
        /\ Become(p, done) \/ Become(p, Fail(s))
    BY <1>3, <1>5 DEF Write
  <2>2. PICK o \in Ops : o = s.op
    BY <1>0
  <2>3. journal'[o] = next /\ \A x \in Ops : x # o => journal'[x] = journal[x]
    BY <2>1, <2>2 DEF Sanity, JournalSane
  <2>4. \/ server[o] = "ended" /\ abandoned' = abandoned
        \/ Cardinality(silences[o]) >= AbandonAttempts /\ abandoned' = abandoned \union {o}
    BY <1>0, <1>3, <1>5, <2>2
  <2>5. Onward
    BY <1>3, <2>2, <2>3, <2>4 DEF Onward, Safe, Kept, World, Answerable
  <2>6. World'
    <3>1. ASSUME NEW x \in Ops, x # o PROVE Answerable(x)'
      BY <1>3, <2>3, <2>4, <3>1 DEF Kept, World, Answerable, Safe, Heard
    <3>2. next.noReply <= Heard(o, next.attempt)
      BY <1>0, <1>1, <2>1, <2>2, EvidenceStands DEF Record
    <3>3. Safe(o)'
      BY <1>3, <2>4 DEF Safe
    <3>4. Answerable(o)'
      BY <1>0, <1>3, <2>2, <2>3, <2>4, <3>2, <3>3 DEF Kept, World, Answerable, Heard
    <3> QED BY <3>1, <3>4 DEF World
  <2>7. \A q \in Procs : q # p => proc'[q] = proc[q]
    BY <2>1 DEF Become, Sanity, ProcsSound
  <2>8. Keeps(proc[p])'
    <3>1. Keeps(done)
      BY <1>0, <1>2 DEF Keeps, Acting
    <3>2. PICK t : proc'[p] = t /\ Keeps(t)
      BY <1>0, <2>1, <3>1 DEF Become, Sanity, ProcsSound
    <3>3. Sound(t)
      BY <3>2 DEF Sanity, ProcsSound, Sound
    <3> QED BY <2>5, <3>2, <3>3, KeepsOn
  <2>9. Promised
    <3>1. \A x \in Ops : x # o => Phase(x)' = Phase(x)
      BY <1>3, <2>3, <2>4 DEF Phase
    <3>2. Phase(o) \in {"held", "abandoned"}
      BY <1>0, <2>1, <2>2 DEF Phase, Custodied
    <3>3. Phase(o)' = IF o \in abandoned' THEN "abandoned" ELSE "resolved"
      BY <1>0, <1>1, <1>3, <2>2, <2>3 DEF Phase, Terminal
    <3>4. [x \in Ops |-> Phase(x)]' = [[x \in Ops |-> Phase(x)] EXCEPT ![o] = Phase(o)']
      BY <3>1
    <3>5. CASE o \in abandoned
      <4>1. Phase(o) = "abandoned" /\ Phase(o)' = "abandoned"
        BY <2>4, <3>3, <3>5 DEF Phase
      <4> QED BY <1>3, <3>1, <4>1 DEF Promised, Promise!vars
    <3>6. CASE o \notin abandoned /\ o \in abandoned'
      <4>1. Promise!Abandon(o)
        BY <1>3, <3>2, <3>3, <3>4, <3>6 DEF Promise!Abandon, Promise!Move, Phase
      <4> QED BY <4>1 DEF Promised, Promise!Next
    <3>7. CASE o \notin abandoned'
      <4>1. Promise!Resolve(o)
        BY <1>3, <2>4, <3>2, <3>3, <3>4, <3>7 DEF Promise!Resolve, Promise!Move, Phase
      <4> QED BY <4>1 DEF Promised, Promise!Next
    <3> QED BY <3>5, <3>6, <3>7
  <2> QED BY <2>5, <2>6, <2>7, <2>8, <2>9, OthersKeep
<1> QED BY <1>4, <1>5

\* The network delivers a late knock, endpoints roll, assignments renew and the
\* clock moves: none of it takes anything out of custody.
LEMMA EnvironmentKeeps ==
  ASSUME Sanity, Sanity', Kept, Environment
  PROVE  Kept' /\ Promised
<1> USE DEF durable, host, network, history
<1>1. ASSUME NEW o \in Ops, KnockArrives(o) PROVE Kept' /\ Promised
  <2>1. o \in issued /\ Safe(o)
    BY <1>1 DEF KnockArrives, Kept, World, Answerable
  <2>2. Onward /\ World' /\ Promised
    BY <1>1, <2>1, ServingMovesOn DEF KnockArrives
  <2>3. ASSUME NEW q \in Procs PROVE Keeps(proc[q])'
    <3>1. proc'[q] = proc[q] /\ Sound(proc[q]) /\ Keeps(proc[q])
      BY <1>1 DEF KnockArrives, Kept, Sanity, ProcsSound
    <3> QED BY <2>2, <3>1, KeepsOn
  <2> QED BY <2>2, <2>3 DEF Kept
<1>2. ASSUME UNCHANGED <<journal, proc, issued, server, knocks, silences, abandoned>>
      PROVE  Kept' /\ Promised
  <2>1. Kept'
    BY <1>2 DEF Kept, World, Answerable, Keeps, Safe, Heard
  <2>2. Promised
    BY <1>2 DEF Promised, Promise!vars, Phase
  <2> QED BY <2>1, <2>2
<1>3. CASE \/ \E e, f \in Endpoints : RollEndpoint(e, f)
           \/ \E e \in Endpoints : RenewAssignment(e)
           \/ DeleteResource \/ Tick \/ Settle
           \/ \E t \in 0..MaxClock : CorrectClock(t)
  BY <1>2, <1>3 DEF RollEndpoint, RenewAssignment, DeleteResource, Tick, Settle, CorrectClock
<1> QED BY <1>1, <1>3 DEF Environment

\* Custody is inductive, and every step of the program is one of the promise.
LEMMA StepKeeps == Sanity /\ Sanity' /\ Kept /\ [Next]_vars => Kept' /\ Promised
<1> SUFFICES ASSUME Sanity, Sanity', Kept, [Next]_vars PROVE Kept' /\ Promised
  OBVIOUS
<1>1. CASE UNCHANGED vars
  BY <1>1 DEF vars, durable, host, network, history, Kept, World, Answerable, Keeps, Safe, Heard,
              Promised, Promise!vars, Phase
<1>2. CASE Next
  BY <1>2, AdmittingKeeps, RetiringKeeps, LookingKeeps, WritingKeeps, CountingKeeps, ExchangingKeeps,
     FinishKeeps, EnvironmentKeeps DEF Next, Recovering
<1> QED BY <1>1, <1>2

\* An empty state directory answers for everything.
LEMMA InitKeeps == Init => Kept /\ Promise!Init
<1> SUFFICES ASSUME Init PROVE Kept /\ Promise!Init
  OBVIOUS
<1>1. \A p \in Procs : Keeps(proc[p])
  BY NothingHeld DEF Init, Fresh, Holding
<1>2. World
  BY FS_EmptySet DEF Init, World, Answerable
<1>3. \A o \in Ops : Phase(o) = "none"
  BY DEF Init, Phase
<1>4. Promise!Init
  BY <1>3 DEF Promise!Init, Init
<1> QED BY <1>1, <1>2, <1>4 DEF Kept

\* The inductive invariant holds of every behaviour (durableNativeSessionOperations).
LEMMA KeptHolds == Spec => []Kept
<1>1. Sanity /\ Sanity' /\ Kept /\ [Next]_vars => Kept'
  BY StepKeeps
<1> QED BY <1>1, InitKeeps, SanityHolds, PTL DEF Spec

\* Whatever write, reply or process is lost, a session the server holds or may
\* still open for a knock in flight is answerable to a durable record recovery
\* will act on; the one exception is an abandonment that as many unanswered
\* attempts as PostExpiryNoReplyAttempts demands have earned.
THEOREM CustodyIsKept == Spec => []Custody
<1>1. Kept /\ Sanity => Custody
  <2> SUFFICES ASSUME Kept, Sanity PROVE Custody
    OBVIOUS
  <2>1. OpenIsHeld
    BY DEF Kept, World, Answerable, Safe, Custodied, OpenIsHeld
  <2>2. SilenceIsEvidence
    <3> SUFFICES ASSUME NEW o \in Ops, journal[o] # Absent
                 PROVE  journal[o].noReply <= Cardinality(silences[o])
      BY DEF Kept, World, Answerable, SilenceIsEvidence
    <3> DEFINE n == journal[o].attempt
               k == journal[o].noReply
    <3>1. /\ n \in Int /\ n <= n /\ k \in Nat /\ k <= Cardinality(silences[o] \cap 1..n)
          /\ IsFiniteSet(silences[o])
      BY DEF Kept, World, Answerable, Heard, Sanity, JournalSane, Sane, Record
    <3> HIDE DEF n, k
    <3>2. /\ Cardinality(silences[o] \cap 1..n) \in Nat /\ Cardinality(silences[o]) \in Nat
          /\ Cardinality(silences[o] \cap 1..n) <= Cardinality(silences[o])
      BY <3>1, MoreIsHeard
    <3>3. k <= Cardinality(silences[o])
      BY <3>1, <3>2
    <3> QED BY <3>3 DEF k
  <2> QED BY <2>1, <2>2 DEF Custody
<1> QED BY <1>1, KeptHolds, SanityHolds, PTL

\* The journal and the server implement the custody of AdmissionCustody: no
\* crash, lost write or race lets the server open what is not written down, or
\* lets the last record go while the server may still open or hold a session.
THEOREM CustodyIsImplemented == Spec => KeepsCustody
<1>1. Sanity /\ Sanity' /\ Kept /\ [Next]_vars => Promised
  BY StepKeeps
<1>2. Init => Promise!Init
  BY InitKeeps
<1> QED BY <1>1, <1>2, KeptHolds, SanityHolds, PTL DEF Spec, KeepsCustody, Promise!Spec, Promised
===============================================================================
