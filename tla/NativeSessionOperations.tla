------------------------ MODULE NativeSessionOperations ------------------------
(***************************************************************************)
(* The durable life of native admissions on one protected resource:        *)
(* durableNativeSessionOperations (pkg/share/session_operation.go) over    *)
(* the journal of pkg/agentstate/session_operation.go, driven by the       *)
(* admit, retire and background-recovery paths of NativeAdmitter           *)
(* (pkg/share/native.go).                                                  *)
(*                                                                         *)
(* Each process is one connector process sharing the agent state           *)
(* directory.  Inside a process the resource lock serialises every path    *)
(* on this resource, so a process runs one operation at a time; between    *)
(* processes the only coordination is the journal's compare-and-swap under *)
(* its file lock, which one Write step stands for.  Every journal write    *)
(* may also fail before the rename commits, or commit and still report an  *)
(* error.  A process may stop at any step and start again.                 *)
(*                                                                         *)
(* The NHP server is external.  It is modelled by what the client relies   *)
(* on: once it reports a recovery complete the operation never opens a     *)
(* session again, and a late knock for it is refused.  Once the protected  *)
(* resource is deleted the server may refuse to hear of its operations.    *)
(***************************************************************************)
EXTENDS SessionOperationRecords, FiniteSets

CONSTANTS
  Procs,             \* connector processes sharing one state directory
  Ops,               \* operation identities, never reused
  NoOp,
  MaxRecords,        \* sessionOperationMaxRecords
  Lifetime,          \* nativeSessionOperationLifetime
  AbandonMargin,     \* nativeSessionRecoveryAbandonMargin
  AbandonAttempts,   \* nativeSessionRecoveryAbandonAttempts
  RecoveryMaxDelay,  \* nativeSessionRecoveryMaxDelay
  NoReplyMaxDelay,   \* nativeSessionRecoveryNoReplyMaxDelay
  RecoveryBackoff,   \* nativeSessionRecoveryBackoff, by attempt number
  NoReplyBackoff,    \* nativeSessionRecoveryNoReplyBackoff, by failure count
  MaxAttempts,       \* the largest recovery attempt counter (uint32 in the code)
  MaxClock,          \* bound on the wall clock: it stands for every later time
  ClockSteps,        \* whether the wall clock may be corrected
  Settles,           \* whether faults may stop for good
  Deletes            \* whether the protected resource may be deleted

ASSUME OperationsAssumption ==
  /\ NoOp \notin Ops
  /\ {MaxRecords, AbandonAttempts, MaxAttempts} \subseteq Nat \ {0}
  /\ {Lifetime, AbandonMargin, RecoveryMaxDelay, NoReplyMaxDelay, MaxClock} \subseteq Nat
  /\ RecoveryMaxDelay < NoReplyMaxDelay
  /\ RecoveryBackoff \in [1..MaxAttempts -> 1..RecoveryMaxDelay]
  /\ NoReplyBackoff \in [1..MaxAttempts -> 1..NoReplyMaxDelay]
  /\ {ClockSteps, Settles, Deletes} \subseteq BOOLEAN

VARIABLES
  journal,    \* the resource's journal file: operation -> record or Absent
  proc,       \* the volatile state of each process
  issued,     \* operation identities handed out so far
  clock,      \* wall clock of the host
  settled,    \* crashes, disk errors and local network failures are over
  assigned,   \* endpoint of the runtime's current assignment
  alive,      \* endpoints a server cohort currently answers on
  gone,       \* the protected resource was deleted
  server,     \* each operation in its cell's store: unknown, open or ended
  knocks,     \* admission knocks still in flight to the server
  acks,       \* admission acknowledgements the server has sent
  packets,    \* history: recovery packets sent, as <<attempt number, endpoint>>
  silences,   \* history: numbers of the attempts that nothing answered
  abandoned   \* history: operations recovery gave up on

durable == <<journal, issued>>
network == <<assigned, alive, gone, server, knocks, acks>>
history == <<packets, silences, abandoned>>
host == <<clock, settled>>
vars == <<durable, proc, host, network, history>>

(***************************************************************************)
(* The volatile state of a process.  task says on whose behalf a recovery  *)
(* runs and therefore what follows its end.                                *)
(***************************************************************************)
Tasks == {"none", "orphans", "admit", "pendings", "queue", "knock", "cleanup", "retire"}
Replies == {"none", "silent", "unsent", "complete", "incomplete", "deny", "missing", "admitted"}
Steps ==
  {"idle", "sweep", "pendings", "prepare", "dispatch", "knock", "knocking",
   "mapLoad", "mapWrite", "track", "retire", "load", "cancel", "closing",
   "gate", "attempt", "exchange", "silent", "pin", "unexpected", "count",
   "finish", "delete", "reconcile"}

Faults == {"none", "permanent", "retryable"}

\* swept: the startup orphan worker has ended.  queued: the background
\* retirement worker has the resource in its queue.
Fresh ==
  [pc |-> "idle", task |-> "none", op |-> NoOp, held |-> Absent, todo |-> {},
   fault |-> "none", reply |-> "none", moved |-> Absent, live |-> {}, pending |-> {},
   swept |-> FALSE, queued |-> FALSE]

Rest(s) ==
  [pc |-> "idle", task |-> "none", op |-> NoOp, held |-> Absent, todo |-> {},
   fault |-> "none", reply |-> "none", moved |-> Absent,
   live |-> s.live, pending |-> s.pending, swept |-> s.swept, queued |-> s.queued]

Retired(s) == [s EXCEPT !.live = @ \ {s.op}, !.pending = @ \ {s.op}]

\* One failure that a retry may heal makes the whole pass worth retrying.
Worse(f, g) == IF "retryable" \in {f, g} THEN "retryable" ELSE IF f = "none" THEN g ELSE f

Swept(s, fault) ==
  [Rest(s) EXCEPT !.pc = "sweep", !.task = s.task, !.todo = s.todo \ {s.op},
                  !.fault = Worse(s.fault, fault)]

\* Mutant: a failed foreground retirement is not handed to the worker.
EndsUnqueued(s, fault) ==
  IF s.task \in {"orphans", "admit"} THEN Swept(s, fault) ELSE Rest(s)

\* The running call returns an error to whoever asked for it.  A failed
\* retirement is queued for the background worker; the worker itself drops
\* a permanent one.
Ends(s, fault) ==
  IF s.task \in {"orphans", "admit"} THEN Swept(s, fault)
  ELSE IF s.task \in {"retire", "pendings"} THEN [Rest(s) EXCEPT !.queued = TRUE]
  ELSE IF s.task = "queue" /\ fault = "permanent" THEN [Rest(s) EXCEPT !.queued = FALSE]
  ELSE Rest(s)

Fail(s)   == Ends(s, "retryable")
Refuse(s) == Ends(s, "permanent")

\* The running call returns nil: the journal no longer holds the operation.
Succeed(s) ==
  IF s.task \in {"orphans", "admit"} THEN Swept(s, "none")
  ELSE IF s.task \in {"pendings", "queue"}
       THEN [Rest(Retired(s)) EXCEPT !.pc = "pendings", !.task = s.task]
  ELSE IF s.task = "retire" THEN Rest(Retired(s)) ELSE Rest(s)

Cleanup(s)   == [s EXCEPT !.pc = "load", !.task = "cleanup", !.held = Absent]
Reconcile(s) == [s EXCEPT !.pc = "reconcile"]
Reload(s)    == [s EXCEPT !.pc = "load", !.held = Absent, !.reply = "none", !.moved = Absent]

At(p, pc)   == proc[p].pc = pc
Become(p, s) == proc' = [proc EXCEPT ![p] = s]

\* A write the journal accepts over the record a process holds.
Legal(prev, next) ==
  IF next = Absent THEN prev.status \in Terminal /\ ValidRecord(prev)
                   ELSE ValidTransition(prev, next)

(***************************************************************************)
(* One locked journal write of process p: compare-and-swap of the record   *)
(* it holds.  The outcomes are success, a lost comparison, a commit that   *)
(* is reported as an error, and a failure that left the file alone.        *)
(***************************************************************************)
Write(p, next, done, lost, err) ==
  LET o == proc[p].op
      prev == proc[p].held
  IN  \/ /\ Legal(prev, next) /\ journal[o] = prev
         /\ journal' = [journal EXCEPT ![o] = next]
         /\ Become(p, done) \/ (~settled /\ Become(p, err))
      \/ /\ Legal(prev, next) /\ journal[o] # prev
         /\ Become(p, lost)
         /\ UNCHANGED journal
      \/ /\ ~settled \/ ~Legal(prev, next)
         /\ Become(p, err)
         /\ UNCHANGED journal

--------------------------------------------------------------------------------
(***************************************************************************)
(* Admission: recover what is left, retire what is pending, then knock.    *)
(***************************************************************************)
\* Mutant: the sweep does not skip the operations of live admissions.
RecoverPendingAll(p, task) ==
  /\ At(p, "idle")
  /\ task = "orphans" => ~proc[p].swept
  /\ Become(p, [proc[p] EXCEPT !.pc = "sweep", !.task = task,
                 !.todo = {o \in Ops : journal[o] # Absent}])
  /\ UNCHANGED <<durable, host, network, history>>

\* RecoverPending reads the journal once and skips the operations of live
\* admissions; the orphan worker and Admit both start here.
RecoverPending(p, task) ==
  /\ At(p, "idle")
  /\ task = "orphans" => ~proc[p].swept
  /\ Become(p, [proc[p] EXCEPT !.pc = "sweep", !.task = task,
                 !.todo = {o \in Ops : journal[o] # Absent} \ proc[p].live])
  /\ UNCHANGED <<durable, host, network, history>>

RecoverNext(p) ==
  /\ At(p, "sweep")
  /\ \E o \in proc[p].todo : Become(p, [proc[p] EXCEPT !.pc = "load", !.op = o])
  /\ UNCHANGED <<durable, host, network, history>>

\* Mutants: Admit goes on after a failed recovery; the orphan worker ends
\* after one pass whatever it met.
RecoverPendingEndsAnyway(p) ==
  LET s == proc[p]
  IN  /\ At(p, "sweep") /\ s.todo = {}
      /\ Become(p, IF s.task = "orphans" THEN [Rest(s) EXCEPT !.swept = s.fault # "retryable"]
                   ELSE [Rest(s) EXCEPT !.pc = "pendings", !.task = "pendings"])
      /\ UNCHANGED <<durable, host, network, history>>

RecoverPendingEndsOnce(p) ==
  LET s == proc[p]
  IN  /\ At(p, "sweep") /\ s.todo = {}
      /\ Become(p, IF s.task = "orphans" THEN [Rest(s) EXCEPT !.swept = TRUE]
                   ELSE IF s.fault = "none" THEN [Rest(s) EXCEPT !.pc = "pendings", !.task = "pendings"]
                   ELSE Rest(s))
      /\ UNCHANGED <<durable, host, network, history>>

\* The orphan worker ends after the first pass without a retryable error;
\* Admit goes on to the pending retirements, or returns the error.
RecoverPendingEnds(p) ==
  LET s == proc[p]
  IN  /\ At(p, "sweep") /\ s.todo = {}
      /\ Become(p, IF s.task = "orphans" THEN [Rest(s) EXCEPT !.swept = s.fault # "retryable"]
                   ELSE IF s.fault = "none" THEN [Rest(s) EXCEPT !.pc = "pendings", !.task = "pendings"]
                   ELSE Rest(s))
      /\ UNCHANGED <<durable, host, network, history>>

\* recoverQueuedNativeRetirements: the background worker takes the resource.
RecoverQueued(p) ==
  /\ At(p, "idle") /\ proc[p].queued
  /\ Become(p, [proc[p] EXCEPT !.pc = "pendings", !.task = "queue"])
  /\ UNCHANGED <<durable, host, network, history>>

RetirePendingForResource(p) ==
  LET s == proc[p]
  IN  /\ At(p, "pendings")
      /\ \/ \E o \in s.pending : Become(p, [s EXCEPT !.pc = "retire", !.op = o])
         \/ /\ s.pending = {}
            /\ Become(p, IF s.task = "queue" THEN [Rest(s) EXCEPT !.queued = FALSE]
                         ELSE [s EXCEPT !.pc = "prepare", !.task = "knock"])
      /\ UNCHANGED <<durable, host, network, history>>

\* PrepareDispatch, first transition: a fresh operation enters the journal.
CreateOperation(p) ==
  LET s == proc[p]
      record == NewRecord(assigned, clock + Lifetime)
      room == Cardinality({o \in Ops : journal[o] # Absent}) < MaxRecords
  IN  /\ At(p, "prepare")
      /\ \/ \E o \in Ops \ issued :
              /\ room
              /\ issued' = issued \union {o}
              /\ journal' = [journal EXCEPT ![o] = record]
              /\ \/ Become(p, [s EXCEPT !.pc = "dispatch", !.op = o, !.held = record])
                 \/ ~settled /\ Become(p, Fail(s))
         \/ /\ ~settled \/ ~room \/ issued = Ops
            /\ Become(p, Fail(s))
            /\ UNCHANGED durable
      /\ UNCHANGED <<host, network, history>>

\* Mutant: the knock is sent although the boundary was not written.
PersistDispatchingLoosely(p) ==
  LET s == proc[p]
      next == [s.held EXCEPT !.status = "DISPATCHING"]
      knock == [s EXCEPT !.pc = "knock", !.held = Absent]
  IN  /\ At(p, "dispatch")
      /\ Write(p, next, knock, Fail(s), knock)
      /\ UNCHANGED <<issued, host, network, history>>

\* PrepareDispatch, second transition: the ambiguity boundary.
PersistDispatching(p) ==
  LET s == proc[p]
      next == [s.held EXCEPT !.status = "DISPATCHING"]
  IN  /\ At(p, "dispatch")
      /\ Write(p, next, [s EXCEPT !.pc = "knock", !.held = Absent], Fail(s), Fail(s))
      /\ UNCHANGED <<issued, host, network, history>>

SendKnock(p) ==
  /\ At(p, "knock")
  /\ knocks' = knocks \union {proc[p].op}
  /\ Become(p, [proc[p] EXCEPT !.pc = "knocking"])
  /\ UNCHANGED <<durable, host, assigned, alive, gone, server, acks, history>>

KnockReturns(p) ==
  /\ At(p, "knocking")
  /\ \/ /\ proc[p].op \in acks
        /\ Become(p, [proc[p] EXCEPT !.pc = "mapLoad"])
     \/ Become(p, Cleanup(proc[p]))
  /\ UNCHANGED <<durable, host, network, history>>

RecordMapped(p) ==
  LET s == proc[p]
      record == journal[s.op]
  IN  \/ /\ At(p, "mapLoad")
         /\ \/ record.status = "DISPATCHING" /\ Become(p, [s EXCEPT !.pc = "mapWrite", !.held = record])
            \/ (~settled \/ record.status # "DISPATCHING") /\ Become(p, Cleanup(s))
         /\ UNCHANGED <<durable, host, network, history>>
      \/ /\ At(p, "mapWrite")
         /\ Write(p, [s.held EXCEPT !.status = "MAPPED", !.admission = TRUE],
                  [s EXCEPT !.pc = "track", !.held = Absent], Cleanup(s), Cleanup(s))
         /\ UNCHANGED <<issued, host, network, history>>

\* Mutant: the operation is tracked after the call forgot it.
TrackAdmissionLate(p) ==
  LET s == [Rest(proc[p]) EXCEPT !.live = @ \union {NoOp}]
  IN  /\ At(p, "track") /\ Become(p, s)
      /\ UNCHANGED <<durable, host, network, history>>

\* The admission is tracked as live; one that fails local validation is
\* tracked only to be retired at once, and one that cannot be tracked is
\* recovered like a knock that failed.
TrackAdmission(p) ==
  LET s == [proc[p] EXCEPT !.live = @ \union {proc[p].op}]
  IN  /\ At(p, "track")
      /\ \/ Become(p, Rest(s))
         \/ Become(p, [s EXCEPT !.pc = "retire", !.task = "retire", !.pending = @ \union {s.op}])
         \/ Become(p, Cleanup(proc[p]))
      /\ UNCHANGED <<durable, host, network, history>>

--------------------------------------------------------------------------------
(***************************************************************************)
(* Retirement: Retire of a live admission, or of one still pending.        *)
(***************************************************************************)
RetireAdmission(p) ==
  /\ At(p, "idle")
  /\ \E o \in proc[p].live :
       Become(p, [proc[p] EXCEPT !.pc = "retire", !.task = "retire", !.op = o,
                                 !.pending = @ \union {o}])
  /\ UNCHANGED <<durable, host, network, history>>

Retire(p) ==
  LET record == journal[proc[p].op]
  IN  /\ At(p, "retire")
      /\ \/ record = Absent /\ Become(p, Succeed(proc[p]))
         \/ /\ record.status \in WithAdmission
            /\ Become(p, [proc[p] EXCEPT !.pc = "load"])
         \/ record # Absent /\ record.status \notin WithAdmission /\ Become(p, Refuse(proc[p]))
         \/ ~settled /\ Become(p, Fail(proc[p]))
      /\ UNCHANGED <<durable, host, network, history>>

--------------------------------------------------------------------------------
(***************************************************************************)
(* RecoverOperation: the loop that brings one record to a terminal state.  *)
(***************************************************************************)
LoadOperation(p) ==
  LET s == proc[p]
      record == journal[s.op]
      Hold(pc) == Become(p, [s EXCEPT !.pc = pc, !.held = record])
  IN  /\ At(p, "load")
      /\ \/ record = Absent /\ Become(p, Succeed(s))
         \/ record.status \in Terminal /\ Hold("delete")
         \/ record.status = "PREPARED" /\ Hold("cancel")
         \/ record.status = "MAPPED" /\ Hold("closing")
         \/ record.status \in {"DISPATCHING", "CLOSING"} /\ Hold("gate")
         \/ ~settled /\ Become(p, Fail(s))
      /\ UNCHANGED <<durable, host, network, history>>

\* A held record moves to another status, and the loop goes on at pc.
MoveTo(p, from, status, pc) ==
  LET s == proc[p]
      next == [s.held EXCEPT !.status = status]
  IN  /\ At(p, from)
      /\ Write(p, next, [s EXCEPT !.pc = pc, !.held = next], Reconcile(s), Fail(s))
      /\ UNCHANGED <<issued, host, network, history>>

CancelPrepared(p) == MoveTo(p, "cancel", "CANCELED", "delete")

CloseMapped(p) == MoveTo(p, "closing", "CLOSING", "gate")

DeleteTerminal(p) ==
  LET s == proc[p]
  IN  /\ At(p, "delete")
      /\ Write(p, Absent, Succeed(s), Reconcile(s), Fail(s))
      /\ UNCHANGED <<issued, host, network, history>>

\* Mutant: recovery does not wait.
AwaitNothing(p) ==
  /\ At(p, "gate")
  /\ Become(p, [proc[p] EXCEPT !.pc = "attempt"])
  /\ UNCHANGED <<durable, host, network, history>>

\* The persisted deadline: an escalated no-reply backoff defers the whole
\* call, any other wait is slept out but never longer than RecoveryMaxDelay.
AwaitDeadline(p) ==
  LET s == proc[p]
      wait == IF clock = MaxClock THEN 0 ELSE s.held.notBefore - clock
      deferred == s.held.noReply > 0 /\ wait > RecoveryMaxDelay /\ wait <= NoReplyMaxDelay
      woken == clock + (IF wait > RecoveryMaxDelay THEN RecoveryMaxDelay ELSE wait)
  IN  /\ At(p, "gate")
      /\ \/ /\ wait <= 0 \/ ~deferred
            /\ clock' = IF wait <= 0 THEN clock ELSE IF woken > MaxClock THEN MaxClock ELSE woken
            /\ Become(p, [s EXCEPT !.pc = "attempt"])
         \/ /\ wait > 0 /\ (deferred \/ ~settled)
            /\ Become(p, Fail(s))
            /\ UNCHANGED clock
      /\ UNCHANGED <<durable, settled, network, history>>

\* A deadline later than now by the backoff, and always later than the last.
Later(r, delay) == IF clock + delay > r.notBefore THEN clock + delay ELSE r.notBefore + 1

\* Mutant: an attempt whose write failed is made all the same.
CountAttemptLoosely(p) ==
  LET s == proc[p]
      n == s.held.attempt + 1
      next == [s.held EXCEPT !.attempt = n, !.notBefore = Later(s.held, RecoveryBackoff[n])]
      on == [s EXCEPT !.pc = "exchange", !.held = next]
  IN  /\ At(p, "attempt") /\ s.held.attempt < MaxAttempts
      /\ Write(p, next, on, Reconcile(s), on)
      /\ UNCHANGED <<issued, host, network, history>>

CountAttempt(p) ==
  LET s == proc[p]
      n == s.held.attempt + 1
      next == [s.held EXCEPT !.attempt = n, !.notBefore = Later(s.held, RecoveryBackoff[n])]
  IN  /\ At(p, "attempt")
      /\ \/ /\ s.held.attempt < MaxAttempts
            /\ Write(p, next, [s EXCEPT !.pc = "exchange", !.held = next], Reconcile(s), Fail(s))
         \/ /\ s.held.attempt = MaxAttempts
            /\ Become(p, Fail(s))
            /\ UNCHANGED journal
      /\ UNCHANGED <<issued, host, network, history>>

(***************************************************************************)
(* One recovery packet to endpoint e.  A server of another cell does not   *)
(* hold the operation, so its answer changes nothing.  A recovery must not *)
(* admit, but the client is prepared for an authority that does.  Of a     *)
(* deleted resource it may say that it is missing (deny 52004); any other  *)
(* refusal passes.  Silence says nothing about whether the server acted;   *)
(* an unsent packet reached no one.                                        *)
(***************************************************************************)
Serve(s, e, reply) ==
  LET o == s.op
      mine == CellOf[e] = s.held.cell
  IN  /\ e \in alive
      /\ \/ /\ reply = "complete"
            /\ server' = IF mine THEN [server EXCEPT ![o] = "ended"] ELSE server
         \/ reply \in {"incomplete", "deny"} /\ ~settled /\ UNCHANGED server
         \/ reply = "missing" /\ gone /\ UNCHANGED server
         \/ /\ reply = "admitted" /\ mine /\ server[o] = "unknown"
            /\ server' = [server EXCEPT ![o] = "open"]

Unanswered(s, e) ==
  \/ UNCHANGED server
  \/ \E lost \in {"complete", "admitted"} : Serve(s, e, lost)

\* What the loop does with an authenticated answer: a missing resource cannot
\* become recoverable, any other refusal is retried.
Answered(s, reply) ==
  IF reply = "complete" THEN [s EXCEPT !.pc = "finish", !.reply = "complete", !.moved = Absent]
  ELSE IF reply = "admitted"
       THEN [s EXCEPT !.pc = "unexpected", !.reply = "none", !.moved = Absent]
  ELSE IF reply = "incomplete" THEN Reload(s)
  ELSE IF reply = "missing" THEN Refuse(s) ELSE Fail(s)

\* A packet of process state s leaves for endpoint e.
Sends(s, e) == packets' = [packets EXCEPT ![s.op] = @ \union {<<s.held.attempt, e>>}]

\* The attempt against the pinned endpoint.  The last disjunct is a caller
\* that went away or an exchange that failed without meaning anything.
ExchangePinned(p) ==
  LET s == proc[p]
      e == s.held.endpoint
  IN  /\ At(p, "exchange")
      /\ \/ \E reply \in Replies :
              Serve(s, e, reply) /\ Sends(s, e) /\ Become(p, Answered(s, reply))
         \/ Unanswered(s, e) /\ Sends(s, e) /\ Become(p, [s EXCEPT !.pc = "silent", !.reply = "silent"])
         \/ /\ ~settled
            /\ \/ Become(p, [s EXCEPT !.pc = "silent", !.reply = "unsent"]) /\ UNCHANGED <<server, packets>>
               \/ Unanswered(s, e) /\ Sends(s, e) /\ Become(p, Fail(s))
      /\ UNCHANGED <<durable, host, assigned, alive, gone, knocks, acks, silences, abandoned>>

\* Mutant: the cell of the current assignment is not compared.
CanRefenceAnywhere(s) == assigned # s.held.endpoint

\* nativeSessionRefenceEndpoint: the current assignment, when it serves the
\* operation's own cell at another endpoint than the pinned one.
CanRefence(s) == CellOf[assigned] = s.held.cell /\ assigned # s.held.endpoint

\* Mutant: a packet that never left counts as one nothing answered.
ExchangeUnsentCounted(p) ==
  LET s == proc[p]
  IN  /\ At(p, "silent") /\ ~CanRefence(s)
      /\ Become(p, [s EXCEPT !.pc = "count", !.reply = "none"])
      /\ silences' = IF s.reply = "silent" THEN [silences EXCEPT ![s.op] = @ \union {s.held.attempt}]
                      ELSE silences
      /\ UNCHANGED <<durable, host, network, packets, abandoned>>

\* The pinned endpoint stayed silent: one more exchange of the same attempt
\* against the current same-cell endpoint, when there is one.  It may stay
\* silent too, and when the caller went away or the exchange failed locally
\* nothing is moved or counted.
ExchangeRefenced(p) ==
  LET s == proc[p]
      e == assigned
      quiet == [s EXCEPT !.pc = "count", !.reply = "none"]
      counted == silences' = [silences EXCEPT ![s.op] = @ \union {s.held.attempt}]
      silent == \/ s.reply = "silent" /\ Become(p, quiet) /\ counted
                \/ s.reply = "unsent" /\ Become(p, Fail(s)) /\ UNCHANGED silences
  IN  /\ At(p, "silent")
      /\ \/ ~CanRefence(s) /\ silent /\ UNCHANGED <<server, packets>>
         \/ /\ CanRefence(s) /\ Sends(s, e)
            /\ \/ \E reply \in Replies :
                    /\ Serve(s, e, reply)
                    /\ Become(p, [s EXCEPT !.pc = "pin", !.reply = reply,
                                           !.moved = [s.held EXCEPT !.endpoint = e]])
                    /\ UNCHANGED silences
               \/ Unanswered(s, e) /\ silent
               \/ ~settled /\ Unanswered(s, e) /\ Become(p, Fail(s)) /\ UNCHANGED silences
         \/ CanRefence(s) /\ ~settled /\ Become(p, Fail(s)) /\ UNCHANGED <<server, packets, silences>>
      /\ UNCHANGED <<durable, host, assigned, alive, gone, knocks, acks, abandoned>>

\* The endpoint that answered is pinned before its answer is acted upon.
PinEndpoint(p) ==
  LET s == proc[p]
      lost == IF s.reply = "admitted" THEN Refuse(s) ELSE Reconcile(s)
      err == Fail(s)
  IN  /\ At(p, "pin")
      /\ Write(p, s.moved, Answered([s EXCEPT !.held = s.moved], s.reply), lost, err)
      /\ UNCHANGED <<issued, host, network, history>>

\* An unexpected admission is made durable; a lost write fails closed.
MapUnexpected(p) ==
  LET s == proc[p]
      next == [s.held EXCEPT !.status = "MAPPED", !.admission = TRUE]
  IN  /\ At(p, "unexpected")
      /\ \/ /\ s.held.status = "DISPATCHING"
            /\ Write(p, next, Reload(s), Refuse(s), Fail(s))
         \/ /\ s.held.status # "DISPATCHING"
            /\ Become(p, Refuse(s))
            /\ UNCHANGED journal
      /\ UNCHANGED <<issued, host, network, history>>

\* countPostExpiryNoReply: only past the expiry plus the margin, and giving
\* up only once the durable count reaches the bound.
PastAbandonMargin(r) == clock = MaxClock \/ clock > r.expires + AbandonMargin

CountNoReply(p) ==
  LET s == proc[p]
      n == s.held.noReply + 1
      next == [s.held EXCEPT !.noReply = n, !.notBefore = Later(s.held, NoReplyBackoff[n])]
      giveUp == [s EXCEPT !.pc = "finish", !.held = next, !.reply = "silent"]
  IN  /\ At(p, "count")
      /\ \/ /\ PastAbandonMargin(s.held)
            /\ Write(p, next, IF n < AbandonAttempts THEN Fail(s) ELSE giveUp, Reconcile(s), Fail(s))
         \/ /\ ~PastAbandonMargin(s.held)
            /\ Become(p, Fail(s))
            /\ UNCHANGED journal
      /\ UNCHANGED <<issued, host, network, history>>

\* finishOperation: CLOSED with an admission, CANCELED without one.
FinishOperation(p) ==
  LET s == proc[p]
      next == [s.held EXCEPT !.status = IF s.held.admission THEN "CLOSED" ELSE "CANCELED"]
  IN  /\ At(p, "finish")
      /\ Write(p, next, [s EXCEPT !.pc = "delete", !.held = next, !.reply = "none"], Reconcile(s), Fail(s))
      /\ abandoned' = IF s.reply = "silent" /\ journal' # journal
                      THEN abandoned \union {s.op} ELSE abandoned
      /\ UNCHANGED <<issued, host, network, packets, silences>>

\* reconcileRecoveryConflict: absence is completion, an exact monotonic
\* successor is reloaded, anything else fails closed.
ReconcileConflict(p) ==
  LET s == proc[p]
      current == journal[s.op]
  IN  /\ At(p, "reconcile")
      /\ \/ current = Absent /\ Become(p, Succeed(s))
         \/ current # Absent /\ MonotonicAdvance(s.held, current) /\ Become(p, Reload(s))
         \/ current # Absent /\ ~MonotonicAdvance(s.held, current) /\ Become(p, Refuse(s))
         \/ ~settled /\ Become(p, Fail(s))
      /\ UNCHANGED <<durable, host, network, history>>

--------------------------------------------------------------------------------
(***************************************************************************)
(* The environment: process crashes, the network and the server, endpoint  *)
(* rolls, assignment renewals and the wall clock.                          *)
(***************************************************************************)
Settle ==
  /\ Settles /\ ~settled
  /\ settled' = TRUE
  /\ UNCHANGED <<durable, proc, clock, network, history>>

Crash(p) ==
  /\ ~settled
  /\ Become(p, Fresh)
  /\ UNCHANGED <<durable, host, network, history>>

KnockArrives(o) ==
  /\ o \in knocks /\ server[o] = "unknown"
  /\ server' = [server EXCEPT ![o] = "open"]
  /\ acks' = acks \union {o}
  /\ UNCHANGED <<durable, proc, host, assigned, alive, gone, knocks, history>>

RollEndpoint(e, f) ==
  /\ e \in alive /\ f \notin alive /\ CellOf[e] = CellOf[f]
  /\ alive' = (alive \ {e}) \union {f}
  /\ UNCHANGED <<durable, proc, host, assigned, gone, server, knocks, acks, history>>

RenewAssignment(e) ==
  /\ e \in alive /\ e # assigned
  /\ assigned' = e
  /\ UNCHANGED <<durable, proc, host, alive, gone, server, knocks, acks, history>>

DeleteResource ==
  /\ Deletes /\ ~gone
  /\ gone' = TRUE
  /\ UNCHANGED <<durable, proc, host, assigned, alive, server, knocks, acks, history>>

Tick ==
  /\ clock < MaxClock
  /\ clock' = clock + 1
  /\ UNCHANGED <<durable, proc, settled, network, history>>

CorrectClock(t) ==
  /\ ClockSteps /\ ~settled
  /\ clock' = t
  /\ UNCHANGED <<durable, proc, settled, network, history>>

--------------------------------------------------------------------------------
Init ==
  /\ journal = [o \in Ops |-> Absent]
  /\ proc = [p \in Procs |-> Fresh]
  /\ issued = {}
  /\ clock = 0 /\ settled = FALSE
  /\ assigned \in Endpoints
  /\ alive \in {S \in SUBSET Endpoints : \A c \in Cells : \E e \in S :
                  {f \in S : CellOf[f] = c} = {e}}
  /\ assigned \in alive
  /\ gone = FALSE
  /\ server = [o \in Ops |-> "unknown"]
  /\ knocks = {} /\ acks = {}
  /\ packets = [o \in Ops |-> {}]
  /\ silences = [o \in Ops |-> {}]
  /\ abandoned = {}

Admitting(p) ==
  \/ RecoverPending(p, "admit")
  \/ CreateOperation(p) \/ PersistDispatching(p) \/ SendKnock(p)
  \/ KnockReturns(p) \/ RecordMapped(p) \/ TrackAdmission(p)

Recovering(p) ==
  \/ RecoverNext(p) \/ RecoverPendingEnds(p)
  \/ LoadOperation(p) \/ CancelPrepared(p) \/ CloseMapped(p) \/ DeleteTerminal(p)
  \/ AwaitDeadline(p) \/ CountAttempt(p) \/ ExchangePinned(p) \/ ExchangeRefenced(p)
  \/ PinEndpoint(p) \/ MapUnexpected(p) \/ CountNoReply(p) \/ FinishOperation(p)
  \/ ReconcileConflict(p)

Retiring(p) ==
  RetireAdmission(p) \/ RecoverQueued(p) \/ RetirePendingForResource(p) \/ Retire(p)

Environment ==
  \/ \E o \in Ops : KnockArrives(o)
  \/ \E e, f \in Endpoints : RollEndpoint(e, f)
  \/ \E e \in Endpoints : RenewAssignment(e)
  \/ DeleteResource \/ Tick \/ Settle
  \/ \E t \in 0..MaxClock : CorrectClock(t)

Next ==
  \/ \E p \in Procs : \/ Admitting(p) \/ Recovering(p) \/ Retiring(p)
                      \/ RecoverPending(p, "orphans")
                      \/ Crash(p)
  \/ Environment

Spec == Init /\ [][Next]_vars

\* A call in flight goes on; both background workers get the resource lock in
\* the end (a waiter on a Go mutex is served); time passes; faults stop.
CallGoesOn(p) ==
  \/ CreateOperation(p) \/ PersistDispatching(p) \/ SendKnock(p)
  \/ KnockReturns(p) \/ RecordMapped(p) \/ TrackAdmission(p)
  \/ Recovering(p) \/ RetirePendingForResource(p) \/ Retire(p)

LiveSpec ==
  /\ Spec /\ WF_vars(Tick) /\ WF_vars(Settle)
  /\ \A p \in Procs : /\ WF_vars(CallGoesOn(p))
                      /\ SF_vars(RecoverPending(p, "orphans"))
                      /\ SF_vars(RecoverQueued(p))

--------------------------------------------------------------------------------
Process ==
  [pc: Steps, task: Tasks, op: Ops \union {NoOp}, held: Record \union {Absent},
   todo: SUBSET Ops, fault: Faults, reply: Replies, moved: Record \union {Absent},
   live: SUBSET Ops, pending: SUBSET Ops, swept: BOOLEAN, queued: BOOLEAN]

\* The shape of every variable.
TypeOK ==
  /\ journal \in [Ops -> Record \union {Absent}]
  /\ proc \in [Procs -> Process]
  /\ issued \subseteq Ops
  /\ clock \in Nat /\ settled \in BOOLEAN
  /\ assigned \in Endpoints /\ alive \subseteq Endpoints /\ gone \in BOOLEAN
  /\ server \in [Ops -> {"unknown", "open", "ended"}]
  /\ knocks \subseteq Ops /\ acks \subseteq Ops /\ abandoned \subseteq Ops
  /\ packets \in [Ops -> SUBSET (Nat \X Endpoints)] /\ silences \in [Ops -> SUBSET Nat]

OpenIsHeld ==
  \A o \in Ops :
    server[o] = "open" \/ (o \in knocks /\ server[o] = "unknown") =>
      o \in abandoned \/ journal[o].status \in {"DISPATCHING", "MAPPED", "CLOSING"}

Under(sent, n) == {k \in sent : k[1] = n}

\* A recovery packet leaves under an attempt number that was durable before it
\* left, and no number covers more than two packets: the first of the one
\* process that took the number, and, only if it went unanswered or never left,
\* one to the endpoint the cell has moved to (session_operation.go:280-321,
\* validSessionOperationRecoveryProgress).  So it is across processes, lost
\* writes and restarts.
PacketsCounted ==
  /\ \A o \in Ops : journal[o] # Absent =>
       \A k \in packets[o] : k[1] \in 1..journal[o].attempt
  /\ \A p \in Procs :
       LET s == proc[p]
           sent == Under(packets[s.op], s.held.attempt)
       IN  /\ s.pc = "exchange" => sent = {}
           /\ s.pc = "silent" =>
                sent = IF s.reply = "silent" THEN {<<s.held.attempt, s.held.endpoint>>} ELSE {}
  /\ \A o \in Ops : \A i, j, k \in packets[o] :
       i[1] = j[1] /\ j[1] = k[1] => i = j \/ j = k \/ i = k

SilenceIsEvidence ==
  \A o \in Ops :
    /\ journal[o] # Absent => journal[o].noReply <= Cardinality(silences[o])
    /\ o \in abandoned => Cardinality(silences[o]) >= AbandonAttempts

\* A session the server holds, or may still open for a knock in flight, is
\* always answerable to a durable record recovery will act on, whatever write,
\* reply or process was lost; the only exception is bounded abandonment
\* (session_operation.go of pkg/agentstate:65-68).  The abandonment counter
\* never outruns the exchanges nothing answered, so no clock movement, crash or
\* competing recovery can abandon a session early (PostExpiryNoReplyAttempts).
Custody == OpenIsHeld /\ SilenceIsEvidence

\* A recovery that lost an optimistic write never mistakes a competitor's
\* legitimate progress for corruption, except the PREPARED record it had
\* chosen to cancel (reconcileRecoveryConflict).
ReconcileAcceptsProgress ==
  \A p \in Procs :
    LET s == proc[p]
    IN  s.pc = "reconcile" /\ s.held.status # "PREPARED" /\ journal[s.op] # Absent
          => MonotonicAdvance(s.held, journal[s.op])

\* Recovery never pins, and so never believes, an endpoint of another cell
\* (nativeSessionRefenceEndpoint).
CellFenced ==
  \A o \in Ops : journal[o] # Absent => CellOf[journal[o].endpoint] = journal[o].cell

\* As long as the clock is not corrected, no recovery attempt is made before
\* the deadline persisted by the last one, whichever process made it.
BackoffHonoured ==
  [][~ClockSteps =>
       \A o \in Ops : journal[o] # Absent /\ journal'[o] # Absent
                        /\ journal'[o].attempt > journal[o].attempt
                      => clock >= journal[o].notBefore \/ clock = MaxClock]_vars

\* No other connector process shares the state directory.
Sole == \A p, q \in Procs : p = q

\* A sole process never lets recovery or replacement touch an admission that
\* still serves: it stays MAPPED until its retirement is asked for.
LiveUndisturbed ==
  Sole =>
    \A p \in Procs : \A o \in proc[p].live \ proc[p].pending : journal[o].status = "MAPPED"

\* A sole process opens a replacement only once every earlier operation on
\* the resource is resolved or still serving: a failed recovery or retirement
\* blocks the next admission (admitOnce).
ReplacementWaits ==
  [][Sole =>
       ((\E o \in Ops : journal[o] = Absent /\ journal'[o] # Absent) =>
         \A p \in Procs, o \in Ops :
           journal[o] # Absent => o \in proc[p].live \ proc[p].pending)]_vars

Exhausted(o) == journal[o] # Absent /\ journal[o].attempt = MaxAttempts

\* Once faults stop, whatever a crashed process left in the journal is resolved
\* by the startup worker alone, without another admission or retirement
\* (recoverOrphanedSessionOperations).  It leaves a record behind only for a
\* resource that is gone: the server's deny 52004 ends the worker, and the
\* record stays for the operator (native.go:1095-1099, 1167-1174).
OrphansResolved ==
  \A p \in Procs, o \in Ops :
    (~proc[p].swept /\ journal[o] # Absent)
      ~> (journal[o] = Absent \/ o \in proc[p].live \/ Exhausted(o) \/ (gone /\ proc[p].swept))

\* Once faults stop, a retirement that was asked for completes, however often
\* it failed before (recoverQueuedNativeRetirements), unless the resource is
\* gone: then the worker may drop it on the server's deny 52004 and it stays
\* pending (native.go:1008-1011, 1067-1071).
RetirementCompletes ==
  \A p \in Procs, o \in Ops :
    (o \in proc[p].pending) ~> (o \notin proc[p].pending \/ Exhausted(o) \/ gone)

\* The journal and the server implement the custody of AdmissionCustody: no
\* crash, lost write or race lets the server open what is not written down, or
\* lets the last record go while the server may still open or hold a session.
Phase(o) ==
  IF o \in abandoned THEN "abandoned"
  ELSE IF o \notin issued THEN "none"
  ELSE IF journal[o].status = "PREPARED" THEN "prepared"
  ELSE IF journal[o].status \in {"DISPATCHING", "MAPPED", "CLOSING"} THEN "held"
  ELSE "resolved"

Promise == INSTANCE AdmissionCustody WITH phase <- [o \in Ops |-> Phase(o)], session <- server

KeepsCustody == Promise!Spec

================================================================================
