----------------------------- MODULE NativeRuntime -----------------------------
(***************************************************************************)
(* The native runtime of one Connector process (pkg/share/native.go):      *)
(* OpenNativeRuntime with its durable refresh episode and credential       *)
(* recovery, the admitter's assignment refresh under its runtime lock,     *)
(* MarkServingHealthy and Close.  What an admission does with the session  *)
(* journal is NativeSessionOperations; here it succeeds or fails.          *)
(*                                                                         *)
(* An assignment lapses when its lease ends or its cell moves, at most     *)
(* MaxLapses times; the Hub then answers with a new one.  Time appears as  *)
(* the moment a persisted retry deadline passes.  What may fail, fails at  *)
(* most MaxFaults times.                                                   *)
(***************************************************************************)
EXTENDS RefreshMarker, FiniteSets, Sequences

CONSTANTS
  Resources, Health, Closer,  \* the callers of the admitter
  Nobody, Orphan,
  Configs,    \* of [refresh: {"auto", "disabled"}, enrol: BOOLEAN, account: BOOLEAN]
  Threshold,  \* failed admissions of one generation that ask for a refresh
  MaxLapses,  \* bound on the assignments that lapse
  MaxFaults,  \* bound on the mishaps of a behaviour
  Faults      \* of FaultKinds

FaultKinds == {"crash", "io", "hub", "net", "cancel", "revoke", "lose", "stop", "clock"}

ASSUME RuntimeAssumption ==
  /\ Threshold \in Nat \ {0} /\ MaxLapses \in Nat /\ MaxFaults \in Nat
  /\ IsFiniteSet(Resources) /\ Faults \subseteq FaultKinds
  /\ \A a \in {Health, Closer, Nobody, Orphan} : a \notin Resources
  /\ Health # Closer /\ \A a \in {Nobody, Orphan} : a \notin {Health, Closer}

VARIABLES
  config,    \* what the process is configured with
  marker,    \* the refresh marker file
  state,     \* the agent state file
  lapsed, lapses,  \* the newest assignment has lapsed; how many still may
  revoked,   \* the Hub rejects the device credential
  left,      \* the mishaps still to come
  open,      \* the OpenNativeRuntime call and what became of it
  spent,     \* times this process took the account credential
  admitter,  \* binding, generation, closed and the lifecycle's cancellation
  calls,     \* caller -> its call in progress
  lock,      \* runtimeMu
  mu,        \* holder of refreshMu
  fails,     \* resource -> placement failures
  live,      \* resources with an admission
  quiet,     \* history: the deadline of the episode's last attempt is ahead
  hasty      \* history: resource -> immediate refreshes since it was admitted

files == <<marker, state>>
hub == <<lapsed, lapses, revoked>>
opening == <<config, open, spent>>
admissions == <<fails, live, hasty>>
serving == <<admitter, calls, lock, mu, admissions>>
vars == <<files, hub, left, opening, serving, quiet>>

Callers == Resources \union {Health, Closer}

Mishap(kind) == left > 0 /\ kind \in Faults /\ left' = left - 1

\* A marker write fails before its rename or after it (writeRefreshMarker).
Persist(new, ok) ==
  \/ ok /\ marker' = new /\ UNCHANGED left
  \/ ~ok /\ Mishap("io") /\ marker' \in {marker, new}

\* A call that asks for a refresh knows whether the generation that failed it is
\* current still; gen tells a generation from the next.
NoCall == [pc |-> "idle", job |-> "none", current |-> FALSE, immediate |-> FALSE]
NoFailures == [n |-> 0, used |-> FALSE]
Unlocked == [readers |-> {}, waiting |-> {}, writers |-> <<>>]
NoAdmitter == [fresh |-> FALSE, gen |-> 0, closed |-> FALSE, cancelled |-> FALSE]

Idle ==
  /\ admitter' = NoAdmitter /\ calls' = [a \in Callers |-> NoCall]
  /\ lock' = Unlocked /\ mu' = Nobody
  /\ fails' = [r \in Resources |-> NoFailures] /\ live' = {}
  /\ hasty' = [r \in Resources |-> 0]

--------------------------------------------------------------------------------
(***************************************************************************)
(* OpenNativeRuntime.  A failed open ends the process.                     *)
(***************************************************************************)
At(pc) == open.pc = pc
Step(pc) == open' = [open EXCEPT !.pc = pc] /\ UNCHANGED <<config, spent>>
Fails == Step("down")

\* The service supervisor starts the process, which opens its state store
\* (NewSDKStore).  That this fails is among the failures of LoadMarker.
Start ==
  /\ At("down")
  /\ open' = [pc |-> "load", kind |-> "none", tried |-> FALSE] /\ spent' = 0
  /\ UNCHANGED <<config, files, hub, left, serving, quiet>>

\* Mutant: a corrupt marker fails the open.
LoadMarkerRefuses ==
  /\ At("load")
  /\ \/ Readable(marker) /\ Step(IF ~Present(marker) THEN "warm" ELSE IF marker.handed THEN "handed" ELSE "refresh")
     \/ ~Readable(marker) /\ Fails
  /\ UNCHANGED <<files, hub, left, serving, quiet>>

\* A corrupt marker is removed and the open goes on as without one.  "io": the
\* state store cannot be opened, or the marker not be read.
LoadMarker ==
  /\ At("load")
  /\ \/ Readable(marker) /\ UNCHANGED <<marker, left, quiet>>
        /\ Step(IF ~Present(marker) THEN "warm" ELSE IF marker.handed THEN "handed" ELSE "refresh")
     \/ ~Readable(marker) /\ Persist(NoMarker, TRUE) /\ quiet' = FALSE /\ Step("warm")
     \/ ~Readable(marker) /\ Persist(NoMarker, FALSE) /\ UNCHANGED quiet /\ Fails
     \/ Mishap("io") /\ UNCHANGED <<marker, quiet>> /\ Fails
  /\ UNCHANGED <<state, hub, serving>>

\* connectNativeRuntime with WithAgentRuntimeOfflineOpen: it sees a lease that
\* ended, never a cell that moved.
OfflineOpens(o) ==
  \/ o = "transient" /\ Mishap("io")
  \/ /\ o \in CASE state.cred = "none" -> {"missing"}
              [] state.cred = "partial" -> {"incomplete"}
              [] state.pending -> {"pending"}
              [] lapsed -> {"ok", "expired"}
              [] OTHER -> {"ok"}
     /\ UNCHANGED left

OpenOutcomes == {"ok", "expired", "pending", "missing", "incomplete", "transient"}

\* assembleNativeRuntime: the binding of the persisted assignment.
Opened(kind, fresh) ==
  /\ open' = [open EXCEPT !.pc = "opened", !.kind = kind]
  /\ admitter' = [NoAdmitter EXCEPT !.fresh = fresh]
  /\ UNCHANGED <<config, spent, calls, lock, mu, admissions>>

\* recoverNativeCredential is entered only on an identity the Hub rejected or
\* an episode already pending (mayConsumeNativeRecoveryAuthority).
MayRecover(err) == err \in {"rejected", "pending"} /\ config.account

\* Mutant: whatever failed, the account credential may mend it.
FailedAtAll(err) == Step(IF config.account THEN "recover" ELSE "down")

Failed(err) == Step(IF MayRecover(err) THEN "recover" ELSE "down")

WarmOpen ==
  /\ At("warm")
  /\ \E o \in OpenOutcomes \ {"expired"} :
       /\ OfflineOpens(o)
       /\ \/ o = "ok" /\ Opened("warm", ~lapsed)
          \/ o = "pending" /\ Failed(o) /\ UNCHANGED serving
          \/ o \in {"missing", "incomplete"} /\ Step(IF config.enrol THEN "register" ELSE "down") /\ UNCHANGED serving
          \/ o = "transient" /\ Fails /\ UNCHANGED serving
  /\ UNCHANGED <<files, hub, quiet>>

\* An assignment that ended opens an episode (OpenNativeRuntime).
ExpiredOpen ==
  /\ At("warm") /\ state.cred = "complete" /\ ~state.pending /\ lapsed
  /\ \/ Persist(Requested(marker), TRUE) /\ Step("refresh")
     \/ Persist(Requested(marker), FALSE) /\ Fails
  /\ UNCHANGED <<state, hub, serving, quiet>>

\* A marker whose refresh brought an assignment: open that first.  Of what
\* fails, permanentRefreshError keeps the network and local faults retryable.
HandedOpen ==
  /\ At("handed")
  /\ \E o \in OpenOutcomes :
       /\ OfflineOpens(o)
       /\ \/ o = "ok" /\ Opened("warm", ~lapsed)
          \/ o = "pending" /\ Failed(o) /\ UNCHANGED serving
          \/ o \in {"expired", "transient"} /\ Step("refresh") /\ UNCHANGED serving
          \/ o \in {"missing", "incomplete"} /\ Fails /\ UNCHANGED serving
  /\ UNCHANGED <<files, hub, quiet>>

\* refreshUntilOpen: the deadline is waited for, then the attempt is recorded
\* before the Hub is asked.
RefreshDisabled ==
  /\ At("refresh") /\ config.refresh = "disabled"
  /\ Fails
  /\ UNCHANGED <<files, hub, left, serving, quiet>>

AttemptOnOpen ==
  /\ At("refresh") /\ config.refresh = "auto" /\ marker.due
  /\ \/ Persist(Attempted(marker), TRUE) /\ Step("hub")
     \/ Persist(Attempted(marker), FALSE) /\ Fails
  /\ quiet' = (quiet \/ ~marker'.due)
  /\ UNCHANGED <<state, hub, serving>>

\* refreshNativeRuntime persists the assignment the Hub answers with, a new one
\* when the newest has lapsed.
Reissue == lapsed' = FALSE

HubAnswers(o) ==
  \/ o \in {"retry", "refused"} /\ Mishap("hub")
  \/ /\ o = CASE state.cred # "complete" -> "refused"
            [] state.pending -> "pending"
            [] revoked -> "rejected"
            [] OTHER -> "ok"
     /\ UNCHANGED left

HubOutcomes == {"ok", "retry", "rejected", "pending", "refused"}

HubOnOpen ==
  /\ At("hub")
  /\ \E o \in HubOutcomes :
       /\ HubAnswers(o)
       /\ \/ o = "ok" /\ Reissue /\ Step("handoff")
          \/ o = "retry" /\ Step(IF Readable(marker) THEN "refresh" ELSE "down") /\ UNCHANGED lapsed
          \/ o \in {"rejected", "pending", "refused"} /\ Failed(o) /\ UNCHANGED lapsed
  /\ UNCHANGED <<files, lapses, revoked, serving, quiet>>

\* markRegistrationRefreshSucceeded, whose failure is only logged.
RecordSuccess ==
  \/ CanSucceed(marker) /\ \E ok \in BOOLEAN : Persist(Succeeded(marker), ok)
  \/ ~CanSucceed(marker) /\ UNCHANGED <<marker, left>>

\* assembleRefreshedNativeRuntime: a lost directory fails the open, a marker
\* that cannot be written does not.
HandoffOnOpen ==
  /\ At("handoff")
  /\ \/ /\ RecordSuccess
        /\ Opened(IF open.kind = "none" THEN "refresh" ELSE open.kind, ~lapsed)
     \/ Mishap("io") /\ Fails /\ UNCHANGED <<marker, serving>>
  /\ UNCHANGED <<state, hub, quiet>>

\* recoverNativeRuntime with the account credential: the episode is on disk
\* before the credential is taken and stays there when the exchange fails.
Recovered ==
  /\ Reissue /\ state' = [state EXCEPT !.pending = FALSE]
  /\ revoked' = FALSE

Unrecovered == Mishap("hub") /\ state' = [state EXCEPT !.pending = TRUE] /\ UNCHANGED <<lapsed, revoked>>

RecoverOnOpen ==
  /\ At("recover")
  /\ \/ Recovered /\ UNCHANGED left /\ open' = [open EXCEPT !.pc = "handoff", !.kind = "recovery"]
     \/ Unrecovered /\ open' = [open EXCEPT !.pc = "down"]
  /\ spent' = spent + 1
  /\ UNCHANGED <<config, marker, lapses, serving, quiet>>

\* connectNativeRuntime with an enrolment credential resumes a partial state.
Register ==
  /\ At("register")
  /\ \/ /\ Reissue /\ state' = [cred |-> "complete", pending |-> FALSE]
        /\ Opened("registration", TRUE) /\ UNCHANGED left
     \/ /\ Mishap("hub") /\ state' \in {state, [state EXCEPT !.cred = "partial"]}
        /\ Fails /\ UNCHANGED <<lapsed, serving>>
  /\ UNCHANGED <<marker, lapses, revoked, quiet>>

\* Mutant: the attempt is only spent when it succeeds.
MayRetryRecovery == open.kind = "warm"

\* The guards of RecoverCredentialAfterDeviceAuthorizationFailure.
MayRecoverOpened == open.kind = "warm" /\ ~open.tried

\* A registered-device request of the caller was answered with 401.
RecoverOpened ==
  /\ At("opened") /\ revoked /\ config.account /\ MayRecoverOpened
  /\ \/ /\ Recovered
        /\ RecordSuccess
        /\ open' = [open EXCEPT !.kind = "recovery", !.tried = TRUE]
        /\ admitter' = [admitter EXCEPT !.fresh = TRUE]
     \/ /\ Unrecovered /\ open' = [open EXCEPT !.tried = TRUE]
        /\ UNCHANGED <<marker, admitter>>
  /\ spent' = spent + 1
  /\ UNCHANGED <<config, lapses, calls, lock, mu, admissions, quiet>>

\* NewNativeAdmitter takes the binding, the key and the store over.
Transfer ==
  /\ At("opened")
  /\ Step("serving")
  /\ UNCHANGED <<files, hub, left, serving, quiet>>

--------------------------------------------------------------------------------
(***************************************************************************)
(* runtimeMu, a sync.RWMutex.  The first of writers has announced itself:  *)
(* it keeps new readers out, holds the lock once the readers inside have   *)
(* left, and lets the readers it kept out in when it unlocks.              *)
(***************************************************************************)
ReadLocked(l, a) ==
  IF l.writers = <<>> THEN [l EXCEPT !.readers = @ \union {a}]
  ELSE [l EXCEPT !.waiting = @ \union {a}]

ReadUnlocked(l, a) == [l EXCEPT !.readers = @ \ {a}]

WriteRequested(l, a) == [l EXCEPT !.writers = Append(@, a)]

WriteUnlocked(l) == [readers |-> l.waiting, waiting |-> {}, writers |-> Tail(l.writers)]

Announced(a) == lock.writers # <<>> /\ Head(lock.writers) = a
Holds(a) == Announced(a) /\ lock.readers = {}

\* Mutant: nobody releases what the abandoned writer acquires.
OrphanKeeps ==
  /\ Holds(Orphan)
  /\ UNCHANGED vars

\* The goroutine that takes the lock for a writer whose context ended.
OrphanReleases ==
  /\ Holds(Orphan)
  /\ lock' = WriteUnlocked(lock)
  /\ UNCHANGED <<files, hub, left, opening, admitter, calls, mu, admissions, quiet>>

--------------------------------------------------------------------------------
(***************************************************************************)
(* Admit and Retire of one resource; the resource's lock admits one call.  *)
(***************************************************************************)
In(a, job) == calls[a].job = job /\ a \in lock.readers
Call(a, c) == calls' = [calls EXCEPT ![a] = c]
Go(a, pc) == Call(a, [calls[a] EXCEPT !.pc = pc])
Canceled == Mishap("cancel") \/ (admitter.cancelled /\ UNCHANGED left)
Broken == Canceled \/ Mishap("net") \/ (admitter.closed /\ UNCHANGED left)

Begin(r, job) ==
  /\ At("serving") /\ calls[r].pc = "idle" /\ calls[Closer].pc # "done"
  /\ job = IF r \in live THEN "retire" ELSE "admit"
  /\ Call(r, [NoCall EXCEPT !.pc = "in", !.job = job])
  /\ lock' = ReadLocked(lock, r)
  /\ UNCHANGED <<files, hub, left, opening, admitter, mu, admissions, quiet>>

Leave(r) == Call(r, NoCall) /\ lock' = ReadUnlocked(lock, r)

Admitted(r) ==
  /\ ~admitter.closed /\ ~admitter.cancelled /\ admitter.fresh
  /\ live' = live \union {r}
  /\ fails' = [fails EXCEPT ![r] = NoFailures] /\ hasty' = [hasty EXCEPT ![r] = 0]

\* clearPlacementFailureCount.
ClearFailures(r) ==
  fails' = [fails EXCEPT ![r] = IF @.used THEN [@ EXCEPT !.n = 0] ELSE NoFailures]

\* recordPlacementFailure counts the failures of the current generation.
Failure(r) == [fails[r] EXCEPT !.n = IF @ < Threshold THEN @ + 1 ELSE @]

\* claimImmediatePlacementRefresh.
AskRefresh(r, placement) ==
  LET f == Failure(r)
      sustained == f.n >= Threshold
      immediate == ~sustained /\ placement /\ ~f.used
  IN  /\ fails' = [fails EXCEPT ![r] = [f EXCEPT !.used = @ \/ immediate]]
      /\ Call(r, IF sustained \/ immediate
                 THEN [pc |-> "refresh", job |-> "none", current |-> TRUE, immediate |-> immediate]
                 ELSE NoCall)
      /\ lock' = ReadUnlocked(lock, r)
      /\ UNCHANGED <<live, hasty>>

AdmitEnds(r) ==
  /\ In(r, "admit")
  /\ \/ Admitted(r) /\ Leave(r) /\ UNCHANGED left
     \/ Broken /\ Leave(r) /\ UNCHANGED admissions
     \/ ~admitter.closed /\ Broken /\ ClearFailures(r) /\ Leave(r) /\ UNCHANGED <<live, hasty>>
     \/ ~admitter.closed /\ ~admitter.cancelled /\ ~admitter.fresh /\ AskRefresh(r, TRUE) /\ UNCHANGED left
     \/ ~admitter.closed /\ Mishap("net") /\ AskRefresh(r, FALSE)
  /\ UNCHANGED <<files, hub, opening, admitter, mu, quiet>>

\* The admission after a refresh: another failure waits for the next call.
AgainEnds(r) ==
  /\ In(r, "again")
  /\ \/ Admitted(r) /\ UNCHANGED left
     \/ (Broken \/ (~admitter.fresh /\ UNCHANGED left)) /\ UNCHANGED admissions
  /\ Leave(r)
  /\ UNCHANGED <<files, hub, opening, admitter, mu, quiet>>

RetireEnds(r) ==
  /\ In(r, "retire")
  /\ \/ ~admitter.closed /\ live' = live \ {r} /\ UNCHANGED left
     \/ Broken /\ UNCHANGED live
  /\ Leave(r)
  /\ UNCHANGED <<files, hub, opening, admitter, mu, fails, hasty, quiet>>

--------------------------------------------------------------------------------
(***************************************************************************)
(* NativeAdmitter.refresh.                                                 *)
(***************************************************************************)
TakeMu(r) ==
  /\ calls[r].pc = "refresh" /\ mu = Nobody
  /\ mu' = r /\ Call(r, [calls[r] EXCEPT !.pc = "in", !.job = "check"])
  /\ lock' = ReadLocked(lock, r)
  /\ UNCHANGED <<files, hub, left, opening, admitter, admissions, quiet>>

\* A refresh that brought nothing gives the immediate credit back
\* (releaseImmediatePlacementRefresh).
RefreshFails(r) ==
  /\ mu' = Nobody /\ Call(r, NoCall)
  /\ fails' = [fails EXCEPT ![r] = IF calls[r].immediate THEN [@ EXCEPT !.used = FALSE] ELSE @]
  /\ UNCHANGED <<live, hasty>>

Again == [NoCall EXCEPT !.pc = "in", !.job = "again"]
Hasten(r) == hasty' = [hasty EXCEPT ![r] = IF calls[r].immediate THEN @ + 1 ELSE @]

AdmitAgain(r) ==
  /\ mu' = Nobody /\ Call(r, Again)
  /\ lock' = ReadLocked(ReadUnlocked(lock, r), r)
  /\ Hasten(r) /\ UNCHANGED <<fails, live>>

\* Mutant: the generation that failed is not compared.
CheckClosedOnly(r) ==
  /\ In(r, "check")
  /\ \/ admitter.closed /\ RefreshFails(r) /\ lock' = ReadUnlocked(lock, r)
     \/ ~admitter.closed /\ lock' = ReadUnlocked(lock, r)
        /\ Go(r, "request") /\ UNCHANGED <<mu, admissions>>
  /\ UNCHANGED <<files, hub, left, opening, admitter, quiet>>

\* Somebody refreshed the generation that failed meanwhile.
CheckGeneration(r) ==
  /\ In(r, "check")
  /\ \/ admitter.closed /\ RefreshFails(r) /\ lock' = ReadUnlocked(lock, r)
     \/ ~admitter.closed /\ ~calls[r].current /\ AdmitAgain(r)
     \/ ~admitter.closed /\ calls[r].current /\ lock' = ReadUnlocked(lock, r)
        /\ Go(r, "request") /\ UNCHANGED <<mu, admissions>>
  /\ UNCHANGED <<files, hub, left, opening, admitter, quiet>>

RequestMarker(r) ==
  /\ calls[r].pc = "request"
  /\ \/ Persist(Requested(marker), TRUE) /\ Go(r, "attempt") /\ UNCHANGED <<mu, admissions>>
     \/ Persist(Requested(marker), FALSE) /\ RefreshFails(r)
  /\ UNCHANGED <<state, hub, opening, admitter, lock, quiet>>

\* refreshReadyOnce never waits for the deadline.
MayAttempt == Present(marker) /\ config.refresh = "auto" /\ marker.due

AttemptNow(r) ==
  /\ calls[r].pc = "attempt"
  /\ \/ ~MayAttempt /\ RefreshFails(r) /\ UNCHANGED <<marker, left>>
     \/ MayAttempt /\ Persist(Attempted(marker), TRUE) /\ Go(r, "hub") /\ UNCHANGED <<mu, admissions>>
     \/ MayAttempt /\ Persist(Attempted(marker), FALSE) /\ RefreshFails(r)
  /\ quiet' = (quiet \/ ~marker'.due)
  /\ UNCHANGED <<state, hub, opening, admitter, lock>>

HubAnswersCall(r) ==
  /\ calls[r].pc = "hub"
  /\ \/ HubAnswers("ok") /\ ~admitter.cancelled /\ Reissue /\ Go(r, "handoff") /\ UNCHANGED <<mu, admissions>>
     \/ (Canceled \/ \E o \in HubOutcomes \ {"ok"} : HubAnswers(o)) /\ RefreshFails(r) /\ UNCHANGED lapsed
  /\ UNCHANGED <<files, lapses, revoked, opening, admitter, lock, quiet>>

Handoff(r) ==
  /\ calls[r].pc = "handoff"
  /\ \/ /\ RecordSuccess
        /\ Go(r, "lock") /\ UNCHANGED <<mu, admissions>>
     \/ Mishap("io") /\ RefreshFails(r) /\ UNCHANGED marker
  /\ UNCHANGED <<state, hub, opening, admitter, lock, quiet>>

\* lockRuntimeForRefresh: for a grace the lock is only tried; then a goroutine
\* queues for it.  A writer that gives up leaves the goroutine behind.
LockRuntime(r) ==
  /\ calls[r].pc = "lock"
  /\ \/ lock' = WriteRequested(lock, r) /\ Go(r, "queued") /\ UNCHANGED <<left, mu, admissions>>
     \/ Canceled /\ RefreshFails(r) /\ UNCHANGED lock
  /\ UNCHANGED <<files, hub, opening, admitter, quiet>>

AbandonLock(r) ==
  /\ calls[r].pc = "queued" /\ Canceled
  /\ lock' = [lock EXCEPT !.writers = [i \in DOMAIN @ |-> IF @[i] = r THEN Orphan ELSE @[i]]]
  /\ RefreshFails(r)
  /\ UNCHANGED <<files, hub, opening, admitter, quiet>>

\* The new binding and key replace the old, which are destroyed.  Close takes
\* refreshMu too, so the admitter is open still.
SwapIn(r) ==
  /\ admitter' = [admitter EXCEPT !.gen = 1 - @, !.fresh = ~lapsed]
  /\ calls' = [a \in Callers |-> IF a = r THEN Again ELSE [calls[a] EXCEPT !.current = FALSE]]
  /\ fails' = [x \in Resources |-> [fails[x] EXCEPT !.n = 0]]
  /\ mu' = Nobody /\ Hasten(r) /\ UNCHANGED live

\* Mutant: the writer takes the lock while readers are inside.
SwapEarly(r) ==
  /\ calls[r].pc = "queued" /\ Announced(r)
  /\ SwapIn(r)
  /\ lock' = ReadLocked([WriteUnlocked(lock) EXCEPT !.readers = @ \union lock.readers], r)
  /\ UNCHANGED <<files, hub, left, opening, quiet>>

Swap(r) ==
  /\ calls[r].pc = "queued" /\ Holds(r)
  /\ SwapIn(r)
  /\ lock' = ReadLocked(WriteUnlocked(lock), r)
  /\ UNCHANGED <<files, hub, left, opening, quiet>>

--------------------------------------------------------------------------------
(***************************************************************************)
(* MarkServingHealthy and Close.                                           *)
(***************************************************************************)
BeginHealthy ==
  /\ At("serving") /\ calls[Health].pc = "idle" /\ live # {} /\ marker.kind # "absent"
  /\ Go(Health, "mu")
  /\ UNCHANGED <<files, hub, left, opening, admitter, lock, mu, admissions, quiet>>

TakeMuHealthy ==
  /\ calls[Health].pc = "mu" /\ mu = Nobody
  /\ mu' = Health /\ Call(Health, [NoCall EXCEPT !.pc = "in", !.job = "clear"])
  /\ lock' = ReadLocked(lock, Health)
  /\ UNCHANGED <<files, hub, left, opening, admitter, admissions, quiet>>

ClearMarker ==
  /\ In(Health, "clear")
  /\ \/ admitter.closed /\ UNCHANGED <<marker, left>>
     \/ ~admitter.closed /\ \E ok \in BOOLEAN : Persist(NoMarker, ok)
  /\ quiet' = (quiet /\ marker'.kind # "absent")
  /\ mu' = Nobody /\ Leave(Health)
  /\ UNCHANGED <<state, hub, opening, admitter, admissions>>

\* Close cancels what runs before it waits for the locks.
BeginClose ==
  /\ At("serving") /\ calls[Closer].pc = "idle" /\ Mishap("stop")
  /\ admitter' = [admitter EXCEPT !.cancelled = TRUE]
  /\ Go(Closer, "mu")
  /\ UNCHANGED <<files, hub, opening, lock, mu, admissions, quiet>>

TakeMuClose ==
  /\ calls[Closer].pc = "mu" /\ mu = Nobody
  /\ mu' = Closer /\ Go(Closer, "queued")
  /\ lock' = WriteRequested(lock, Closer)
  /\ UNCHANGED <<files, hub, left, opening, admitter, admissions, quiet>>

\* Every admission is retired once within the shutdown budget; what fails is
\* reported and stays in its journal.
CloseHolds ==
  /\ calls[Closer].pc = "queued" /\ Holds(Closer)
  /\ admitter' = [admitter EXCEPT !.closed = TRUE, !.fresh = FALSE]
  /\ live' = {} /\ fails' = [r \in Resources |-> NoFailures]
  /\ mu' = Nobody /\ Go(Closer, "done")
  /\ lock' = WriteUnlocked(lock)
  /\ UNCHANGED <<files, hub, left, opening, hasty, quiet>>

Down ==
  /\ Step("down") /\ Idle
  /\ UNCHANGED <<files, hub, quiet>>

Exit ==
  /\ calls[Closer].pc = "done" /\ \A a \in Callers \ {Closer} : calls[a].pc = "idle"
  /\ Down /\ UNCHANGED left

Crash == ~At("down") /\ Mishap("crash") /\ Down

--------------------------------------------------------------------------------
(***************************************************************************)
(* The Hub, the cells, the disk and time.                                  *)
(***************************************************************************)
Lapse ==
  /\ lapses > 0 /\ ~lapsed /\ state.cred = "complete"
  /\ lapsed' = TRUE /\ lapses' = lapses - 1 /\ admitter' = [admitter EXCEPT !.fresh = FALSE]
  /\ UNCHANGED <<files, revoked, left, opening, calls, lock, mu, admissions, quiet>>

Revoke ==
  /\ Mishap("revoke") /\ state.cred = "complete" /\ revoked' = TRUE
  /\ UNCHANGED <<files, lapsed, lapses, opening, serving, quiet>>

LoseState ==
  /\ Mishap("lose") /\ state' = [cred |-> "none", pending |-> FALSE]
  /\ UNCHANGED <<marker, hub, opening, serving, quiet>>

Tick ==
  /\ quiet \/ ~marker.due \/ marker.ahead
  /\ marker' = Later(marker) /\ quiet' = FALSE
  /\ UNCHANGED <<state, hub, left, opening, serving>>

ClockBack ==
  /\ Mishap("clock") /\ Present(marker) /\ ~marker.ahead
  /\ marker' = Earlier(marker)
  /\ UNCHANGED <<state, hub, opening, serving, quiet>>

Settle ==
  /\ left > 0 /\ left' = 0
  /\ UNCHANGED <<files, hub, opening, serving, quiet>>

--------------------------------------------------------------------------------
Init ==
  /\ config \in Configs
  /\ marker \in {NoMarker, BadMarker}
  /\ state \in [cred: {"none", "complete"}, pending: {FALSE}]
  /\ lapsed = FALSE /\ lapses = MaxLapses /\ revoked = FALSE /\ left = MaxFaults
  /\ open = [pc |-> "down", kind |-> "none", tried |-> FALSE] /\ spent = 0
  /\ admitter = NoAdmitter /\ calls = [a \in Callers |-> NoCall]
  /\ lock = Unlocked /\ mu = Nobody
  /\ fails = [r \in Resources |-> NoFailures] /\ live = {}
  /\ hasty = [r \in Resources |-> 0]
  /\ quiet = FALSE

Opening ==
  \/ Start \/ LoadMarker \/ WarmOpen \/ ExpiredOpen \/ HandedOpen \/ RefreshDisabled \/ AttemptOnOpen
  \/ HubOnOpen \/ HandoffOnOpen \/ RecoverOnOpen \/ Register \/ Transfer

Serving(r) ==
  \/ AdmitEnds(r) \/ AgainEnds(r) \/ RetireEnds(r)
  \/ CheckGeneration(r) \/ RequestMarker(r) \/ AttemptNow(r) \/ HubAnswersCall(r)
  \/ Handoff(r) \/ LockRuntime(r) \/ AbandonLock(r) \/ Swap(r)

Healthy == ClearMarker
Closing == CloseHolds \/ Exit

Next ==
  \/ Opening \/ RecoverOpened \/ OrphanReleases
  \/ \E r \in Resources : Begin(r, "admit") \/ Begin(r, "retire") \/ TakeMu(r) \/ Serving(r)
  \/ BeginHealthy \/ TakeMuHealthy \/ Healthy
  \/ BeginClose \/ TakeMuClose \/ Closing
  \/ Crash \/ Lapse \/ Revoke \/ LoseState \/ Tick \/ ClockBack \/ Settle

Spec == Init /\ [][Next]_vars

\* The supervisor restarts the process, the runtime schedules every goroutine,
\* a mutex is not withheld for ever from one that waits for it, exchanges end
\* within their timeouts, the group runner admits again, and time passes.
LiveSpec ==
  /\ Spec
  /\ WF_vars(Opening) /\ WF_vars(OrphanReleases) /\ WF_vars(Tick)
  /\ \A r \in Resources :
       WF_vars(Begin(r, "admit")) /\ SF_vars(TakeMu(r)) /\ WF_vars(Serving(r))
  /\ SF_vars(TakeMuHealthy) /\ WF_vars(Healthy)
  /\ SF_vars(TakeMuClose) /\ WF_vars(Closing)

--------------------------------------------------------------------------------
\* Between two attempts of an episode lies the deadline the first of them
\* persisted, across failures, restarts and both refresh paths, and no step
\* writes a marker the next start refuses; only a clock set back leads to one
\* (markRegistrationRefreshAttempted, requestRegistrationRefresh).
ScheduleKept ==
  [][/\ Present(marker) /\ marker.due /\ Present(marker') /\ ~marker'.due
          => ~quiet /\ marker'.count >= marker.count
     /\ ~(Present(marker) /\ marker.ahead) => marker' \in OpenMarkers \union {NoMarker, marker}]_vars

Replaces(r) == calls[r].pc \in {"request", "attempt", "hub", "handoff", "lock", "queued"}

\* A refresh replaces the generation whose admission failed and no later one;
\* until it is swapped in, that generation stays (refresh).  A resource gets one
\* immediate refresh until it admits (immediateUsed).
RefreshOfTheFailed ==
  \A r \in Resources :
    /\ Replaces(r) => mu = r /\ calls[r].current
    /\ hasty[r] <= 1

\* While a call is inside the runtime lock, its binding and key stay.
BindingHeld ==
  [][lock.readers \intersect lock'.readers # {} =>
       (admitter'.gen = admitter.gen /\ admitter'.closed = admitter.closed)]_vars

\* The account credential is taken once in a process, and only when the Hub
\* rejects the device credential or a recovery is pending; enrolment is not the
\* way out of a finished identity or of an episode.
AuthorityEarned ==
  [][/\ spent' > spent => spent' = 1 /\ (revoked \/ state.pending)
     /\ At("register") => state.cred # "complete" /\ marker.kind = "absent"]_vars

\* No caller waits for ever, a writer that gave up in front of it included
\* (lockRuntimeForRefresh).
CallsReturn == \A a \in Callers : (calls[a].pc \notin {"idle", "done"}) ~> (calls[a].pc \in {"idle", "done"})

\* What no retry can mend: the device rejected, refreshing switched off, an
\* identity that is gone.
Lost ==
  \/ config.refresh = "disabled" \/ revoked \/ state.pending
  \/ state.cred # "complete" /\ (~config.enrol \/ marker.kind # "absent")

\* Once failures stop, every resource is admitted again without an operator
\* (RefreshMarker).
Heals == \A r \in Resources : (left = 0) ~> (r \in live \/ Lost)
================================================================================
