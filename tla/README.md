# A verification of qurl-connector

This directory holds TLA+ models of the connector, the TLC runs that check
them on small instances, and the TLAPS proofs of what was judged to matter most
for instances of every size. `PROJECT.json` is the index: components, runs,
mutants (a plausible bug per checked property that the run must find), the map
from definitions to source lines, hazards and theorems.

## 1. The system and its parts

The connector publishes local HTTP routes through an FRP control session that a
native NHP admission authorises. A daemon process (`cmd/frpc run`) reads the
configuration, resolves identities, opens an admitter over the agent state
directory and runs session groups; several processes may share that directory.

| component | state it keeps | operations | interacts with |
|---|---|---|---|
| session operation journal (`pkg/agentstate/session_operation.go`) | one file of at most eight records per protected resource | create, transition, delete, each a compare-and-swap under a file lock with an atomic rename | every process on the state directory |
| durable session operations (`pkg/share/session_operation.go`) | none of its own: the record it holds during a call | PrepareDispatch, RecordMapped, RecoverPending, RecoverOperation, Retire | journal, native UDP recovery exchange, assignment |
| native admitter (`pkg/share/native.go`) | runtime binding, per-resource locks, live and pending operations, background queues | open, Admit, Retire, refresh, recover credential, Close; two background workers | durable operations, refresh marker, state store |
| refresh marker (`pkg/agentstate/refresh_marker.go`) | one file: reason, attempts, deadline, success | request, attempted, succeeded, clear | runtime opening, admitter |
| agent state store (`pkg/agentstate/sdk.go`, `state.go`) | private key envelope, assignment, replay state | load, save, compare | runtime opening |
| key providers (`pkg/agentstate/*key*.go`, `tpm.go`, `cloudkms.go`) | provider selection | resolve, wrap, unwrap, sign | state store |
| session group runner (`pkg/share/group.go`) | desired routes and their generations, active and pending session, rotation | Run, SetRoutes, RestartRoute, RouteStates | admitter, group sessions, drain set, callbacks |
| drain set (`pkg/share/session.go`) | retired sessions still finishing work | start, retainRoutes, cancel, stopAndWait | runner, sessions, admitter |
| group session (`pkg/share/group_frp.go`) | route table, registration window, table version and pushed version | Start, Update, observe, push, Drain, Stop | FRP client service |
| configuration (`pkg/config`) | the YAML file, a process token and a lock file | transaction: load, save, replace | commands, daemon |
| identity cache (`cmd/frpc/connector_identity_cache.go`) | cached remote identities | resolve, reconcile, forget | configuration, API |
| daemon (`cmd/frpc/run.go`, `ready.go`) | route ledger, readiness announcement | run, announce, report | runner, admitter |
| audit log (`pkg/audit`) | bounded channel, drop counter | Log, Close, rotate | daemon |
| user job (`pkg/service`) | the service manager's unit | install, replace, remove, status | operating system |
| files (`internal/pinnedfs`, `atomicfile`) | pinned directories, locks | open, lock, rename | all stores |
| provenance, strict proof, hub pin, contracts | embedded constants and build checks | verify | build |

What is hard in it, in order of what a failure would cost:

* a server session that no durable record answers for, because a process
  crashed, a write was ambiguous or a packet was late (sections 2 to 4);
* processes racing over one journal, each with a stale record in hand;
* recovery that must neither give up early nor retry too soon nor speak to the
  wrong cell, while servers roll and clocks are corrected;
* make-before-break rotation racing route changes made by callers;
* background work that must finish although nobody waits for it.

`PROJECT.json` lists each hazard at its line with the properties that cover it.

## 2. Modules

`SessionOperationRecords` has the journal's records and the pure rules over
them: the transition table (`ValidTransition`), the recovery-progress rule and
the relation by which a recovery that lost a race recognises a competitor's
write (`MonotonicAdvance`).

`NativeSessionOperations` is the core. `journal` is one resource's file,
`proc[p]` is everything process `p` would lose in a crash, `issued` the
operation identities handed out, and `clock`, `assigned`, `alive`, `server`,
`knocks` and `acks` are the world outside. The actions follow the code:

| code | actions |
|---|---|
| `admitOnce`, `knock`, `PrepareDispatch`, `RecordMapped`, `trackAdmission` | `RecoverPending(p, "admit")`, `RetirePendingForResource`, `CreateOperation`, `PersistDispatching`, `SendKnock`, `KnockReturns`, `RecordMapped`, `TrackAdmission` |
| `RecoverOperation` | `LoadOperation`, `CancelPrepared`, `CloseMapped`, `DeleteTerminal`, `AwaitDeadline`, `CountAttempt`, `ExchangePinned`, `ExchangeRefenced`, `PinEndpoint`, `MapUnexpected`, `CountNoReply`, `FinishOperation` |
| `reconcileRecoveryConflict` | `ReconcileConflict` |
| `Retire`, `retireOne` | `RetireAdmission`, `Retire` |
| `recoverOrphanedSessionOperations`, `recoverQueuedNativeRetirements` | `RecoverPending(p, "orphans")`, `RecoverQueued` |
| `TransitionSessionOperation` and its siblings | `Write`: success, lost comparison, failure, or a commit reported as a failure |

`Ends`, `Fail`, `Refuse` and `Succeed` say how a call returns: the startup sweep
goes on with the next record, a failed retirement is queued, a permanent failure
leaves the queue. Permanent is also the server's deny 52004 of a resource that was
deleted (`gone`, `DeleteResource`; `native.go:1099`): the workers drop the resource
and its record stays in the journal. `packets[o]` records each recovery packet as
attempt and endpoint, since an attempt that the pinned endpoint left unanswered sends
a second packet under the same number to the endpoint its cell moved to. `Crash` stops
a process: it empties `proc[p]` and nothing else. An orderly `Close`
(`native.go:1793`) is some retirements followed by a stop; that it runs those in
parallel under a budget of five seconds is left out. When an admitted session cannot
be tracked (`trackAdmission`), its recovery runs within the same call.

Inside one process the resource lock is held from the start of each of these
calls to its end, so a process is one sequential actor; between processes the
journal's comparison is the only coordination, and every file access is a step
of its own. The server is external and modelled by what the client relies on: a
complete reply means the operation will never open a session again, and a late
knock for it is refused.

`AdmissionCustody` is the abstract promise: an operation is written down before
anything can be opened in its name, and its record goes only when the server has
ended it or recovery has abandoned it. `NativeSessionOperations` implements it
(`KeepsCustody`), with `Phase` reading the abstract phase off the journal.

`MCNativeSessionOperations` instantiates the core for TLC.

`SessionGroup` is the runner with its drain set. `run.pc` is the place of the
goroutine inside `Run` (and of the calls it makes), `jobs[a]` the progress of
actor `a`, a caller or Run itself, through a change of the route set:
`drains.retainRoutes`, the lock and snapshot of `apply`, the push to the pending
session, the push to the active one, the wake-up. A cycle is one admission with
its session; `table[c]`, `life[c]` and `changed` are the session as the runner
sees it, `expired` and `retires` the admission, `drains`, `canceled` and `closed`
the drain set and the routes whose work each drained session was told to close.

| code | actions |
|---|---|
| `SetRoutes`, `RestartRoute`, `applyAndWake`, `apply` | `SetRoutes`, `RestartRoute`, then `RetainRoutes`, `ApplyLock`, `ApplyPending`, `ApplyActive`, `SignalWake` |
| `Run`: entry, select, return | `Begin`, `AdmitNext`, `Stopped`, `DrainsChanged`, `Woken`, `SessionLost`, `SessionChanged`, `Rotate`, `Exit`, `Settle` |
| `startReadyCycle`, `startCycleAttempt`, `failCycle` | `Admit`, `StartCycle`, `Retry`, `GiveUp`, `ReadStates`, `WithdrawGone`, `Gate`, `AwaitReady` (and `FailCycle` inside them) |
| `cycleDrainSet.start`, `promote`, `reportActive` | `FenceOld`, `DrainOld`, `Promote`, `ReportActive`, `WithdrawGone`, `RetainPromoted`, `CheckEmpty` |
| a drain's goroutine | `DrainEnds`, `DrainRetires` |
| sessions, time, the context | `Observe` (serving, flapping, refused for good), `Lose`, `Expire`, `Shutdown` |

`GiveUp` is one step (`group.go:512`): what could come between taking the active cycle
and the two calls after it is an apply that finds no active session. A timer is not a
clock here: `Rotate` may happen at any time and admissions
expire in any order, which covers every lead and every open time.

`GroupSession` is one session from the inside: `routes` is the table with each
route's generation, phase, refusal and slot, `version` and `pushed` the table
version and the one FRP has accepted, `push` what the holder of `updateMu` has in
hand, `watch` the polling goroutine, `frp` and `online` FRP and its control
connection. A critical section of `mu` is one step, and everything between two of
them is another.

| code | actions |
|---|---|
| `newFRPGroupSession`, `releaseWindowLocked` | `Init`, `Release` with `Slots` and `ReleaseChoices` in every step that calls it |
| `Update` | `RunnerUpdates` (with the calls `apply` makes), then the push |
| `pushUnderUpdateMu`, `recordPushFailure` | `SnapshotPush`, `DeliverPush`, `AcceptPush`, `FailPush`, `BackoffEnds` |
| `watch`, `observe`, `inspectRouteStatus` | `ScanTable`, `InspectRoute`, `FoldAnswers`, `PushOwed`, `LockPush`, `PushReturns`, `WatchEnds` |
| `prepareDrain`, `Stop`, `run` | `PrepareDrain`, `Stop`, `RunEnds` |
| FRP and its server, times | `Login`, `LoseControl`, `Answer`, `Resend`, `HoldEnds`, `GraceEnds`, `Rotate` |

`ServingSession` is what `SessionGroup` relies on: only the runner replaces
registrations, a phase follows what the server said of that registration, and an
ended session serves nothing. `GroupSession` implements it (`ImplementsSession`);
`GroupSession_proofs` proves that it does.

`RefreshMarker` has the marker file's record and the operators on it; a file that
its decoder refuses is a value of its own. `NativeRuntime` applies them in one
process: `open` is the `OpenNativeRuntime` call, `admitter` the binding with its
generation, `calls[a]` each caller's place, `lock` the runtime's RWMutex with its
readers and the queue of writers and later readers, `mu` the refresh mutex, `fails`
the placement failures.

| code | actions |
|---|---|
| `OpenNativeRuntime`, `warmOpenNativeRuntime`, `refreshUntilOpen`, `recoverNativeCredential` | `Start`, `LoadMarker`, `WarmOpen`, `ExpiredOpen`, `HandedOpen`, `RefreshDisabled`, `AttemptOnOpen`, `HubOnOpen`, `HandoffOnOpen`, `RecoverOnOpen`, `Register` |
| `RecoverCredentialAfterDeviceAuthorizationFailure`, `NewNativeAdmitter` | `RecoverOpened`, `Transfer` |
| `Admit`, `Retire` (their runtime part) | `Begin`, `AdmitEnds`, `AgainEnds`, `RetireEnds` |
| `refresh`, `refreshReadyOnce`, `lockRuntimeForRefresh` | `TakeMu`, `CheckGeneration`, `RequestMarker`, `AttemptNow`, `HubAnswersCall`, `Handoff`, `LockRuntime`, `AbandonLock`, `OrphanReleases`, `Swap` |
| `MarkServingHealthy`, `Close` | `BeginHealthy`, `TakeMuHealthy`, `ClearMarker`; `BeginClose`, `TakeMuClose`, `CloseHolds` |
| the process, the Hub, disk and clock | `Exit`, `Crash`, `Lapse`, `Revoke`, `LoseState`, `Tick`, `ClockBack` |

Go's RWMutex lets no reader past a writer that has announced itself. A writer
announces itself at once here, so the queue is the order of arrival. The check
for `closed` after the swap's lock is never true: `Close` takes the refresh mutex
too. The module has one process; two of them on one directory are in
`NativeSessionOperations` only.

`ConnectorIdentities` is the commands `add`, `remove` and `run` over
`qurl-proxy.yaml` and `connector_identities.json`. A file is the content a reader
sees together with the contents its directory may hold on disk (`vis`, `disk`):
a power loss picks one of them. A save may stop before its rename, or between the
rename and the end of the directory's sync, in either file (`SaveEnds`). `network` and `resource` are the qURL service, a
resource being named by the nonce of the request that created it; `eras` counts
how often an id was added, which tells lifetimes of a route apart. `unfenced` is the
lifetimes whose identity was pruned while the disk could still bring their route back
(see Divergences).

| code | actions |
|---|---|
| `addRouteToConfig` in a `FileTransaction` | `AddLoad`, `AddSave` |
| `prepareConnectorRun`, `bindAgentIDLocked`, resolution of the routes | `RunRead`, `RunBegin`, `RunOpen`, `RunBind`, `RunRequest`, `RunAnswer` |
| `runRemove`, `removeConnectorSelection`, `reconcileConnectorResourceDeletion` | `RemoveLoad`, `RemoveBegin`, `RemoveInspect`, `RemoveDelete`, `RemoveConfirm`, `RemoveEdit`, `RemovePrune`; without a state directory `RemoveUncached`, `RemoveUncachedEdit` |
| `withConnectorIdentityCacheLockContext`, the retry barrier, the continuity rule | `OpenState` in `RunBegin` and `RemoveBegin` |
| the service | `ServeAssertion`, `ServeCold`, `ServeDelete` |
| process, host and operator | `Stop`, `PowerLoss`, `Lose`, `HostEdit` |

A request that outlives the command that sent it is taken to be lost; key pins,
the snapshot `list` prints and the agreement of knock targets are left out.

`AuditLogger` is the logger's channel, writing goroutine and file, twice: the
early one and the configured one, with callers that have read the default logger
and not yet sent to it.

| code | actions |
|---|---|
| `audit.Default`, `Log` | `Load`, `Enqueue`, `Drop`, `LogNop` |
| `run` | `Write`, `FlushTick`, `Warn`, `Drained` |
| `swapAuditLoggerFromYAML`, `closeAuditLogger`, `Close` | `Swap`, `SwapFails`, `CloseChannel`, `CloseReturns`, `Exit` |
| the disk | `DiskFills`, `DiskFrees` |

`UserJob` has what the three native managers share: the persisted definition
(`file`), what the manager has in memory (`loaded`, `stale`), whether it starts at
login (`enabled`), the process, the executable, the log directory, the file's mode
and the call in progress. `SystemdUserJob`, `LaunchdUserJob` and
`ScheduledUserJob` have one action for each command or file access of `Ensure`,
`Replace`, `Remove` and `Status` on their platform, named after it
(`SystemdStop`, `LaunchdBootout`, `SchedulerDisable`). `UserJobManagers` puts them
together: the behaviour is that of one platform, and the properties are what
`UserJobManager` owes its caller on all of them. The three have no state in
common at run time; they share the contract.

What that model leaves to the user or to the platform: the unit is masked by hand
and unmasked only by Remove; files of another owner and unfit paths are refused,
never repaired (`Fit`, the premise of `Repairs`); launchd vets neither executable
nor logs; a call whose paths change while it runs may have looked at them before
(`call.drift`), because check and use are two steps; the files in the log
directory fail as a whole. Task Scheduler may start a task again between the query
of its state and `/Disable`: the code then takes it for idle and does not end it,
so the old process stays; such a process is marked `raced`, and `NeverMistaken` and
`Converged` except it (see Divergences). A systemd unit that somebody edited can always
be loaded here: that systemd refuses one on a reload under a running process
(`userjob_linux.go:474`) does not happen.

The `MC` modules instantiate these for TLC. `MCSessionGroup`'s `View` forgets what
nothing can read any more: tables, names and signals of cycles that are in no slot
and no drain, and Run's locals where no later step uses them.

## 3. Runs

Every bound is a constant of the configuration. `MaxAttempts` bounds the uint32
attempt counter, `MaxClock` the clock (the last tick stands for all later times,
so a deadline or margin never becomes unreachable), `Ops` the operations.

| run | question | instance |
|---|---|---|
| `ops_race` | do two processes on one directory keep custody, count packets, respect persisted deadlines and recognise each other's progress? | 2 processes, 1 operation, 2 endpoints of one cell, 2 attempts, 2 clock values |
| `ops_roll` | is a serving admission left alone, does a replacement wait for what is unresolved, is recovery fenced to its cell and abandonment backed by silence? | 1 process, 3 operations, room for 2 records, 3 endpoints in 2 cells, 3 clock values, the resource may be deleted |
| `ops_live` | do the two background workers finish what is left once faults stop? | 1 process, 3 attempts, give up after 2 silences, the resource may be deleted |
| `group_calls` | do route changes at every point of the cycles end in the desired set, with removed work closed, no name reused, each admission retired once and two drains at most? | 2 routes, 2 callers whose contexts end, 4 cycles, 1 restart of a route, every failure |
| `group_live` | is an expired admission retired, does Run return? | 1 route, 2 cycles, sessions lost, drains that outlast their budget, shutdown |
| `session_push` | does the table tell the truth about the server, and does FRP hold the table? | 3 routes in a window of 1, 2 updates, failed pushes, refusals, every end |
| `session_live` | do refused routes hold back the others? | 3 routes in a window of 1, so a ceiling of 2, two of them refused for ever, a lost control connection |
| `native` | does a refresh replace what failed, does the schedule survive, are the credentials earned? | 2 resources, 2 lapses, 2 mishaps of every kind, threshold 2 |
| `native_live` | does every caller return, is every resource admitted again? | 2 resources, 1 lapse, 1 mishap |
| `identities` | is every resource provisioned once, named locally and revoked under a route that fails closed? | 2 ids, 2 processes, 2 routes added in all, 2 cold requests, every failure but `late` |
| `audit_drain` | is every entry written, counted or lost to the disk? | 2 callers of 2 entries, a channel of 1, a buffer of 2 |
| `userjob` | do disk, manager and process agree when a call succeeds, and does who keeps asking get the job? | 3 platforms, 4 jobs, 3 log directories, 3 cycles, 3 mishaps |

Two processes and one operation suffice for the races because every write
compares one operation's record; the journal's capacity is asked about by
`ops_roll`. Two attempts are the least for which a number could be reused.
`ops_race` drops the history `silences` from its view and `ops_roll` the history
`packets`: no action reads them. In `ops_race` the cell moves to its other endpoint
around the first recovery attempt (`MovesOnce`), so that both processes can send twice
under one number; a second attempt is explored where the endpoint stays and no
admission is under way (`AdmitsEarly`). Processes,
operation identities and the endpoints of one cell are interchangeable,
hence the symmetry sets (never used with liveness). `Handover` explores a second
operation at one time and an assigned endpoint that answers, a third one before any
attempt of what the journal holds: an old operation and its replacement meet through
the journal's room and the resource's lock, not through the clock.

In `SessionGroup`, two cycles are an old session and its replacement, four are
what it takes to find two drains under way when a third is to start. `Faults`
names the failures a run allows. `EditsOrCycles` explores the later cycles without
edits of the routes, and the second route beside an unchanged first one: what
edits can disturb are the two sessions in the slots, and a route's fate depends on
another's through the set as a whole.

In `session_push` a window of one makes every route but one wait, and `Extra`
fills the table up to find the ceiling; `FullTableQuiet` keeps a full table to
that question. `session_live` needs the third route for the same reason: only two
refused routes that were both released fill the ceiling, and then the third gets its
slot only by the end of a hold. `Crowded` leaves out of the full table the replacement
of the session and control losses in the middle of a poll, which the smaller tables
of that run have. In `native` two resources are a refresh and another's failure,
reader or second refresh during it; `Threshold` is 5 in the code, and 2 is the
least that tells a first failure from a sustained one. Two nonces in `identities`
are a resource and the second one that must not be; two additions in all (`TwoAdds`)
are two routes, or one that was removed and added again, and one configuration on disk
beside the visible one (`OneMayReturn`) is the one a power loss may bring back, which
is explored apart from the loss of a state file (`LostAlone`); two mishaps beside the
operations' own choices are a failure and one more while it is repaired.
`userjob` counts mishaps too: three are a failed command, a failed repair of it and
one event of the environment. `launchdBootstrapMaxCycles` is 4 in the code.

Deadlock is not checked where the program really stops: a Run that returned, an
ended session, a command that exited.

Every property is stated in words above its definition. `LiveUndisturbed` and
`ReplacementWaits` are about a sole process: another process on the same directory
does treat a live admission's record as an orphan of a crash, and the code relies
on one process per resource for that. `OrphansResolved` and `RetirementCompletes` except
a resource the server reports as deleted. `Heals` leaves the clock alone (see below).

Divergences. Reading and modelling found comments that promise more than the code
does. No run asks for them; the properties are stated in the modules, and TLC prints
the behaviour for the configuration named:

* `PromotionKeepsServing` (`group_calls` without its view and symmetry): "promotion never regresses a route that was up"
  (`group.go:850`). The gate judges route states read before it; a route that a
  caller restarts or changes after the read is registered anew on the
  replacement, which is then promoted although the route serves on the old
  session only.
* `WithdrawnWasRefused` (likewise): `RouteFailed` is "terminal for this proxy registration"
  (`group_frp.go:146`), but `withdrawGone` withdraws a route that was changed or
  restarted after the states were read on the refusal of its former
  registration.
* `RotatingRegistersNothing` (`session_push` with the fault `rotate` in place of
  the constraint): "a rotating session never registers anything"
  (`group.go:606`, `group.go:671`). Dropping a route frees a slot of the rotating
  session, and `Update` (`group_frp.go:858`) or the next poll (`group_frp.go:735`)
  gives it to a route that waits there.
* `FinalFlushIsReported` (`audit_drain`): a "swap-time disk failure (rotator's final Flush returns
  EIO, etc.) is observable" (`audit.go:211`). The goroutine discards that error
  (`logger.go:368`), and Close does not see it.

Five more:

* "a remaining route reopens only that revoked public ID and therefore fails
  closed instead of provisioning a replacement" (`remove.go:213`). A `remove` stops
  after the rename of the configuration (`transaction.go:357`) and before its
  directory is synced (`:361`), or the sync fails; run again, it finds no route to
  remove and prunes the identity, durably. A power loss may then bring the old
  configuration back: the route has no identity, and `run` provisions a second
  resource for it. The identity cache has a retry barrier against this
  (`connector_identity_cache.go:153`), the configuration has none. `identities` explores
  this with all that follows. `unfenced` collects the lifetimes of routes it happens to,
  and `OneResourcePerRoute` and `RouteFailsClosed` except those and no other; without the
  exception TLC finds both violated within seconds, the crash and the power loss being
  the only failures needed.
* `Replace` "reloads the process even when the persisted definition already matches"
  (`userjob.go:60`), and the code disables a task first "so a KeepAlive task cannot
  restart between /End and /Create" (`userjob_windows.go:239`). It can restart before
  that, between the query of the state (`:168`) and `/Disable` (`:244`): the query said
  ready, so `/End` is skipped. `Ensure`, `Replace` and `Remove` then return nil with the
  old process running, and a later `Ensure` accepts it as the new definition's (`:193`).
  `userjob` explores it and marks the process `raced`; without the exception
  TLC finds `NeverMistaken` and `Converged` violated.
* "ordinary refresh failures never require operator action"
  (`refresh_marker.go:60`). When the clock is set back between the start of an
  episode and its next attempt, `markRegistrationRefreshAttempted` writes times the
  decoder refuses (`refresh_marker.go:263`); the running admitter can no longer
  read its marker and refreshes nothing until the process restarts. With `clock`
  among the faults of `native_live` and two lapses `Heals` is violated.
* "No manager restarts a process after a successful exit" (`userjob.go:51`):
  launchd's `KeepAlive` of `true` does.
* Two processes on one directory: `refreshUntilOpen` asks the Hub without a delay
  once another process has cleared the marker, and requesting a refresh looks for
  the file before it writes it.

Fairness of `NativeSessionOperations` (`LiveSpec`). A call in flight goes on (Go schedules runnable
goroutines, every exchange has a timeout): weak fairness. Each background worker
gets the resource lock although foreground calls compete for it (a waiter on a
Go mutex is handed it after at most a millisecond of starvation): strong
fairness. Time passes. Faults stop for good (`Settle`), without which nothing
can be promised; the operation that uses up its attempt counter is excepted,
because the model's bound stands for 2^32 attempts.

Fairness of `SessionGroup` (`LiveSpec`). Run and the callers go on when they can:
weak fairness. A waiter gets applyMu, and Go's select picks among ready cases at
random, so none is passed over for ever: strong fairness on `ApplyLock` and on
each case of the select. Every admission expires, and a drain whose deadline
passed or that was canceled ends, because `Stop` and `Retire` have budgets of
their own.

Fairness of `GroupSession` (`LiveSpec`). The two goroutines go on and time passes:
weak fairness; FRP takes a push in the end, the control connection comes back, a
pending proxy is answered and a refused one sent again: strong fairness on what a
fault may interrupt again and again.

Fairness of `NativeRuntime` (`LiveSpec`). The supervisor restarts the process,
exchanges end within their timeouts, the group runner admits again: weak
fairness. A Go mutex is not withheld for ever from one that waits: strong
fairness on `TakeMu` and its siblings. `Heals` asks for admission once no mishap is
left, except for what no retry can mend (`Lost`).

Fairness of `AuditLogger` (`LiveSpec`). Go's select picks among ready cases at
random: strong fairness on `Write` and `FlushTick`, weak on the rest.

Fairness of `UserJobManagers` (`LiveSpec`). The caller's steps are taken, a process
that is told to stop ends (each manager kills it after its timeout), and mishaps
cease. `Repairs` assumes in its own statement that somebody keeps asking.

## 4. Proofs

`NativeSessionOperations_proofs` proves, for every number of processes,
operations, endpoints and cells and every bound:

* `TypeCorrect`: Spec => []TypeOK, and `CellsAreFenced`: Spec => []CellFenced.
  Both follow from `Sanity` (`SanityHolds`): a process past its first journal
  read holds a well-formed record pinned to its own cell, and so does the
  journal. TypeOK alone is not inductive: a step that rewrites an attempt counter
  needs the bound on the record it holds, and the type says nothing of cells.
* `PacketsAreCounted`: Spec => []PacketsCounted. A number covers at most two packets
  of one process: the one to the pinned endpoint, and when that stays silent or cannot be
  sent, one to the endpoint its cell moved to. The strengthening `Numbered` says of a
  process about to send that nothing left under its number but, before the second
  packet, the first (`Pinned`); that no two such processes of one operation hold the same
  number; and that an operation that was ever sent for is never issued again. The argument is the
  compare-and-swap: a number is taken only over the record read, attempts never
  decrease while a record exists, and a deleted operation never returns.
* `TransitionIsProgress` and `ProgressComposes`: what the journal accepts is what
  reconciliation recognises, over any number of competitors' writes.

The second half of the module is about what the server may hold, on the same constants:

* `CustodyIsKept`: Spec => []Custody. Custody speaks of the journal and the server,
  and a recovery acts on the record it loaded, whatever the journal holds by then;
  so it is not inductive. `Kept` adds what each process may rely on at its step
  (`Keeps`): from loading a dispatched record to finishing it, the operation stays
  answered for (`Safe`: abandoned, ended at the server, or past the ambiguity boundary
  in the journal), its count of failures is at most the silences before the attempt in
  hand, and a process about to finish holds either the server's word or enough
  silences. `Safe` is never taken back, which is what one process's write needs in
  order to leave every other process's claim standing. Of the history `silences` the
  proof needs cardinalities: one more number in a finite set is one more
  (`OneMoreSilence`), and a set only grows.
* `CustodyIsImplemented`: Spec => KeepsCustody. Initial states map to initial states
  and every step maps to a step of `AdmissionCustody` or a stutter (`Promised`,
  carried along with Kept in the same lemmas): a journal write to the phase change it
  makes, a server's answer or a late knock to the session's, everything else to a
  stutter.

`NativeSessionOperations_progress`:

* `ProgressIsAccepted`: Spec => []ReconcileAcceptsProgress. `Forward` says that what
  the journal holds for an operation follows every record a process holds of it
  (`Follows`, by `ProgressComposes`), and that between counting an attempt and acting
  on its answer only the process that counted it may move the endpoint under that
  number (`Owns`). Without it an endpoint could be pinned away and back, and a
  recovery that lost would find the very record it lost, which is no progress.
* `BackoffIsHonoured`: Spec => BackoffHonoured. The wait before an attempt is cut off
  at `RecoveryMaxDelay` unless an escalated deadline defers the call, so `Deadlines`
  has to say that no deadline lies further ahead than the backoff that set it: within
  `RecoveryMaxDelay` while no failure is counted, within `NoReplyMaxDelay` otherwise.
  That needs that one attempt's deadline has come before the next is computed
  (`Ripe`), and that the two backoff tables stay within their caps
  (`OperationsAssumption`), as `nativeSessionRecoveryBackoff` and
  `nativeSessionRecoveryNoReplyBackoff` do.

The same module, with `Sole` (no two processes) as the premise the properties
themselves have:

* `LiveStaysUndisturbed`: Spec => []LiveUndisturbed, and `ReplacementsWait`: Spec =>
  ReplacementWaits. `Alone` follows one call of `admitOnce` from its sweep over the
  pending retirements to the knock: what is in the journal is live or still to be swept
  as long as no recovery of the pass failed, and only live once it retires what is
  pending; the operation being worked on is never one that serves. A sweep that failed
  carries its fault to its end, which is why the pass stops there.

`GroupSession_proofs` proves, for every finite set of routes, window, generation
and update bound and set of faults:

* `SessionIsHonest`: Spec => []Honest, from which `ServingIsAdmitted` and
  `DeadServeNothing` follow. `Honest` is what makes "serving means admitted"
  inductive: an answer that `watch` has collected but not yet folded speaks of the
  name it was asked for, and that name was admitted; what runs at the server was
  admitted; the runner gives no generation twice, so an entry whose name matches the
  answer's is the registration the answer is about. An ended session has stopped,
  which is why a late fold cannot bring a serving route back.
* `SessionImplements`: Spec => ImplementsSession, initial states to initial states
  and every step to a step of `ServingSession` or a stutter. `Update` maps to
  `Replace`, the fold of the answers to `Observe`, the return of `run` to `End`, an
  answer of the server to `Admit`, everything else to a stutter. Honest gives what
  `Observe` requires: a phase becomes serving only under an admitted name.
* `PushedSetIsHeld`: Spec => []PushedIsHeld. The strengthening `Sent` follows a push
  through its steps: the set it carries is the table's if the versions still agree,
  FRP's set is the push's until it is accepted, and the accepted version is never
  ahead of the push in hand or of the table. PushedIsHeld alone says nothing of the
  states in between, in which an `Update` or a refusal may overtake the push.
  `FoldIsSent` is where the count of refusals for good matters: with none, and no
  slot given, the set is unchanged and the version may stay.
* `QueueStaysBounded`: Spec => []QueueBounded. `ReleaseIsFew` is the arithmetic of
  `releaseWindowLocked`: short of an aged refusal every entry still to register counts
  against the ceiling. The rest is why the server's queue is no longer than that count
  (`Queued`): it is filled by a push, which carries the table of its snapshot, and refused
  proxies come back to it at any time. `Heard` says that, until the control connection is
  lost, what serves runs at the server and every answer to the poll says so, so that no
  served entry is counted out and then registered again; `Named`, that FRP and a push in
  delivery have no name of an entry without a slot, that a name given anew is nobody's
  yet, and that a push in delivery takes no live proxy away. After a control loss all of
  this fails at once: the new Login registers the served proxies too, whose number has no
  ceiling.

`SessionGroup_proofs` proves the five safety properties of `SessionGroup` for every
finite set of routes and every set of callers, every bound on admissions and generations
and every set of faults, in four layers:

* `AdmissionsAreHeld`: Spec => []Holding, whence `AdmissionsRetireOnce` (Spec =>
  []RetiredOnce) and `DrainsAreBounded` (Spec => []DrainsBounded). `SlotsPlaced` says
  which slots are taken at each place of Run: an old cycle that is replaced is fenced
  before it joins the drains, and between joining them and the promotion it may end and
  be retired while it is still `active`, the one place where a slot names a retired
  admission. `Custody` is RetiredOnce with the drains' side added. The bound on drains
  rests on the gate: nobody but `DrainOld` adds one, and what `Gate` counted can only
  have become less (`Bounded`).
* `PushesAreNewest`: Spec => []Pushing, and `RegistrationsAreAfresh`: Spec =>
  RegistersAfresh. What makes a name fresh is not in the step that registers it: an apply
  pushes a snapshot that callers, a rotation and a promotion may have overtaken. `Newest`
  says that the snapshot is nevertheless not behind anything its sessions ever had, which
  holds because one apply at a time holds `applyMu` (`OneApply`) and a plan never asks for
  an old generation of a route that left (`Past`, from the renaming in `SetRoutes` and
  `withdrawGone`); `NamesKept`, that a session which takes registrations still carries
  what it had of the present plan; and `Applies`, that a session an apply will push to
  takes registrations still, rotates as the snapshot says, or has ended. The last is where
  `setRotating` waiting for `applyMu` is used.
* `ChangesReachSessions`: Spec => []Healed, and `SessionsConverge`: Spec => []Converged.
  Converged speaks of the moments when nothing is under way. `Healed` says of all the
  others why a session that is up and behind the plan will catch up: an apply is due that
  has not taken its snapshot, one is under way with the newest plan and has not reached
  this session, or was refused it (`Reaching`), or the failure is recorded as `divergent`.
  `Records` carries the other half: a caller's failure is always recorded, and Run's own
  push is refused only when its context has ended.
* `RetiredWorkIsRevoked`: Spec => []Revoked, and `RemovedRoutesEnd`: Spec =>
  []RemovedWorkEnds. Between joining the drains and the end of its promotion a session
  may miss a revocation, so `Revoked` is claimed outside that interval (`Promoted`), and
  `RetainPromoted` establishes it again; everywhere else a route that left has an actor at
  `drains.retainRoutes` whose set does not keep it (`Ends`).

`ConnectorIdentities_proofs` proves the module's five properties for every finite set of
ids and set of commands, every bound on lifetimes and requests, in three layers, each
resting on the one before:

* `LocksAreKept`: Spec => []Locks. Who is inside the identity-cache transaction holds its
  lock, and the cache it sees is the only one on disk (`Holds`: the retry barrier of
  `OpenState`, kept by every save that succeeds); who is about to edit the configuration
  holds that lock and read what is there (`Edits`). `OneRouteIsEdited` (Spec =>
  EditsOneRoute) and `DevicesEnrolUnbound` (Spec => EnrolsUnbound) follow, with every
  fault allowed.
* `MemoryIsKept` and `NothingIsForgotten` (Spec => []NothingForgotten), with `"late"
  \notin Faults`: no answer outlives the command that waits for it. NothingForgotten
  alone says nothing of a cache after one state file was lost, nor of a request between
  its save and its answer. `Good` does: a cache that the continuity rule would let a
  command open names every active resource, and what it names the service knows. `Calls`
  says that a request on its way has its one command waiting, that the cache names it,
  and what a command may conclude from an answer or from an inspection.
* `FencesAreKept`, `OneResourceIsProvisioned` (Spec => []OneResourcePerRoute) and
  `RoutesFailClosed` (Spec => []RouteFailsClosed), under the same premise and short of
  the lifetimes in `unfenced`. The hard case is a resource that was revoked, which nothing at the service keeps
  from being provisioned again: `FailsClosed` says that the cache still binds it while its
  route lives, `Unspent` that a request in the cache which may still create is for a
  lifetime of the route without a resource, and `Follows` that a run inside its
  transaction goes by a configuration whose revoked routes are bound in the cache it
  opened, even if it was edited since. All three speak of every configuration on disk,
  not of the visible one, since a power loss may bring any of them back; a prune is the
  one step that takes a binding away, and whatever route it could still serve becomes
  `unfenced` in that step.

`late` is what section 2 takes not to happen: a request that arrives after its command
gave up can create a resource that a `remove` has already looked for in vain. The run
`identities` has every other fault; `Locks`, `Memory` and `Fences` hold in each state it reaches.

`AuditLogger_proofs`, for every finite set of callers, number of entries, size of the
channel and of the writer's buffer:

* `EntriesAreAccounted`: Spec => []Accounted. `Bookkeeping` adds that whoever can still
  be sent to has its goroutine or a closed channel (`Heard`: no send is left in a channel
  nobody reads), that a goroutine ends with its channel empty and its buffer written or
  lost (`NothingKept`), which loggers may run at each place of the swap (`Handover`), and
  that a caller passes every drop by (`Passed`), which is why the counter counts each drop
  once.

`NativeRuntime_proofs`, for every finite set of resources, every set of configurations
and faults, every threshold and every bound:

* `CallsAreRuled`: Spec => []Ruled, whence `OnlyTheFailedIsRefreshed` (Spec =>
  []RefreshOfTheFailed) and `BindingStays` (Spec => BindingHeld). `Inside` says that who
  is in runtimeMu or kept out of it has a call that says so, which a writer that unlocks
  and lets the readers in must not break, the orphan of an abandoned lock included;
  `OneRefresh`, that a call between its check of the generation and the swap holds
  refreshMu, so nobody else swaps a generation in or closes the admitter meanwhile. That
  a resource gets one immediate refresh needs `OneCredit`: a credit given back by a
  refresh that failed was not used, and nobody claims one at a closed admitter. BindingHeld
  is where the readers matter: the swap and Close change the binding once the last of them
  has left, and whatever else changes it has none before or none afterwards.
* `LocksAreNotCircular`: Spec => []SomebodyGoesOn, the part of `CallsReturn` that needs no
  fairness: while a call is in progress, some call, or the goroutine of an abandoned
  writer, waits for neither refreshMu nor runtimeMu. It follows from `WaitsAreForSomebody`,
  whose `Chained` names what each wait is for: `MuIsHad`, that refreshMu is held by a call
  that is where its holder would be; `Queued`, that the writers of runtimeMu are the calls
  that say so, each once, and the orphans of those that gave up; `Entered`, that no call to
  be inside is forgotten by an unlock; and `KeptOut`, that a reader is kept out by a writer
  that is still there. A writer that gave up and left the queue without its orphan, or one
  that announced itself twice, would break it.
* `DeadlinesAreKept`: Spec => ScheduleKept. `Episode` says that a deadline is ahead of an
  open marker only; `MarkerMoves` lists how a step may change the file, whether or not
  its write fails after the rename, and the lemmas before it say what each operator of
  `RefreshMarker` makes of a marker.
* `AuthorityIsEarned`: Spec => AuthorityEarned. `Earned` follows an open to the account
  credential: it comes to recovery only after the Hub rejected the device, or with a
  recovery pending that such a rejection began; what opened warm has not taken the
  credential yet; and registration is reached only without a marker and without a
  complete identity, which no other step changes while the open is there.

`UserJobManagers_proofs`, for every set of jobs, of log directories, of platforms and
faults, and every bound. The invariant `IInv` (`AlwaysInOrder`) has five layers, each kept
with the help of those before it; the lemmas follow the platforms, since a step of one
manager says nothing of the other two.

* `ProcessesAreNotMistaken`: Spec => []NeverMistaken. The property alone does not survive
  a write: the file changes while an old process may run. `Runs` says at which places of a
  call each operation can be and what the manager has by then: on systemd
  and launchd there is no process, or one being booted out, when the definition is written;
  Task Scheduler's task is disabled, and what still runs was started behind the back of the
  call (`raced`): of such a process neither this theorem nor the next says anything, since
  the code leaves it running (section 3, Divergences). It also has what makes a stale memory harmless: systemd does not forget
  the definition of a unit that runs.
* `CallsConverge`: Spec => Converged. `Agrees` carries what the call has established from
  the place where it was compared or written to the place where nil is returned, while
  nobody else has moved anything (`drift`): the file is the target's, the unit or task is
  enabled or disabled as asked, the old process is gone.
* `MatchingJobIsUntouched`: Spec => Untouched. `Spares` follows an `Ensure` whose job ran
  and matched when it was called: as long as that stays so it is at the places that only
  look, and each of its comparisons comes out equal. A call that could not tell (a query
  that failed, an account that cannot be looked up) returns from one of those places.
* `PathsAreVetted`: Spec => Vetted. `Vets` says which of executable, log directory and
  mode have been vetted at each place, and that only a directory this call has made is ever
  given another protection.

Assumptions: `OperationsAssumption`, `CellsAssumption`, `SessionAssumption`,
`GroupAssumption`, `IdentitiesAssumption`, `AuditAssumption`, `RuntimeAssumption`,
`CountAssumption` and `UserJobAssumption`, evaluated by TLC in every run of their modules.
`RuntimeAssumption` tells the orphan of an abandoned writer, like nobody, from every caller.
The last one says of a job that its definition is none of those that stand for an absent,
a masked or an edited file.

Out of the prover's reach and model-checked only: liveness and `ENABLED`, which are
`OrphansResolved`, `RetirementCompletes`, `SiblingsRegister`, `ExpiredIsRetired`,
`ShutdownEnds`, `AcceptedIsWritten`, `CallsReturn`, `Heals` and `Repairs`. Every other
property of the runs is proved.

## 5. Not modelled, and what remains

Not modelled because it is pure I/O or sequential formatting: encodings of the
stores, cryptography and devices (key providers), configuration parsing and
validation, the translation of routes into FRP configuration, platform pipes,
rotation of the audit file, terminal output, provenance checks, embedded
constants.

What could be added, most important first:

1. `runSharedService` (`run.go:1110`) over `SessionGroup`: retiring the primary route
   when its admission is refused for good and running the rest, with the readiness
   announcer (`ready.go`) and its fallback timer.
2. Two processes over `NativeRuntime`'s marker.
3. The pinned walk of `internal/pinnedfs` as a module of its own, with a namespace
   that others rename under it.
4. Backoff, jitter and the rotation lead as functions against their closed forms.
