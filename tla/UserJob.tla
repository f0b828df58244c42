-------------------------------- MODULE UserJob --------------------------------
(***************************************************************************)
(* A per-user background job and the native manager that keeps it          *)
(* (pkg/service/userjob*.go): systemd on Linux, launchd on macOS, Task     *)
(* Scheduler on Windows.  This module has what the three share: the        *)
(* persisted definition, what the manager has loaded, the process, the     *)
(* executable and the log directory, one caller of Ensure, Replace, Remove *)
(* or Status at a time, and an environment in which processes exit, the    *)
(* user logs out, masks the unit, edits the definition or changes the      *)
(* paths, and the caller stops between two commands.  SystemdUserJob,      *)
(* LaunchdUserJob and ScheduledUserJob have what each platform does.       *)
(***************************************************************************)
EXTENDS Naturals, FiniteSets

CONSTANTS
  Platforms,  \* of {"systemd", "launchd", "scheduler"}
  Jobs,       \* of [body, atLoad]; body stands for all but RunAtLoad
  BadBodies,  \* the bodies whose settings this systemd does not know
  LogDirs,    \* of LogDirectories: the log directories a user may have made
  MaxCycles,  \* launchdBootstrapMaxCycles
  MaxFaults,  \* bound on the mishaps of a behaviour
  Faults      \* of FaultKinds

FaultKinds == {"command", "io", "refuse", "user", "slow", "exit", "login", "mask", "edit", "drift", "crash"}

\* sealed: owner-only mode 0700, or a protected DACL; shared: it grants another
\* principal access, or denies the user some; made: the manager created it.
LogDirectories == [owner : {"user", "other"}, sealed : BOOLEAN, shared : BOOLEAN, made : BOOLEAN]
NoDir == [owner |-> "nobody", sealed |-> FALSE, shared |-> FALSE, made |-> FALSE]

ASSUME UserJobAssumption ==
  /\ Platforms \subseteq {"systemd", "launchd", "scheduler"} /\ Faults \subseteq FaultKinds
  /\ MaxCycles \in Nat \ {0} /\ MaxFaults \in Nat
  /\ LogDirs \subseteq {d \in LogDirectories : ~d.made}
  /\ Jobs \subseteq [body : {j.body : j \in Jobs}, atLoad : BOOLEAN]
  /\ \A j \in Jobs : j.body \notin {"none", "mask", "edited"}
  /\ BadBodies \subseteq {j.body : j \in Jobs}

VARIABLES
  platform,
  file,     \* the definition on disk; the task, under Task Scheduler
  loaded,   \* the definition the manager has in memory
  stale,    \* systemd: the file changed since it was loaded
  enabled,  \* systemd: the unit is wanted at login; Task Scheduler: the task is enabled
  proc,     \* the process
  exe,      \* "fit", or "unfit": absent, or another user can replace it
  logs,     \* the log directory
  mode,     \* of the file: "exact" (0600), "loose", or "foreign": not the user's
  call,     \* the call in progress
  left      \* the mishaps still to come

definition == <<file, loaded, stale, enabled>>
manager == <<definition, proc>>
paths == <<exe, logs, mode>>
vars == <<platform, manager, paths, call, left>>

NoDef == [body |-> "none", atLoad |-> FALSE]
Mask == [body |-> "mask", atLoad |-> FALSE]

\* A definition somebody edited: an argument, a trigger, or not even XML.
Edited == [body |-> "edited", atLoad |-> FALSE]
ByHand == {Mask, Edited}

\* A unit file has no word on RunAtLoad; a plist and a task have.
Rendered(job) == IF platform = "systemd" THEN [job EXCEPT !.atLoad = FALSE] ELSE job
Target == Rendered(call.job)

\* "due": it failed and the manager waits to restart it.  Of a running process:
\* whether it is older than the call, and whether Task Scheduler started it
\* after the call had seen the task idle.
NoProc == [is |-> "none", body |-> "none", old |-> FALSE, raced |-> FALSE]
Started(d) == [NoProc EXCEPT !.is = "running", !.body = d.body]

NoCall == [pc |-> "idle", op |-> "none", job |-> NoDef, res |-> "none",
           changed |-> FALSE, known |-> FALSE, seen |-> FALSE, masked |-> FALSE,
           made |-> FALSE, matched |-> FALSE, drift |-> FALSE, cycle |-> 0, retry |-> FALSE, hurt |-> 0]

On(p, pc) == platform = p /\ call.pc = pc /\ UNCHANGED platform
Goto(pc) == call' = [call EXCEPT !.pc = pc]
Return(res) == call' = [NoCall EXCEPT !.res = res]
Mishap(kind) == left > 0 /\ kind \in Faults /\ left' = left - 1

\* One command of the platform's control program: it fails when it cannot be
\* done; otherwise it succeeds, or is reported failed before or after its effect.
Command(possible, effect, done, failed) ==
  \/ possible /\ effect /\ done /\ UNCHANGED left
  \/ ~possible /\ UNCHANGED manager /\ failed /\ UNCHANGED left
  \/ Mishap("command") /\ UNCHANGED manager /\ failed
  \/ possible /\ Mishap("command") /\ effect /\ failed

--------------------------------------------------------------------------------
\* The job runs, by the definition on disk, and the manager knows it.
Matches(job) ==
  /\ file = Rendered(job) /\ proc.is = "running"
  /\ platform \in {"systemd", "launchd"} => loaded = Rendered(job) /\ ~stale
  /\ platform = "systemd" => enabled = job.atLoad
  /\ platform = "scheduler" => enabled

\* Ensure, Replace, Remove and Status start; the last two have but a label.
Begin ==
  /\ call.pc = "idle"
  /\ \E op \in {"ensure", "replace", "remove", "status"}, job \in Jobs :
       /\ op \in {"remove", "status"} => job = CHOOSE j \in Jobs : j.body \notin BadBodies
       /\ job.body \in BadBodies => platform = "systemd"
       /\ call' = [NoCall EXCEPT !.pc = "begin", !.op = op, !.job = job, !.matched = Matches(job)]
  /\ proc' = IF proc.is = "none" THEN NoProc ELSE [proc EXCEPT !.old = TRUE]
  /\ UNCHANGED <<platform, definition, paths, left>>

\* What the manager makes where there is no log directory.
MadeDir == [owner |-> "user", sealed |-> TRUE, shared |-> FALSE, made |-> TRUE]

Installs == call.op \in {"ensure", "replace"}

\* The process ends, by itself or failing; a failure is restarted (KeepAlive).
Exit ==
  /\ proc.is = "running" /\ Mishap("exit")
  /\ \/ proc' = NoProc
     \/ proc' = [proc EXCEPT !.is = "due"]
  /\ UNCHANGED <<platform, paths, definition, call>>

\* What the manager would start.
Startable == IF platform = "scheduler" THEN file ELSE loaded

\* The manager restarts a failed process; a disabled task is not restarted.
Restart ==
  /\ proc.is = "due"
  /\ platform = "scheduler" => enabled
  /\ proc' = [Started(Startable) EXCEPT !.raced =
       platform = "scheduler" /\ call.pc \in {"match", "stage", "disable"} /\ ~call.seen]
  /\ UNCHANGED <<platform, paths, definition, call, left>>

\* A process told to stop ends; launchd then forgets a job that was booted out.
StopEnds ==
  /\ proc.is = "stopping" /\ proc' = NoProc
  /\ loaded' = IF platform = "launchd" THEN NoDef ELSE loaded
  /\ UNCHANGED <<platform, paths, file, stale, enabled, call, left>>

\* The login manager starts what is wanted at login; a plist with KeepAlive is
\* started without RunAtLoad.
StartsAtLogin ==
  CASE platform = "systemd" -> IF enabled /\ file.body \notin {"none", "mask"} \union BadBodies THEN {TRUE} ELSE {FALSE}
    [] platform = "launchd" -> IF file = NoDef THEN {FALSE} ELSE IF file.atLoad THEN {TRUE} ELSE BOOLEAN
    [] OTHER -> {enabled /\ file.atLoad}

\* The user logs out, which ends the job and the caller, and in again.
Login ==
  /\ Mishap("login")
  /\ loaded' = (IF platform = "scheduler" THEN NoDef ELSE file) /\ stale' = FALSE
  /\ \E starts \in StartsAtLogin : proc' = IF starts THEN Started(file) ELSE NoProc
  /\ call' = NoCall
  /\ UNCHANGED <<platform, paths, file, enabled>>

\* The user masks the unit on disk, by hand; systemd has not looked yet.
MaskUnit ==
  /\ platform = "systemd" /\ file # Mask /\ Mishap("mask")
  /\ file' = Mask /\ stale' = TRUE /\ mode' = "exact"
  /\ UNCHANGED <<platform, exe, logs, loaded, enabled, proc, call>>

\* A call in progress may have looked at what changes now.
Unforeseen == call' = IF call.pc = "idle" THEN call ELSE [call EXCEPT !.drift = TRUE]

\* Somebody edits the definition, or the registered task.
Edit ==
  /\ file \notin ByHand \union {NoDef} /\ Mishap("edit")
  /\ file' = Edited /\ stale' = (platform = "systemd") /\ Unforeseen
  /\ UNCHANGED <<platform, paths, loaded, enabled, proc>>

\* Executable, log directory or the file's mode change hands.
Drift ==
  /\ Mishap("drift")
  /\ \/ exe' \in {"fit", "unfit"} \ {exe} /\ UNCHANGED <<logs, mode>>
     \/ logs' \in (LogDirs \union {NoDir}) \ {logs} /\ UNCHANGED <<exe, mode>>
     \/ /\ platform = "systemd" /\ file # NoDef
        /\ mode' \in {"exact", "loose", "foreign"} \ {mode} /\ UNCHANGED <<exe, logs>>
  /\ Unforeseen /\ UNCHANGED <<platform, manager>>

\* The caller stops between two commands.
Crash ==
  /\ call.pc # "idle" /\ Mishap("crash") /\ call' = NoCall
  /\ UNCHANGED <<platform, paths, manager>>

\* From some moment on nothing goes wrong.
Settle == left' = 0 /\ UNCHANGED <<platform, paths, manager, call>>

Environment == Exit \/ Restart \/ StopEnds \/ Login \/ MaskUnit \/ Edit \/ Drift \/ Crash
================================================================================
