---------------------------- MODULE ScheduledUserJob ----------------------------
(***************************************************************************)
(* windowsUserJobManager (pkg/service/userjob_windows.go): a task of Task  *)
(* Scheduler, changed by schtasks.exe and read by PowerShell.  A task that *)
(* is told to end is reported running until its process has ended, and a   *)
(* task that runs is reported running though it be disabled.               *)
(***************************************************************************)
EXTENDS UserJob

Exists == file # NoDef
Busy == proc.is \in {"running", "stopping"}

\* The numeric state of the task.
TaskState == IF ~Exists THEN "absent" ELSE IF Busy THEN "running" ELSE IF ~enabled THEN "disabled" ELSE "ready"

\* A command failed or a wait ran out: enable the task again if it was enabled
\* (restore).
Undo == call' = [call EXCEPT !.pc = "restore", !.hurt = @ + 1]

\* The user's SID names the task.
SchedulerBegin ==
  /\ On("scheduler", "begin")
  /\ \/ Goto(IF Installs THEN "vet" ELSE "state") /\ UNCHANGED left
     \/ Mishap("refuse") /\ Return("fail")
  /\ UNCHANGED <<manager, paths>>

\* One file, no link, that neither it nor its path lets others change.
SchedulerVet ==
  /\ On("scheduler", "vet") /\ UNCHANGED <<manager, paths, left>>
  /\ IF exe = "fit" THEN Goto("logs") ELSE Return("fail")

\* Only the last directory of the path is ever made.
SchedulerLogs ==
  /\ On("scheduler", "logs")
  /\ \/ logs # NoDir /\ Goto("seal") /\ UNCHANGED <<logs, left>>
     \/ logs = NoDir /\ logs' = MadeDir /\ call' = [call EXCEPT !.pc = "seal", !.made = TRUE] /\ UNCHANGED left
     \/ logs = NoDir /\ Mishap("io") /\ Return("fail") /\ UNCHANGED logs
  /\ UNCHANGED <<manager, exe, mode>>

\* The user owns it, its DACL is protected and names nobody but the user, with
\* full control, administrators and the system, and denies nobody.
StrictLeaf(d) == d.owner = "user" /\ d.sealed /\ ~d.shared

\* A directory made by this call gets the protected DACL on its handle; any
\* other is only looked at.  One made here and rejected is removed again.
Protected(d) == IF call.made /\ d.owner = "user" THEN [d EXCEPT !.sealed = TRUE, !.shared = FALSE] ELSE d

Rejected(d) == Return("fail") /\ logs' \in (IF call.made THEN {d, NoDir} ELSE {d})

SchedulerSeal ==
  /\ On("scheduler", "seal")
  /\ LET sealed == Protected(logs) IN
     \/ StrictLeaf(sealed) /\ logs' = sealed /\ Goto("state") /\ UNCHANGED left
     \/ ~StrictLeaf(sealed) /\ Rejected(sealed) /\ UNCHANGED left
     \/ Mishap("io") /\ Rejected(sealed)
     \/ Mishap("refuse") /\ StrictLeaf(sealed) /\ logs' = sealed /\ Return("fail")
  /\ UNCHANGED <<manager, exe, mode>>

\* call.seen is wasRunning, call.known is wasEnabled, call.changed is installed.
SchedulerState ==
  /\ On("scheduler", "state") /\ UNCHANGED paths
  /\ LET state == TaskState
         asked == [call EXCEPT !.seen = state = "running", !.known = state \in {"running", "ready"}, !.changed = Exists]
     IN \/ state = "absent" /\ call.op = "remove" /\ Return("ok") /\ UNCHANGED left
        \/ state # "absent" /\ call.op = "remove" /\ call' = [asked EXCEPT !.pc = "disable"] /\ UNCHANGED left
        \/ call.op = "status" /\ Return("ok") /\ UNCHANGED left
        \/ /\ Installs /\ UNCHANGED left
           /\ call' = [asked EXCEPT !.pc = IF call.op = "ensure" /\ asked.known THEN "match" ELSE "stage"]
        \/ Mishap("command") /\ Return("fail")
  /\ UNCHANGED manager

\* The registered XML is compared in shape, then field by field, the task's own
\* Enabled included; XML that cannot be read is a task to replace.
SameTask == file = Target /\ enabled

\* The account the task names cannot be looked up.
Unresolved == Mishap("user")

\* Mutant: a comparison that cannot name the registered user replaces the task.
MatchOrReplace ==
  /\ On("scheduler", "match") /\ UNCHANGED <<manager, paths>>
  /\ \/ SameTask /\ UNCHANGED left /\ IF call.seen THEN Return("ok") ELSE Goto("run")
     \/ ~SameTask /\ Goto("stage") /\ UNCHANGED left
     \/ Unresolved /\ Goto("stage")

\* Mutant: XML that cannot be read fails the call.
MatchOrFail ==
  /\ On("scheduler", "match") /\ UNCHANGED <<manager, paths, left>>
  /\ \/ SameTask /\ IF call.seen THEN Return("ok") ELSE Goto("run")
     \/ ~SameTask /\ file # Edited /\ Goto("stage")
     \/ file = Edited /\ Return("fail")

\* A comparison that cannot name the registered user changes nothing.
SchedulerMatch ==
  /\ On("scheduler", "match") /\ UNCHANGED paths
  /\ \/ SameTask /\ UNCHANGED left /\ IF call.seen THEN Return("ok") ELSE Goto("run")
     \/ ~SameTask /\ Goto("stage") /\ UNCHANGED left
     \/ Mishap("command") /\ Return("fail")
     \/ Unresolved /\ Return("fail")
  /\ UNCHANGED manager

\* The definition is written to a temporary file of the log directory before
\* the task is touched.
SchedulerStage ==
  /\ On("scheduler", "stage") /\ UNCHANGED paths
  /\ \/ logs # NoDir /\ Goto(IF call.changed THEN "disable" ELSE "create") /\ UNCHANGED left
     \/ logs = NoDir /\ Return("fail") /\ UNCHANGED left
     \/ Mishap("io") /\ Return("fail")
  /\ UNCHANGED manager

Replacing == IF call.op = "remove" THEN "delete" ELSE "create"

SchedulerDisable ==
  /\ On("scheduler", "disable") /\ UNCHANGED paths
  /\ Command(Exists, enabled' = FALSE /\ UNCHANGED <<file, loaded, stale, proc>>,
       Goto(IF call.seen THEN "end" ELSE Replacing), Undo)

SchedulerEnd ==
  /\ On("scheduler", "end") /\ UNCHANGED paths
  /\ Command(TRUE, proc' = (IF Busy THEN [proc EXCEPT !.is = "stopping"] ELSE proc) /\ UNCHANGED definition,
       Goto("wait"), call' = [call EXCEPT !.pc = "check", !.hurt = @ + 1])

\* /End failed: whether the task still runs decides.
SchedulerCheck ==
  /\ On("scheduler", "check") /\ UNCHANGED paths
  /\ \/ ~Busy /\ Goto(Replacing) /\ UNCHANGED left
     \/ Busy /\ Goto("restore") /\ UNCHANGED left
     \/ Mishap("command") /\ Undo
  /\ UNCHANGED manager

\* Mutant: the task is replaced while its process still ends.
WaitForNothing ==
  /\ On("scheduler", "wait") /\ UNCHANGED <<manager, paths, left>>
  /\ Goto(Replacing)

SchedulerWait ==
  /\ On("scheduler", "wait") /\ UNCHANGED paths
  /\ \/ ~Busy /\ Goto(Replacing) /\ UNCHANGED left
     \/ Busy /\ Mishap("slow") /\ Undo
     \/ Mishap("command") /\ Undo
  /\ UNCHANGED manager

\* /Create /F registers the task anew, enabled.
SchedulerCreate ==
  /\ On("scheduler", "create") /\ UNCHANGED paths
  /\ Command(TRUE, file' = Target /\ enabled' = TRUE /\ UNCHANGED <<loaded, stale, proc>>,
       Goto("run"), IF call.changed THEN Undo ELSE Return("fail"))

SchedulerDelete ==
  /\ On("scheduler", "delete") /\ UNCHANGED paths
  /\ Command(Exists,
       /\ file' = NoDef /\ enabled' = FALSE /\ UNCHANGED <<loaded, stale>>
       /\ proc' = IF proc.is = "due" THEN NoProc ELSE proc,
       Return("ok"), Undo)

\* IgnoreNew: a task that runs is not started again.
Ran == proc' = (IF Busy THEN proc ELSE Started(file)) /\ UNCHANGED definition

SchedulerRun ==
  /\ On("scheduler", "run") /\ UNCHANGED paths
  /\ Command(Exists /\ enabled, Ran, Return("ok"), Return("fail"))

SchedulerRestore ==
  /\ On("scheduler", "restore") /\ UNCHANGED paths
  /\ \/ ~call.known /\ Return("fail") /\ UNCHANGED <<manager, left>>
     \/ /\ call.known
        /\ Command(Exists, enabled' = TRUE /\ UNCHANGED <<file, loaded, stale, proc>>,
             IF call.seen THEN Goto("rerun") ELSE Return("fail"), Return("fail"))

SchedulerRerun ==
  /\ On("scheduler", "rerun") /\ UNCHANGED paths
  /\ Command(Exists /\ enabled, Ran, Return("fail"), Return("fail"))

SchedulerCall ==
  \/ SchedulerBegin \/ SchedulerVet \/ SchedulerLogs \/ SchedulerSeal \/ SchedulerState \/ SchedulerMatch \/ SchedulerStage \/ SchedulerDisable \/ SchedulerEnd
  \/ SchedulerCheck \/ SchedulerWait \/ SchedulerCreate \/ SchedulerDelete \/ SchedulerRun
  \/ SchedulerRestore \/ SchedulerRerun
================================================================================
