----------------------------- MODULE LaunchdUserJob -----------------------------
(***************************************************************************)
(* launchdUserJobManager (pkg/service/userjob_darwin.go): a plist and      *)
(* launchctl.  bootout returns before the process has ended: the job stays *)
(* visible, SIGTERMed, and holds its label until then.                     *)
(***************************************************************************)
EXTENDS UserJob

Stopping == proc.is = "stopping"
LaunchdRunning == proc.is = "running"
IsHeld == loaded # NoDef

\* Missing directories are made, existing ones are taken as they are; then the
\* plist is read.
LaunchdBegin ==
  /\ On("launchd", "begin")
  /\ logs' = IF Installs /\ logs = NoDir THEN MadeDir ELSE logs
  /\ \/ /\ call' = [call EXCEPT !.pc = IF call.op = "remove" THEN "bootout" ELSE "print",
                                !.changed = Installs /\ file # Target]
        /\ UNCHANGED left
     \/ call.op # "remove" /\ Mishap("io") /\ Return("fail")
  /\ UNCHANGED <<manager, exe, mode>>

\* Where ensure goes when nothing is loaded any more.
Install == IF call.changed THEN "write" ELSE "bootstrap"

\* Whether the plist is there and the job runs.
LaunchdStatus == call.op = "status" /\ Return("ok") /\ UNCHANGED left

\* A loaded job with the target's plist is only started; any other is booted out.
LaunchdPrint ==
  /\ On("launchd", "print") /\ UNCHANGED paths
  /\ LET same == call.op = "ensure" /\ ~call.changed /\ IsHeld IN
     \/ /\ same /\ UNCHANGED left
        /\ IF LaunchdRunning THEN Return("ok") ELSE Goto("kickstart")
     \/ ~same /\ Installs /\ Goto(IF IsHeld THEN "bootout" ELSE Install) /\ UNCHANGED left
     \/ LaunchdStatus
     \/ Mishap("command") /\ Return("fail")
  /\ UNCHANGED manager

\* A process is told to stop; a job without one is gone at once.
BootedOut ==
  /\ IF proc.is \in {"running", "stopping"}
     THEN proc' = [proc EXCEPT !.is = "stopping"] /\ UNCHANGED loaded
     ELSE proc' = NoProc /\ loaded' = NoDef
  /\ UNCHANGED <<file, stale, enabled>>

\* That the service is not found is no failure.
LaunchdBootout ==
  /\ On("launchd", "bootout") /\ UNCHANGED paths
  /\ Command(TRUE, BootedOut, Goto(IF call.op = "remove" THEN "delete" ELSE Install), Return("fail"))

LaunchdWrite ==
  /\ On("launchd", "write") /\ UNCHANGED paths
  /\ \/ file' = Target /\ Goto("bootstrap") /\ UNCHANGED left
     \/ Mishap("io") /\ file' \in {file, Target} /\ Return("fail")
  /\ UNCHANGED <<loaded, stale, enabled, proc>>

\* The job is loaded from its plist; RunAtLoad, or KeepAlive, starts it.
Bootstrapped ==
  /\ loaded' = file
  /\ \/ proc' = Started(file)
     \/ ~file.atLoad /\ proc' = NoProc
  /\ UNCHANGED <<file, stale, enabled>>

LaunchdBootstrap ==
  /\ On("launchd", "bootstrap") /\ UNCHANGED paths
  /\ Command(~IsHeld /\ file # NoDef, Bootstrapped, Goto("kickstart"), Goto("wait"))

\* The settle cycle is used up, or another begins.
NextCycle ==
  \/ call.cycle + 1 < MaxCycles /\ call' = [call EXCEPT !.pc = "bootstrap", !.retry = FALSE, !.cycle = @ + 1]
  \/ call.cycle + 1 = MaxCycles /\ Return("fail")

\* A changed plist is not left for a later Ensure to take for the loaded job's.
Unconverged == IF call.changed THEN Goto("discard") ELSE Return("fail")

\* After a failed bootstrap: wait for the old process to end, then see whether
\* the label is free.  A job that is loaded, or cannot be read, is unloaded.
LaunchdWait ==
  /\ On("launchd", "wait") /\ UNCHANGED paths
  /\ \/ ~Stopping /\ IsHeld /\ Goto("unload") /\ UNCHANGED left
     \/ ~Stopping /\ ~IsHeld /\ ~call.retry /\ call' = [call EXCEPT !.pc = "bootstrap", !.retry = TRUE] /\ UNCHANGED left
     \/ ~Stopping /\ ~IsHeld /\ call.retry /\ NextCycle /\ UNCHANGED left
     \/ Stopping /\ Mishap("slow") /\ Unconverged
     \/ Mishap("command") /\ Goto("unload")
  /\ UNCHANGED manager

LaunchdUnload ==
  /\ On("launchd", "unload") /\ UNCHANGED paths
  /\ Command(TRUE, BootedOut, NextCycle, Unconverged)

LaunchdDiscard ==
  /\ On("launchd", "discard") /\ UNCHANGED paths /\ Return("fail")
  /\ \/ file' = NoDef /\ UNCHANGED left
     \/ Mishap("io") /\ UNCHANGED file
  /\ UNCHANGED <<loaded, stale, enabled, proc>>

\* kickstart -k ends the process, if there is one, and starts the loaded job; a
\* job that is being booted out is not started.
LaunchdKickstart ==
  /\ On("launchd", "kickstart") /\ UNCHANGED paths
  /\ Command(IsHeld /\ ~Stopping, proc' = Started(loaded) /\ UNCHANGED definition, Return("ok"), Return("fail"))

LaunchdDelete ==
  /\ On("launchd", "delete") /\ UNCHANGED paths
  /\ \/ file' = NoDef /\ Return("ok") /\ UNCHANGED left
     \/ Mishap("io") /\ Return("fail") /\ UNCHANGED file
  /\ UNCHANGED <<loaded, stale, enabled, proc>>

LaunchdCall ==
  \/ LaunchdBegin \/ LaunchdPrint \/ LaunchdBootout \/ LaunchdWrite \/ LaunchdBootstrap
  \/ LaunchdWait \/ LaunchdUnload \/ LaunchdDiscard \/ LaunchdKickstart \/ LaunchdDelete
================================================================================
