----------------------------- MODULE SystemdUserJob -----------------------------
(***************************************************************************)
(* linuxUserJobManager (pkg/service/userjob_linux.go): a unit file and     *)
(* systemctl --user.  A unit without a process may leave systemd's memory  *)
(* at any time and is read again when somebody asks for it.                *)
(***************************************************************************)
EXTENDS UserJob

\* LoadState=loaded; a bad setting, a mask or an absent file are not.
IsLoaded(d) == d.body \notin {"none", "mask"} \union BadBodies

\* systemctl show: the unit as it is in memory, or read again from disk.
Queried ==
  \/ UNCHANGED <<loaded, stale>>
  \/ proc.is = "none" /\ loaded' = file /\ stale' = FALSE

\* daemon-reload, which enable, disable and unmask do too.
Reloaded == loaded' = file /\ stale' = FALSE

\* A systemctl is looked for anew each time, among trusted ones: none, and
\* nothing has been done.
Systemctl(possible, effect, done, failed) ==
  \/ Command(possible, effect, done, failed)
  \/ Mishap("refuse") /\ UNCHANGED manager /\ failed

\* A link of the user's to /dev/null, and no other.
IsMask == file = Mask /\ mode # "foreign"

\* A masked job is only removed.
SystemdBegin ==
  /\ On("systemd", "begin") /\ UNCHANGED <<manager, paths, left>>
  /\ \/ file # Mask /\ Goto(IF Installs THEN "vet" ELSE IF call.op = "remove" THEN "removable" ELSE "read")
     \/ IsMask /\ call.op = "remove" /\ call' = [call EXCEPT !.pc = "removable", !.masked = TRUE]
     \/ file = Mask /\ ~(IsMask /\ call.op = "remove") /\ Return("fail")

\* The path, the links it goes through and the file are the user's or root's.
SystemdVet ==
  /\ On("systemd", "vet") /\ UNCHANGED <<manager, paths, left>>
  /\ IF exe = "fit" THEN Goto("logs") ELSE Return("fail")

\* An existing directory must be the user's, of mode 0700 (EnsurePrivate).
PrivateDir(d) == d.owner = "user" /\ d.sealed

\* What is missing of the path is made, with its mode forced.
EnsuredDir == IF logs = NoDir THEN MadeDir ELSE logs

\* The directory is made, the log files are made or get their mode back, the
\* unit directory is made or trusted.
SystemdLogs ==
  /\ On("systemd", "logs")
  /\ \/ PrivateDir(EnsuredDir) /\ logs' = EnsuredDir /\ Goto("read") /\ UNCHANGED left
     \/ ~PrivateDir(EnsuredDir) /\ Return("fail") /\ UNCHANGED <<logs, left>>
     \/ Mishap("io") /\ logs' \in {logs, EnsuredDir} /\ Return("fail")
     \/ Mishap("refuse") /\ logs' = EnsuredDir /\ Return("fail")
  /\ UNCHANGED <<manager, exe, mode>>

\* A regular file of the user's, with one name, the same before and after.
Owned == file = NoDef \/ (file # Mask /\ mode # "foreign")

\* Mutant: a mode others could use is left.
SystemdReadAsIs ==
  /\ On("systemd", "read") /\ UNCHANGED <<manager, paths, left>>
  /\ IF Owned
     THEN call' = [call EXCEPT !.pc = "show", !.changed = file # Target] ELSE Return("fail")

\* The definition is read when it is the user's and not a link; a mode others
\* could use is repaired first.
SystemdRead ==
  /\ On("systemd", "read")
  /\ \/ Owned /\ mode' = "exact" /\ call' = [call EXCEPT !.pc = "show", !.changed = file # Target] /\ UNCHANGED left
     \/ ~Owned /\ Return("fail") /\ UNCHANGED <<mode, left>>
     \/ Owned /\ Mishap("io") /\ mode' \in {mode, "exact"} /\ Return("fail")
  /\ UNCHANGED <<manager, exe, logs>>

\* A definition of another owner is not removed, nor is its unit stopped.
SystemdRemovable ==
  /\ On("systemd", "removable") /\ UNCHANGED <<manager, paths, left>>
  /\ IF Owned \/ IsMask THEN Goto("show") ELSE Return("fail")

\* A masked unit fails Ensure and Status; a process of a unit that is not loaded fails
\* all, unless the unit is masked and to be removed (inspectState).
MaskSeen == loaded' = Mask \/ file = Mask
Unusable ==
  \/ MaskSeen /\ call.op # "remove"
  \/ proc.is = "running" /\ ~IsLoaded(loaded') /\ ~MaskSeen

\* The definition on disk is the target's and systemd runs by it.
InForce == ~call.changed /\ IsLoaded(loaded') /\ ~stale'

\* Mutant: a changed definition is written under the running process.
PlanWithoutStop ==
  \/ /\ call.op = "ensure" /\ InForce
     /\ IF enabled = call.job.atLoad THEN Return("ok") ELSE call' = [call EXCEPT !.pc = "enable"]
  \/ call.op = "replace" /\ InForce /\ Goto("stop")
  \/ ~InForce /\ Goto(IF call.changed THEN "write" ELSE "reload")

PlanEnsure ==
  LET running == proc.is = "running" IN
  \/ /\ call.op = "ensure" /\ InForce /\ enabled = call.job.atLoad
     /\ IF running THEN Return("ok") ELSE Goto("reset")
  \/ /\ call.op = "ensure" /\ InForce /\ enabled # call.job.atLoad
     /\ call' = [call EXCEPT !.pc = "enable", !.seen = running]
  \/ /\ call.op = "replace" \/ ~InForce
     /\ Goto(IF IsLoaded(loaded') THEN "stop" ELSE IF call.changed THEN "write" ELSE "reload")

\* Remove stops whatever is not inactive or failed, a restart to come included.
PlanRemove ==
  LET known == loaded' # NoDef \/ file # NoDef
      masked == call.masked \/ MaskSeen
  IN call' = [call EXCEPT !.known = known, !.masked = masked,
                          !.pc = IF proc.is # "none" THEN "stop" ELSE IF known THEN "disable" ELSE "delete"]

\* Status has no answer for settings this systemd does not know.
ReturnStatus == Return(IF loaded'.body \in BadBodies THEN "fail" ELSE "ok")

SystemdShow ==
  /\ On("systemd", "show") /\ UNCHANGED paths /\ Queried
  /\ \/ Unusable /\ Return("fail") /\ UNCHANGED left
     \/ ~Unusable /\ Installs /\ PlanEnsure /\ UNCHANGED left
     \/ ~Unusable /\ call.op = "status" /\ ReturnStatus /\ UNCHANGED left
     \/ ~Unusable /\ call.op = "remove" /\ PlanRemove /\ UNCHANGED left
     \/ Mishap("command") /\ Return("fail")
  /\ UNCHANGED <<file, enabled, proc>>

SystemdStop ==
  /\ On("systemd", "stop") /\ UNCHANGED paths
  /\ Systemctl(TRUE, proc' = NoProc /\ UNCHANGED definition,
       Goto(IF call.op = "remove" THEN IF call.known THEN "disable" ELSE "delete"
            ELSE IF call.changed THEN "write" ELSE "reload"),
       Return("fail"))

\* atomicfile.Write and the directory's sync; the rename replaces a mask too.
SystemdWrite ==
  /\ On("systemd", "write")
  /\ \/ file' = Target /\ mode' = "exact" /\ stale' = TRUE /\ Goto("reload") /\ UNCHANGED left
     \/ /\ Mishap("io") /\ Return("fail")
        /\ \/ file' = Target /\ mode' = "exact" /\ stale' = TRUE
           \/ UNCHANGED <<file, mode, stale>>
  /\ UNCHANGED <<loaded, enabled, proc, exe, logs>>

SystemdReload ==
  /\ On("systemd", "reload") /\ UNCHANGED paths
  /\ Systemctl(TRUE, Reloaded /\ UNCHANGED <<file, enabled, proc>>,
       IF call.op = "remove" THEN Return("ok") ELSE Goto("enable"), Return("fail"))

\* setRunAtLoad.
SystemdEnable ==
  /\ On("systemd", "enable") /\ UNCHANGED paths
  /\ Systemctl(file \notin {NoDef, Mask},
       enabled' = call.job.atLoad /\ Reloaded /\ UNCHANGED <<file, proc>>,
       Goto(IF call.seen THEN "validate" ELSE "reset"), Return("fail"))

\* Clears the failed-start counter, no part of the model.
SystemdReset ==
  /\ On("systemd", "reset") /\ UNCHANGED paths
  /\ Systemctl(TRUE, UNCHANGED manager, Goto("start"), Return("fail"))

SystemdStart ==
  /\ On("systemd", "start") /\ UNCHANGED paths
  /\ Systemctl(IsLoaded(loaded),
       proc' = (IF proc.is = "running" THEN proc ELSE Started(loaded)) /\ UNCHANGED definition,
       Goto("validate"), Return("fail"))

\* validateRunning: nothing but the exact running definition is a success.
SystemdValidate ==
  /\ On("systemd", "validate") /\ UNCHANGED paths /\ Queried
  /\ LET exact == /\ ~MaskSeen /\ IsLoaded(loaded') /\ ~stale'
                  /\ proc.is = "running" /\ enabled = call.job.atLoad
     IN \/ exact /\ Return("ok") /\ UNCHANGED left
        \/ ~exact /\ Return("fail") /\ UNCHANGED left
        \/ Mishap("command") /\ Return("fail")
  /\ UNCHANGED <<file, enabled, proc>>

SystemdDisable ==
  /\ On("systemd", "disable") /\ UNCHANGED paths
  /\ Systemctl(TRUE, enabled' = FALSE /\ Reloaded /\ UNCHANGED <<file, proc>>,
       Goto(IF call.masked THEN "unmask" ELSE "delete"), Return("fail"))

SystemdUnmask ==
  /\ On("systemd", "unmask") /\ UNCHANGED paths
  /\ Systemctl(TRUE,
       /\ file' = (IF file = Mask THEN NoDef ELSE file)
       /\ loaded' = file' /\ stale' = FALSE /\ UNCHANGED <<enabled, proc>>,
       Goto("delete"), Return("fail"))

\* removeLinuxUserJobDefinition opens the user's file without following a link.
SystemdDelete ==
  /\ On("systemd", "delete")
  /\ \/ /\ Owned /\ file' = NoDef /\ stale' = (stale \/ file # NoDef)
        /\ IF call.known THEN Goto("reload") ELSE Return("ok")
        /\ UNCHANGED left
     \/ ~Owned /\ Return("fail") /\ UNCHANGED <<file, stale, left>>
     \/ /\ Owned /\ Mishap("io") /\ file' \in {file, NoDef}
        /\ stale' = (stale \/ file' # file) /\ Return("fail")
  /\ UNCHANGED <<loaded, enabled, proc, paths>>

SystemdCall ==
  \/ SystemdBegin \/ SystemdVet \/ SystemdLogs \/ SystemdRead \/ SystemdRemovable \/ SystemdShow \/ SystemdStop \/ SystemdWrite \/ SystemdReload
  \/ SystemdEnable \/ SystemdReset \/ SystemdStart \/ SystemdValidate
  \/ SystemdDisable \/ SystemdUnmask \/ SystemdDelete
================================================================================
