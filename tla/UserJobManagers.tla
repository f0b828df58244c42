---------------------------- MODULE UserJobManagers ----------------------------
(***************************************************************************)
(* The contract of UserJobManager (pkg/service/userjob.go:57) over the     *)
(* three platforms: one of them, chosen at the start, and what every one   *)
(* of them owes its caller.                                                *)
(***************************************************************************)
EXTENDS SystemdUserJob, LaunchdUserJob, ScheduledUserJob

Init ==
  /\ platform \in Platforms
  /\ file = NoDef /\ loaded = NoDef /\ stale = FALSE /\ enabled = FALSE
  /\ proc = NoProc /\ exe = "fit" /\ logs \in {d \in LogDirs \union {NoDir} : d = NoDir \/ StrictLeaf(d)} /\ mode = "exact"
  /\ call = NoCall /\ left = MaxFaults

Call == SystemdCall \/ LaunchdCall \/ SchedulerCall

Next == Begin \/ Call \/ Environment \/ Settle

Spec == Init /\ [][Next]_vars

\* The caller's steps are taken, a stopping process ends, mishaps cease.
LiveSpec == Spec /\ WF_vars(Call) /\ WF_vars(StopEnds) /\ WF_vars(Settle)

--------------------------------------------------------------------------------
\* A process runs by the definition the manager wrote, whatever a call is doing,
\* so that no later call takes an old process for the one asked for
\* (userjob_linux.go:240, userjob_darwin.go:95, userjob_windows.go:238).  On
\* Windows the code does not keep this of a raced process: Task Scheduler
\* restarts a failed one after the call has read the task's state (:168) and
\* before it disables the task (:244); the call takes the task for idle, ends
\* nothing, registers the new definition, and a later Ensure accepts the process
\* as running by it (:193).  Every other process is covered, raced ones are not.
NeverMistaken ==
  /\ proc.is = "running" /\ ~proc.raced /\ file \notin {NoDef} \union ByHand => proc.body = file.body
  /\ platform = "launchd" /\ loaded # NoDef /\ file \notin {NoDef, Edited} /\ ~Stopping => loaded = file

Returns(res) == call.pc # "idle" /\ call'.pc = "idle" /\ call'.res = res

Installed ==
  /\ file' = Target
  /\ platform = "scheduler" => enabled'
  /\ platform = "systemd" => loaded' = Target /\ ~stale' /\ enabled' = call.job.atLoad
  /\ platform = "launchd" => loaded' = Target
  /\ proc'.is = "running" => proc'.raced \/ proc'.body = Target.body

OldProcessGone == ~proc'.old \/ proc'.is = "none" \/ proc'.raced

NothingLeft ==
  /\ file' \in {NoDef, Mask} \/ call.drift
  /\ platform = "launchd" => loaded' = NoDef \/ proc'.is = "stopping"
  /\ platform = "systemd" => loaded' \in {NoDef, Mask} /\ ~enabled'
  /\ proc'.is = "none" \/ proc'.raced \/ (platform = "launchd" /\ proc'.is = "stopping")

\* When Ensure or Replace returns nil, disk, manager and process agree on the
\* job that was asked for (userjob.go:57); after Replace the process that was
\* there when it was called is gone (userjob.go:60); after Remove nothing is left
\* that starts the job again, and its process is gone or going (userjob.go:61).
\* A mask is the user's.  The exception is the raced process of NeverMistaken,
\* which the code leaves running after all three: after Ensure and Replace it
\* may run by the definition before (Installed), after Remove it may run without
\* one (NothingLeft), and neither the Replace during which it was started nor one
\* after such a Remove has reloaded it (OldProcessGone).
Converged ==
  [][Returns("ok") =>
       /\ Installs /\ ~call.drift => Installed
       /\ call.op = "replace" => OldProcessGone
       /\ call.op = "remove" => NothingLeft]_vars

Undisturbed ==
  (/\ call.pc # "idle" /\ call' # call /\ call' # NoCall /\ ~call.drift /\ ~call'.drift
   /\ call.op = "status" \/ (call.op = "ensure" /\ call.matched)
   /\ proc.is = "running" /\ proc.old)
  => proc' = proc

Touched == call.pc \notin {"begin", "vet", "logs", "seal", "state", "match", "stage"}

EnabledKept ==
  (/\ Returns("fail") /\ platform = "scheduler" /\ call.known /\ Touched /\ file' # NoDef
   /\ call.hurt <= 1 /\ (call.pc \in {"restore", "rerun"} => left' = left))
  => enabled'

\* A call does no harm.  No step of an Ensure stops or restarts the matching job
\* that ran when it was called (userjob.go:54: "leaves an already-running
\* matching job untouched"), also when it cannot tell, and Status never does.  A
\* change or removal that fails on one command leaves an enabled task enabled
\* (restore, userjob_windows.go:273).
Untouched == [][Undisturbed /\ EnabledKept]_vars

CallerOwned ==
  call.pc # "idle" /\ ~call.drift /\ ~call'.drift /\ logs # NoDir /\ ~logs.made => logs' = logs

\* When Ensure or Replace returns nil and nobody moved anything meanwhile, the
\* executable and the log directory are such that no other user can change what
\* runs or read what it logs, and the unit file has its owner-only mode again
\* (userjob.go:28, :33, userjob_linux.go:229, userjob_windows.go:146); launchd
\* vouches for none of them.  It is vetted, not repaired: a log directory that
\* was there before is never changed (userjob.go:28).
Vetted ==
  [][/\ Returns("ok") /\ Installs /\ ~call.drift /\ platform # "launchd" =>
          /\ exe = "fit" /\ mode' = "exact"
          /\ IF platform = "scheduler" THEN StrictLeaf(logs') ELSE PrivateDir(logs')
     /\ CallerOwned]_vars

\* Nothing is in the way that is for the user to put right.
Fit ==
  /\ file # Mask /\ mode # "foreign" /\ exe = "fit"
  /\ logs = NoDir \/ logs.made \/ StrictLeaf(logs)

\* Whatever went wrong before, on whichever platform, one who keeps asking for a
\* job gets it: no failure leaves a state the manager refuses for good.
Repairs ==
  \A job \in {j \in Jobs : j.body \notin BadBodies} :
    (<>[]Fit /\ []<><<Begin /\ call'.op = "ensure" /\ call'.job = job>>_vars)
      => []<><<Returns("ok") /\ call.op = "ensure" /\ call.job = job>>_vars
================================================================================
