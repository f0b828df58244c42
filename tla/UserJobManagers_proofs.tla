------------------------ MODULE UserJobManagers_proofs ------------------------
(***************************************************************************)
(* Theorems about UserJobManagers, for every set of jobs, of log           *)
(* directories, of faults and platforms, and every bound.  The invariant   *)
(* has five layers, each kept with the help of those before it: Types,     *)
(* Runs, Agrees, Spares and Vets; each has a lemma for the calls of every  *)
(* platform and one for the environment, with a step for every action.     *)
(***************************************************************************)
EXTENDS UserJobManagers, TLAPS

--------------------------------------------------------------------------------
(***************************************************************************)
(* Types.  What the manager has, where a call is, and what it remembers.   *)
(***************************************************************************)
Bodies == {j.body : j \in Jobs} \union {"none", "mask", "edited"}
Definitions == [body : Bodies, atLoad : BOOLEAN]
Processes ==
  [is : {"none", "running", "due", "stopping"}, body : Bodies, old : BOOLEAN, raced : BOOLEAN]

\* Every place of a call, on whichever platform.
Places ==
  {"idle", "begin", "vet", "logs", "read", "removable", "show", "stop", "write", "reload", "enable",
   "reset", "start", "validate", "disable", "unmask", "delete", "print", "bootout", "bootstrap",
   "wait", "unload", "discard", "kickstart", "seal", "state", "match", "stage",
   "end", "check", "create", "run", "restore", "rerun"}
Calls ==
  [pc : Places, op : {"none", "ensure", "replace", "remove", "status"}, job : Jobs \union {NoDef},
   res : {"none", "ok", "fail"}, changed : BOOLEAN, known : BOOLEAN, seen : BOOLEAN, masked : BOOLEAN,
   made : BOOLEAN, matched : BOOLEAN, drift : BOOLEAN, cycle : Nat, retry : BOOLEAN, hurt : Nat]

ManagerTypes ==
  /\ file \in Definitions /\ loaded \in Definitions /\ stale \in BOOLEAN /\ enabled \in BOOLEAN
  /\ proc \in Processes
CallTypes ==
  /\ call \in Calls
  /\ call.pc = "idle" => call.op = "none"
  /\ call.pc # "idle" => call.op # "none" /\ call.job \in Jobs
PathTypes == logs \in LogDirectories \union {NoDir} /\ mode \in {"exact", "loose", "foreign"}
Types ==
  /\ platform \in {"systemd", "launchd", "scheduler"} /\ left \in Nat
  /\ ManagerTypes /\ CallTypes /\ PathTypes

\* What a call keeps wherever it goes on to, and what besides a mere step keeps.
SameCall ==
  /\ call'.op = call.op /\ call'.job = call.job
  /\ call'.matched = call.matched /\ call'.drift = call.drift
Kept ==
  /\ SameCall /\ call'.changed = call.changed /\ call'.known = call.known /\ call'.seen = call.seen
  /\ call'.masked = call.masked /\ call'.made = call.made /\ call'.retry = call.retry
Steps == Places \ {"idle"}

--------------------------------------------------------------------------------
(***************************************************************************)
(* How the call moves: what each form of assignment to it comes to.        *)
(***************************************************************************)
\* The call that has returned is of the type of calls.
LEMMA NoCallTyped == \A res \in {"ok", "fail"} : [NoCall EXCEPT !.res = res] \in Calls
BY DEF NoCall, Calls, Places

\* Goto moves the call and nothing else of it.
LEMMA Goes ==
  ASSUME CallTypes, call.pc # "idle"
  PROVE \A pc \in Steps : Goto(pc) => CallTypes' /\ call'.pc = pc /\ Kept
<1>1. ASSUME NEW pc \in Steps, Goto(pc) PROVE CallTypes' /\ call'.pc = pc /\ Kept
  <2>1. call' \in Calls
    BY <1>1 DEF CallTypes, Calls, Steps, Goto
  <2>2. call'.pc = pc /\ Kept
    BY <1>1 DEF CallTypes, Calls, Steps, Goto, Kept, SameCall
  <2>3. pc # "idle"
    BY DEF Steps
  <2>. QED BY <2>1, <2>2, <2>3 DEF CallTypes, Kept, SameCall
<1>. QED BY <1>1

\* Return ends the call and leaves its result.
LEMMA Ends ==
  \A res \in {"ok", "fail"} : Return(res) =>
    CallTypes' /\ call'.pc = "idle" /\ call'.op = "none" /\ call'.res = res /\ ~call'.known
<1>1. ASSUME NEW res \in {"ok", "fail"}, Return(res)
      PROVE CallTypes' /\ call'.pc = "idle" /\ call'.op = "none" /\ call'.res = res /\ ~call'.known
  <2>1. call' \in Calls
    BY <1>1, NoCallTyped DEF Return
  <2>2. call'.pc = "idle" /\ call'.op = "none" /\ call'.res = res /\ ~call'.known
    BY <1>1 DEF Return, NoCall
  <2>. QED BY <2>1, <2>2 DEF CallTypes
<1>. QED BY <1>1

\* A call that is cut off, by a crash or a logout, leaves nothing.
LEMMA Leaves ==
  call' = NoCall =>
    CallTypes' /\ call'.pc = "idle" /\ call'.op = "none" /\ call'.res = "none" /\ ~call'.known
BY DEF NoCall, CallTypes, Calls, Places

\* A command that failed is counted.
LEMMA Hurts ==
  ASSUME CallTypes, call.pc # "idle", NEW pc \in Steps,
         call' = [call EXCEPT !.pc = pc, !.hurt = @ + 1]
  PROVE CallTypes' /\ call'.pc = pc /\ Kept
<1>1. call.hurt + 1 \in Nat
  BY DEF CallTypes, Calls
<1>2. PICK n \in Nat : n = call.hurt + 1
  BY <1>1
<1>3. call' = [call EXCEPT !.pc = pc, !.hurt = n]
  BY <1>2
<1>4. call' \in Calls
  BY <1>3 DEF CallTypes, Calls, Steps
<1>5. call'.pc = pc /\ pc # "idle" /\ Kept
  BY <1>3 DEF CallTypes, Calls, Steps, Kept, SameCall
<1>. QED BY <1>4, <1>5 DEF CallTypes, Kept, SameCall

\* So is the one after which restore is next (userjob_windows.go:273).
LEMMA Undoes == CallTypes /\ call.pc # "idle" /\ Undo => CallTypes' /\ call'.pc = "restore" /\ Kept
BY Hurts DEF Undo, Steps, Places

\* A settle cycle of launchd begins, or the last one has failed.
LEMMA Cycles ==
  CallTypes /\ call.pc # "idle" /\ NextCycle =>
        \/ CallTypes' /\ call'.pc = "bootstrap" /\ SameCall /\ call'.changed = call.changed
        \/ Return("fail")
<1>. SUFFICES ASSUME CallTypes, call.pc # "idle", NextCycle
     PROVE \/ CallTypes' /\ call'.pc = "bootstrap" /\ SameCall /\ call'.changed = call.changed
           \/ Return("fail")
  OBVIOUS
<1>1. CASE call' = [call EXCEPT !.pc = "bootstrap", !.retry = FALSE, !.cycle = @ + 1]
  <2>1. call.cycle + 1 \in Nat
    BY DEF CallTypes, Calls
  <2>2. PICK n \in Nat : n = call.cycle + 1
    BY <2>1
  <2>3. call' = [call EXCEPT !.pc = "bootstrap", !.retry = FALSE, !.cycle = n]
    BY <1>1, <2>2
  <2>4. call' \in Calls
    BY <2>3 DEF CallTypes, Calls, Places
  <2>5. call'.pc = "bootstrap" /\ SameCall /\ call'.changed = call.changed
    BY <2>3 DEF CallTypes, Calls, SameCall
  <2>. QED BY <2>4, <2>5 DEF CallTypes, SameCall
<1>. QED BY <1>1 DEF NextCycle

\* A removal has found the user's mask.
LEMMA Marked ==
  ASSUME CallTypes, call.pc # "idle", call' = [call EXCEPT !.pc = "removable", !.masked = TRUE]
  PROVE CallTypes' /\ call'.pc = "removable" /\ SameCall
BY DEF CallTypes, Calls, Places, SameCall

\* A call has read the unit file: it differs from the target, or not.
LEMMA ReadMark ==
  ASSUME CallTypes, call.pc # "idle", call' = [call EXCEPT !.pc = "show", !.changed = file # Target]
  PROVE CallTypes' /\ call'.pc = "show" /\ SameCall /\ call'.changed = (file # Target)
BY DEF CallTypes, Calls, Places, SameCall

\* A running job whose RunAtLoad differs is enabled or disabled next.
LEMMA EnableMark ==
  ASSUME CallTypes, call.pc # "idle", NEW b \in BOOLEAN,
         call' = [call EXCEPT !.pc = "enable", !.seen = b]
  PROVE CallTypes' /\ call'.pc = "enable" /\ SameCall /\ call'.changed = call.changed /\ call'.seen = b
BY DEF CallTypes, Calls, Places, SameCall

\* A removal stops what is there, or disables it, or only deletes the file.
LEMMA PlanMark ==
  ASSUME CallTypes, call.pc # "idle", PlanRemove
  PROVE /\ CallTypes' /\ SameCall /\ call'.known = (loaded' # NoDef \/ file # NoDef)
        /\ call'.pc = (IF proc.is # "none" THEN "stop" ELSE IF call'.known THEN "disable" ELSE "delete")
<1>1. PICK k \in BOOLEAN : k = (loaded' # NoDef \/ file # NoDef)
  OBVIOUS
<1>2. PICK m \in BOOLEAN : m = (call.masked \/ MaskSeen)
  OBVIOUS
<1>3. PICK pc \in {"stop", "disable", "delete"} :
        pc = (IF proc.is # "none" THEN "stop" ELSE IF k THEN "disable" ELSE "delete")
  OBVIOUS
<1>4. call' = [call EXCEPT !.known = k, !.masked = m, !.pc = pc]
  BY <1>1, <1>2, <1>3 DEF PlanRemove
<1>5. call' \in Calls /\ call'.pc = pc /\ SameCall /\ call'.known = k
  BY <1>4 DEF CallTypes, Calls, Places, SameCall
<1>. QED BY <1>1, <1>3, <1>5 DEF CallTypes, SameCall

\* A call has read the plist.
LEMMA PrintMark ==
  ASSUME CallTypes, call.pc # "idle", NEW pc \in Steps,
         call' = [call EXCEPT !.pc = pc, !.changed = Installs /\ file # Target]
  PROVE CallTypes' /\ call'.pc = pc /\ SameCall /\ call'.changed = (Installs /\ file # Target)
<1>1. PICK b \in BOOLEAN : b = (Installs /\ file # Target)
  OBVIOUS
<1>2. call' = [call EXCEPT !.pc = pc, !.changed = b]
  BY <1>1
<1>3. call' \in Calls /\ call'.pc = pc /\ SameCall /\ call'.changed = b
  BY <1>2 DEF CallTypes, Calls, Steps, SameCall
<1>. QED BY <1>1, <1>3 DEF CallTypes, SameCall, Steps

\* A bootstrap is tried once more before the cycle ends.
LEMMA RetryMark ==
  ASSUME CallTypes, call.pc # "idle", call' = [call EXCEPT !.pc = "bootstrap", !.retry = TRUE]
  PROVE CallTypes' /\ call'.pc = "bootstrap" /\ SameCall /\ call'.changed = call.changed
BY DEF CallTypes, Calls, Places, SameCall

\* A call has made the log directory.
LEMMA MadeMark ==
  ASSUME CallTypes, call.pc # "idle", call' = [call EXCEPT !.pc = "seal", !.made = TRUE]
  PROVE /\ CallTypes' /\ call'.pc = "seal" /\ SameCall
        /\ call'.made /\ call'.known = call.known /\ call'.changed = call.changed
BY DEF CallTypes, Calls, Places, SameCall

\* Somebody else's change during a call marks it, and keeps the rest of it.
LEMMA Unforeseens ==
  ASSUME CallTypes, Unforeseen
  PROVE /\ CallTypes' /\ call'.pc = call.pc /\ call'.op = call.op /\ call'.job = call.job
        /\ call'.matched = call.matched /\ (call.pc # "idle" => call'.drift)
        /\ call'.changed = call.changed /\ call'.known = call.known /\ call'.seen = call.seen
        /\ call'.masked = call.masked /\ call'.made = call.made
BY DEF CallTypes, Calls, Unforeseen

\* What a call knows once it has asked Task Scheduler for the task's state.
LEMMA StateMark ==
  ASSUME CallTypes, call.pc # "idle", SchedulerState
  PROVE \/ /\ CallTypes' /\ SameCall /\ call'.pc \in {"disable", "match", "stage"}
           /\ call'.seen = (TaskState = "running")
           /\ call'.known = (TaskState \in {"running", "ready"})
           /\ call'.changed = Exists
           /\ call'.pc = "match" => call.op = "ensure" /\ call'.known
           /\ call'.pc = "stage" => Installs
           /\ call'.pc = "disable" => Exists /\ call.op = "remove"
           /\ call.op = "ensure" /\ call'.known => call'.pc = "match"
        \/ Return("ok") /\ (call.op = "remove" => ~Exists) /\ call.op \in {"remove", "status"}
        \/ Return("fail")
<1>1. PICK s \in BOOLEAN : s = (TaskState = "running")
  OBVIOUS
<1>2. PICK k \in BOOLEAN : k = (TaskState \in {"running", "ready"})
  <2>1. CASE TaskState \in {"running", "ready"}
    BY <2>1, Zenon
  <2>2. CASE TaskState \notin {"running", "ready"}
    <3>1. FALSE = (TaskState \in {"running", "ready"})
      BY <2>2, SMT
    <3>. QED BY <3>1, Zenon
  <2>. QED BY <2>1, <2>2
<1>3. PICK c \in BOOLEAN : c = Exists
  BY DEF Exists
<1>. DEFINE asked == [call EXCEPT !.seen = s, !.known = k, !.changed = c]
<1>4. asked \in Calls /\ asked.known = k
  BY DEF CallTypes, Calls
<1>5. ASSUME NEW pc \in {"disable", "match", "stage"}, call' = [asked EXCEPT !.pc = pc]
      PROVE /\ CallTypes' /\ call'.pc = pc /\ SameCall
            /\ call'.seen = s /\ call'.known = k /\ call'.changed = c
  <2>1. call' = [call EXCEPT !.seen = s, !.known = k, !.changed = c, !.pc = pc]
    BY <1>5
  <2>2. call' \in Calls
    <3>1. pc \in Places
      BY DEF Places
    <3>. QED BY <2>1, <3>1 DEF CallTypes, Calls
  <2>3. call'.pc = pc /\ SameCall
    BY <2>1 DEF CallTypes, Calls, SameCall
  <2>4. call'.seen = s /\ call'.known = k /\ call'.changed = c
    BY <2>1 DEF CallTypes, Calls
  <2>. QED BY <2>2, <2>3, <2>4 DEF CallTypes, SameCall
<1>6. \/ TaskState = "absent" /\ call.op = "remove" /\ Return("ok")
      \/ TaskState # "absent" /\ call.op = "remove" /\ call' = [asked EXCEPT !.pc = "disable"]
      \/ call.op = "status" /\ Return("ok")
      \/ Installs /\ call' = [asked EXCEPT !.pc = IF call.op = "ensure" /\ k THEN "match" ELSE "stage"]
      \/ Return("fail")
  BY <1>1, <1>2, <1>3, <1>4 DEF SchedulerState
<1>7. TaskState = "absent" <=> ~Exists
  BY DEF TaskState
<1>8. CASE TaskState # "absent" /\ call.op = "remove" /\ call' = [asked EXCEPT !.pc = "disable"]
  BY <1>1, <1>2, <1>3, <1>5, <1>7, <1>8 DEF Exists
<1>9. CASE /\ Installs
           /\ call' = [asked EXCEPT !.pc = IF call.op = "ensure" /\ k THEN "match" ELSE "stage"]
  <2>1. PICK pc \in {"match", "stage"} : pc = IF call.op = "ensure" /\ k THEN "match" ELSE "stage"
    OBVIOUS
  <2>. QED BY <1>1, <1>2, <1>3, <1>5, <1>9, <2>1
<1>. QED BY <1>6, <1>7, <1>8, <1>9

\* A call asks for the same definition throughout.
LEMMA Targets == platform' = platform /\ SameCall => Target' = Target
BY DEF SameCall, Target, Rendered

\* What is written, loaded or started is of its type.
LEMMA DefTypes ==
  /\ NoDef \in Definitions /\ Mask \in Definitions /\ Edited \in Definitions /\ NoProc \in Processes
  /\ \A job \in Jobs : job \in Definitions /\ Rendered(job) \in Definitions
<1>1. {"none", "mask", "edited"} \subseteq Bodies
  BY DEF Bodies
<1>2. NoDef \in Definitions /\ Mask \in Definitions /\ Edited \in Definitions /\ NoProc \in Processes
  BY <1>1 DEF Definitions, Processes, NoDef, Mask, Edited, NoProc
<1>3. ASSUME NEW job \in Jobs PROVE job \in Definitions /\ Rendered(job) \in Definitions
  <2>1. {j.body : j \in Jobs} \subseteq Bodies
    BY DEF Bodies
  <2>2. job \in [body : {j.body : j \in Jobs}, atLoad : BOOLEAN]
    BY UserJobAssumption
  <2>3. job \in Definitions
    BY <2>1, <2>2 DEF Definitions
  <2>. QED BY <2>3 DEF Rendered, Definitions
<1>. QED BY <1>2, <1>3

\* What the manager starts is a process of that definition, and a new one.
LEMMA ProcTypes ==
  \A d \in Definitions :
    /\ Started(d) \in Processes /\ Started(d).is = "running" /\ Started(d).body = d.body
    /\ ~Started(d).old /\ ~Started(d).raced
BY DEF Started, Processes, NoProc, Definitions

\* The log directories the manager makes or seals are log directories.
LEMMA DirTypes ==
  /\ MadeDir \in LogDirectories /\ LogDirs \subseteq LogDirectories
  /\ \A d \in LogDirectories : Protected(d) \in LogDirectories
  /\ Protected(NoDir) = NoDir
BY UserJobAssumption DEF MadeDir, LogDirectories, Protected, NoDir

--------------------------------------------------------------------------------
(***************************************************************************)
(* Runs.  Where a call of each platform can be, and what is then true of   *)
(* the process: which definition it runs by, and that it is gone when the  *)
(* definition is written or removed.                                       *)
(***************************************************************************)
At(pcs) == call.pc \in pcs

\* Neither absent nor changed by hand.
Normal == file \notin {NoDef} \union ByHand

\* The places of a call on Linux, and which of the four operations gets there.
SystemdPlaces ==
  /\ At({"idle", "begin", "vet", "logs", "read", "removable", "show", "stop", "write", "reload",
         "enable", "reset", "start", "validate", "disable", "unmask", "delete"})
  /\ At({"vet", "logs", "write", "enable", "reset", "start", "validate"}) => Installs
  /\ At({"removable", "disable", "unmask", "delete"}) => call.op = "remove"
  /\ At({"read"}) => call.op # "remove"
  /\ At({"stop", "reload"}) => call.op # "status"

\* On macOS.
LaunchdPlaces ==
  /\ At({"idle", "begin", "print", "bootout", "write", "bootstrap", "wait", "unload", "discard",
         "kickstart", "delete"})
  /\ At({"write", "bootstrap", "wait", "unload", "discard", "kickstart"}) => Installs
  /\ At({"delete"}) => call.op = "remove"
  /\ At({"print"}) => call.op # "remove"
  /\ At({"bootout"}) => call.op # "status"

\* On Windows.
SchedulerPlaces ==
  /\ At({"idle", "begin", "vet", "logs", "seal", "state", "match", "stage", "disable", "end",
         "check", "wait", "create", "delete", "run", "restore", "rerun"})
  /\ At({"vet", "logs", "seal", "stage", "create", "run"}) => Installs
  /\ At({"match"}) => call.op = "ensure"
  /\ At({"delete"}) => call.op = "remove"
  /\ At({"disable", "end", "check", "wait", "restore", "rerun"}) => call.op # "status"

\* systemd keeps the definition of what runs, and re-reads the file of a unit
\* without a process only; the unit file is written when there is none.
SystemdRuns ==
  /\ proc.is # "stopping"
  /\ proc.is # "none" => IsLoaded(loaded)
  /\ ~stale => loaded = file
  /\ Normal /\ proc.is # "none" => loaded = file /\ ~stale
  /\ Normal /\ proc.is = "running" => proc.body = file.body
  /\ At({"write", "reload", "disable", "unmask", "delete"}) => proc.is = "none"
  /\ At({"enable", "reset", "start", "validate"}) /\ Normal => loaded = file /\ ~stale

\* launchd has loaded the plist on disk, unless the job is being booted out, as
\* it is or will be when the plist is written or deleted.
LaunchdRuns ==
  /\ proc.is # "none" => loaded # NoDef
  /\ file # Mask
  /\ loaded # NoDef /\ file \notin {NoDef, Edited} /\ ~Stopping => loaded = file
  /\ Normal /\ proc.is = "running" => proc.body = file.body
  /\ At({"write", "delete"}) => loaded = NoDef \/ Stopping

\* A task is replaced or deleted while it is disabled and its process, if it has
\* one, was started behind the back of the call.
SchedulerRuns ==
  /\ file # Mask
  /\ ~Exists => ~enabled /\ (proc.is = "none" \/ proc.raced)
  /\ Normal /\ proc.is = "running" /\ ~proc.raced => proc.body = file.body
  /\ At({"match", "stage", "disable"}) /\ ~call.seen => (Busy => proc.raced)
  /\ At({"stage", "create"}) /\ ~call.changed => ~Exists
  /\ At({"match", "disable", "end", "check", "wait"}) => call.changed
  /\ At({"end", "check", "wait", "create", "delete"}) => ~enabled
  /\ At({"create", "delete"}) => (Busy => proc.raced)

Runs ==
  /\ platform = "systemd" => SystemdPlaces /\ SystemdRuns
  /\ platform = "launchd" => LaunchdPlaces /\ LaunchdRuns
  /\ platform = "scheduler" => SchedulerPlaces /\ SchedulerRuns

\* No definition of a job is one of those that are none.
LEMMA Literals ==
  /\ NoDef.body = "none" /\ Mask.body = "mask" /\ Edited.body = "edited"
  /\ NoDef # Mask /\ NoDef # Edited /\ Mask # Edited
  /\ NoProc.is = "none" /\ ~NoProc.old /\ ~NoProc.raced
  /\ BadBodies \cap {"none", "mask", "edited"} = {}
  /\ \A job \in Jobs : Rendered(job) \notin {NoDef, Mask, Edited} /\ Rendered(job).body = job.body
<1>1. NoDef.body = "none" /\ Mask.body = "mask" /\ Edited.body = "edited"
  BY DEF NoDef, Mask, Edited
<1>2. NoDef # Mask /\ NoDef # Edited /\ Mask # Edited
  BY <1>1
<1>3. NoProc.is = "none" /\ ~NoProc.old /\ ~NoProc.raced
  BY DEF NoProc
<1>4. BadBodies \cap {"none", "mask", "edited"} = {}
  BY UserJobAssumption
<1>5. ASSUME NEW job \in Jobs
      PROVE Rendered(job) \notin {NoDef, Mask, Edited} /\ Rendered(job).body = job.body
  <2>1. job \in Definitions /\ job.body \notin {"none", "mask", "edited"}
    BY DefTypes, UserJobAssumption
  <2>2. Rendered(job).body = job.body
    BY <2>1 DEF Rendered, Definitions
  <2>. QED BY <1>1, <2>1, <2>2
<1>. QED BY <1>1, <1>2, <1>3, <1>4, <1>5

\* A new call knows nothing yet.
LEMMA Begun ==
  ASSUME Types, Begin
  PROVE /\ CallTypes' /\ call'.pc = "begin" /\ call'.op # "none"
        /\ ~call'.drift /\ ~call'.changed /\ ~call'.known /\ ~call'.made /\ ~call'.seen
        /\ call'.matched = Matches(call'.job) /\ call'.job \in Jobs
<1>1. PICK op \in {"ensure", "replace", "remove", "status"}, job \in Jobs :
        call' = [NoCall EXCEPT !.pc = "begin", !.op = op, !.job = job, !.matched = Matches(job)]
  BY DEF Begin
<1>2. PICK m \in BOOLEAN : m = Matches(job)
  BY DEF Matches
<1>3. call' = [NoCall EXCEPT !.pc = "begin", !.op = op, !.job = job, !.matched = m]
  BY <1>1, <1>2
<1>4. "begin" \in Places
  BY DEF Places
<1>5. call' \in Calls
  BY <1>3, <1>4 DEF NoCall, Calls
<1>6. /\ call'.pc = "begin" /\ call'.op = op
      /\ ~call'.drift /\ ~call'.changed /\ ~call'.known /\ ~call'.made /\ ~call'.seen
      /\ call'.matched = m /\ call'.job = job
  BY <1>3 DEF NoCall
<1>7. CallTypes'
  BY <1>5, <1>6 DEF CallTypes
<1>. QED BY <1>2, <1>6, <1>7

--------------------------------------------------------------------------------
(***************************************************************************)
(* Agrees.  What the call has established of the definition on disk and of *)
(* its being enabled, so that it holds when the call returns nil.          *)
(***************************************************************************)
\* What systemd, the disk and the call agree on, as Ensure, Replace and Remove go on.
SystemdAgrees ==
  /\ file = NoDef => ~enabled
  /\ At({"unmask"}) \/ (At({"delete", "reload"}) /\ call.op = "remove") => ~enabled
  /\ At({"delete"}) /\ ~call.known => file \in {NoDef, Mask} /\ loaded = NoDef
  /\ At({"stop", "disable", "unmask"}) /\ call.op = "remove" => call.known
  /\ At({"reload"}) /\ call.op = "remove" => file \in {NoDef, Mask}
  /\ Installs /\ ~call.drift =>
       /\ At({"show", "stop", "reload", "enable", "reset", "start", "validate"}) /\ ~call.changed =>
            file \in {Target, Mask}
       /\ At({"reload", "enable", "reset", "start", "validate"}) => file \in {Target, Mask}
  /\ At({"enable", "reset", "start", "validate"}) /\ call.op = "replace" =>
       proc.is = "none" \/ ~proc.old

\* launchd: the plist has been compared, or written.
LaunchdAgrees ==
  Installs /\ ~call.drift =>
    /\ At({"print", "bootout"}) /\ ~call.changed => file = Target
    /\ At({"bootstrap", "wait", "unload", "kickstart"}) => file = Target

\* Task Scheduler: the task that is run is the one that was registered, enabled.
SchedulerAgrees ==
  /\ At({"run", "rerun"}) => enabled
  /\ call.known => call.changed
  /\ At({"run"}) /\ call.op = "replace" => (Busy => proc.raced \/ ~proc.old)
  /\ At({"run"}) /\ ~call.drift => file = Target

Agrees ==
  /\ platform = "systemd" => SystemdAgrees
  /\ platform = "launchd" => LaunchdAgrees
  /\ platform = "scheduler" => SchedulerAgrees

\* The step of Converged.
ConvergedStep ==
  Returns("ok") =>
    /\ Installs /\ ~call.drift => Installed
    /\ call.op = "replace" => OldProcessGone
    /\ call.op = "remove" => NothingLeft

\* A call in progress is one of the four, for a job.
Op == call.op \in {"ensure", "replace", "remove", "status"} /\ call.job \in Jobs

\* Every call that is not idle is.
LEMMA Ops == CallTypes /\ call.pc # "idle" => Op
BY DEF CallTypes, Calls, Op

\* What it asks for is a proper definition, of its job.
LEMMA TargetFacts ==
  Op =>
    Target \notin {NoDef, Mask, Edited} /\ Target.body = call.job.body /\ call.job.atLoad \in BOOLEAN
BY Literals, DefTypes DEF Op, Target, Definitions

--------------------------------------------------------------------------------
(***************************************************************************)
(* Spares.  Why a matching job is left alone: such an Ensure, and every    *)
(* Status, stay among the places that only look.                           *)
(***************************************************************************)
\* An Ensure that found its job running, and nobody has moved anything since.
Matched == call.op = "ensure" /\ call.matched /\ ~call.drift /\ proc.is = "running" /\ proc.old

\* systemd: file, memory and the link at login are what they were.
SystemdSpares ==
  /\ call.op = "status" => At({"begin", "read", "show"})
  /\ Matched =>
       /\ At({"begin", "vet", "logs", "read", "show"})
       /\ file \in {Target, Mask} /\ loaded = Target /\ enabled = call.job.atLoad
       /\ file = Target => ~stale
       /\ At({"show"}) => ~call.changed

\* launchd: the plist is the target, on disk and loaded.
LaunchdSpares ==
  /\ call.op = "status" => At({"begin", "print"})
  /\ Matched =>
       /\ At({"begin", "print"}) /\ file = Target /\ loaded = Target
       /\ (At({"print"}) => ~call.changed)

\* Task Scheduler: the task is the target, and was seen running.
SchedulerSpares ==
  /\ call.op = "status" => At({"begin", "state"})
  /\ Matched =>
       /\ At({"begin", "vet", "logs", "seal", "state", "match"})
       /\ file = Target /\ enabled
       /\ At({"match"}) => call.seen

Spares ==
  /\ platform = "systemd" => SystemdSpares
  /\ platform = "launchd" => LaunchdSpares
  /\ platform = "scheduler" => SchedulerSpares

--------------------------------------------------------------------------------
(***************************************************************************)
(* Vets.  Which of executable, log directory and mode of the file a call   *)
(* has vetted at each of its places.                                       *)
(***************************************************************************)
\* What the call has vetted by now, if nobody moved anything since.
SystemdVets ==
  Installs /\ ~call.drift =>
    /\ ~At({"begin", "vet"}) => exe = "fit"
    /\ ~At({"begin", "vet", "logs"}) => PrivateDir(logs)
    /\ ~At({"begin", "vet", "logs", "read"}) => mode = "exact"

\* A log directory that a call takes for its own making is one that was made.
SchedulerVets ==
  /\ mode = "exact"
  /\ Installs /\ ~call.drift =>
       /\ ~At({"begin", "vet"}) => exe = "fit"
       /\ ~At({"begin", "vet", "logs", "seal"}) => StrictLeaf(logs)
  /\ At({"begin", "vet", "logs"}) => ~call.made
  /\ At({"seal"}) /\ call.made /\ ~call.drift => logs.made

Vets ==
  /\ platform = "systemd" => SystemdVets
  /\ platform = "scheduler" => SchedulerVets

\* The steps of Untouched and of Vetted.
UntouchedStep == Undisturbed /\ EnabledKept
VettedStep ==
  /\ Returns("ok") /\ Installs /\ ~call.drift /\ platform # "launchd" =>
       /\ exe = "fit" /\ mode' = "exact"
       /\ IF platform = "scheduler" THEN StrictLeaf(logs') ELSE PrivateDir(logs')
  /\ CallerOwned

\* Only a directory that the call has made is sealed.
LEMMA DirFacts ==
  /\ MadeDir # NoDir /\ MadeDir.made
  /\ \A d : ~call.made => Protected(d) = d
  /\ \A d \in LogDirectories : Protected(d).made = d.made
BY DEF MadeDir, NoDir, Protected, LogDirectories

--------------------------------------------------------------------------------
(***************************************************************************)
(* The steps.                                                              *)
(***************************************************************************)
\* A step of a call on Linux is one of a call in progress, and of that platform.
LEMMA SystemdActs ==
  Types /\ SystemdCall => platform = "systemd" /\ UNCHANGED platform /\ call.pc # "idle" /\ Op
<1>1. SystemdCall => platform = "systemd" /\ UNCHANGED platform /\ call.pc # "idle"
  BY DEF SystemdCall, On, SystemdBegin, SystemdVet, SystemdLogs, SystemdRead, SystemdRemovable,
     SystemdShow, SystemdStop, SystemdWrite, SystemdReload, SystemdEnable, SystemdReset,
     SystemdStart, SystemdValidate,
     SystemdDisable, SystemdUnmask, SystemdDelete
<1>. QED BY <1>1, Ops DEF Types

\* A step of a call on macOS is one of a call in progress, and of that platform.
LEMMA LaunchdActs ==
  Types /\ LaunchdCall => platform = "launchd" /\ UNCHANGED platform /\ call.pc # "idle" /\ Op
<1>1. LaunchdCall => platform = "launchd" /\ UNCHANGED platform /\ call.pc # "idle"
  BY DEF LaunchdCall, On, LaunchdBegin, LaunchdPrint, LaunchdBootout, LaunchdWrite, LaunchdBootstrap,
     LaunchdWait, LaunchdUnload, LaunchdDiscard, LaunchdKickstart, LaunchdDelete
<1>. QED BY <1>1, Ops DEF Types

\* A step of a call on Windows is one of a call in progress, and of that platform.
LEMMA SchedulerActs ==
  Types /\ SchedulerCall => platform = "scheduler" /\ UNCHANGED platform /\ call.pc # "idle" /\ Op
<1>1. SchedulerCall => platform = "scheduler" /\ UNCHANGED platform /\ call.pc # "idle"
  BY DEF SchedulerCall, On, SchedulerBegin, SchedulerVet, SchedulerLogs, SchedulerSeal, SchedulerState,
     SchedulerMatch, SchedulerStage, SchedulerDisable, SchedulerEnd, SchedulerCheck, SchedulerWait,
     SchedulerCreate, SchedulerDelete, SchedulerRun, SchedulerRestore, SchedulerRerun
<1>. QED BY <1>1, Ops DEF Types

\* The platform stays what it is.
LEMMA EnvironmentActs == Environment \/ Begin \/ Settle => UNCHANGED platform
BY DEF Environment, Begin, Settle, Exit, Restart, StopEnds, Login, MaskUnit, Edit, Drift, Crash

\* What systemctl show decides (inspectState, userjob_linux.go:425).
LEMMA SystemdShown ==
  ASSUME CallTypes, SystemdShow
  PROVE /\ Queried /\ UNCHANGED <<platform, file, enabled, proc, paths>>
        /\ \/ Return("fail")
           \/ /\ ~Unusable /\ Installs /\ SameCall /\ call'.changed = call.changed /\ CallTypes'
              /\ \/ /\ call.op = "ensure" /\ InForce /\ enabled = call.job.atLoad
                    /\ proc.is # "running" /\ call'.pc = "reset"
                 \/ call.op = "ensure" /\ InForce /\ enabled # call.job.atLoad /\ call'.pc = "enable"
                 \/ /\ call.op = "replace" \/ ~InForce
                    /\ call'.pc = IF IsLoaded(loaded') THEN "stop"
                                 ELSE IF call.changed THEN "write" ELSE "reload"
           \/ /\ ~Unusable /\ call.op = "ensure" /\ InForce /\ enabled = call.job.atLoad
              /\ proc.is = "running" /\ Return("ok")
           \/ ~Unusable /\ call.op = "status" /\ Return("ok")
           \/ /\ ~Unusable /\ call.op = "remove" /\ SameCall /\ CallTypes'
              /\ call'.known = (loaded' # NoDef \/ file # NoDef)
              /\ call'.pc = IF proc.is # "none" THEN "stop"
                                 ELSE IF call'.known THEN "disable" ELSE "delete"
<1>. call.pc # "idle"
  BY DEF SystemdShow, On
<1>1. ASSUME Installs, ~Unusable, PlanEnsure
      PROVE \/ /\ SameCall /\ call'.changed = call.changed /\ CallTypes'
              /\ \/ /\ call.op = "ensure" /\ InForce /\ enabled = call.job.atLoad
                    /\ proc.is # "running" /\ call'.pc = "reset"
                 \/ call.op = "ensure" /\ InForce /\ enabled # call.job.atLoad /\ call'.pc = "enable"
                 \/ /\ call.op = "replace" \/ ~InForce
                    /\ call'.pc = IF IsLoaded(loaded') THEN "stop"
                                 ELSE IF call.changed THEN "write" ELSE "reload"
            \/ /\ call.op = "ensure" /\ InForce /\ enabled = call.job.atLoad
               /\ proc.is = "running" /\ Return("ok")
  <2>1. CASE /\ call.op = "ensure" /\ InForce /\ enabled = call.job.atLoad
             /\ IF proc.is = "running" THEN Return("ok") ELSE Goto("reset")
    BY <2>1, Goes DEF Steps, Places, Kept
  <2>2. CASE /\ call.op = "ensure" /\ InForce /\ enabled # call.job.atLoad
             /\ call' = [call EXCEPT !.pc = "enable", !.seen = proc.is = "running"]
    BY <2>2, EnableMark
  <2>3. CASE /\ call.op = "replace" \/ ~InForce
             /\ Goto(IF IsLoaded(loaded') THEN "stop" ELSE IF call.changed THEN "write" ELSE "reload")
    BY <2>3, Goes DEF Steps, Places, Kept
  <2>. QED BY <1>1, <2>1, <2>2, <2>3 DEF PlanEnsure
<1>2. ASSUME ~Unusable, call.op = "remove", PlanRemove
      PROVE /\ SameCall /\ CallTypes'
              /\ call'.known = (loaded' # NoDef \/ file # NoDef)
              /\ call'.pc = IF proc.is # "none" THEN "stop"
                                 ELSE IF call'.known THEN "disable" ELSE "delete"
  BY <1>2, PlanMark
<1>3. ReturnStatus => Return("ok") \/ Return("fail")
  BY DEF ReturnStatus
<1>4. Queried /\ UNCHANGED <<platform, file, enabled, proc, paths>>
  BY DEF SystemdShow, On
<1>5. \/ Return("fail")
      \/ ~Unusable /\ Installs /\ PlanEnsure
      \/ ~Unusable /\ call.op = "status" /\ ReturnStatus
      \/ ~Unusable /\ call.op = "remove" /\ PlanRemove
  BY DEF SystemdShow
<1>. QED BY <1>1, <1>2, <1>3, <1>4, <1>5

\* A call on macOS has read the plist, or failed.
LEMMA LaunchdBegun ==
  ASSUME CallTypes, LaunchdBegin
  PROVE \/ /\ CallTypes' /\ SameCall /\ call'.changed = (Installs /\ file # Target)
           /\ call'.pc = IF call.op = "remove" THEN "bootout" ELSE "print"
        \/ Return("fail")
<1>. call.pc # "idle"
  BY DEF LaunchdBegin, On
<1>1. PICK pc \in {"bootout", "print"} : pc = IF call.op = "remove" THEN "bootout" ELSE "print"
  OBVIOUS
<1>2. CASE call' = [call EXCEPT !.pc = pc, !.changed = Installs /\ file # Target]
  <2>1. pc \in Steps
    BY DEF Steps, Places
  <2>. QED BY <1>1, <1>2, <2>1, PrintMark
<1>. QED BY <1>1, <1>2 DEF LaunchdBegin

\* /End has been tried; what next depends on whether it failed.
LEMMA SchedulerEnded ==
  ASSUME CallTypes, SchedulerEnd PROVE CallTypes' /\ Kept /\ call'.pc \in {"wait", "check"}
<1>. call.pc # "idle"
  BY DEF SchedulerEnd, On
<1>1. "wait" \in Steps /\ "check" \in Steps
  BY DEF Steps, Places
<1>2. Goto("wait") \/ call' = [call EXCEPT !.pc = "check", !.hurt = @ + 1]
  BY DEF SchedulerEnd, Command
<1>. QED BY <1>1, <1>2, Goes, Hurts

--------------------------------------------------------------------------------
(***************************************************************************)
(* Types is kept.                                                          *)
(***************************************************************************)
\* The calls of Linux keep it.
LEMMA SystemdKeepsTypes ==
  ASSUME Types, SystemdCall PROVE Types'
<1>. /\ platform = "systemd" /\ UNCHANGED platform /\ call.pc # "idle" /\ CallTypes /\ Op
     /\ ManagerTypes /\ PathTypes /\ left \in Nat
  BY SystemdActs DEF Types
<1>1. CASE SystemdBegin
  BY <1>1, Goes, Ends, Marked DEF Types, ManagerTypes, PathTypes, Steps, Places,
    SystemdBegin, manager, paths, definition
<1>2. CASE SystemdVet
  BY <1>2, Goes, Ends DEF Types, ManagerTypes, PathTypes, Steps, Places, SystemdVet,
    manager, paths, definition
<1>3. CASE SystemdLogs
  <2>1. CallTypes'
    BY <1>3, Goes, Ends DEF Steps, Places, SystemdLogs
  <2>2. ManagerTypes'
    BY <1>3 DEF ManagerTypes, SystemdLogs, manager, definition
  <2>3. PathTypes'
    BY <1>3, DirTypes DEF PathTypes, SystemdLogs, EnsuredDir
  <2>4. left' \in Nat
    BY <1>3 DEF SystemdLogs, Mishap
  <2>. QED
    BY <2>1, <2>2, <2>3, <2>4 DEF Types
<1>4. CASE SystemdRead
  BY <1>4, Ends, ReadMark DEF Types, ManagerTypes, PathTypes, SystemdRead, Mishap, manager,
    definition
<1>5. CASE SystemdRemovable
  BY <1>5, Goes, Ends DEF Types, ManagerTypes, PathTypes, Steps, Places, SystemdRemovable,
    manager, paths, definition
<1>6. CASE SystemdShow
  <2>1. CallTypes'
    BY <1>6, Ends, SystemdShown
  <2>2. ManagerTypes'
    BY <1>6, DefTypes, ProcTypes, SystemdShown DEF ManagerTypes, Processes, Op,
      SystemdShow, On, Queried, InForce, paths, Unusable, MaskSeen, Target
  <2>3. PathTypes'
    BY <1>6 DEF PathTypes, SystemdShow, paths
  <2>4. left' \in Nat
    BY <1>6 DEF SystemdShow, Mishap
  <2>. QED
    BY <2>1, <2>2, <2>3, <2>4 DEF Types
<1>7. CASE SystemdStop
  BY <1>7, DefTypes, Goes, Ends DEF Types, ManagerTypes, PathTypes, Steps, Places,
    SystemdStop, paths, Systemctl, definition, Command, Mishap, manager
<1>8. CASE SystemdWrite
  <2>1. CallTypes'
    BY <1>8, Goes, Ends DEF Steps, Places, SystemdWrite
  <2>2. ManagerTypes'
    BY <1>8, DefTypes, ProcTypes DEF ManagerTypes, Processes, Op, SystemdWrite, On, Mishap,
      Target
  <2>3. PathTypes'
    BY <1>8 DEF PathTypes, SystemdWrite
  <2>4. left' \in Nat
    BY <1>8 DEF SystemdWrite, Mishap
  <2>. QED
    BY <2>1, <2>2, <2>3, <2>4 DEF Types
<1>9. CASE SystemdReload
  <2>1. CallTypes'
    BY <1>9, Goes, Ends DEF Steps, Places, SystemdReload, Systemctl, Command
  <2>2. ManagerTypes'
    BY <1>9, DefTypes, ProcTypes DEF ManagerTypes, Processes, Op, SystemdReload, On, paths,
      Systemctl, Reloaded, Command, Mishap, manager, definition, Target
  <2>3. PathTypes'
    BY <1>9 DEF PathTypes, SystemdReload, paths
  <2>4. left' \in Nat
    BY <1>9 DEF SystemdReload, Mishap, Systemctl, Command
  <2>. QED
    BY <2>1, <2>2, <2>3, <2>4 DEF Types
<1>10. CASE SystemdEnable
  <2>1. CallTypes'
    BY <1>10, Goes, Ends DEF Steps, Places, SystemdEnable, Systemctl, Command
  <2>2. ManagerTypes'
    BY <1>10, DefTypes, ProcTypes, TargetFacts DEF ManagerTypes, Processes, Op,
      SystemdEnable, On, paths, Systemctl, Reloaded, Command, Mishap, manager, definition,
      Target
  <2>3. PathTypes'
    BY <1>10 DEF PathTypes, SystemdEnable, paths
  <2>4. left' \in Nat
    BY <1>10 DEF SystemdEnable, Mishap, Systemctl, Command
  <2>. QED
    BY <2>1, <2>2, <2>3, <2>4 DEF Types
<1>11. CASE SystemdReset
  BY <1>11, Goes, Ends DEF Types, ManagerTypes, PathTypes, Steps, Places, SystemdReset,
    paths, Systemctl, manager, Command, Mishap, definition
<1>12. CASE SystemdStart
  BY <1>12, ProcTypes, Goes, Ends DEF Types, ManagerTypes, PathTypes, Steps, Places,
    SystemdStart, paths, Systemctl, definition, Command, Mishap, manager
<1>13. CASE SystemdValidate
  <2>1. CallTypes'
    BY <1>13, Ends DEF SystemdValidate
  <2>2. ManagerTypes'
    BY <1>13, DefTypes, ProcTypes DEF ManagerTypes, Processes, Op, SystemdValidate, On,
      paths, Queried, MaskSeen, IsLoaded, Mishap, Target
  <2>3. PathTypes'
    BY <1>13 DEF PathTypes, SystemdValidate, paths
  <2>4. left' \in Nat
    BY <1>13 DEF SystemdValidate, Mishap
  <2>. QED
    BY <2>1, <2>2, <2>3, <2>4 DEF Types
<1>14. CASE SystemdDisable
  <2>1. CallTypes'
    BY <1>14, Goes, Ends DEF Steps, Places, SystemdDisable, Systemctl, Command
  <2>2. ManagerTypes'
    BY <1>14, DefTypes, ProcTypes DEF ManagerTypes, Processes, Op, SystemdDisable, On,
      paths, Systemctl, Reloaded, Command, Mishap, manager, definition, Target
  <2>3. PathTypes'
    BY <1>14 DEF PathTypes, SystemdDisable, paths
  <2>4. left' \in Nat
    BY <1>14 DEF SystemdDisable, Mishap, Systemctl, Command
  <2>. QED
    BY <2>1, <2>2, <2>3, <2>4 DEF Types
<1>15. CASE SystemdUnmask
  <2>1. CallTypes'
    BY <1>15, Goes, Ends DEF Steps, Places, SystemdUnmask, Systemctl, Command
  <2>2. ManagerTypes'
    BY <1>15, DefTypes, ProcTypes DEF ManagerTypes, Processes, Op, SystemdUnmask, On,
      paths, Systemctl, Command, Mishap, manager, definition, Target
  <2>3. PathTypes'
    BY <1>15 DEF PathTypes, SystemdUnmask, paths
  <2>4. left' \in Nat
    BY <1>15 DEF SystemdUnmask, Mishap, Systemctl, Command
  <2>. QED
    BY <2>1, <2>2, <2>3, <2>4 DEF Types
<1>16. CASE SystemdDelete
  <2>1. CallTypes'
    BY <1>16, Goes, Ends DEF Steps, Places, SystemdDelete
  <2>2. ManagerTypes'
    BY <1>16, DefTypes, ProcTypes DEF ManagerTypes, Processes, Op, SystemdDelete, On,
      Owned, Mishap, paths, Target
  <2>3. PathTypes'
    BY <1>16 DEF PathTypes, SystemdDelete, paths
  <2>4. left' \in Nat
    BY <1>16 DEF SystemdDelete, Mishap
  <2>. QED
    BY <2>1, <2>2, <2>3, <2>4 DEF Types
<1>. QED
  BY <1>1, <1>2, <1>3, <1>4, <1>5, <1>6, <1>7, <1>8, <1>9, <1>10, <1>11, <1>12, <1>13,
    <1>14, <1>15, <1>16 DEF SystemdCall

\* The calls of macOS keep it.
LEMMA LaunchdKeepsTypes ==
  ASSUME Types, LaunchdCall PROVE Types'
<1>. /\ platform = "launchd" /\ UNCHANGED platform /\ call.pc # "idle" /\ CallTypes /\ Op
     /\ ManagerTypes /\ PathTypes /\ left \in Nat
  BY LaunchdActs DEF Types
<1>1. CASE LaunchdBegin
  BY <1>1, DirTypes, Ends, LaunchdBegun DEF Types, ManagerTypes, PathTypes, LaunchdBegin,
    Mishap, manager, definition
<1>2. CASE LaunchdPrint
  BY <1>2, Goes, Ends DEF Types, ManagerTypes, PathTypes, Steps, Places, LaunchdPrint,
    paths, Install, LaunchdStatus, Mishap, manager, definition
<1>3. CASE LaunchdBootout
  BY <1>3, DefTypes, Goes, Ends DEF Types, ManagerTypes, PathTypes, Processes, Steps,
    Places, LaunchdBootout, paths, Command, BootedOut, Install, manager, Mishap, definition
<1>4. CASE LaunchdWrite
  BY <1>4, DefTypes, Goes, Ends DEF Types, ManagerTypes, PathTypes, Op, Target, Steps,
    Places, LaunchdWrite, paths, Mishap
<1>5. CASE LaunchdBootstrap
  BY <1>5, DefTypes, ProcTypes, Goes DEF Types, ManagerTypes, PathTypes, Steps, Places,
    LaunchdBootstrap, paths, Command, Bootstrapped, manager, Mishap, definition
<1>6. CASE LaunchdWait
  BY <1>6, Goes, Ends, Cycles, RetryMark DEF Types, ManagerTypes, PathTypes, Steps, Places,
    LaunchdWait, paths, Mishap, Unconverged, manager, definition
<1>7. CASE LaunchdUnload
  BY <1>7, DefTypes, Goes, Ends, Cycles DEF Types, ManagerTypes, PathTypes, Processes,
    Steps, Places, LaunchdUnload, paths, Command, BootedOut, Unconverged, manager, Mishap,
    definition
<1>8. CASE LaunchdDiscard
  BY <1>8, DefTypes, Ends DEF Types, ManagerTypes, PathTypes, LaunchdDiscard, paths, Mishap
<1>9. CASE LaunchdKickstart
  BY <1>9, ProcTypes, Ends DEF Types, ManagerTypes, PathTypes, LaunchdKickstart, paths,
    Command, definition, manager, Mishap
<1>10. CASE LaunchdDelete
  BY <1>10, DefTypes, Ends DEF Types, ManagerTypes, PathTypes, LaunchdDelete, paths, Mishap
<1>. QED
  BY <1>1, <1>2, <1>3, <1>4, <1>5, <1>6, <1>7, <1>8, <1>9, <1>10 DEF LaunchdCall

\* The calls of Windows keep it.
LEMMA SchedulerKeepsTypes ==
  ASSUME Types, SchedulerCall PROVE Types'
<1>. /\ platform = "scheduler" /\ UNCHANGED platform /\ call.pc # "idle" /\ CallTypes /\ Op
     /\ ManagerTypes /\ PathTypes /\ left \in Nat
  BY SchedulerActs DEF Types
<1>1. CASE SchedulerBegin
  BY <1>1, Goes, Ends DEF Types, ManagerTypes, PathTypes, Steps, Places, SchedulerBegin,
    Mishap, manager, paths, definition
<1>2. CASE SchedulerVet
  BY <1>2, Goes, Ends DEF Types, ManagerTypes, PathTypes, Steps, Places, SchedulerVet,
    manager, paths, definition
<1>3. CASE SchedulerLogs
  BY <1>3, DirTypes, Goes, Ends, MadeMark DEF Types, ManagerTypes, PathTypes, Steps,
    Places, SchedulerLogs, Mishap, manager, definition
<1>4. CASE SchedulerSeal
  BY <1>4, DirTypes, Goes, Ends DEF Types, ManagerTypes, PathTypes, Steps, Places,
    SchedulerSeal, Rejected, Mishap, manager, definition
<1>5. CASE SchedulerState
  <2>1. CallTypes'
    BY <1>5, Ends, StateMark
  <2>2. ManagerTypes'
    BY <1>5 DEF ManagerTypes, SchedulerState, manager, definition
  <2>3. PathTypes'
    BY <1>5 DEF PathTypes, SchedulerState, paths
  <2>4. left' \in Nat
    BY <1>5 DEF SchedulerState, Mishap
  <2>. QED
    BY <2>1, <2>2, <2>3, <2>4 DEF Types
<1>6. CASE SchedulerMatch
  BY <1>6, Goes, Ends DEF Types, ManagerTypes, PathTypes, Steps, Places, SchedulerMatch,
    paths, Mishap, Unresolved, manager, definition
<1>7. CASE SchedulerStage
  BY <1>7, Goes, Ends DEF Types, ManagerTypes, PathTypes, Steps, Places, SchedulerStage,
    paths, Mishap, manager, definition
<1>8. CASE SchedulerDisable
  <2>1. CallTypes'
    BY <1>8, Goes, Undoes DEF Steps, Places, SchedulerDisable, Command, Replacing
  <2>2. ManagerTypes'
    BY <1>8, DefTypes, ProcTypes DEF ManagerTypes, Processes, Op, SchedulerDisable, On,
      paths, Command, Replacing, manager, Mishap, definition, Exists, Busy, TaskState,
      Target
  <2>3. PathTypes'
    BY <1>8 DEF PathTypes, SchedulerDisable, paths
  <2>4. left' \in Nat
    BY <1>8 DEF SchedulerDisable, Mishap, Command
  <2>. QED
    BY <2>1, <2>2, <2>3, <2>4 DEF Types
<1>9. CASE SchedulerEnd
  BY <1>9, SchedulerEnded DEF Types, ManagerTypes, PathTypes, Processes, SchedulerEnd,
    Command, definition, manager, Mishap, paths
<1>10. CASE SchedulerCheck
  BY <1>10, Goes, Undoes DEF Types, ManagerTypes, PathTypes, Steps, Places, SchedulerCheck,
    paths, Replacing, Mishap, manager, definition
<1>11. CASE SchedulerWait
  BY <1>11, Goes, Undoes DEF Types, ManagerTypes, PathTypes, Steps, Places, SchedulerWait,
    paths, Replacing, Mishap, manager, definition
<1>12. CASE SchedulerCreate
  <2>1. CallTypes'
    BY <1>12, Goes, Ends, Undoes DEF Steps, Places, SchedulerCreate, Command
  <2>2. ManagerTypes'
    BY <1>12, DefTypes, ProcTypes DEF ManagerTypes, Processes, Op, SchedulerCreate, On,
      paths, Command, manager, Mishap, definition, Exists, Busy, TaskState, Target
  <2>3. PathTypes'
    BY <1>12 DEF PathTypes, SchedulerCreate, paths
  <2>4. left' \in Nat
    BY <1>12 DEF SchedulerCreate, Mishap, Command
  <2>. QED
    BY <2>1, <2>2, <2>3, <2>4 DEF Types
<1>13. CASE SchedulerDelete
  <2>1. CallTypes'
    BY <1>13, Ends, Undoes DEF SchedulerDelete, Command
  <2>2. ManagerTypes'
    BY <1>13, DefTypes, ProcTypes DEF ManagerTypes, Processes, Op, SchedulerDelete, On,
      paths, Command, manager, Mishap, definition, Exists, Busy, TaskState, Target
  <2>3. PathTypes'
    BY <1>13 DEF PathTypes, SchedulerDelete, paths
  <2>4. left' \in Nat
    BY <1>13 DEF SchedulerDelete, Mishap, Command
  <2>. QED
    BY <2>1, <2>2, <2>3, <2>4 DEF Types
<1>14. CASE SchedulerRun
  BY <1>14, ProcTypes, Ends DEF Types, ManagerTypes, PathTypes, SchedulerRun, paths,
    Command, Ran, manager, Mishap, definition
<1>15. CASE SchedulerRestore
  <2>1. CallTypes'
    BY <1>15, Goes, Ends DEF Steps, Places, SchedulerRestore, Command
  <2>2. ManagerTypes'
    BY <1>15, DefTypes, ProcTypes DEF ManagerTypes, Processes, Op, SchedulerRestore, On,
      paths, manager, Command, definition, Mishap, Exists, Busy, TaskState, Target
  <2>3. PathTypes'
    BY <1>15 DEF PathTypes, SchedulerRestore, paths
  <2>4. left' \in Nat
    BY <1>15 DEF SchedulerRestore, Mishap, Command
  <2>. QED
    BY <2>1, <2>2, <2>3, <2>4 DEF Types
<1>16. CASE SchedulerRerun
  BY <1>16, ProcTypes, Ends DEF Types, ManagerTypes, PathTypes, SchedulerRerun, paths,
    Command, Ran, manager, Mishap, definition
<1>. QED
  BY <1>1, <1>2, <1>3, <1>4, <1>5, <1>6, <1>7, <1>8, <1>9, <1>10, <1>11, <1>12, <1>13,
    <1>14, <1>15, <1>16 DEF SchedulerCall

\* So do the environment, the beginning of a call and the end of the mishaps.
LEMMA EnvironmentKeepsTypes ==
  ASSUME Types, Environment \/ Begin \/ Settle PROVE Types'
<1>. UNCHANGED platform /\ CallTypes /\ ManagerTypes /\ PathTypes /\ left \in Nat
  BY EnvironmentActs DEF Types
<1>1. CASE Exit
  BY <1>1, DefTypes DEF Types, ManagerTypes, PathTypes, Processes, CallTypes, Exit, Mishap,
    paths, definition
<1>2. CASE Restart
  BY <1>2, ProcTypes DEF Types, ManagerTypes, PathTypes, Processes, CallTypes, Restart,
    Startable, paths, definition
<1>3. CASE StopEnds
  BY <1>3, DefTypes DEF Types, ManagerTypes, PathTypes, CallTypes, StopEnds, paths
<1>4. CASE Login
  <2>1. CallTypes'
    BY <1>4, Leaves DEF Login
  <2>2. ManagerTypes'
    BY <1>4, DefTypes, ProcTypes DEF ManagerTypes, Processes, Op, Login, Mishap,
      StartsAtLogin, paths, Stopping, Exists, Busy, Target
  <2>3. PathTypes'
    BY <1>4 DEF PathTypes, Login, paths
  <2>4. left' \in Nat
    BY <1>4 DEF Login, Mishap
  <2>. QED
    BY <2>1, <2>2, <2>3, <2>4 DEF Types
<1>5. CASE MaskUnit
  BY <1>5, DefTypes DEF Types, ManagerTypes, PathTypes, CallTypes, MaskUnit, Mishap
<1>6. CASE Edit
  BY <1>6, DefTypes, Unforeseens DEF Types, ManagerTypes, PathTypes, Edit, Mishap, paths
<1>7. CASE Drift
  BY <1>7, DirTypes, Unforeseens DEF Types, ManagerTypes, PathTypes, Drift, Mishap,
    manager, definition
<1>8. CASE Crash
  BY <1>8, Leaves DEF Types, ManagerTypes, PathTypes, Crash, Mishap, paths, manager,
    definition
<1>9. CASE Begin
  BY <1>9, DefTypes, ProcTypes, DirTypes, Leaves, Targets, Begun DEF Types, ManagerTypes,
    PathTypes, Processes, Op, Target, Steps, Places, Kept, SameCall, CallTypes, Begin,
    definition, paths, Stopping, Exists, Busy
<1>10. CASE Settle
  BY <1>10 DEF Types, ManagerTypes, PathTypes, CallTypes, Settle, paths, manager,
    definition
<1>. QED
  BY <1>1, <1>2, <1>3, <1>4, <1>5, <1>6, <1>7, <1>8, <1>9, <1>10 DEF Environment

--------------------------------------------------------------------------------
(***************************************************************************)
(* Runs is kept: which process runs, and by what definition.               *)
(***************************************************************************)
\* SystemdShow keeps places and processes in order.
LEMMA SystemdShowRuns ==
  ASSUME Types, Runs, SystemdShow PROVE Runs'
<1>. /\ platform = "systemd" /\ platform' = platform /\ CallTypes
     /\ call.op \in {"ensure", "replace", "remove", "status"} /\ call.job \in Jobs
  BY DEF Types, CallTypes, Calls, On, SystemdShow
<1>1. SystemdPlaces'
  BY SystemdShown, Ends DEF SystemdPlaces, At, SameCall, Installs
<1>2. SystemdRuns /\ call.pc = "show"
  BY DEF Runs, SystemdShow, On
<1>3. /\ UNCHANGED <<file, proc>>
      /\ UNCHANGED <<loaded, stale>> \/ (proc.is = "none" /\ loaded' = file /\ stale' = FALSE)
      /\ call'.pc \in {"write", "reload", "disable", "delete"} => proc.is = "none"
      /\ call'.pc \in {"reset", "enable"} => ~stale'
      /\ call'.pc \notin {"start", "validate", "unmask"}
  BY <1>2, SystemdShown, Ends DEF Queried, InForce, SystemdRuns, paths
<1>4. SystemdRuns'
  BY <1>2, <1>3 DEF SystemdRuns, At, Normal, ByHand, IsLoaded
<1>. QED BY <1>1, <1>4 DEF Runs

\* SystemdDelete keeps places and processes in order.
LEMMA SystemdDeleteRuns ==
  ASSUME Types, Runs, SystemdDelete PROVE Runs'
<1>. platform = "systemd" /\ platform' = platform /\ CallTypes /\ call.pc = "delete"
  BY DEF Types, On, SystemdDelete, paths
<1>1. SystemdPlaces /\ SystemdRuns
  BY DEF Runs
<1>2. (SameCall /\ call'.pc = "reload") \/ call'.pc = "idle"
  BY Goes, Ends DEF SystemdDelete, Kept, Steps, Places
<1>3. SystemdPlaces'
  BY <1>1, <1>2 DEF SystemdPlaces, At, SameCall, Installs
<1>4. UNCHANGED <<loaded, proc>> /\ (UNCHANGED <<file, stale>> \/ (file' = NoDef /\ stale'))
  <2>1. UNCHANGED <<loaded, proc>> /\ stale \in BOOLEAN
    BY DEF SystemdDelete, Types, ManagerTypes
  <2>2. CASE file' = NoDef /\ stale' = (stale \/ file # NoDef)
    BY <2>1, <2>2
  <2>3. CASE file' \in {file, NoDef} /\ stale' = (stale \/ file' # file)
    BY <2>1, <2>3
  <2>4. CASE UNCHANGED <<file, stale>>
    BY <2>1, <2>4
  <2>. QED BY <2>1, <2>2, <2>3, <2>4 DEF SystemdDelete
<1>5. SystemdRuns'
  BY <1>1, <1>2, <1>4 DEF SystemdRuns, At, Normal, ByHand, IsLoaded
<1>. QED BY <1>3, <1>5 DEF Runs

\* LaunchdBegin keeps places and processes in order.
LEMMA LaunchdBeginRuns ==
  ASSUME Types, Runs, LaunchdBegin PROVE Runs'
<1>. /\ platform = "launchd" /\ platform' = platform /\ CallTypes /\ call.pc = "begin"
     /\ UNCHANGED <<file, loaded, stale, enabled, proc>>
  BY DEF Types, On, LaunchdBegin, manager, definition
<1>1. LaunchdPlaces /\ LaunchdRuns /\ call.op # "idle"
  BY DEF Runs, Types, CallTypes, Calls
<1>2. \/ SameCall /\ call'.pc = IF call.op = "remove" THEN "bootout" ELSE "print"
      \/ call'.pc = "idle"
  BY Ends, LaunchdBegun
<1>3. LaunchdPlaces'
  BY <1>1, <1>2 DEF LaunchdPlaces, At, SameCall, Installs
<1>4. LaunchdRuns'
  BY <1>1, <1>2 DEF LaunchdRuns, At, Normal, ByHand, Stopping
<1>. QED BY <1>3, <1>4 DEF Runs

\* SchedulerMatch keeps places and processes in order.
LEMMA SchedulerMatchRuns ==
  ASSUME Types, Runs, SchedulerMatch PROVE Runs'
<1>. /\ platform = "scheduler" /\ platform' = platform /\ CallTypes /\ call.pc = "match"
     /\ UNCHANGED <<file, loaded, stale, enabled, proc>>
  BY DEF Types, On, SchedulerMatch, manager, definition
<1>1. SchedulerPlaces /\ SchedulerRuns
  BY DEF Runs
<1>2. (Kept /\ call'.pc \in {"run", "stage"}) \/ call'.pc = "idle"
  BY Goes, Ends DEF SchedulerMatch, Steps, Places
<1>3. SchedulerPlaces'
  BY <1>1, <1>2 DEF SchedulerPlaces, At, SameCall, Kept, Installs
<1>4. SchedulerRuns'
  BY <1>1, <1>2 DEF SchedulerRuns, At, Normal, ByHand, Exists, Busy, Kept
<1>. QED BY <1>3, <1>4 DEF Runs

\* SchedulerEnd keeps places and processes in order.
LEMMA SchedulerEndRuns ==
  ASSUME Types, Runs, SchedulerEnd PROVE Runs'
<1>. platform = "scheduler" /\ platform' = platform /\ CallTypes /\ call.pc = "end"
  BY DEF Types, On, SchedulerEnd
<1>1. SchedulerPlaces /\ SchedulerRuns /\ proc \in Processes
  BY DEF Runs, Types, ManagerTypes
<1>2. SchedulerPlaces'
  BY <1>1, SchedulerEnded DEF SchedulerPlaces, At, SameCall, Kept, Installs
<1>3. /\ UNCHANGED <<file, loaded, stale, enabled>>
      /\ proc' \in {proc, IF Busy THEN [proc EXCEPT !.is = "stopping"] ELSE proc}
  BY DEF SchedulerEnd, Command, definition, manager
<1>4. proc' = proc \/ (Busy /\ Busy' /\ proc'.is = "stopping" /\ proc'.raced = proc.raced)
  BY <1>1, <1>3 DEF Processes, Busy
<1>5. SchedulerRuns'
  BY <1>1, <1>3, <1>4, SchedulerEnded DEF SchedulerRuns, At, Normal, ByHand, Exists, Busy, Kept
<1>. QED BY <1>2, <1>5 DEF Runs

\* The calls of Linux keep it.
LEMMA SystemdKeepsRuns ==
  ASSUME Types, Runs, SystemdCall PROVE Runs'
<1>. /\ platform = "systemd" /\ UNCHANGED platform /\ call.pc # "idle" /\ CallTypes /\ Op
     /\ ManagerTypes /\ PathTypes /\ left \in Nat
     /\ SystemdPlaces /\ SystemdRuns
  BY SystemdActs DEF Types, Runs
<1>1. CASE SystemdBegin
  BY <1>1, Goes, Ends, Marked DEF Runs, SystemdPlaces, SystemdRuns, At, Steps, Places,
    Kept, SameCall, Installs, Normal, SystemdBegin, manager, definition
<1>2. CASE SystemdVet
  BY <1>2, Goes, Ends DEF Runs, SystemdPlaces, SystemdRuns, At, Steps, Places, Kept,
    SameCall, Installs, Normal, SystemdVet, On, manager, definition
<1>3. CASE SystemdLogs
  BY <1>3, Goes, Ends DEF Runs, SystemdPlaces, SystemdRuns, At, Steps, Places, Kept,
    SameCall, Installs, Normal, SystemdLogs, On, manager, definition
<1>4. CASE SystemdRead
  BY <1>4, Ends, ReadMark DEF Runs, SystemdPlaces, SystemdRuns, At, Normal, SystemdRead,
    manager, definition
<1>5. CASE SystemdRemovable
  BY <1>5, Goes, Ends DEF Runs, SystemdPlaces, SystemdRuns, At, Steps, Places, Normal,
    SystemdRemovable, manager, definition
<1>6. CASE SystemdShow
  BY <1>6, SystemdShowRuns
<1>7. CASE SystemdStop
  BY <1>7, Goes, Ends, Literals DEF Runs, SystemdPlaces, SystemdRuns, At, Steps, Places,
    Kept, SameCall, Op, Installs, Normal, SystemdStop, On, Systemctl, definition, Command,
    manager
<1>8. CASE SystemdWrite
  BY <1>8, Goes, Ends DEF Runs, SystemdPlaces, SystemdRuns, At, Steps, Places, Kept,
    SameCall, Installs, SystemdWrite, On
<1>9. CASE SystemdReload
  BY <1>9, Goes, Ends DEF Runs, SystemdPlaces, SystemdRuns, At, Steps, Places, Kept,
    SameCall, Op, Installs, SystemdReload, On, Systemctl, Reloaded, Command, manager,
    definition
<1>10. CASE SystemdEnable
  BY <1>10, Goes, Ends, Literals DEF Runs, SystemdPlaces, SystemdRuns, At, Steps, Places,
    Kept, SameCall, Installs, IsLoaded, Normal, ByHand, SystemdEnable, On, Systemctl,
    Reloaded, Command, manager, definition
<1>11. CASE SystemdReset
  BY <1>11, Goes, Ends DEF Runs, SystemdPlaces, SystemdRuns, At, Steps, Places, Kept,
    SameCall, Installs, Normal, SystemdReset, On, Systemctl, manager, Command, definition
<1>12. CASE SystemdStart
  BY <1>12, Goes, Ends, ProcTypes DEF Runs, SystemdPlaces, SystemdRuns, At, Steps, Places,
    Kept, SameCall, Installs, Normal, ManagerTypes, SystemdStart, On, Systemctl,
    definition, Command, manager
<1>13. CASE SystemdValidate
  BY <1>13, Ends DEF Runs, SystemdPlaces, SystemdRuns, At, Normal, SystemdValidate, Queried
<1>14. CASE SystemdDisable
  BY <1>14, Goes, Ends DEF Runs, SystemdPlaces, SystemdRuns, At, Steps, Places, Kept,
    SameCall, SystemdDisable, On, Systemctl, Reloaded, Command, manager, definition
<1>15. CASE SystemdUnmask
  BY <1>15, Goes, Ends DEF Runs, SystemdPlaces, SystemdRuns, At, Steps, Places, Kept,
    SameCall, SystemdUnmask, On, Systemctl, Command, manager, definition
<1>16. CASE SystemdDelete
  BY <1>16, SystemdDeleteRuns
<1>. QED
  BY <1>1, <1>2, <1>3, <1>4, <1>5, <1>6, <1>7, <1>8, <1>9, <1>10, <1>11, <1>12, <1>13,
    <1>14, <1>15, <1>16 DEF SystemdCall

\* The calls of macOS keep it.
LEMMA LaunchdKeepsRuns ==
  ASSUME Types, Runs, LaunchdCall PROVE Runs'
<1>. /\ platform = "launchd" /\ UNCHANGED platform /\ call.pc # "idle" /\ CallTypes /\ Op
     /\ ManagerTypes /\ PathTypes /\ left \in Nat
     /\ LaunchdPlaces /\ LaunchdRuns
  BY LaunchdActs DEF Types, Runs
<1>1. CASE LaunchdBegin
  BY <1>1, LaunchdBeginRuns
<1>2. CASE LaunchdPrint
  BY <1>2, Goes, Ends DEF Runs, LaunchdPlaces, LaunchdRuns, At, Steps, Places, Kept,
    SameCall, Installs, Normal, LaunchdPrint, IsHeld, Install, LaunchdStatus, manager,
    definition, Stopping
<1>3. CASE LaunchdBootout
  BY <1>3, Goes, Ends, Literals DEF Runs, LaunchdPlaces, LaunchdRuns, At, Steps, Places,
    Kept, SameCall, Op, Installs, Normal, ManagerTypes, Processes, LaunchdBootout, On,
    Command, BootedOut, Install, manager, definition, Stopping
<1>4. CASE LaunchdWrite
  BY <1>4, Goes, Ends, Literals DEF Runs, LaunchdPlaces, LaunchdRuns, At, Steps, Places,
    Kept, SameCall, Op, Installs, Target, LaunchdWrite, On, Stopping
<1>5. CASE LaunchdBootstrap
  BY <1>5, Goes, ProcTypes, Literals DEF Runs, LaunchdPlaces, LaunchdRuns, At, Steps,
    Places, Kept, SameCall, Installs, Normal, ManagerTypes, LaunchdBootstrap, On, Command,
    Bootstrapped, manager, definition, Stopping
<1>6. CASE LaunchdWait
  BY <1>6, Goes, Ends, Cycles, RetryMark DEF Runs, LaunchdPlaces, LaunchdRuns, At, Steps,
    Places, Kept, SameCall, Installs, Normal, LaunchdWait, On, Stopping, Unconverged,
    manager, definition
<1>7. CASE LaunchdUnload
  BY <1>7, Goes, Ends, Cycles, Literals DEF Runs, LaunchdPlaces, LaunchdRuns, At, Steps,
    Places, Kept, SameCall, Installs, Normal, ManagerTypes, Processes, LaunchdUnload, On,
    Command, BootedOut, Unconverged, manager, definition, Stopping
<1>8. CASE LaunchdDiscard
  BY <1>8, Ends, Literals DEF Runs, LaunchdPlaces, LaunchdRuns, At, Normal, LaunchdDiscard,
    Stopping
<1>9. CASE LaunchdKickstart
  BY <1>9, Ends, ProcTypes DEF Runs, LaunchdPlaces, LaunchdRuns, At, Normal, ByHand,
    ManagerTypes, LaunchdKickstart, Command, IsHeld, Stopping, definition, manager
<1>10. CASE LaunchdDelete
  BY <1>10, Ends, Literals DEF Runs, LaunchdPlaces, LaunchdRuns, At, LaunchdDelete, On,
    Stopping
<1>. QED
  BY <1>1, <1>2, <1>3, <1>4, <1>5, <1>6, <1>7, <1>8, <1>9, <1>10 DEF LaunchdCall

\* The calls of Windows keep it.
LEMMA SchedulerKeepsRuns ==
  ASSUME Types, Runs, SchedulerCall PROVE Runs'
<1>. /\ platform = "scheduler" /\ UNCHANGED platform /\ call.pc # "idle" /\ CallTypes /\ Op
     /\ ManagerTypes /\ PathTypes /\ left \in Nat
     /\ SchedulerPlaces /\ SchedulerRuns
  BY SchedulerActs DEF Types, Runs
<1>1. CASE SchedulerBegin
  BY <1>1, Goes, Ends DEF Runs, SchedulerPlaces, SchedulerRuns, At, Steps, Places, Kept,
    SameCall, Installs, Normal, SchedulerBegin, manager, definition, Exists
<1>2. CASE SchedulerVet
  BY <1>2, Goes, Ends DEF Runs, SchedulerPlaces, SchedulerRuns, At, Steps, Places, Kept,
    SameCall, Installs, Normal, SchedulerVet, On, manager, definition, Exists
<1>3. CASE SchedulerLogs
  BY <1>3, Goes, Ends, MadeMark DEF Runs, SchedulerPlaces, SchedulerRuns, At, Steps,
    Places, Kept, SameCall, Installs, Normal, SchedulerLogs, On, manager, definition,
    Exists
<1>4. CASE SchedulerSeal
  BY <1>4, Goes, Ends DEF Runs, SchedulerPlaces, SchedulerRuns, At, Steps, Places, Normal,
    SchedulerSeal, Rejected, manager, definition, Exists
<1>5. CASE SchedulerState
  BY <1>5, Goes, Ends, StateMark, ProcTypes, Literals, DefTypes DEF Runs, SchedulerPlaces,
    SchedulerRuns, At, Steps, Places, Kept, SameCall, Op, Installs, IsLoaded, Target,
    Normal, ByHand, ManagerTypes, Processes, SchedulerState, On, manager, definition,
    paths, Exists, Busy, TaskState
<1>6. CASE SchedulerMatch
  BY <1>6, SchedulerMatchRuns
<1>7. CASE SchedulerStage
  BY <1>7, Goes, Ends DEF Runs, SchedulerPlaces, SchedulerRuns, At, Steps, Places, Kept,
    SameCall, Installs, Normal, SchedulerStage, On, manager, definition, Exists, Busy
<1>8. CASE SchedulerDisable
  BY <1>8, Goes, Undoes DEF Runs, SchedulerPlaces, SchedulerRuns, At, Steps, Places, Kept,
    SameCall, Op, Installs, Normal, SchedulerDisable, On, Command, Replacing, manager,
    definition, Exists, Busy
<1>9. CASE SchedulerEnd
  BY <1>9, SchedulerEndRuns
<1>10. CASE SchedulerCheck
  BY <1>10, Goes, Undoes DEF Runs, SchedulerPlaces, SchedulerRuns, At, Steps, Places, Kept,
    SameCall, Op, Installs, Normal, SchedulerCheck, On, Replacing, manager, definition,
    Exists, Busy
<1>11. CASE SchedulerWait
  BY <1>11, Goes, Undoes DEF Runs, SchedulerPlaces, SchedulerRuns, At, Steps, Places, Kept,
    SameCall, Op, Installs, Normal, SchedulerWait, On, Replacing, manager, definition,
    Exists, Busy
<1>12. CASE SchedulerCreate
  BY <1>12, Goes, Ends, Undoes, Literals DEF Runs, SchedulerPlaces, SchedulerRuns, At,
    Steps, Places, Kept, SameCall, Op, Installs, Target, SchedulerCreate, On, Command,
    manager, definition, Exists, Busy
<1>13. CASE SchedulerDelete
  BY <1>13, Ends, Undoes, Literals DEF Runs, SchedulerPlaces, SchedulerRuns, At, Kept,
    SameCall, ManagerTypes, Processes, SchedulerDelete, On, Command, manager, definition,
    Exists, Busy
<1>14. CASE SchedulerRun
  BY <1>14, Ends, ProcTypes DEF Runs, SchedulerPlaces, SchedulerRuns, At, Normal,
    ManagerTypes, SchedulerRun, Command, Ran, manager, definition, Exists
<1>15. CASE SchedulerRestore
  BY <1>15, Goes, Ends DEF Runs, SchedulerPlaces, SchedulerRuns, At, Steps, Places, Kept,
    SameCall, Normal, SchedulerRestore, On, manager, Command, definition, Exists
<1>16. CASE SchedulerRerun
  BY <1>16, Ends, ProcTypes DEF Runs, SchedulerPlaces, SchedulerRuns, At, Normal,
    ManagerTypes, SchedulerRerun, Command, Ran, manager, definition, Exists
<1>. QED
  BY <1>1, <1>2, <1>3, <1>4, <1>5, <1>6, <1>7, <1>8, <1>9, <1>10, <1>11, <1>12, <1>13,
    <1>14, <1>15, <1>16 DEF SchedulerCall

\* So do the environment, the beginning of a call and the end of the mishaps.
LEMMA EnvironmentKeepsRuns ==
  ASSUME Types, Runs, Environment \/ Begin \/ Settle PROVE Runs'
<1>. UNCHANGED platform /\ CallTypes /\ ManagerTypes /\ PathTypes /\ left \in Nat
  BY EnvironmentActs DEF Types
<1>1. CASE Exit
  BY <1>1, Literals DEF Runs, SystemdPlaces, SystemdRuns, LaunchdPlaces, LaunchdRuns,
    SchedulerPlaces, SchedulerRuns, At, Installs, Normal, ManagerTypes, Processes, Exit,
    definition, Stopping, Exists, Busy
<1>2. CASE Restart
  BY <1>2, ProcTypes DEF Runs, SystemdPlaces, SystemdRuns, LaunchdPlaces, LaunchdRuns,
    SchedulerPlaces, SchedulerRuns, At, Installs, Normal, ByHand, ManagerTypes, Restart,
    Startable, definition, Stopping, Exists
<1>3. CASE StopEnds
  BY <1>3, Literals DEF Runs, SystemdRuns, LaunchdPlaces, LaunchdRuns, SchedulerPlaces,
    SchedulerRuns, At, Installs, StopEnds, Exists, Busy
<1>4. CASE Login
  BY <1>4, ProcTypes, Literals, DefTypes, Leaves, Targets DEF Runs, SystemdPlaces,
    SystemdRuns, LaunchdPlaces, LaunchdRuns, SchedulerPlaces, SchedulerRuns, At, Installs,
    IsLoaded, Normal, ByHand, ManagerTypes, Processes, CallTypes, SameCall, Login, Mishap,
    StartsAtLogin, paths, Stopping, Exists, Busy
<1>5. CASE MaskUnit
  BY <1>5 DEF Runs, SystemdPlaces, SystemdRuns, At, Installs, Normal, ByHand, MaskUnit
<1>6. CASE Edit
  <2>1. CASE platform = "systemd"
    <3>. SystemdPlaces /\ SystemdRuns /\ platform' = platform
      BY <1>6, <2>1 DEF Runs
    <3>1. SystemdPlaces'
      BY <1>6, Unforeseens DEF At, SystemdPlaces, Installs, Edit
    <3>2. SystemdRuns'
      BY <1>6, <2>1, ProcTypes, Literals, DefTypes, Leaves, Targets, Unforeseens DEF
        SystemdPlaces, SystemdRuns, At, Installs, IsLoaded, Normal, ByHand, ManagerTypes,
        Processes, CallTypes, SameCall, Edit, Mishap, paths, Stopping, Exists, Busy
    <3>. QED
      BY <2>1, <3>1, <3>2 DEF Runs
  <2>2. CASE platform = "launchd"
    <3>. LaunchdPlaces /\ LaunchdRuns /\ platform' = platform
      BY <1>6, <2>2 DEF Runs
    <3>1. LaunchdPlaces'
      BY <1>6, Unforeseens DEF At, LaunchdPlaces, Installs, Edit
    <3>2. LaunchdRuns'
      BY <1>6, Literals, Unforeseens DEF LaunchdRuns, At, Normal, ByHand, Edit, Stopping
    <3>. QED
      BY <2>2, <3>1, <3>2 DEF Runs
  <2>3. CASE platform = "scheduler"
    <3>. SchedulerPlaces /\ SchedulerRuns /\ platform' = platform
      BY <1>6, <2>3 DEF Runs
    <3>1. SchedulerPlaces'
      BY <1>6, Unforeseens DEF At, SchedulerPlaces, Installs, Edit
    <3>2. SchedulerRuns'
      BY <1>6, Literals, Unforeseens DEF SchedulerRuns, At, Normal, ByHand, Edit, Exists,
        Busy
    <3>. QED
      BY <2>3, <3>1, <3>2 DEF Runs
  <2>. QED
    BY <2>1, <2>2, <2>3 DEF Types
<1>7. CASE Drift
  BY <1>7, Unforeseens DEF Runs, SystemdPlaces, SystemdRuns, LaunchdPlaces, LaunchdRuns,
    SchedulerPlaces, SchedulerRuns, At, Installs, Normal, Drift, manager, definition,
    Stopping, Exists, Busy
<1>8. CASE Crash
  BY <1>8, Leaves DEF Runs, SystemdPlaces, SystemdRuns, LaunchdPlaces, LaunchdRuns,
    SchedulerPlaces, SchedulerRuns, At, Normal, Crash, manager, definition, Stopping,
    Exists
<1>9. CASE Begin
  BY <1>9, ProcTypes, Literals, DefTypes, Leaves, Targets, Begun DEF Runs, SystemdPlaces,
    SystemdRuns, LaunchdPlaces, LaunchdRuns, SchedulerPlaces, SchedulerRuns, At, Installs,
    IsLoaded, Normal, ByHand, ManagerTypes, Processes, CallTypes, SameCall, Begin,
    definition, paths, Stopping, Exists, Busy
<1>10. CASE Settle
  BY <1>10 DEF Runs, SystemdPlaces, SystemdRuns, LaunchdPlaces, LaunchdRuns,
    SchedulerPlaces, SchedulerRuns, At, Installs, Normal, Settle, manager, definition,
    Stopping, Exists, Busy
<1>. QED
  BY <1>1, <1>2, <1>3, <1>4, <1>5, <1>6, <1>7, <1>8, <1>9, <1>10 DEF Environment

--------------------------------------------------------------------------------
(***************************************************************************)
(* Agrees is kept, and a call that returns nil has done what it owes.      *)
(***************************************************************************)
\* SystemdShow keeps what is agreed, and returns nil only when it owes nothing.
LEMMA SystemdShowAgrees ==
  ASSUME Types, Runs, Agrees, SystemdShow PROVE Agrees' /\ ConvergedStep
<1>. platform = "systemd" /\ platform' = platform /\ CallTypes /\ call.pc = "show" /\ Op
  BY Ops DEF Types, On, SystemdShow
<1>1. SystemdPlaces /\ SystemdRuns /\ SystemdAgrees
  BY DEF Runs, Agrees, Types
<1>2. /\ UNCHANGED <<file, enabled, proc>>
      /\ UNCHANGED <<loaded, stale>> \/ (proc.is = "none" /\ loaded' = file /\ stale' = FALSE)
  BY SystemdShown DEF Queried
<1>6. SystemdAgrees'
  <2>3. CASE call'.pc = "idle" /\ call'.op = "none"
    BY <1>1, <1>2, <2>3 DEF SystemdAgrees, At, Installs
  <2>4. CASE /\ SameCall /\ call'.changed = call.changed /\ Installs
             /\ call'.pc \in {"reset", "enable", "stop", "write", "reload"}
             /\ (call'.pc \in {"reset", "enable"} => call.op = "ensure" /\ InForce)
             /\ (call'.pc = "reload" => ~call.changed)
    <3>1. /\ Installs' /\ Target' = Target /\ call'.drift = call.drift
          /\ call'.op = call.op /\ call.op # "remove"
      BY <2>4, Targets DEF SameCall, Installs
    <3>. QED BY <1>1, <1>2, <2>4, <3>1 DEF SystemdAgrees, At, InForce, SameCall, Installs
  <2>5. CASE /\ call.op = "remove" /\ SameCall /\ call'.known = (loaded' # NoDef \/ file # NoDef)
             /\ call'.pc = IF proc.is # "none" THEN "stop"
                           ELSE IF call'.known THEN "disable" ELSE "delete"
    <3>1. call'.op = "remove" /\ ~Installs'
      BY <2>5 DEF SameCall, Installs
    <3>2. IsLoaded(loaded) => loaded # NoDef
      BY Literals DEF IsLoaded
    <3>3. proc.is # "none" => loaded' # NoDef
      BY <1>1, <1>2, <3>2 DEF SystemdRuns
    <3>. QED BY <1>1, <1>2, <2>5, <3>1, <3>3 DEF SystemdAgrees, At
  <2>6. ASSUME InForce PROVE ~call.changed
    BY <2>6 DEF InForce
  <2>. QED BY <2>3, <2>4, <2>5, <2>6, SystemdShown, Ends
<1>7. ASSUME Returns("ok")
      PROVE \/ call.op = "status"
            \/ /\ call.op = "ensure" /\ ~Unusable /\ InForce /\ enabled = call.job.atLoad
               /\ proc.is = "running"
  BY <1>7, SystemdShown, Ends DEF Returns
<1>8. ASSUME Returns("ok"), call.op = "ensure", ~call.drift PROVE Installed
  <2>1. file = Target
    BY <1>1, <1>7, <1>8 DEF SystemdAgrees, At, Installs, Unusable, MaskSeen, InForce
  <2>2. Target \notin {NoDef} \union ByHand
    BY TargetFacts DEF ByHand
  <2>3. loaded' = file /\ ~stale' /\ proc.body = file.body
    BY <1>1, <1>2, <1>7, <1>8, <2>1, <2>2 DEF SystemdRuns, Normal, InForce
  <2>. QED BY <1>2, <1>7, <1>8, <2>1, <2>3 DEF Installed
<1>9. ConvergedStep
  BY <1>7, <1>8 DEF ConvergedStep, Installs
<1>. QED BY <1>6, <1>9 DEF Agrees

\* SystemdValidate keeps what is agreed, and returns nil only when it owes nothing.
LEMMA SystemdValidateAgrees ==
  ASSUME Types, Runs, Agrees, SystemdValidate PROVE Agrees' /\ ConvergedStep
<1>. platform = "systemd" /\ platform' = platform /\ CallTypes /\ call.pc = "validate" /\ Op
  BY Ops DEF Types, On, SystemdValidate
<1>1. SystemdPlaces /\ SystemdRuns /\ SystemdAgrees
  BY DEF Runs, Agrees, Types
<1>2. /\ UNCHANGED <<file, enabled, proc>>
      /\ UNCHANGED <<loaded, stale>> \/ (proc.is = "none" /\ loaded' = file /\ stale' = FALSE)
  BY DEF SystemdValidate, Queried
<1>3. call'.pc = "idle"
  BY Ends DEF SystemdValidate
<1>4. SystemdAgrees'
  BY <1>1, <1>2, <1>3 DEF SystemdAgrees, At
<1>5. ASSUME Returns("ok")
      PROVE ~MaskSeen /\ ~stale' /\ proc.is = "running" /\ enabled = call.job.atLoad
  BY <1>5, Ends DEF Returns, SystemdValidate
<1>6. ASSUME Returns("ok"), ~call.drift PROVE Installed
  <2>1. file = Target
    BY <1>1, <1>5, <1>6 DEF SystemdAgrees, SystemdPlaces, At, MaskSeen
  <2>2. Target \notin {NoDef} \union ByHand
    BY TargetFacts DEF ByHand
  <2>3. loaded' = file /\ ~stale' /\ proc.body = file.body
    BY <1>1, <1>2, <1>5, <1>6, <2>1, <2>2 DEF SystemdRuns, Normal
  <2>. QED BY <1>2, <1>5, <1>6, <2>1, <2>3 DEF Installed
<1>7. Installs /\ (call.op = "replace" => proc'.is = "none" \/ ~proc'.old)
  BY <1>1, <1>2 DEF SystemdAgrees, SystemdPlaces, At
<1>8. ConvergedStep
  BY <1>6, <1>7 DEF ConvergedStep, Installs, OldProcessGone
<1>. QED BY <1>4, <1>8 DEF Agrees

\* LaunchdPrint keeps what is agreed, and returns nil only when it owes nothing.
LEMMA LaunchdPrintAgrees ==
  ASSUME Types, Runs, Agrees, LaunchdPrint PROVE Agrees' /\ ConvergedStep
<1>. platform = "launchd" /\ platform' = platform /\ CallTypes /\ call.pc = "print" /\ Op
  BY Ops DEF Types, On, LaunchdPrint
<1>1. LaunchdPlaces /\ LaunchdRuns /\ LaunchdAgrees
  BY DEF Runs, Agrees, Types
<1>2. UNCHANGED <<file, loaded, proc, enabled, stale>>
  BY DEF LaunchdPrint, manager, definition
<1>3. \/ /\ call.op = "ensure" /\ ~call.changed /\ IsHeld
         /\ IF LaunchdRunning THEN Return("ok") ELSE Kept /\ call'.pc = "kickstart"
      \/ Installs /\ Kept /\ call'.pc = (IF IsHeld THEN "bootout" ELSE Install)
      \/ call.op = "status" /\ Return("ok")
      \/ Return("fail")
  BY Goes DEF LaunchdPrint, Install, LaunchdStatus, Steps, Places
<1>4. LaunchdAgrees'
  BY <1>1, <1>2, <1>3, Ends, Targets DEF LaunchdAgrees, At, Install, Kept, SameCall, Installs
<1>5. ASSUME Returns("ok"), call.op # "status"
      PROVE call.op = "ensure" /\ ~call.changed /\ loaded # NoDef /\ proc.is = "running"
  BY <1>3, <1>5, Ends DEF Returns, IsHeld, LaunchdRunning, Install
<1>6. ASSUME Returns("ok"), call.op # "status", ~call.drift PROVE Installed
  <2>1. file = Target
    BY <1>1, <1>5, <1>6 DEF LaunchdAgrees, At, Installs
  <2>2. Target \notin {NoDef} \union ByHand /\ Target \notin {NoDef, Edited}
    BY TargetFacts DEF ByHand
  <2>3. loaded = file /\ proc.body = file.body
    BY <1>1, <1>5, <1>6, <2>1, <2>2 DEF LaunchdRuns, Normal, Stopping
  <2>. QED BY <1>2, <2>1, <2>3 DEF Installed
<1>7. ConvergedStep
  BY <1>5, <1>6 DEF ConvergedStep, Installs
<1>. QED BY <1>4, <1>7 DEF Agrees

\* SchedulerMatch keeps what is agreed, and returns nil only when it owes nothing.
LEMMA SchedulerMatchAgrees ==
  ASSUME Types, Runs, Agrees, SchedulerMatch PROVE Agrees' /\ ConvergedStep
<1>. platform = "scheduler" /\ platform' = platform /\ CallTypes /\ call.pc = "match" /\ Op
  BY Ops DEF Types, On, SchedulerMatch
<1>1. SchedulerPlaces /\ SchedulerRuns /\ SchedulerAgrees
  BY DEF Runs, Agrees, Types
<1>2. UNCHANGED <<file, loaded, proc, enabled, stale>>
  BY DEF SchedulerMatch, manager, definition
<1>3. \/ SameTask /\ (IF call.seen THEN Return("ok") ELSE Kept /\ call'.pc = "run")
      \/ Kept /\ call'.pc = "stage"
      \/ Return("fail")
  BY Goes DEF SchedulerMatch, Steps, Places
<1>4. call.op = "ensure" /\ (SameTask => file = Target /\ enabled)
  BY <1>1 DEF SchedulerPlaces, At, SameTask
<1>5. SchedulerAgrees'
  BY <1>1, <1>2, <1>3, <1>4, Ends, Targets DEF SchedulerAgrees, At, Kept, SameCall
<1>6. ASSUME Returns("ok") PROVE SameTask
  BY <1>3, <1>6, Ends DEF Returns
<1>7. ASSUME Returns("ok") PROVE Installed
  <2>1. Target \notin {NoDef} \union ByHand
    BY TargetFacts DEF ByHand
  <2>2. file = Target /\ enabled /\ (proc.is = "running" => proc.raced \/ proc.body = file.body)
    BY <1>1, <1>4, <1>6, <1>7, <2>1 DEF SchedulerRuns, Normal
  <2>. QED BY <1>2, <2>2 DEF Installed
<1>8. ConvergedStep
  BY <1>4, <1>7 DEF ConvergedStep
<1>. QED BY <1>5, <1>8 DEF Agrees

\* SchedulerRun keeps what is agreed, and returns nil only when it owes nothing.
LEMMA SchedulerRunAgrees ==
  ASSUME Types, Runs, Agrees, SchedulerRun PROVE Agrees' /\ ConvergedStep
<1>. platform = "scheduler" /\ platform' = platform /\ CallTypes /\ call.pc = "run" /\ Op
  BY Ops DEF Types, On, SchedulerRun
<1>1. SchedulerPlaces /\ SchedulerRuns /\ SchedulerAgrees /\ file \in Definitions
  BY DEF Runs, Agrees, Types, ManagerTypes
<1>2. /\ UNCHANGED <<file, loaded, enabled, stale>>
      /\ proc' \in {proc, IF Busy THEN proc ELSE Started(file)} /\ call'.pc = "idle" /\ ~call'.known
  BY Ends DEF SchedulerRun, Command, Ran, manager, definition
<1>3. SchedulerAgrees'
  BY <1>1, <1>2 DEF SchedulerAgrees, At
<1>4. ASSUME Returns("ok") PROVE proc' = IF Busy THEN proc ELSE Started(file)
  BY <1>4, Ends DEF Returns, SchedulerRun, Command, Ran
<1>5. /\ enabled /\ Installs /\ (~call.drift => file = Target)
      /\ (call.op = "replace" => (Busy => proc.raced \/ ~proc.old))
  BY <1>1 DEF SchedulerAgrees, SchedulerPlaces, At
<1>6. ASSUME Returns("ok"), ~call.drift PROVE Installed
  <2>1. Target \notin {NoDef} \union ByHand
    BY TargetFacts DEF ByHand
  <2>2. proc.is = "running" => proc.raced \/ proc.body = file.body
    BY <1>1, <1>5, <1>6, <2>1 DEF SchedulerRuns, Normal
  <2>. QED BY <1>1, <1>2, <1>4, <1>5, <1>6, <2>2, ProcTypes DEF Installed, Busy
<1>7. ASSUME Returns("ok"), call.op = "replace" PROVE OldProcessGone
  BY <1>1, <1>4, <1>5, <1>7, ProcTypes DEF OldProcessGone
<1>8. ConvergedStep
  BY <1>5, <1>6, <1>7 DEF ConvergedStep, Installs
<1>. QED BY <1>3, <1>8 DEF Agrees

\* The calls of Linux keep it.
LEMMA SystemdKeepsAgrees ==
  ASSUME Types, Runs, Agrees, SystemdCall PROVE Agrees' /\ ConvergedStep
<1>. /\ platform = "systemd" /\ UNCHANGED platform /\ call.pc # "idle" /\ CallTypes /\ Op
     /\ ManagerTypes /\ PathTypes /\ left \in Nat
     /\ SystemdPlaces /\ SystemdRuns /\ SystemdAgrees
  BY SystemdActs DEF Types, Runs, Agrees
<1>1. CASE SystemdBegin
  BY <1>1, Goes, Ends, Marked DEF Agrees, At, SystemdAgrees, Steps, Places, ConvergedStep,
    Returns, SystemdBegin, manager, definition
<1>2. CASE SystemdVet
  BY <1>2, Goes, Ends DEF Agrees, At, SystemdAgrees, Steps, Places, ConvergedStep, Returns,
    SystemdVet, manager, definition
<1>3. CASE SystemdLogs
  BY <1>3, Goes, Ends DEF Agrees, At, SystemdAgrees, Steps, Places, ConvergedStep, Returns,
    SystemdLogs, manager, definition
<1>4. CASE SystemdRead
  BY <1>4, Goes, Ends, Targets, ReadMark, ProcTypes, Literals, TargetFacts DEF Agrees, At,
    SystemdPlaces, SystemdRuns, SystemdAgrees, Steps, Places, Kept, SameCall, Op, Installs,
    IsLoaded, ManagerTypes, Processes, Normal, ByHand, ConvergedStep, Returns, Installed,
    OldProcessGone, NothingLeft, SystemdRead, On, Owned, Mishap, manager, definition
<1>5. CASE SystemdRemovable
  BY <1>5, Goes, Ends DEF Agrees, At, SystemdPlaces, SystemdAgrees, Steps, Places, Kept,
    SameCall, Installs, ConvergedStep, Returns, SystemdRemovable, On, manager, definition
<1>6. CASE SystemdShow
  BY <1>6, SystemdShowAgrees
<1>7. CASE SystemdStop
  BY <1>7, Goes, Ends, Targets DEF Agrees, At, SystemdAgrees, Steps, Places, Kept,
    SameCall, Installs, ConvergedStep, Returns, SystemdStop, On, Systemctl, definition,
    Command, manager
<1>8. CASE SystemdWrite
  BY <1>8, Goes, Ends, Targets, TargetFacts DEF Agrees, At, SystemdPlaces, SystemdAgrees,
    Steps, Places, Kept, SameCall, Installs, ConvergedStep, Returns, SystemdWrite, On
<1>9. CASE SystemdReload
  BY <1>9, Goes, Ends, Targets DEF Agrees, At, SystemdRuns, SystemdAgrees, Steps, Places,
    Kept, SameCall, Installs, ConvergedStep, Returns, NothingLeft, SystemdReload, On,
    Systemctl, Reloaded, Command, manager, definition
<1>10. CASE SystemdEnable
  BY <1>10, Goes, Ends, Targets DEF Agrees, At, SystemdPlaces, SystemdAgrees, Steps,
    Places, Kept, SameCall, ConvergedStep, Returns, SystemdEnable, On, Systemctl, Command,
    manager, definition
<1>11. CASE SystemdReset
  BY <1>11, Goes, Ends, Targets DEF Agrees, At, SystemdPlaces, SystemdAgrees, Steps,
    Places, Kept, SameCall, ConvergedStep, Returns, SystemdReset, On, Systemctl, manager,
    Command, definition
<1>12. CASE SystemdStart
  BY <1>12, Goes, Ends, Targets, ProcTypes DEF Agrees, At, SystemdPlaces, SystemdAgrees,
    Steps, Places, Kept, SameCall, ManagerTypes, ConvergedStep, Returns, SystemdStart, On,
    Systemctl, definition, Command, manager
<1>13. CASE SystemdValidate
  BY <1>13, SystemdValidateAgrees
<1>14. CASE SystemdDisable
  BY <1>14, Goes, Ends DEF Agrees, At, SystemdPlaces, SystemdAgrees, Steps, Places, Kept,
    ConvergedStep, Returns, SystemdDisable, On, Systemctl, Command, manager, definition
<1>15. CASE SystemdUnmask
  BY <1>15, Goes, Ends DEF Agrees, At, SystemdPlaces, SystemdAgrees, Steps, Places, Kept,
    ConvergedStep, Returns, SystemdUnmask, On, Systemctl, Command, manager, definition
<1>16. CASE SystemdDelete
  BY <1>16, Goes, Ends DEF Agrees, At, SystemdPlaces, SystemdRuns, SystemdAgrees, Steps,
    Places, Kept, SameCall, Installs, ConvergedStep, Returns, NothingLeft, SystemdDelete,
    On
<1>. QED
  BY <1>1, <1>2, <1>3, <1>4, <1>5, <1>6, <1>7, <1>8, <1>9, <1>10, <1>11, <1>12, <1>13,
    <1>14, <1>15, <1>16 DEF SystemdCall

\* The calls of macOS keep it.
LEMMA LaunchdKeepsAgrees ==
  ASSUME Types, Runs, Agrees, LaunchdCall PROVE Agrees' /\ ConvergedStep
<1>. /\ platform = "launchd" /\ UNCHANGED platform /\ call.pc # "idle" /\ CallTypes /\ Op
     /\ ManagerTypes /\ PathTypes /\ left \in Nat
     /\ LaunchdPlaces /\ LaunchdRuns /\ LaunchdAgrees
  BY LaunchdActs DEF Types, Runs, Agrees
<1>1. CASE LaunchdBegin
  BY <1>1, Goes, Ends, Targets, LaunchdBegun, ProcTypes, Literals, TargetFacts DEF Agrees,
    At, LaunchdPlaces, LaunchdRuns, LaunchdAgrees, Steps, Places, Kept, SameCall, Op,
    Installs, IsLoaded, ManagerTypes, Processes, Normal, ByHand, ConvergedStep, Returns,
    Installed, OldProcessGone, NothingLeft, LaunchdBegin, On, Mishap, manager, definition,
    paths, NoDir, MadeDir, Stopping
<1>2. CASE LaunchdPrint
  BY <1>2, LaunchdPrintAgrees
<1>3. CASE LaunchdBootout
  BY <1>3, Goes, Ends, Targets DEF Agrees, At, LaunchdAgrees, Steps, Places, Kept,
    SameCall, Installs, ConvergedStep, Returns, LaunchdBootout, On, Command, BootedOut,
    Install
<1>4. CASE LaunchdWrite
  BY <1>4, Goes, Ends, Targets DEF Agrees, At, LaunchdAgrees, Steps, Places, Kept,
    ConvergedStep, Returns, LaunchdWrite
<1>5. CASE LaunchdBootstrap
  BY <1>5, Goes, Targets DEF Agrees, At, LaunchdPlaces, LaunchdAgrees, Steps, Places, Kept,
    SameCall, ConvergedStep, Returns, LaunchdBootstrap, On, Command, Bootstrapped, manager,
    definition
<1>6. CASE LaunchdWait
  BY <1>6, Goes, Ends, Targets, Cycles, RetryMark DEF Agrees, At, LaunchdPlaces,
    LaunchdAgrees, Steps, Places, Kept, SameCall, ConvergedStep, Returns, LaunchdWait, On,
    Unconverged, manager, definition
<1>7. CASE LaunchdUnload
  BY <1>7, Goes, Ends, Targets, Cycles DEF Agrees, At, LaunchdPlaces, LaunchdAgrees, Steps,
    Places, SameCall, ConvergedStep, Returns, LaunchdUnload, On, Command, BootedOut,
    Unconverged
<1>8. CASE LaunchdDiscard
  BY <1>8, Ends DEF Agrees, At, LaunchdAgrees, ConvergedStep, Returns, LaunchdDiscard
<1>9. CASE LaunchdKickstart
  BY <1>9, Ends, ProcTypes, TargetFacts DEF Agrees, At, LaunchdPlaces, LaunchdRuns,
    LaunchdAgrees, Installs, ManagerTypes, ConvergedStep, Returns, Installed,
    OldProcessGone, LaunchdKickstart, On, Command, IsHeld, definition
<1>10. CASE LaunchdDelete
  BY <1>10, Ends DEF Agrees, At, LaunchdPlaces, LaunchdRuns, LaunchdAgrees, Installs,
    ConvergedStep, Returns, NothingLeft, LaunchdDelete, On, Stopping
<1>. QED
  BY <1>1, <1>2, <1>3, <1>4, <1>5, <1>6, <1>7, <1>8, <1>9, <1>10 DEF LaunchdCall

\* The calls of Windows keep it.
LEMMA SchedulerKeepsAgrees ==
  ASSUME Types, Runs, Agrees, SchedulerCall PROVE Agrees' /\ ConvergedStep
<1>. /\ platform = "scheduler" /\ UNCHANGED platform /\ call.pc # "idle" /\ CallTypes /\ Op
     /\ ManagerTypes /\ PathTypes /\ left \in Nat
     /\ SchedulerPlaces /\ SchedulerRuns /\ SchedulerAgrees
  BY SchedulerActs DEF Types, Runs, Agrees
<1>1. CASE SchedulerBegin
  BY <1>1, Goes, Ends DEF Agrees, At, SchedulerAgrees, Steps, Places, Kept, ConvergedStep,
    Returns, SchedulerBegin
<1>2. CASE SchedulerVet
  BY <1>2, Goes, Ends DEF Agrees, At, SchedulerAgrees, Steps, Places, Kept, ConvergedStep,
    Returns, SchedulerVet
<1>3. CASE SchedulerLogs
  BY <1>3, Goes, Ends, MadeMark DEF Agrees, At, SchedulerAgrees, Steps, Places, Kept,
    ConvergedStep, Returns, SchedulerLogs
<1>4. CASE SchedulerSeal
  BY <1>4, Goes, Ends DEF Agrees, At, SchedulerAgrees, Steps, Places, Kept, ConvergedStep,
    Returns, SchedulerSeal, Rejected
<1>5. CASE SchedulerState
  BY <1>5, Ends, StateMark, TargetFacts DEF Agrees, At, SchedulerRuns, SchedulerAgrees,
    Installs, ConvergedStep, Returns, NothingLeft, SchedulerState, manager, definition,
    Exists, TaskState
<1>6. CASE SchedulerMatch
  BY <1>6, SchedulerMatchAgrees
<1>7. CASE SchedulerStage
  BY <1>7, Goes, Ends DEF Agrees, At, SchedulerAgrees, Steps, Places, Kept, ConvergedStep,
    Returns, SchedulerStage
<1>8. CASE SchedulerDisable
  BY <1>8, Goes, Undoes DEF Agrees, At, SchedulerAgrees, Steps, Places, Kept,
    ConvergedStep, Returns, SchedulerDisable, Command, Replacing
<1>9. CASE SchedulerEnd
  BY <1>9, SchedulerEnded DEF Agrees, At, SchedulerAgrees, Kept, ConvergedStep, Returns,
    SchedulerEnd
<1>10. CASE SchedulerCheck
  BY <1>10, Goes, Undoes DEF Agrees, At, SchedulerAgrees, Steps, Places, Kept,
    ConvergedStep, Returns, SchedulerCheck, Replacing
<1>11. CASE SchedulerWait
  BY <1>11, Goes, Undoes DEF Agrees, At, SchedulerAgrees, Steps, Places, Kept,
    ConvergedStep, Returns, SchedulerWait, Replacing
<1>12. CASE SchedulerCreate
  BY <1>12, Goes, Ends, Targets, Undoes DEF Agrees, At, SchedulerRuns, SchedulerAgrees,
    Steps, Places, Kept, ConvergedStep, Returns, SchedulerCreate, On, Command, Busy
<1>13. CASE SchedulerDelete
  BY <1>13, Ends, Undoes, Literals DEF Agrees, At, SchedulerPlaces, SchedulerRuns,
    SchedulerAgrees, Kept, Installs, ManagerTypes, Processes, ConvergedStep, Returns,
    NothingLeft, SchedulerDelete, On, Command, Busy
<1>14. CASE SchedulerRun
  BY <1>14, SchedulerRunAgrees
<1>15. CASE SchedulerRestore
  BY <1>15, Goes, Ends DEF Agrees, At, SchedulerAgrees, Steps, Places, Kept, ConvergedStep,
    Returns, SchedulerRestore, Command
<1>16. CASE SchedulerRerun
  BY <1>16, Ends DEF Agrees, At, SchedulerAgrees, Kept, SameCall, ConvergedStep, Returns,
    SchedulerRerun, Command
<1>. QED
  BY <1>1, <1>2, <1>3, <1>4, <1>5, <1>6, <1>7, <1>8, <1>9, <1>10, <1>11, <1>12, <1>13,
    <1>14, <1>15, <1>16 DEF SchedulerCall

\* So do the environment, the beginning of a call and the end of the mishaps.
LEMMA EnvironmentKeepsAgrees ==
  ASSUME Types, Runs, Agrees, Environment \/ Begin \/ Settle PROVE Agrees' /\ ConvergedStep
<1>. UNCHANGED platform /\ CallTypes /\ ManagerTypes /\ PathTypes /\ left \in Nat
  BY EnvironmentActs DEF Types
<1>1. CASE Exit
  BY <1>1, Literals, Targets DEF Agrees, ConvergedStep, Returns, SystemdAgrees,
    LaunchdAgrees, SchedulerAgrees, At, Installs, ManagerTypes, Processes, SameCall, Exit,
    definition, Busy
<1>2. CASE Restart
  BY <1>2, ProcTypes, Targets DEF Agrees, ConvergedStep, Returns, SystemdAgrees,
    LaunchdAgrees, SchedulerAgrees, At, Installs, ManagerTypes, SameCall, Restart,
    Startable, definition
<1>3. CASE StopEnds
  BY <1>3, Literals, Targets DEF Agrees, ConvergedStep, Returns, SystemdAgrees,
    LaunchdAgrees, SchedulerAgrees, At, Installs, SameCall, StopEnds
<1>4. CASE Login
  BY <1>4, Leaves DEF Agrees, ConvergedStep, Returns, SystemdAgrees, LaunchdAgrees,
    SchedulerAgrees, At, Login
<1>5. CASE MaskUnit
  BY <1>5, Literals DEF Agrees, ConvergedStep, Returns, SystemdAgrees, At, MaskUnit
<1>6. CASE Edit
  BY <1>6, Literals, Unforeseens DEF Agrees, ConvergedStep, Returns, SystemdAgrees,
    LaunchdAgrees, SchedulerAgrees, At, ByHand, Edit, Busy
<1>7. CASE Drift
  BY <1>7, Unforeseens DEF Agrees, ConvergedStep, Returns, SystemdAgrees, LaunchdAgrees,
    SchedulerAgrees, At, Drift, manager, definition, Busy
<1>8. CASE Crash
  BY <1>8, Leaves DEF Agrees, ConvergedStep, Returns, SystemdAgrees, LaunchdAgrees,
    SchedulerAgrees, At, Crash, manager, definition
<1>9. CASE Begin
  BY <1>9, ProcTypes, Literals, Leaves, Targets, Begun DEF Agrees, ConvergedStep, Returns,
    SystemdPlaces, SystemdRuns, SystemdAgrees, LaunchdPlaces, LaunchdRuns, LaunchdAgrees,
    SchedulerPlaces, SchedulerRuns, SchedulerAgrees, At, Installs, IsLoaded, ByHand,
    ManagerTypes, Processes, CallTypes, SameCall, Begin, definition, paths, Stopping,
    Exists, Busy
<1>10. CASE Settle
  BY <1>10, Targets DEF Agrees, ConvergedStep, Returns, SystemdAgrees, LaunchdAgrees,
    SchedulerAgrees, At, Installs, SameCall, Settle, manager, definition, Busy
<1>. QED
  BY <1>1, <1>2, <1>3, <1>4, <1>5, <1>6, <1>7, <1>8, <1>9, <1>10 DEF Environment

--------------------------------------------------------------------------------
(***************************************************************************)
(* Spares is kept, and no step disturbs the matching job.                  *)
(***************************************************************************)
\* SystemdRead leaves the matching job alone.
LEMMA SystemdReadSpares ==
  ASSUME Types, Runs, Agrees, Spares, SystemdRead PROVE Spares' /\ UntouchedStep
<1>. platform = "systemd" /\ platform' = platform /\ CallTypes /\ call.pc = "read" /\ Op
  BY Ops DEF Types, On, SystemdRead
<1>1. SystemdSpares
  BY DEF Spares
<1>2. UNCHANGED <<file, loaded, stale, enabled, proc>>
  BY DEF SystemdRead, manager, definition
<1>3. \/ Owned /\ SameCall /\ call'.pc = "show" /\ call'.changed = (file # Target)
      \/ call'.pc = "idle" /\ call'.op = "none"
  BY ReadMark, Ends DEF SystemdRead
<1>4. Owned => file # Mask
  BY Literals DEF Owned
<1>5. SystemdSpares'
  BY <1>1, <1>2, <1>3, <1>4, Targets DEF SystemdSpares, Matched, At, SameCall
<1>6. Undisturbed /\ EnabledKept
  BY <1>2 DEF Undisturbed, EnabledKept
<1>. QED BY <1>5, <1>6 DEF Spares, UntouchedStep

\* SystemdShow leaves the matching job alone.
LEMMA SystemdShowSpares ==
  ASSUME Types, Runs, Agrees, Spares, SystemdShow PROVE Spares' /\ UntouchedStep
<1>. platform = "systemd" /\ platform' = platform /\ CallTypes /\ call.pc = "show" /\ Op
  BY Ops DEF Types, On, SystemdShow
<1>1. SystemdSpares /\ SystemdRuns
  BY DEF Spares, Runs
<1>2. UNCHANGED <<file, enabled, proc>> /\ (UNCHANGED <<loaded, stale>> \/ proc.is = "none")
  BY SystemdShown DEF Queried
<1>3. call'.op # "status"
  BY SystemdShown, Ends DEF SameCall, Installs
<1>4. ASSUME Matched PROVE call'.pc = "idle" /\ call'.op = "none"
  <2>1. /\ UNCHANGED <<loaded, stale>> /\ proc.is = "running" /\ IsLoaded(loaded')
        /\ ~call.changed /\ enabled = call.job.atLoad /\ call.op = "ensure"
    BY <1>1, <1>2, <1>4 DEF Matched, SystemdSpares, SystemdRuns, At
  <2>2. ~Unusable => file # Mask /\ file = Target /\ ~stale
    BY <1>1, <1>4, <2>1 DEF Unusable, MaskSeen, SystemdSpares
  <2>3. ~Unusable => InForce
    BY <2>1, <2>2 DEF InForce
  <2>. QED BY <2>1, <2>3, SystemdShown, Ends
<1>5. ~Matched'
  <2>1. CASE Matched
    BY <1>4, <2>1 DEF Matched
  <2>2. CASE ~Matched
    BY <1>2, <2>2, SystemdShown, Ends DEF Matched, SameCall
  <2>. QED BY <2>1, <2>2
<1>6. SystemdSpares'
  BY <1>3, <1>5 DEF SystemdSpares
<1>7. Undisturbed /\ EnabledKept
  BY <1>2 DEF Undisturbed, EnabledKept
<1>. QED BY <1>6, <1>7 DEF Spares, UntouchedStep

\* SchedulerState leaves the matching job alone.
LEMMA SchedulerStateSpares ==
  ASSUME Types, Runs, Agrees, Spares, SchedulerState PROVE Spares' /\ UntouchedStep
<1>. platform = "scheduler" /\ platform' = platform /\ CallTypes /\ call.pc = "state" /\ Op
  BY Ops DEF Types, On, SchedulerState
<1>1. SchedulerSpares
  BY DEF Spares
<1>2. UNCHANGED <<file, loaded, stale, enabled, proc>>
  BY DEF SchedulerState, manager, definition
<1>3. call'.op # "status"
  <2>1. call.op = "status" => Return("ok") \/ Return("fail")
    BY DEF SchedulerState, Installs
  <2>. QED BY <2>1, StateMark, Ends DEF SameCall
<1>4. ASSUME Matched' PROVE Matched /\ call'.pc = "match" /\ call'.seen
  <2>1. /\ CallTypes' /\ SameCall /\ call'.seen = (TaskState = "running")
        /\ call'.known = (TaskState \in {"running", "ready"})
        /\ (call.op = "ensure" /\ call'.known => call'.pc = "match")
    BY <1>4, StateMark, Ends DEF Matched
  <2>2. Matched
    BY <1>2, <1>4, <2>1 DEF Matched, SameCall
  <2>3. file = Target /\ proc.is = "running" /\ call.op = "ensure"
    BY <1>1, <2>2 DEF SchedulerSpares, Matched
  <2>4. TaskState = "running"
    BY <2>3, TargetFacts DEF TaskState, Exists, Busy
  <2>. QED BY <2>1, <2>2, <2>3, <2>4
<1>5. SchedulerSpares'
  <2>1. CASE Matched'
    <3>1. SameCall
      BY <1>4, <2>1, StateMark, Ends
    <3>. QED BY <1>1, <1>2, <1>3, <1>4, <2>1, <3>1, Targets DEF SchedulerSpares, At
  <2>2. CASE ~Matched'
    BY <1>3, <2>2 DEF SchedulerSpares
  <2>. QED BY <2>1, <2>2
<1>6. Undisturbed
  BY <1>2 DEF Undisturbed
<1>7. EnabledKept
  BY DEF EnabledKept, Touched
<1>. QED BY <1>5, <1>6, <1>7 DEF Spares, UntouchedStep

\* SchedulerRestore leaves the matching job alone.
LEMMA SchedulerRestoreSpares ==
  ASSUME Types, Runs, Agrees, Spares, SchedulerRestore PROVE Spares' /\ UntouchedStep
<1>. platform = "scheduler" /\ platform' = platform /\ CallTypes /\ call.pc = "restore" /\ Op
  BY Ops DEF Types, On, SchedulerRestore
<1>1. SchedulerPlaces /\ SchedulerSpares
  BY DEF Spares, Runs
<1>2. UNCHANGED <<file, proc>>
  BY DEF SchedulerRestore, Command, manager, definition
<1>3. call.op # "status" /\ ~Matched
  BY <1>1 DEF SchedulerSpares, SchedulerPlaces, At
<1>4. (Kept /\ call'.pc = "rerun") \/ (call'.pc = "idle" /\ call'.op = "none")
  BY Goes, Ends DEF SchedulerRestore, Command, Steps, Places
<1>5. SchedulerSpares'
  BY <1>2, <1>3, <1>4 DEF SchedulerSpares, Matched, Kept, SameCall
<1>6. Undisturbed
  BY <1>2 DEF Undisturbed
<1>7. ASSUME call.known, file' # NoDef, left' = left, Returns("fail") PROVE enabled'
  <2>1. \/ Exists /\ enabled' = TRUE
        \/ ~Exists
        \/ Mishap("command")
    BY <1>7 DEF SchedulerRestore, Command
  <2>2. ~Mishap("command")
    BY <1>7 DEF Mishap, Types
  <2>. QED BY <1>2, <1>7, <2>1, <2>2 DEF Exists
<1>8. EnabledKept
  BY <1>7 DEF EnabledKept
<1>. QED BY <1>5, <1>6, <1>8 DEF Spares, UntouchedStep

\* Begin leaves the matching job alone.
LEMMA BeginSpares ==
  ASSUME Types, Runs, Agrees, Spares, Begin PROVE Spares' /\ UntouchedStep
<1>. platform' = platform /\ CallTypes /\ call.pc = "idle" /\ UNCHANGED <<file, loaded, stale, enabled>>
  BY DEF Types, Begin, definition
<1>1. UntouchedStep
  BY DEF UntouchedStep, Undisturbed, EnabledKept, Returns
<1>2. Target' = Rendered(call'.job)
  BY DEF Target, Rendered
<1>3. Matches(call'.job) =>
        /\ file = Rendered(call'.job)
        /\ platform \in {"systemd", "launchd"} => loaded = Rendered(call'.job) /\ ~stale
        /\ platform = "systemd" => enabled = call'.job.atLoad
        /\ platform = "scheduler" => enabled
  BY DEF Matches
<1>4. call'.pc = "begin" /\ ~call'.changed /\ (call'.matched => Matches(call'.job))
  BY Begun
<1>5. CASE platform = "systemd"
  BY <1>1, <1>2, <1>3, <1>4, <1>5 DEF Spares, SystemdSpares, Matched, At
<1>6. CASE platform = "launchd"
  BY <1>1, <1>2, <1>3, <1>4, <1>6 DEF Spares, LaunchdSpares, Matched, At
<1>7. CASE platform = "scheduler"
  BY <1>1, <1>2, <1>3, <1>4, <1>7 DEF Spares, SchedulerSpares, Matched, At
<1>. QED BY <1>5, <1>6, <1>7 DEF Types

\* The calls of Linux keep it.
LEMMA SystemdKeepsSpares ==
  ASSUME Types, Runs, Agrees, Spares, SystemdCall PROVE Spares' /\ UntouchedStep
<1>. /\ platform = "systemd" /\ UNCHANGED platform /\ call.pc # "idle" /\ CallTypes /\ Op
     /\ ManagerTypes /\ PathTypes /\ left \in Nat
     /\ SystemdPlaces /\ SystemdRuns /\ SystemdAgrees /\ SystemdSpares
  BY SystemdActs DEF Types, Runs, Agrees, Spares
<1>1. CASE SystemdBegin
  <2>1. UNCHANGED proc
    BY <1>1 DEF SystemdBegin, manager
  <2>2. SystemdSpares'
    BY <1>1, Goes, Ends, Targets, Marked DEF Matched, At, SystemdSpares, Installs, Steps,
      Places, Kept, SameCall, SystemdBegin, manager, definition
  <2>3. Undisturbed
    BY <2>1 DEF Undisturbed
  <2>5. EnabledKept
    BY DEF EnabledKept
  <2>. QED
    BY <2>2, <2>3, <2>5 DEF Spares, UntouchedStep
<1>2. CASE SystemdVet
  <2>1. UNCHANGED proc
    BY <1>2 DEF SystemdVet, manager
  <2>2. SystemdSpares'
    BY <1>2, Goes, Ends, Targets DEF Matched, At, SystemdSpares, Steps, Places, Kept,
      SameCall, SystemdVet, On, manager, definition
  <2>3. Undisturbed
    BY <2>1 DEF Undisturbed
  <2>5. EnabledKept
    BY DEF EnabledKept
  <2>. QED
    BY <2>2, <2>3, <2>5 DEF Spares, UntouchedStep
<1>3. CASE SystemdLogs
  <2>1. UNCHANGED proc
    BY <1>3 DEF SystemdLogs, manager
  <2>2. SystemdSpares'
    BY <1>3, Goes, Ends, Targets DEF Matched, At, SystemdSpares, Steps, Places, Kept,
      SameCall, SystemdLogs, manager, definition
  <2>3. Undisturbed
    BY <2>1 DEF Undisturbed
  <2>5. EnabledKept
    BY DEF EnabledKept
  <2>. QED
    BY <2>2, <2>3, <2>5 DEF Spares, UntouchedStep
<1>4. CASE SystemdRead
  BY <1>4, SystemdReadSpares
<1>5. CASE SystemdRemovable
  <2>1. UNCHANGED proc
    BY <1>5 DEF SystemdRemovable, manager
  <2>2. SystemdSpares'
    BY <1>5, <2>1, Goes, Ends DEF Matched, At, SystemdSpares, Steps, Places, Kept,
      SameCall, SystemdRemovable, On
  <2>3. Undisturbed
    BY <2>1 DEF Undisturbed
  <2>5. EnabledKept
    BY DEF EnabledKept
  <2>. QED
    BY <2>2, <2>3, <2>5 DEF Spares, UntouchedStep
<1>6. CASE SystemdShow
  BY <1>6, SystemdShowSpares
<1>7. CASE SystemdStop
  <2>1. ~Matched /\ call.op # "status"
    BY <1>7 DEF SystemdSpares, At, SystemdStop, On
  <2>2. call'.op # "status" /\ (proc'.is = "running" /\ proc'.old => proc' = proc)
    BY <1>7, <2>1, Goes, Ends, Literals DEF Steps, Places, Kept, SameCall, SystemdStop,
      Systemctl, Command, manager
  <2>3. ~Matched'
    BY <1>7, <2>1, <2>2, Goes, Ends DEF Matched, Steps, Places, Kept, SameCall,
      SystemdStop, Systemctl, Command
  <2>4. SystemdSpares' /\ Undisturbed
    BY <2>1, <2>2, <2>3 DEF SystemdSpares, Undisturbed, Matched
  <2>5. EnabledKept
    BY DEF EnabledKept
  <2>. QED
    BY <2>4, <2>5 DEF Spares, UntouchedStep
<1>8. CASE SystemdWrite
  <2>1. UNCHANGED proc
    BY <1>8 DEF SystemdWrite
  <2>2. SystemdSpares'
    BY <1>8, Goes, Ends DEF Matched, At, SystemdSpares, Steps, Places, Kept, SameCall,
      SystemdWrite, On
  <2>3. Undisturbed
    BY <2>1 DEF Undisturbed
  <2>5. EnabledKept
    BY DEF EnabledKept
  <2>. QED
    BY <2>2, <2>3, <2>5 DEF Spares, UntouchedStep
<1>9. CASE SystemdReload
  <2>1. UNCHANGED proc
    BY <1>9 DEF SystemdReload, Systemctl, Command, manager
  <2>2. SystemdSpares'
    BY <1>9, Goes, Ends DEF Matched, At, SystemdSpares, Steps, Places, Kept, SameCall,
      SystemdReload, On, Systemctl, Command
  <2>3. Undisturbed
    BY <2>1 DEF Undisturbed
  <2>5. EnabledKept
    BY DEF EnabledKept
  <2>. QED
    BY <2>2, <2>3, <2>5 DEF Spares, UntouchedStep
<1>10. CASE SystemdEnable
  <2>1. UNCHANGED proc
    BY <1>10 DEF SystemdEnable, Systemctl, Command, manager
  <2>2. SystemdSpares'
    BY <1>10, Goes, Ends DEF Matched, At, SystemdSpares, Steps, Places, Kept, SameCall,
      SystemdEnable, On, Systemctl, Command
  <2>3. Undisturbed
    BY <2>1 DEF Undisturbed
  <2>5. EnabledKept
    BY DEF EnabledKept
  <2>. QED
    BY <2>2, <2>3, <2>5 DEF Spares, UntouchedStep
<1>11. CASE SystemdReset
  <2>1. UNCHANGED proc
    BY <1>11 DEF SystemdReset, Systemctl, manager, Command
  <2>2. SystemdSpares'
    BY <1>11, <2>1, Goes, Ends DEF Matched, At, SystemdSpares, Steps, Places, Kept,
      SameCall, SystemdReset, On, Systemctl, Command
  <2>3. Undisturbed
    BY <2>1 DEF Undisturbed
  <2>5. EnabledKept
    BY DEF EnabledKept
  <2>. QED
    BY <2>2, <2>3, <2>5 DEF Spares, UntouchedStep
<1>12. CASE SystemdStart
  <2>1. ~Matched /\ call.op # "status"
    BY <1>12 DEF SystemdSpares, At, SystemdStart, On
  <2>2. call'.op # "status" /\ (proc'.is = "running" /\ proc'.old => proc' = proc)
    BY <1>12, <2>1, Goes, Ends, ProcTypes DEF Steps, Places, Kept, SameCall, ManagerTypes,
      SystemdStart, Systemctl, Command, manager
  <2>3. ~Matched'
    BY <1>12, <2>1, <2>2, Goes, Ends DEF Matched, Steps, Places, Kept, SameCall,
      SystemdStart, Systemctl, Command
  <2>4. SystemdSpares' /\ Undisturbed
    BY <2>1, <2>2, <2>3 DEF SystemdSpares, Undisturbed, Matched
  <2>5. EnabledKept
    BY DEF EnabledKept
  <2>. QED
    BY <2>4, <2>5 DEF Spares, UntouchedStep
<1>13. CASE SystemdValidate
  <2>1. UNCHANGED proc
    BY <1>13 DEF SystemdValidate
  <2>2. SystemdSpares'
    BY <1>13, Ends DEF Matched, SystemdSpares, SystemdValidate
  <2>3. Undisturbed
    BY <2>1 DEF Undisturbed
  <2>5. EnabledKept
    BY DEF EnabledKept
  <2>. QED
    BY <2>2, <2>3, <2>5 DEF Spares, UntouchedStep
<1>14. CASE SystemdDisable
  <2>1. UNCHANGED proc
    BY <1>14 DEF SystemdDisable, Systemctl, Command, manager
  <2>2. SystemdSpares'
    BY <1>14, Goes, Ends DEF Matched, At, SystemdSpares, Steps, Places, Kept, SameCall,
      SystemdDisable, On, Systemctl, Command
  <2>3. Undisturbed
    BY <2>1 DEF Undisturbed
  <2>5. EnabledKept
    BY DEF EnabledKept
  <2>. QED
    BY <2>2, <2>3, <2>5 DEF Spares, UntouchedStep
<1>15. CASE SystemdUnmask
  <2>1. UNCHANGED proc
    BY <1>15 DEF SystemdUnmask, Systemctl, Command, manager
  <2>2. SystemdSpares'
    BY <1>15, Goes, Ends DEF Matched, At, SystemdSpares, Steps, Places, Kept, SameCall,
      SystemdUnmask, On, Systemctl, Command
  <2>3. Undisturbed
    BY <2>1 DEF Undisturbed
  <2>5. EnabledKept
    BY DEF EnabledKept
  <2>. QED
    BY <2>2, <2>3, <2>5 DEF Spares, UntouchedStep
<1>16. CASE SystemdDelete
  <2>1. UNCHANGED proc
    BY <1>16 DEF SystemdDelete
  <2>2. SystemdSpares'
    BY <1>16, Goes, Ends DEF Matched, At, SystemdSpares, Steps, Places, Kept, SameCall,
      SystemdDelete, On
  <2>3. Undisturbed
    BY <2>1 DEF Undisturbed
  <2>5. EnabledKept
    BY DEF EnabledKept
  <2>. QED
    BY <2>2, <2>3, <2>5 DEF Spares, UntouchedStep
<1>. QED
  BY <1>1, <1>2, <1>3, <1>4, <1>5, <1>6, <1>7, <1>8, <1>9, <1>10, <1>11, <1>12, <1>13,
    <1>14, <1>15, <1>16 DEF SystemdCall

\* The calls of macOS keep it.
LEMMA LaunchdKeepsSpares ==
  ASSUME Types, Runs, Agrees, Spares, LaunchdCall PROVE Spares' /\ UntouchedStep
<1>. /\ platform = "launchd" /\ UNCHANGED platform /\ call.pc # "idle" /\ CallTypes /\ Op
     /\ ManagerTypes /\ PathTypes /\ left \in Nat
     /\ LaunchdPlaces /\ LaunchdRuns /\ LaunchdAgrees /\ LaunchdSpares
  BY LaunchdActs DEF Types, Runs, Agrees, Spares
<1>1. CASE LaunchdBegin
  <2>1. UNCHANGED proc
    BY <1>1 DEF LaunchdBegin, manager
  <2>2. LaunchdSpares'
    BY <1>1, <2>1, TargetFacts, Literals, Goes, Ends, Targets, LaunchdBegun DEF Op,
      Matched, At, LaunchdPlaces, LaunchdRuns, LaunchdAgrees, LaunchdSpares, Installs,
      IsLoaded, Steps, Places, Kept, SameCall, LaunchdBegin, On, Mishap, manager,
      definition, paths, NoDir, MadeDir, Stopping
  <2>3. Undisturbed
    BY <2>1 DEF Undisturbed
  <2>5. EnabledKept
    BY DEF EnabledKept
  <2>. QED
    BY <2>2, <2>3, <2>5 DEF Spares, UntouchedStep
<1>2. CASE LaunchdPrint
  <2>1. UNCHANGED proc
    BY <1>2 DEF LaunchdPrint, manager
  <2>2. LaunchdSpares'
    BY <1>2, <2>1, TargetFacts, Goes, Ends DEF Matched, At, LaunchdSpares, Installs, Steps,
      Places, Kept, SameCall, LaunchdPrint, On, IsHeld, LaunchdRunning, Install,
      LaunchdStatus
  <2>3. Undisturbed
    BY <2>1 DEF Undisturbed
  <2>5. EnabledKept
    BY DEF EnabledKept
  <2>. QED
    BY <2>2, <2>3, <2>5 DEF Spares, UntouchedStep
<1>3. CASE LaunchdBootout
  <2>1. ~Matched /\ call.op # "status"
    BY <1>3 DEF LaunchdSpares, At, LaunchdBootout, On
  <2>2. call'.op # "status" /\ (proc'.is = "running" /\ proc'.old => proc' = proc)
    BY <1>3, <2>1, Goes, Ends, Literals DEF Steps, Places, Kept, SameCall, Processes,
      ManagerTypes, LaunchdBootout, Command, BootedOut, Install, manager
  <2>3. ~Matched'
    BY <1>3, <2>1, <2>2, Goes, Ends DEF Matched, Steps, Places, Kept, SameCall,
      LaunchdBootout, Command, Install
  <2>4. LaunchdSpares' /\ Undisturbed
    BY <2>1, <2>2, <2>3 DEF LaunchdSpares, Undisturbed, Matched
  <2>5. EnabledKept
    BY DEF EnabledKept
  <2>. QED
    BY <2>4, <2>5 DEF Spares, UntouchedStep
<1>4. CASE LaunchdWrite
  <2>1. UNCHANGED proc
    BY <1>4 DEF LaunchdWrite
  <2>2. LaunchdSpares'
    BY <1>4, Goes, Ends DEF Matched, At, LaunchdSpares, Steps, Places, Kept, SameCall,
      LaunchdWrite, On
  <2>3. Undisturbed
    BY <2>1 DEF Undisturbed
  <2>5. EnabledKept
    BY DEF EnabledKept
  <2>. QED
    BY <2>2, <2>3, <2>5 DEF Spares, UntouchedStep
<1>5. CASE LaunchdBootstrap
  <2>1. ~Matched /\ call.op # "status"
    BY <1>5 DEF LaunchdSpares, At, LaunchdBootstrap, On
  <2>2. call'.op # "status" /\ (proc'.is = "running" /\ proc'.old => proc' = proc)
    BY <1>5, <2>1, Goes, ProcTypes, Literals DEF Steps, Places, Kept, SameCall,
      ManagerTypes, LaunchdBootstrap, Command, Bootstrapped, manager
  <2>3. ~Matched'
    BY <1>5, <2>1, <2>2, Goes DEF Matched, Steps, Places, Kept, SameCall, LaunchdBootstrap,
      Command
  <2>4. LaunchdSpares' /\ Undisturbed
    BY <2>1, <2>2, <2>3 DEF LaunchdSpares, Undisturbed, Matched
  <2>5. EnabledKept
    BY DEF EnabledKept
  <2>. QED
    BY <2>4, <2>5 DEF Spares, UntouchedStep
<1>6. CASE LaunchdWait
  <2>1. UNCHANGED proc
    BY <1>6 DEF LaunchdWait, manager
  <2>2. LaunchdSpares'
    BY <1>6, <2>1, Goes, Ends, Cycles, RetryMark DEF Matched, At, LaunchdSpares, Steps,
      Places, Kept, SameCall, LaunchdWait, On, Unconverged
  <2>3. Undisturbed
    BY <2>1 DEF Undisturbed
  <2>5. EnabledKept
    BY DEF EnabledKept
  <2>. QED
    BY <2>2, <2>3, <2>5 DEF Spares, UntouchedStep
<1>7. CASE LaunchdUnload
  <2>1. ~Matched /\ call.op # "status"
    BY <1>7 DEF LaunchdSpares, At, LaunchdUnload, On
  <2>2. call'.op # "status" /\ (proc'.is = "running" /\ proc'.old => proc' = proc)
    BY <1>7, <2>1, Goes, Ends, Cycles, Literals DEF Steps, Places, Kept, SameCall,
      Processes, ManagerTypes, LaunchdUnload, Command, BootedOut, Unconverged, manager
  <2>3. ~Matched'
    BY <1>7, <2>1, <2>2, Goes, Ends, Cycles DEF Matched, Steps, Places, Kept, SameCall,
      LaunchdUnload, Command, Unconverged
  <2>4. LaunchdSpares' /\ Undisturbed
    BY <2>1, <2>2, <2>3 DEF LaunchdSpares, Undisturbed, Matched
  <2>5. EnabledKept
    BY DEF EnabledKept
  <2>. QED
    BY <2>4, <2>5 DEF Spares, UntouchedStep
<1>8. CASE LaunchdDiscard
  <2>1. UNCHANGED proc
    BY <1>8 DEF LaunchdDiscard
  <2>2. LaunchdSpares'
    BY <1>8, Ends DEF Matched, LaunchdSpares, LaunchdDiscard
  <2>3. Undisturbed
    BY <2>1 DEF Undisturbed
  <2>5. EnabledKept
    BY DEF EnabledKept
  <2>. QED
    BY <2>2, <2>3, <2>5 DEF Spares, UntouchedStep
<1>9. CASE LaunchdKickstart
  <2>1. ~Matched /\ call.op # "status"
    BY <1>9 DEF LaunchdSpares, At, LaunchdKickstart, On
  <2>2. call'.op # "status" /\ (proc'.is = "running" /\ proc'.old => proc' = proc)
    BY <1>9, Ends, ProcTypes DEF ManagerTypes, LaunchdKickstart, Command, manager
  <2>3. ~Matched'
    BY <1>9, Ends DEF Matched, LaunchdKickstart, Command
  <2>4. LaunchdSpares' /\ Undisturbed
    BY <2>1, <2>2, <2>3 DEF LaunchdSpares, Undisturbed, Matched
  <2>5. EnabledKept
    BY DEF EnabledKept
  <2>. QED
    BY <2>4, <2>5 DEF Spares, UntouchedStep
<1>10. CASE LaunchdDelete
  <2>1. UNCHANGED proc
    BY <1>10 DEF LaunchdDelete
  <2>2. LaunchdSpares'
    BY <1>10, Ends DEF Matched, LaunchdSpares, LaunchdDelete
  <2>3. Undisturbed
    BY <2>1 DEF Undisturbed
  <2>5. EnabledKept
    BY DEF EnabledKept
  <2>. QED
    BY <2>2, <2>3, <2>5 DEF Spares, UntouchedStep
<1>. QED
  BY <1>1, <1>2, <1>3, <1>4, <1>5, <1>6, <1>7, <1>8, <1>9, <1>10 DEF LaunchdCall

\* The calls of Windows keep it.
LEMMA SchedulerKeepsSpares ==
  ASSUME Types, Runs, Agrees, Spares, SchedulerCall PROVE Spares' /\ UntouchedStep
<1>. /\ platform = "scheduler" /\ UNCHANGED platform /\ call.pc # "idle" /\ CallTypes /\ Op
     /\ ManagerTypes /\ PathTypes /\ left \in Nat
     /\ SchedulerPlaces /\ SchedulerRuns /\ SchedulerAgrees /\ SchedulerSpares
  BY SchedulerActs DEF Types, Runs, Agrees, Spares
<1>1. CASE SchedulerBegin
  <2>1. UNCHANGED proc
    BY <1>1 DEF SchedulerBegin, manager
  <2>2. SchedulerSpares'
    BY <1>1, Goes, Ends, Targets DEF Matched, At, SchedulerSpares, Installs, Steps, Places,
      Kept, SameCall, SchedulerBegin, manager, definition
  <2>3. Undisturbed
    BY <2>1 DEF Undisturbed
  <2>5. EnabledKept
    BY <1>1 DEF EnabledKept, Touched, SchedulerBegin, On
  <2>. QED
    BY <2>2, <2>3, <2>5 DEF Spares, UntouchedStep
<1>2. CASE SchedulerVet
  <2>1. UNCHANGED proc
    BY <1>2 DEF SchedulerVet, manager
  <2>2. SchedulerSpares'
    BY <1>2, Goes, Ends, Targets DEF Matched, At, SchedulerSpares, Steps, Places, Kept,
      SameCall, SchedulerVet, On, manager, definition
  <2>3. Undisturbed
    BY <2>1 DEF Undisturbed
  <2>5. EnabledKept
    BY <1>2 DEF EnabledKept, Touched, SchedulerVet, On
  <2>. QED
    BY <2>2, <2>3, <2>5 DEF Spares, UntouchedStep
<1>3. CASE SchedulerLogs
  <2>1. UNCHANGED proc
    BY <1>3 DEF SchedulerLogs, manager
  <2>2. SchedulerSpares'
    BY <1>3, Goes, Ends, Targets, MadeMark DEF Matched, At, SchedulerSpares, Steps, Places,
      Kept, SameCall, SchedulerLogs, On, manager, definition
  <2>3. Undisturbed
    BY <2>1 DEF Undisturbed
  <2>5. EnabledKept
    BY <1>3 DEF EnabledKept, Touched, SchedulerLogs, On
  <2>. QED
    BY <2>2, <2>3, <2>5 DEF Spares, UntouchedStep
<1>4. CASE SchedulerSeal
  <2>1. UNCHANGED proc
    BY <1>4 DEF SchedulerSeal, manager
  <2>2. SchedulerSpares'
    BY <1>4, Goes, Ends, Targets DEF Matched, At, SchedulerSpares, Steps, Places, Kept,
      SameCall, SchedulerSeal, Rejected, manager, definition
  <2>3. Undisturbed
    BY <2>1 DEF Undisturbed
  <2>5. EnabledKept
    BY <1>4 DEF EnabledKept, Touched, SchedulerSeal, On
  <2>. QED
    BY <2>2, <2>3, <2>5 DEF Spares, UntouchedStep
<1>5. CASE SchedulerState
  BY <1>5, SchedulerStateSpares
<1>6. CASE SchedulerMatch
  <2>1. UNCHANGED proc
    BY <1>6 DEF SchedulerMatch, manager
  <2>2. SchedulerSpares'
    BY <1>6, <2>1, Goes, Ends DEF Matched, At, SchedulerSpares, Steps, Places, Kept,
      SameCall, SchedulerMatch, On, SameTask
  <2>3. Undisturbed
    BY <2>1 DEF Undisturbed
  <2>5. EnabledKept
    BY <1>6 DEF EnabledKept, Touched, SchedulerMatch, On
  <2>. QED
    BY <2>2, <2>3, <2>5 DEF Spares, UntouchedStep
<1>7. CASE SchedulerStage
  <2>1. UNCHANGED proc
    BY <1>7 DEF SchedulerStage, manager
  <2>2. SchedulerSpares'
    BY <1>7, <2>1, Goes, Ends DEF Matched, At, SchedulerSpares, Steps, Places, Kept,
      SameCall, SchedulerStage, On
  <2>3. Undisturbed
    BY <2>1 DEF Undisturbed
  <2>5. EnabledKept
    BY <1>7 DEF EnabledKept, Touched, SchedulerStage, On
  <2>. QED
    BY <2>2, <2>3, <2>5 DEF Spares, UntouchedStep
<1>8. CASE SchedulerDisable
  <2>1. UNCHANGED proc
    BY <1>8 DEF SchedulerDisable, Command, manager
  <2>2. SchedulerSpares'
    BY <1>8, <2>1, Goes, Undoes DEF Matched, At, SchedulerSpares, Steps, Places, Kept,
      SameCall, SchedulerDisable, On, Command, Replacing
  <2>3. Undisturbed
    BY <2>1 DEF Undisturbed
  <2>5. EnabledKept
    <3>1. call'.pc # "idle"
      BY <1>8, Goes, Undoes DEF Steps, Places, SchedulerDisable, Command, Replacing
    <3>. QED
      BY <3>1 DEF EnabledKept, Returns
  <2>. QED
    BY <2>2, <2>3, <2>5 DEF Spares, UntouchedStep
<1>9. CASE SchedulerEnd
  <2>1. ~Matched /\ call.op # "status"
    BY <1>9 DEF SchedulerSpares, At, SchedulerEnd, On
  <2>2. call'.op # "status" /\ (proc'.is = "running" /\ proc'.old => proc' = proc)
    BY <1>9, <2>1, SchedulerEnded DEF Kept, SameCall, Processes, ManagerTypes,
      SchedulerEnd, Command, manager
  <2>3. ~Matched'
    BY <1>9, <2>1, <2>2, SchedulerEnded DEF Matched, Kept, SameCall
  <2>4. SchedulerSpares' /\ Undisturbed
    BY <2>1, <2>2, <2>3 DEF SchedulerSpares, Undisturbed, Matched
  <2>5. EnabledKept
    BY <1>9, SchedulerEnded DEF EnabledKept, Returns
  <2>. QED
    BY <2>4, <2>5 DEF Spares, UntouchedStep
<1>10. CASE SchedulerCheck
  <2>1. UNCHANGED proc
    BY <1>10 DEF SchedulerCheck, manager
  <2>2. SchedulerSpares'
    BY <1>10, <2>1, Goes, Undoes DEF Matched, At, SchedulerSpares, Steps, Places, Kept,
      SameCall, SchedulerCheck, On, Replacing
  <2>3. Undisturbed
    BY <2>1 DEF Undisturbed
  <2>5. EnabledKept
    <3>1. call'.pc # "idle"
      BY <1>10, Goes, Undoes DEF Steps, Places, SchedulerCheck, Replacing
    <3>. QED
      BY <3>1 DEF EnabledKept, Returns
  <2>. QED
    BY <2>2, <2>3, <2>5 DEF Spares, UntouchedStep
<1>11. CASE SchedulerWait
  <2>1. UNCHANGED proc
    BY <1>11 DEF SchedulerWait, manager
  <2>2. SchedulerSpares'
    BY <1>11, <2>1, Goes, Undoes DEF Matched, At, SchedulerSpares, Steps, Places, Kept,
      SameCall, SchedulerWait, On, Replacing
  <2>3. Undisturbed
    BY <2>1 DEF Undisturbed
  <2>5. EnabledKept
    <3>1. call'.pc # "idle"
      BY <1>11, Goes, Undoes DEF Steps, Places, SchedulerWait, Replacing
    <3>. QED
      BY <3>1 DEF EnabledKept, Returns
  <2>. QED
    BY <2>2, <2>3, <2>5 DEF Spares, UntouchedStep
<1>12. CASE SchedulerCreate
  <2>1. UNCHANGED proc
    BY <1>12 DEF SchedulerCreate, Command, manager
  <2>2. SchedulerSpares'
    BY <1>12, <2>1, Goes, Ends, Undoes DEF Matched, At, SchedulerSpares, Steps, Places,
      Kept, SameCall, SchedulerCreate, On, Command
  <2>3. Undisturbed
    BY <2>1 DEF Undisturbed
  <2>5. EnabledKept
    BY <1>12, Undoes DEF EnabledKept, Returns, SchedulerAgrees, SchedulerCreate, Command
  <2>. QED
    BY <2>2, <2>3, <2>5 DEF Spares, UntouchedStep
<1>13. CASE SchedulerDelete
  <2>1. ~Matched /\ call.op # "status"
    BY <1>13 DEF SchedulerSpares, At, SchedulerDelete, On
  <2>2. call'.op # "status" /\ (proc'.is = "running" /\ proc'.old => proc' = proc)
    BY <1>13, <2>1, Ends, Undoes, Literals DEF Kept, SameCall, SchedulerDelete, Command,
      manager
  <2>3. ~Matched'
    BY <1>13, <2>1, <2>2, Ends, Undoes DEF Matched, Kept, SameCall, SchedulerDelete,
      Command
  <2>4. SchedulerSpares' /\ Undisturbed
    BY <2>1, <2>2, <2>3 DEF SchedulerSpares, Undisturbed, Matched
  <2>5. EnabledKept
    BY <1>13, Undoes DEF EnabledKept, Returns, SchedulerDelete, Command
  <2>. QED
    BY <2>4, <2>5 DEF Spares, UntouchedStep
<1>14. CASE SchedulerRun
  <2>1. ~Matched /\ call.op # "status"
    BY <1>14 DEF SchedulerSpares, At, SchedulerRun, On
  <2>2. call'.op # "status" /\ (proc'.is = "running" /\ proc'.old => proc' = proc)
    BY <1>14, Ends, ProcTypes DEF ManagerTypes, SchedulerRun, Command, Ran, manager
  <2>3. ~Matched'
    BY <1>14, Ends DEF Matched, SchedulerRun, Command
  <2>4. SchedulerSpares' /\ Undisturbed
    BY <2>1, <2>2, <2>3 DEF SchedulerSpares, Undisturbed, Matched
  <2>5. EnabledKept
    BY <1>14, Goes, Ends, Targets DEF EnabledKept, Returns, Touched, At, SchedulerAgrees,
      SchedulerRuns, Steps, Places, Kept, SchedulerRun, On, paths, Command, Ran, manager,
      Mishap, definition, Exists, Busy, TaskState
  <2>. QED
    BY <2>4, <2>5 DEF Spares, UntouchedStep
<1>15. CASE SchedulerRestore
  BY <1>15, SchedulerRestoreSpares
<1>16. CASE SchedulerRerun
  <2>1. ~Matched /\ call.op # "status"
    BY <1>16 DEF SchedulerSpares, At, SchedulerRerun, On
  <2>2. call'.op # "status" /\ (proc'.is = "running" /\ proc'.old => proc' = proc)
    BY <1>16, Ends, ProcTypes DEF ManagerTypes, SchedulerRerun, Command, Ran, manager
  <2>3. ~Matched'
    BY <1>16, Ends DEF Matched, SchedulerRerun, Command
  <2>4. SchedulerSpares' /\ Undisturbed
    BY <2>1, <2>2, <2>3 DEF SchedulerSpares, Undisturbed, Matched
  <2>5. EnabledKept
    BY <1>16, Goes, Ends, Targets DEF EnabledKept, Returns, Touched, At, SchedulerAgrees,
      SchedulerRuns, Steps, Places, Kept, SchedulerRerun, On, paths, Command, Ran, manager,
      Mishap, definition, Exists, Busy, TaskState
  <2>. QED
    BY <2>4, <2>5 DEF Spares, UntouchedStep
<1>. QED
  BY <1>1, <1>2, <1>3, <1>4, <1>5, <1>6, <1>7, <1>8, <1>9, <1>10, <1>11, <1>12, <1>13,
    <1>14, <1>15, <1>16 DEF SchedulerCall

\* So do the environment, the beginning of a call and the end of the mishaps.
LEMMA EnvironmentKeepsSpares ==
  ASSUME Types, Runs, Agrees, Spares, Environment \/ Begin \/ Settle PROVE Spares' /\ UntouchedStep
<1>. UNCHANGED platform /\ CallTypes /\ ManagerTypes /\ PathTypes /\ left \in Nat
  BY EnvironmentActs DEF Types
<1>1. CASE Exit
  BY <1>1, Literals DEF UntouchedStep, Undisturbed, EnabledKept, Returns, Spares,
    SystemdSpares, LaunchdSpares, SchedulerSpares, Matched, At, ManagerTypes, Processes,
    Exit
<1>2. CASE Restart
  BY <1>2, ProcTypes DEF UntouchedStep, Undisturbed, EnabledKept, Returns, Spares,
    SystemdSpares, LaunchdSpares, SchedulerSpares, Matched, At, ManagerTypes, Restart,
    Startable
<1>3. CASE StopEnds
  BY <1>3, Literals DEF UntouchedStep, Undisturbed, EnabledKept, Returns, Spares,
    SystemdSpares, LaunchdSpares, SchedulerSpares, Matched, At, StopEnds
<1>4. CASE Login
  BY <1>4, Leaves DEF UntouchedStep, Undisturbed, EnabledKept, Returns, Spares,
    SystemdSpares, LaunchdSpares, SchedulerSpares, Matched, Login
<1>5. CASE MaskUnit
  BY <1>5, Targets DEF UntouchedStep, Undisturbed, EnabledKept, Spares, SystemdSpares,
    Matched, At, SameCall, MaskUnit
<1>6. CASE Edit
  BY <1>6, Unforeseens DEF UntouchedStep, Undisturbed, EnabledKept, Returns, Spares,
    SystemdSpares, LaunchdSpares, SchedulerSpares, Matched, At, CallTypes, Edit
<1>7. CASE Drift
  BY <1>7, Unforeseens DEF UntouchedStep, Undisturbed, EnabledKept, Returns, Spares,
    SystemdSpares, LaunchdSpares, SchedulerSpares, Matched, At, CallTypes, Drift
<1>8. CASE Crash
  BY <1>8, Leaves DEF UntouchedStep, Undisturbed, EnabledKept, Returns, Spares,
    SystemdSpares, LaunchdSpares, SchedulerSpares, Matched, Crash
<1>9. CASE Begin
  BY <1>9, BeginSpares
<1>10. CASE Settle
  BY <1>10, Targets DEF UntouchedStep, Undisturbed, EnabledKept, Returns, Spares,
    SystemdSpares, LaunchdSpares, SchedulerSpares, Matched, At, SameCall, Settle, manager,
    definition
<1>. QED
  BY <1>1, <1>2, <1>3, <1>4, <1>5, <1>6, <1>7, <1>8, <1>9, <1>10 DEF Environment

--------------------------------------------------------------------------------
(***************************************************************************)
(* Vets is kept; a call that returns nil has vetted, and repaired nothing. *)
(***************************************************************************)
\* The calls of Linux keep it.
LEMMA SystemdKeepsVets ==
  ASSUME Types, Runs, Vets, SystemdCall PROVE Vets' /\ VettedStep
<1>. /\ platform = "systemd" /\ UNCHANGED platform /\ call.pc # "idle" /\ CallTypes /\ Op
     /\ ManagerTypes /\ PathTypes /\ left \in Nat
     /\ SystemdPlaces /\ SystemdVets
  BY SystemdActs DEF Types, Runs, Vets
<1>1. CASE SystemdBegin
  BY <1>1, Goes, Ends, Marked DEF Vets, At, Installs, SystemdVets, Steps, Places, Kept,
    SameCall, VettedStep, CallerOwned, Returns, SystemdBegin, paths
<1>2. CASE SystemdVet
  BY <1>2, Goes, Ends DEF Vets, At, Installs, SystemdVets, Steps, Places, VettedStep,
    CallerOwned, Returns, SystemdVet, paths
<1>3. CASE SystemdLogs
  BY <1>3, Goes, Ends DEF Vets, At, Installs, SystemdVets, Steps, Places, Kept, SameCall,
    VettedStep, CallerOwned, Returns, EnsuredDir, SystemdLogs, On
<1>4. CASE SystemdRead
  BY <1>4, Ends, ReadMark DEF Vets, At, Installs, SystemdVets, SameCall, VettedStep,
    CallerOwned, Returns, SystemdRead, On
<1>5. CASE SystemdRemovable
  BY <1>5, Goes, Ends DEF Vets, At, Installs, SystemdVets, Steps, Places, Kept, SameCall,
    VettedStep, CallerOwned, SystemdRemovable, On, paths
<1>6. CASE SystemdShow
  BY <1>6, Ends, SystemdShown DEF Vets, At, Op, Installs, SystemdPlaces, SystemdVets,
    Steps, Places, Kept, SameCall, VettedStep, CallerOwned, Returns, PrivateDir,
    StrictLeaf, SystemdShow, On, paths
<1>7. CASE SystemdStop
  BY <1>7, Goes, Ends DEF Vets, At, Installs, SystemdVets, Steps, Places, Kept, SameCall,
    VettedStep, CallerOwned, SystemdStop, On, paths, Systemctl, Command
<1>8. CASE SystemdWrite
  BY <1>8, Goes, Ends DEF Vets, At, Installs, SystemdVets, Steps, Places, Kept, SameCall,
    VettedStep, CallerOwned, SystemdWrite, On
<1>9. CASE SystemdReload
  BY <1>9, Goes, Ends DEF Vets, At, Installs, SystemdVets, Steps, Places, Kept, SameCall,
    VettedStep, CallerOwned, SystemdReload, On, paths, Systemctl, Command
<1>10. CASE SystemdEnable
  BY <1>10, Goes, Ends DEF Vets, At, Installs, SystemdVets, Steps, Places, Kept, SameCall,
    VettedStep, CallerOwned, SystemdEnable, On, paths, Systemctl, Command
<1>11. CASE SystemdReset
  BY <1>11, Goes, Ends DEF Vets, At, Installs, SystemdVets, Steps, Places, Kept, SameCall,
    VettedStep, CallerOwned, SystemdReset, On, paths, Systemctl, Command
<1>12. CASE SystemdStart
  BY <1>12, Goes, Ends DEF Vets, At, Installs, SystemdVets, Steps, Places, Kept, SameCall,
    VettedStep, CallerOwned, SystemdStart, On, paths, Systemctl, Command
<1>13. CASE SystemdValidate
  BY <1>13, Ends DEF Vets, At, Installs, SystemdVets, VettedStep, CallerOwned,
    SystemdValidate, On, paths
<1>14. CASE SystemdDisable
  BY <1>14, Goes, Ends DEF Vets, At, Installs, SystemdVets, Steps, Places, Kept, SameCall,
    VettedStep, CallerOwned, SystemdDisable, On, paths, Systemctl, Command
<1>15. CASE SystemdUnmask
  BY <1>15, Goes, Ends DEF Vets, At, Installs, SystemdVets, Steps, Places, Kept, SameCall,
    VettedStep, CallerOwned, SystemdUnmask, On, paths, Systemctl, Command
<1>16. CASE SystemdDelete
  BY <1>16, Goes, Ends DEF Vets, At, Installs, SystemdVets, Steps, Places, Kept, SameCall,
    VettedStep, CallerOwned, SystemdDelete, On, paths
<1>. QED
  BY <1>1, <1>2, <1>3, <1>4, <1>5, <1>6, <1>7, <1>8, <1>9, <1>10, <1>11, <1>12, <1>13,
    <1>14, <1>15, <1>16 DEF SystemdCall

\* The calls of macOS keep it.
LEMMA LaunchdKeepsVets ==
  ASSUME Types, Runs, Vets, LaunchdCall PROVE Vets' /\ VettedStep
<1>. /\ platform = "launchd" /\ UNCHANGED platform /\ call.pc # "idle" /\ CallTypes /\ Op
     /\ ManagerTypes /\ PathTypes /\ left \in Nat
  BY LaunchdActs DEF Types
<1>1. CASE LaunchdBegin
  BY <1>1 DEF Vets, VettedStep, CallerOwned, LaunchdBegin
<1>2. CASE LaunchdPrint
  BY <1>2 DEF Vets, VettedStep, CallerOwned, LaunchdPrint, paths
<1>3. CASE LaunchdBootout
  BY <1>3 DEF Vets, VettedStep, CallerOwned, LaunchdBootout, paths
<1>4. CASE LaunchdWrite
  BY <1>4 DEF Vets, VettedStep, CallerOwned, LaunchdWrite, paths
<1>5. CASE LaunchdBootstrap
  BY <1>5 DEF Vets, VettedStep, CallerOwned, LaunchdBootstrap, paths
<1>6. CASE LaunchdWait
  BY <1>6 DEF Vets, VettedStep, CallerOwned, LaunchdWait, paths
<1>7. CASE LaunchdUnload
  BY <1>7 DEF Vets, VettedStep, CallerOwned, LaunchdUnload, paths
<1>8. CASE LaunchdDiscard
  BY <1>8 DEF Vets, VettedStep, CallerOwned, LaunchdDiscard, paths
<1>9. CASE LaunchdKickstart
  BY <1>9 DEF Vets, VettedStep, CallerOwned, LaunchdKickstart, paths
<1>10. CASE LaunchdDelete
  BY <1>10 DEF Vets, VettedStep, CallerOwned, LaunchdDelete, paths
<1>. QED
  BY <1>1, <1>2, <1>3, <1>4, <1>5, <1>6, <1>7, <1>8, <1>9, <1>10 DEF LaunchdCall

\* The calls of Windows keep it.
LEMMA SchedulerKeepsVets ==
  ASSUME Types, Runs, Vets, SchedulerCall PROVE Vets' /\ VettedStep
<1>. /\ platform = "scheduler" /\ UNCHANGED platform /\ call.pc # "idle" /\ CallTypes /\ Op
     /\ ManagerTypes /\ PathTypes /\ left \in Nat
     /\ SchedulerPlaces /\ SchedulerVets
  BY SchedulerActs DEF Types, Runs, Vets
<1>1. CASE SchedulerBegin
  BY <1>1, Goes, Ends DEF Vets, At, Installs, SchedulerVets, Steps, Places, Kept, SameCall,
    VettedStep, CallerOwned, Returns, SchedulerBegin, On, paths
<1>2. CASE SchedulerVet
  BY <1>2, Goes, Ends DEF Vets, At, Installs, SchedulerVets, Steps, Places, Kept,
    VettedStep, CallerOwned, Returns, SchedulerVet, On, paths
<1>3. CASE SchedulerLogs
  BY <1>3, Goes, Ends, MadeMark, DirFacts DEF Vets, At, Installs, SchedulerVets, Steps,
    Places, Kept, SameCall, VettedStep, CallerOwned, Returns, SchedulerLogs, On
<1>4. CASE SchedulerSeal
  BY <1>4, Goes, Ends, DirFacts DEF Vets, At, Installs, SchedulerVets, Steps, Places, Kept,
    SameCall, VettedStep, CallerOwned, Returns, SchedulerSeal, On, Rejected
<1>5. CASE SchedulerState
  BY <1>5, Ends, StateMark DEF Vets, At, Installs, SchedulerVets, SameCall, VettedStep,
    CallerOwned, SchedulerState, On, paths
<1>6. CASE SchedulerMatch
  BY <1>6, Goes, Ends DEF Vets, At, Installs, SchedulerVets, Steps, Places, Kept, SameCall,
    VettedStep, CallerOwned, SchedulerMatch, On, paths
<1>7. CASE SchedulerStage
  BY <1>7, Goes, Ends DEF Vets, At, Installs, SchedulerVets, Steps, Places, Kept, SameCall,
    VettedStep, CallerOwned, SchedulerStage, On, paths
<1>8. CASE SchedulerDisable
  BY <1>8, Goes, Undoes DEF Vets, At, Installs, SchedulerVets, Steps, Places, Kept,
    SameCall, VettedStep, CallerOwned, SchedulerDisable, On, paths, Command, Replacing
<1>9. CASE SchedulerEnd
  BY <1>9, SchedulerEnded DEF Vets, At, Installs, SchedulerVets, Kept, SameCall,
    VettedStep, CallerOwned, SchedulerEnd, On, paths
<1>10. CASE SchedulerCheck
  BY <1>10, Goes, Undoes DEF Vets, At, Installs, SchedulerVets, Steps, Places, Kept,
    SameCall, VettedStep, CallerOwned, SchedulerCheck, On, paths, Replacing
<1>11. CASE SchedulerWait
  BY <1>11, Goes, Undoes DEF Vets, At, Installs, SchedulerVets, Steps, Places, Kept,
    SameCall, VettedStep, CallerOwned, SchedulerWait, On, paths, Replacing
<1>12. CASE SchedulerCreate
  BY <1>12, Goes, Ends, Undoes DEF Vets, At, Installs, SchedulerVets, Steps, Places, Kept,
    SameCall, VettedStep, CallerOwned, SchedulerCreate, On, paths, Command
<1>13. CASE SchedulerDelete
  BY <1>13, Ends, Undoes DEF Vets, At, Installs, SchedulerVets, Kept, SameCall, VettedStep,
    CallerOwned, SchedulerDelete, On, paths, Command
<1>14. CASE SchedulerRun
  BY <1>14, Ends DEF Vets, At, Installs, SchedulerVets, VettedStep, CallerOwned,
    SchedulerRun, On, paths, Command
<1>15. CASE SchedulerRestore
  BY <1>15, Goes, Ends DEF Vets, At, Installs, SchedulerVets, Steps, Places, Kept,
    SameCall, VettedStep, CallerOwned, SchedulerRestore, On, paths, Command
<1>16. CASE SchedulerRerun
  BY <1>16, Ends DEF Vets, At, Installs, SchedulerVets, VettedStep, CallerOwned,
    SchedulerRerun, On, paths, Command
<1>. QED
  BY <1>1, <1>2, <1>3, <1>4, <1>5, <1>6, <1>7, <1>8, <1>9, <1>10, <1>11, <1>12, <1>13,
    <1>14, <1>15, <1>16 DEF SchedulerCall

\* So do the environment, the beginning of a call and the end of the mishaps.
LEMMA EnvironmentKeepsVets ==
  ASSUME Types, Runs, Vets, Environment \/ Begin \/ Settle PROVE Vets' /\ VettedStep
<1>. UNCHANGED platform /\ CallTypes /\ ManagerTypes /\ PathTypes /\ left \in Nat
  BY EnvironmentActs DEF Types
<1>1. CASE Exit
  BY <1>1 DEF Vets, SystemdVets, SchedulerVets, At, Installs, VettedStep, CallerOwned,
    Returns, Exit, paths
<1>2. CASE Restart
  BY <1>2 DEF Vets, SystemdVets, SchedulerVets, At, Installs, VettedStep, CallerOwned,
    Returns, Restart, paths
<1>3. CASE StopEnds
  BY <1>3 DEF Vets, SystemdVets, SchedulerVets, At, Installs, VettedStep, CallerOwned,
    Returns, StopEnds, paths
<1>4. CASE Login
  BY <1>4, Leaves DEF Vets, SystemdVets, SchedulerVets, At, Installs, VettedStep,
    CallerOwned, Returns, Login, paths
<1>5. CASE MaskUnit
  BY <1>5 DEF Vets, SystemdVets, At, Installs, VettedStep, CallerOwned, Returns, MaskUnit
<1>6. CASE Edit
  BY <1>6, Unforeseens DEF Vets, SystemdVets, SchedulerVets, At, CallTypes, Installs,
    VettedStep, CallerOwned, Returns, Edit, paths
<1>7. CASE Drift
  BY <1>7, Unforeseens DEF Vets, SystemdVets, SchedulerVets, At, CallTypes, Installs,
    VettedStep, CallerOwned, Returns, Drift
<1>8. CASE Crash
  BY <1>8, Leaves DEF Vets, SystemdVets, SchedulerVets, At, Installs, VettedStep,
    CallerOwned, Returns, Crash, paths
<1>9. CASE Begin
  BY <1>9, Leaves, Targets, Begun DEF Vets, SystemdVets, SchedulerVets, At, CallTypes,
    Installs, VettedStep, CallerOwned, Returns, Begin, definition, paths, Stopping, Exists,
    Busy
<1>10. CASE Settle
  BY <1>10 DEF Vets, SystemdVets, SchedulerVets, At, Installs, VettedStep, CallerOwned,
    Returns, Settle, paths
<1>. QED
  BY <1>1, <1>2, <1>3, <1>4, <1>5, <1>6, <1>7, <1>8, <1>9, <1>10 DEF Environment

--------------------------------------------------------------------------------
(***************************************************************************)
(* The invariant of every behaviour.                                       *)
(***************************************************************************)
\* What every state satisfies.
IInv == Types /\ Runs /\ Agrees /\ Spares /\ Vets

\* It holds before the first call.
LEMMA Initially == Init => IInv
<1>. SUFFICES ASSUME Init PROVE IInv
  OBVIOUS
<1>1. /\ call = NoCall /\ call.pc = "idle" /\ call.op = "none"
      /\ ~call.known /\ ~call.made /\ call \in Calls
  <2>1. "idle" \in Places
    BY DEF Places
  <2>. QED BY <2>1 DEF Init, NoCall, Calls
<1>2. platform \in {"systemd", "launchd", "scheduler"} /\ left \in Nat
  BY UserJobAssumption DEF Init
<1>3. logs \in LogDirectories \union {NoDir} /\ mode = "exact"
  BY DirTypes DEF Init
<1>4. file = NoDef /\ loaded = NoDef /\ stale = FALSE /\ enabled = FALSE /\ proc = NoProc
  BY DEF Init
<1>5. Types
  BY <1>1, <1>2, <1>3, <1>4, DefTypes DEF Types, ManagerTypes, CallTypes, PathTypes
<1>6. Runs
  BY <1>1, <1>4, Literals
     DEF Runs, SystemdPlaces, SystemdRuns, LaunchdPlaces, LaunchdRuns, SchedulerPlaces,
         SchedulerRuns, At, Installs, Normal, Stopping, Exists, Busy
<1>7. Agrees
  BY <1>1, <1>4 DEF Agrees, SystemdAgrees, LaunchdAgrees, SchedulerAgrees, At, Installs
<1>8. Spares
  BY <1>1 DEF Spares, SystemdSpares, LaunchdSpares, SchedulerSpares, Matched
<1>9. Vets
  BY <1>1, <1>3 DEF Vets, SystemdVets, SchedulerVets, At, Installs
<1>. QED BY <1>5, <1>6, <1>7, <1>8, <1>9 DEF IInv

\* A step that changes nothing keeps it.
LEMMA Stutters == IInv /\ UNCHANGED vars => IInv'
<1>. SUFFICES ASSUME IInv, UNCHANGED vars PROVE IInv'
  OBVIOUS
<1>. UNCHANGED <<platform, file, loaded, stale, enabled, proc, exe, logs, mode, call, left>>
  BY DEF vars, manager, definition, paths
<1>. Target' = Target
  BY DEF Target, Rendered
<1>1. Types'
  BY DEF IInv, Types, ManagerTypes, CallTypes, PathTypes
<1>2. Runs'
  BY DEF IInv, Runs, SystemdPlaces, SystemdRuns, LaunchdPlaces, LaunchdRuns, SchedulerPlaces,
         SchedulerRuns, At, Installs, Normal, Stopping, Exists, Busy
<1>3. Agrees'
  BY DEF IInv, Agrees, SystemdAgrees, LaunchdAgrees, SchedulerAgrees, At, Installs, Busy
<1>4. Spares'
  BY DEF IInv, Spares, SystemdSpares, LaunchdSpares, SchedulerSpares, Matched, At
<1>5. Vets'
  BY DEF IInv, Vets, SystemdVets, SchedulerVets, At, Installs
<1>. QED BY <1>1, <1>2, <1>3, <1>4, <1>5 DEF IInv

\* Every other step keeps it, and does what the four properties ask of it.
LEMMA Follows == IInv /\ Next => IInv' /\ ConvergedStep /\ UntouchedStep /\ VettedStep
<1>. SUFFICES ASSUME IInv, Next PROVE IInv' /\ ConvergedStep /\ UntouchedStep /\ VettedStep
  OBVIOUS
<1>1. SystemdCall \/ LaunchdCall \/ SchedulerCall \/ (Environment \/ Begin \/ Settle)
  BY DEF Next, Call
<1>2. Types'
  BY <1>1, SystemdKeepsTypes, LaunchdKeepsTypes, SchedulerKeepsTypes, EnvironmentKeepsTypes DEF IInv
<1>3. Runs'
  BY <1>1, SystemdKeepsRuns, LaunchdKeepsRuns, SchedulerKeepsRuns, EnvironmentKeepsRuns DEF IInv
<1>4. Agrees' /\ ConvergedStep
  BY <1>1, SystemdKeepsAgrees, LaunchdKeepsAgrees, SchedulerKeepsAgrees, EnvironmentKeepsAgrees DEF IInv
<1>5. Spares' /\ UntouchedStep
  BY <1>1, SystemdKeepsSpares, LaunchdKeepsSpares, SchedulerKeepsSpares, EnvironmentKeepsSpares DEF IInv
<1>6. Vets' /\ VettedStep
  BY <1>1, SystemdKeepsVets, LaunchdKeepsVets, SchedulerKeepsVets, EnvironmentKeepsVets DEF IInv
<1>. QED BY <1>2, <1>3, <1>4, <1>5, <1>6 DEF IInv

\* Every state of every behaviour is as described above.
THEOREM AlwaysInOrder == Spec => []IInv
<1>1. IInv /\ [Next]_vars => IInv'
  BY Follows, Stutters
<1>. QED BY Initially, <1>1, PTL DEF Spec

\* A process that runs is of the definition the manager wrote, and what launchd
\* has loaded is the plist on disk, whatever a call is doing (userjob_linux.go:240,
\* userjob_darwin.go:95, userjob_windows.go:238).  Of a process that Task Scheduler
\* restarted between the state a call read and its /Disable (raced) it claims
\* nothing: the code does mistake that one.
THEOREM ProcessesAreNotMistaken == Spec => []NeverMistaken
<1>1. IInv => NeverMistaken
  <2>. SUFFICES ASSUME IInv PROVE NeverMistaken
    OBVIOUS
  <2>1. proc.is = "running" /\ ~proc.raced /\ Normal => proc.body = file.body
    BY DEF IInv, Types, Runs, SystemdRuns, LaunchdRuns, SchedulerRuns
  <2>2. platform = "launchd" /\ loaded # NoDef /\ file \notin {NoDef, Edited} /\ ~Stopping =>
          loaded = file
    BY DEF IInv, Runs, LaunchdRuns
  <2>. QED BY <2>1, <2>2 DEF NeverMistaken, Normal
<1>. QED BY <1>1, AlwaysInOrder, PTL

\* What Ensure, Replace and Remove owe when they return nil: disk, manager and
\* process agree, the old process is gone, nothing is left (userjob.go:57), but
\* for a raced process of Windows, which all three may leave running.
THEOREM CallsConverge == Spec => Converged
<1>1. IInv /\ [Next]_vars => [ConvergedStep]_vars
  BY Follows
<1>2. [][ConvergedStep]_vars => Converged
  BY PTL DEF Converged, ConvergedStep
<1>. QED BY <1>1, <1>2, AlwaysInOrder, PTL DEF Spec

\* No step of a call disturbs the matching job that runs, and a call that fails
\* on one command leaves an enabled task enabled (userjob.go:54,
\* userjob_windows.go:273).
THEOREM MatchingJobIsUntouched == Spec => Untouched
<1>1. IInv /\ [Next]_vars => [UntouchedStep]_vars
  BY Follows
<1>2. [][UntouchedStep]_vars => Untouched
  BY PTL DEF Untouched, UntouchedStep
<1>. QED BY <1>1, <1>2, AlwaysInOrder, PTL DEF Spec

\* A call that returns nil has vetted the executable, the directory and the mode
\* of the file, and no call repairs a directory of the user's (userjob.go:28).
THEOREM PathsAreVetted == Spec => Vetted
<1>1. IInv /\ [Next]_vars => [VettedStep]_vars
  BY Follows
<1>2. [][VettedStep]_vars => Vetted
  BY PTL DEF Vetted, VettedStep
<1>. QED BY <1>1, <1>2, AlwaysInOrder, PTL DEF Spec
================================================================================
