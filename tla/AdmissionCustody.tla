--------------------------- MODULE AdmissionCustody ---------------------------
(***************************************************************************)
(* What the durable session operations promise about the sessions a native *)
(* server opens: an operation is written down before anything can be       *)
(* opened in its name, it is given up once, and only after the server has  *)
(* ended it for good or after recovery has abandoned it.                   *)
(*                                                                         *)
(* phase is the operation's place in the life of its record; session is    *)
(* what the server made of it.                                             *)
(***************************************************************************)
CONSTANT Ops

VARIABLES phase, session

vars == <<phase, session>>

Phases == {"none", "prepared", "held", "resolved", "abandoned"}
Sessions == {"unknown", "open", "ended"}

Move(o, from, to) ==
  /\ phase[o] \in from
  /\ phase' = [phase EXCEPT ![o] = to]
  /\ UNCHANGED session

Prepare(o) == Move(o, {"none"}, "prepared")

Cancel(o) == Move(o, {"prepared"}, "resolved")

Dispatch(o) == Move(o, {"prepared"}, "held")

Resolve(o) == session[o] = "ended" /\ Move(o, {"held"}, "resolved")

Abandon(o) == Move(o, {"held"}, "abandoned")

\* The server opens a session for an operation it may still hear of; what was
\* abandoned may still be opened, and expires on the server's own clock.
Open(o) ==
  /\ phase[o] \in {"held", "abandoned"} /\ session[o] = "unknown"
  /\ session' = [session EXCEPT ![o] = "open"]
  /\ UNCHANGED phase

End(o) ==
  /\ phase[o] \in {"held", "abandoned"} /\ session[o] # "ended"
  /\ session' = [session EXCEPT ![o] = "ended"]
  /\ UNCHANGED phase

Init ==
  /\ phase = [o \in Ops |-> "none"]
  /\ session = [o \in Ops |-> "unknown"]

Next ==
  \E o \in Ops : Prepare(o) \/ Cancel(o) \/ Dispatch(o) \/ Resolve(o)
                   \/ Abandon(o) \/ Open(o) \/ End(o)

Spec == Init /\ [][Next]_vars
================================================================================
