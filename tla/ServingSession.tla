---------------------------- MODULE ServingSession ----------------------------
(***************************************************************************)
(* What SessionGroupRunner relies on of a session (GroupServingSession,    *)
(* pkg/share/group_frp.go): a table of registrations that only the runner  *)
(* replaces, whose phases follow what the server said of that very         *)
(* registration, and that promises nothing once the session has ended.     *)
(***************************************************************************)
EXTENDS Naturals

CONSTANTS Routes, Phases

VARIABLES
  table,     \* route -> [gen, phase]
  admitted,  \* registrations the server has ever admitted
  ended

vars == <<table, admitted, ended>>

Serving(t) == {r \in DOMAIN t : t[r].phase = "serving"}

\* The runner replaces the table: a registration that stays keeps its phase.
Replace ==
  /\ ~ended
  /\ DOMAIN table' \subseteq Routes
  /\ \A r \in DOMAIN table' :
       \/ r \in DOMAIN table /\ table'[r] = table[r]
       \/ /\ r \in DOMAIN table => table'[r].gen > table[r].gen
          /\ table'[r].phase = "pending"
  /\ UNCHANGED <<admitted, ended>>

\* The server admits registrations, seen or not.
Admit ==
  /\ admitted \subseteq admitted'
  /\ UNCHANGED <<table, ended>>

\* Phases are observed, for the registrations the table has, and only while
\* the session lives.
Observe ==
  /\ ~ended
  /\ DOMAIN table' = DOMAIN table
  /\ \A r \in DOMAIN table :
       /\ table'[r] = [table[r] EXCEPT !.phase = table'[r].phase]
       /\ table'[r].phase \in Phases
       /\ table[r].phase = "failed" => table'[r].phase = "failed"
       /\ table'[r].phase = "serving" => <<r, table[r].gen>> \in admitted
  /\ UNCHANGED <<admitted, ended>>

\* An ended session serves nothing, for good.
End ==
  /\ ~ended /\ ended'
  /\ table' = [r \in DOMAIN table |->
                 IF r \in Serving(table) THEN [table[r] EXCEPT !.phase = "pending"] ELSE table[r]]
  /\ UNCHANGED admitted

Init ==
  /\ DOMAIN table \subseteq Routes /\ Serving(table) = {}
  /\ admitted = {} /\ ~ended

Next == Replace \/ Admit \/ Observe \/ End

Spec == Init /\ [][Next]_vars
================================================================================
