---------------------------- MODULE MCGroupSession ----------------------------
(***************************************************************************)
(* Instances of GroupSession for TLC.                                      *)
(***************************************************************************)
EXTENDS GroupSession, TLC

Siblings == Permutations(Routes \ Bad)
Refused == Permutations(Bad)

CONSTANT Extra  \* routes that only fill the table up

\* A table with them is the whole of Routes, and is explored without updates,
\* failed pushes or an ending.
FullTableQuiet ==
  DOMAIN routes \intersect Extra # {} =>
    /\ DOMAIN routes = Routes
    /\ \A r \in Routes : gens[r] = 0
    /\ ~stopped /\ ~done /\ ~cancelled /\ rotating = "no"
    /\ ~pushErr /\ ~aged
    /\ \A n \in DOMAIN frp : frp[n] \in {"wait", "running", "refused"}

\* A table with them is the whole of Routes, the other refused routes get their
\* slots first, the session is not replaced and a control loss falls between
\* two polls.
Crowded ==
  DOMAIN routes \intersect Extra # {} =>
    /\ DOMAIN routes = Routes /\ rotating = "no"
    /\ \A r \in Extra, q \in Bad \ Extra : routes[r].released => routes[q].released
    /\ relogged /\ ~online =>
         /\ watch.step = "scan" /\ push.by = "none"
         /\ \A r \in Routes : routes[r].seen # "old"
================================================================================
