------------------------- MODULE MCConnectorIdentities -------------------------
(***************************************************************************)
(* Instances of ConnectorIdentities for TLC.                               *)
(***************************************************************************)
EXTENDS ConnectorIdentities, FiniteSetsExt, TLC

ProcSymmetry == Permutations(Procs)
IdSymmetry == Permutations(Ids)
BothSymmetry == ProcSymmetry \union IdSymmetry

\* Bounds: two routes are added in all - both ids once, or one of them again
\* after its removal - and power may bring back one configuration beside the
\* visible one.
TwoAdds == MapThenSumSet(LAMBDA i : eras[i], Ids) <= 2
OneMayReturn == Cardinality(config.disk) <= 2

\* The loss of a state file is explored beside one configuration on disk.
LostAlone == lost => Cardinality(config.disk) = 1
================================================================================
