---------------------------- MODULE MCNativeRuntime ----------------------------
(***************************************************************************)
(* Instances of NativeRuntime for TLC.                                     *)
(***************************************************************************)
EXTENDS NativeRuntime, TLC

\* A connector that enrols and refreshes by itself and can recover, and one
\* that may do neither.
MCConfigs ==
  {[refresh |-> "auto", enrol |-> TRUE, account |-> TRUE],
   [refresh |-> "disabled", enrol |-> FALSE, account |-> FALSE]}
================================================================================
