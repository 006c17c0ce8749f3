---------------------------- MODULE MCNtripTask -----------------------------
(* Instances of NtripTask for model checking.                              *)
EXTENDS NtripTask, TLC
=============================================================================
