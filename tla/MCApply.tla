------------------------------ MODULE MCApply ------------------------------
(* Model values for checking Apply.                                        *)
EXTENDS Apply, TLC

ProcSymmetry == Permutations(Proc)
=============================================================================
