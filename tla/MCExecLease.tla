---------------------------- MODULE MCExecLease ----------------------------
(* Model values for checking ExecLease.                                    *)
EXTENDS ExecLease, TLC

TokenSymmetry == Permutations(Token)
=============================================================================
