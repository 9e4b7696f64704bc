---------------------------- MODULE FencedLease ----------------------------
(***************************************************************************)
(* What the execution lease promises to apply, backup and restore: at any  *)
(* moment at most one acquisition (token) holds the lease, a token that    *)
(* lost the lease never gets it back, and a fenced write reaches the       *)
(* target only while its own token is the holder.                          *)
(***************************************************************************)
EXTENDS Naturals

CONSTANTS Token, None

VARIABLES holder,   \* the token that may write, or None
          used,     \* the tokens that were ever granted
          landed    \* how many fenced writes of each token reached the target

vars == <<holder, used, landed>>

Init ==
  /\ holder = None
  /\ used = {}
  /\ landed = [t \in Token |-> 0]

Grant(t) ==
  /\ holder = None
  /\ t \notin used
  /\ holder' = t
  /\ used' = used \cup {t}
  /\ UNCHANGED landed

Revoke ==
  /\ holder # None
  /\ holder' = None
  /\ UNCHANGED <<used, landed>>

\* A write may be the last thing a dying holder does.
Write(t) ==
  /\ holder = t
  /\ holder' \in {t, None}
  /\ landed' = [landed EXCEPT ![t] = @ + 1]
  /\ UNCHANGED used

Next ==
  \/ \E t \in Token : Grant(t) \/ Write(t)
  \/ Revoke

Spec == Init /\ [][Next]_vars
=============================================================================
