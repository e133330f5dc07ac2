----------------------------- MODULE MCSleepLock -----------------------------
(* Instances of SleepLock for TLC. *)
EXTENDS SleepLock, TLC

Symmetry == Permutations(Proc)
=============================================================================
