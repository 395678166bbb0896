--------------------------- MODULE MCDistLockTest ---------------------------
(***************************************************************************)
(* DistLockTest for TLC: the threads as model values, and the symmetry     *)
(* among them for the runs that check invariants.                          *)
(***************************************************************************)
EXTENDS DistLockTest, TLC

CONSTANTS t1, t2, t3

TwoThreads   == {t1, t2}
ThreeThreads == {t1, t2, t3}

ThreadSymmetry == Permutations(Threads)

=============================================================================
