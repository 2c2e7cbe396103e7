----------------------------- MODULE MCWaitWake -----------------------------
(* Instantiation of WaitWake for TLC. *)
EXTENDS WaitWake, TLC

MCUint32Max == 3
MCWakeCounts == {0, 1, MCUint32Max}
MCWakeCountsNonZero == {1, MCUint32Max}
MCThreadSymmetry == Permutations(Threads)
MCListSymmetry == Permutations(ListIds)
MCSymmetry == Permutations(Threads) \cup Permutations(ListIds)
=============================================================================
