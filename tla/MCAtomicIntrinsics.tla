-------------------------- MODULE MCAtomicIntrinsics --------------------------
EXTENDS AtomicIntrinsics, TLC

=============================================================================
