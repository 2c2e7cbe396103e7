--------------------------- MODULE AtomicIntrinsics ---------------------------
(***************************************************************************)
(* The atomic intrinsics of src/Source/Runtime/Threads.cpp: atomic_wake,   *)
(* atomic_wait_i32, atomic_wait_i64 and misalignedAtomicTrap.  Each checks *)
(* the Wasm address against the memory's endOffset, then its alignment,   *)
(* and only then calls wakeAddress or waitOnAddress (modelled in WaitWake) *)
(* on the host address.  Offsets are U32 values at a scaled width; the    *)
(* memory's endOffset is fixed for the memory's life.                     *)
(***************************************************************************)
EXTENDS Naturals

CONSTANTS
  OffsetBits,   \* bits of the U32 address offset
  EndOffsets    \* the endOffset values memories may have

Offsets == 0 .. 2^OffsetBits - 1

(* The intrinsics, with the access width in bytes their check assumes. *)
Width == [wake |-> 4, waitI32 |-> 4, waitI64 |-> 8]

VARIABLES
  endOffset,   \* memoryInstance->endOffset
  call,        \* the last intrinsic called: its name and offset
  outcome      \* the trap it threw, or the call it made on the host address

vars == <<endOffset, call, outcome>>

-----------------------------------------------------------------------------
(* The validation atomic_wake and atomic_wait_* run before touching the   *)
(* memory: U32(addressOffset) > endOffset is an access violation, then a  *)
(* set bit under the natural alignment (addressOffset & 3, or & 7) is a   *)
(* misaligned access; otherwise the host call is made.                    *)
Validate(offset, width, end, hostCall) ==
  IF offset > end THEN "accessViolation"
  ELSE IF offset % width # 0 THEN "misalignedAtomicMemoryAccess"
  ELSE hostCall

Init ==
  /\ endOffset \in EndOffsets
  /\ call = [name |-> "none", offset |-> 0]
  /\ outcome = "none"

(* atomic_wake(addressOffset, numToWake, memoryId) *)
AtomicWake(offset) ==
  /\ call' = [name |-> "wake", offset |-> offset]
  /\ outcome' = Validate(offset, Width.wake, endOffset, "wakeAddress")
  /\ UNCHANGED endOffset

(* atomic_wait_i32(addressOffset, expectedValue, timeout, memoryId) *)
AtomicWaitI32(offset) ==
  /\ call' = [name |-> "waitI32", offset |-> offset]
  /\ outcome' = Validate(offset, Width.waitI32, endOffset, "waitOnAddress")
  /\ UNCHANGED endOffset

(* atomic_wait_i64(addressOffset, expectedValue, timeout, memoryId) *)
AtomicWaitI64(offset) ==
  /\ call' = [name |-> "waitI64", offset |-> offset]
  /\ outcome' = Validate(offset, Width.waitI64, endOffset, "waitOnAddress")
  /\ UNCHANGED endOffset

(* misalignedAtomicTrap(address): the trap compiled code calls for a      *)
(* misaligned atomic access; it always throws.                             *)
MisalignedAtomicTrap(offset) ==
  /\ call' = [name |-> "misalignedTrap", offset |-> offset]
  /\ outcome' = "misalignedAtomicMemoryAccess"
  /\ UNCHANGED endOffset

Next ==
  \E offset \in Offsets :
    \/ AtomicWake(offset) \/ AtomicWaitI32(offset) \/ AtomicWaitI64(offset)
    \/ MisalignedAtomicTrap(offset)

Spec == Init /\ [][Next]_vars

-----------------------------------------------------------------------------
(* spec.md 8 ("offset == memory.endOffset ... policy: out of bounds") and *)
(* its open question: an access the pre-validation of atomic_wake and     *)
(* atomic_wait_* lets through to wakeAddress or waitOnAddress lies within  *)
(* the memory, offset + width <= endOffset.  The code's check is           *)
(* U32(addressOffset) > endOffset.                                         *)
AccessWithinMemory ==
  outcome \in {"wakeAddress", "waitOnAddress"} =>
    call.offset + Width[call.name] <= endOffset

=============================================================================
