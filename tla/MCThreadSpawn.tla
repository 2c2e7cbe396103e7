---------------------------- MODULE MCThreadSpawn ----------------------------
(* Instantiation of ThreadSpawn for TLC: a table of two 16-byte elements,  *)
(* element 0 of the expected (i32) -> () type and element 1 of another.    *)
EXTENDS ThreadSpawn, TLC

MCElementType == (0 :> "i32_to_none" @@ 1 :> "f64_to_f64")
MCCallerSymmetry == Permutations(Callers)
=============================================================================
