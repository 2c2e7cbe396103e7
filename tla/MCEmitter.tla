------------------------------ MODULE MCEmitter ------------------------------
EXTENDS Emitter, TLC

(* Signatures are interchangeable model values. *)
MCSigSymmetry == Permutations(Sigs)

=============================================================================
