--------------------------- MODULE MCTimeoutDecode ---------------------------
EXTENDS TimeoutDecode, TLC

(* Finite timeouts at W = 6, P = 3, K = 4: negative, zero, small, those    *)
(* whose product is the largest F64 below 2^W (14 * 4 = 56), exactly 2^W   *)
(* (16 * 4 = 64), and beyond (20 * 4 = 80).                                *)
MCFiniteTimeouts == {-1, 0, 1, 2, 12, 14, 16, 20}

(* The same without 16: no product reaches the undefined conversion at    *)
(* 2^W, so what remains is the defined U64 arithmetic.                     *)
MCTimeoutsBelow2W == MCFiniteTimeouts \ {16}

=============================================================================
