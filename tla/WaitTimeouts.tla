---------------------------- MODULE WaitTimeouts ----------------------------
(***************************************************************************)
(* The timeout argument of atomic_wait as WaitWake sees it: by the branch  *)
(* of getEndTimeFromTimeout (src/Source/Runtime/Threads.cpp) it takes.     *)
(* TimeoutDecode runs the F64/U64 arithmetic behind these classes.         *)
(***************************************************************************)

(* NaN and +-infinity, a product with 1000 that is <= 0, one within        *)
(* (0, F64(UINT64_MAX - 1)], and one beyond.                               *)
TimeoutClasses == {"NaN", "PlusInf", "MinusInf", "NonPositive", "InRange", "TooLarge"}

(* Whether the endTime getEndTimeFromTimeout returns is UINT64_MAX, which  *)
(* waitForEvent reads as "no deadline".  NaN and the infinities always     *)
(* give it.  A non-positive timeout gives startTime, which is UINT64_MAX   *)
(* when the clock reads it; an in-range one gives startTime + U64(us),     *)
(* which can sum to UINT64_MAX; a product beyond F64(UINT64_MAX - 1) gives *)
(* it, except the product 2^64 itself, whose U64 conversion is undefined   *)
(* and can yield 0 (a deadline of startTime).  The aborting outcome of the *)
(* overflow check is left to TimeoutDecode.                                *)
EndTimeIsInfinite(timeout) ==
  IF timeout \in {"NaN", "PlusInf", "MinusInf"} THEN {TRUE} ELSE {TRUE, FALSE}

=============================================================================
