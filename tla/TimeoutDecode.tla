---------------------------- MODULE TimeoutDecode ----------------------------
(***************************************************************************)
(* getEndTimeFromTimeout (src/Source/Runtime/Threads.cpp) and the timed    *)
(* wait it sets up, at a scaled width: U64 is a W-bit unsigned integer and *)
(* F64 a binary float with a P-bit significand and unbounded exponent, so  *)
(* that, as with W = 64 and P = 53, F64(UINT64_MAX - 1) rounds up to 2^W.  *)
(* The constant 1000.0 is the scaled multiplier K.  Finite timeouts are     *)
(* integers (their fraction, truncated by the U64 conversion, plays no part *)
(* in the branches).  Threads call atomic_wait at the monotonic clock      *)
(* `now`, decode their deadline, and time out once the clock reaches it;   *)
(* a deadline of UINT64_MAX is "wait forever".                              *)
(***************************************************************************)
EXTENDS Integers, FiniteSets

CONSTANTS
  Threads,          \* the threads calling atomic_wait
  W,                \* bits of U64
  P,                \* significand bits of F64
  K,                \* the multiplier 1000.0 (milliseconds to microseconds)
  FiniteTimeouts    \* the finite F64 timeouts atomic_wait is called with

UINT64_MAX == 2^W - 1

(* The errorUnless failure, as a deadline no U64 has. *)
Fatal == -1

(* F64 values: a finite value, NaN, or an infinity. *)
Finite(x) == [class |-> "finite", v |-> x]
NaN == [class |-> "NaN", v |-> 0]
PlusInf == [class |-> "PlusInf", v |-> 0]
MinusInf == [class |-> "MinusInf", v |-> 0]

Timeouts == {Finite(x) : x \in FiniteTimeouts} \cup {NaN, PlusInf, MinusInf}

VARIABLES
  now,       \* Platform::getMonotonicClock(), in microseconds
  pc,        \* "idle", "waiting" or "timedOut"
  timeout,   \* the F64 timeout each thread called atomic_wait with
  start,     \* the startTime its deadline was computed from
  endTime,   \* the decoded deadline
  crashed    \* errorUnless failed: the process aborted

vars == <<now, pc, timeout, start, endTime, crashed>>

-----------------------------------------------------------------------------
(* Round a non-negative integer to the nearest value with a P-bit          *)
(* significand, ties to even, as IEEE 754 does.                           *)
RECURSIVE DroppedBits(_)
DroppedBits(a) == IF a < 2^P THEN 0 ELSE 1 + DroppedBits(a \div 2)

RoundToF64(x) ==
  LET Mag(a) == LET u == 2^DroppedBits(a)
                    q == a \div u
                    r == a % u
                IN IF 2 * r < u \/ (2 * r = u /\ q % 2 = 0) THEN q * u ELSE (q + 1) * u
  IN IF x >= 0 THEN Mag(x) ELSE -Mag(-x)

ASSUME \A x \in FiniteTimeouts : RoundToF64(x) = x

(* timeout * 1000.0 *)
MulF64(t, k) == IF t.class = "finite" THEN Finite(RoundToF64(t.v * k)) ELSE t

(* U64(f) for 0 < f <= F64(UINT64_MAX - 1).  f = 2^W is out of range, and *)
(* the conversion undefined: x86-64 code generated for it (subtract 2^63,  *)
(* cvttsd2si, flip bit 63) gives 0; vcvttsd2usi (AVX-512) gives 2^64 - 1.  *)
F64ToU64(f) == IF f < 2^W THEN {f} ELSE {0, UINT64_MAX}

(* The outcomes of getEndTimeFromTimeout(startTime, timeout): a deadline,  *)
(* or Fatal when errorUnless(endTime >= startTime) fails.  endTime is    *)
(* startTime + U64(us) modulo 2^W.                                         *)
GetEndTimeFromTimeout(startTime, t) ==
  LET us == MulF64(t, K) IN
  IF us.class # "finite" THEN {UINT64_MAX}
  ELSE IF us.v <= 0 THEN {startTime}
  ELSE IF us.v <= RoundToF64(UINT64_MAX - 1)
    THEN { IF (startTime + c) % 2^W >= startTime THEN (startTime + c) % 2^W ELSE Fatal
           : c \in F64ToU64(us.v) }
  ELSE {UINT64_MAX}

-----------------------------------------------------------------------------
Init ==
  /\ now \in 1 .. UINT64_MAX
  /\ pc = [t \in Threads |-> "idle"]
  /\ timeout = [t \in Threads |-> NaN]
  /\ start = [t \in Threads |-> 0]
  /\ endTime = [t \in Threads |-> UINT64_MAX]
  /\ crashed = FALSE

(* waitOnAddress begins: the deadline is decoded from the clock; a failed  *)
(* overflow check aborts the process during the decode.                   *)
CallWait(t, to) ==
  /\ pc[t] = "idle" /\ ~crashed
  /\ timeout' = [timeout EXCEPT ![t] = to]
  /\ start' = [start EXCEPT ![t] = now]
  /\ \E e \in GetEndTimeFromTimeout(now, to) :
       IF e = Fatal
         THEN crashed' = TRUE /\ UNCHANGED <<pc, endTime>>
         ELSE /\ pc' = [pc EXCEPT ![t] = "waiting"]
              /\ endTime' = [endTime EXCEPT ![t] = e]
              /\ UNCHANGED crashed
  /\ UNCHANGED now

(* The monotonic clock advances; it does not pass UINT64_MAX. *)
Tick ==
  /\ now < UINT64_MAX /\ ~crashed
  /\ now' = now + 1
  /\ UNCHANGED <<pc, timeout, start, endTime, crashed>>

(* Platform::waitEvent returns at the deadline; UINT64_MAX never passes. *)
Expire(t) ==
  /\ pc[t] = "waiting" /\ ~crashed
  /\ endTime[t] # UINT64_MAX /\ now >= endTime[t]
  /\ pc' = [pc EXCEPT ![t] = "timedOut"]
  /\ UNCHANGED <<now, timeout, start, endTime, crashed>>

(* The process has aborted, or the clock is at its end and every thread   *)
(* has made its call.                                                      *)
Terminated ==
  /\ crashed \/ (now = UINT64_MAX /\ \A t \in Threads : pc[t] # "idle")
  /\ UNCHANGED vars

Next ==
  \/ \E t \in Threads, to \in Timeouts : CallWait(t, to)
  \/ Tick
  \/ \E t \in Threads : Expire(t)
  \/ Terminated

(* The clock runs and the OS wakes a thread at its deadline; Wasm need    *)
(* not call atomic_wait.                                                   *)
Fairness == WF_vars(Tick) /\ \A t \in Threads : WF_vars(Expire(t))

Spec == Init /\ [][Next]_vars /\ Fairness

-----------------------------------------------------------------------------
(* spec.md 7 counts the failed overflow check among the fatal internal     *)
(* errors, invariant violations; no atomic_wait timeout a Wasm guest       *)
(* passes should reach it.                                                 *)
NoFatalTimeout == ~crashed

(* The microseconds a finite timeout asks for: timeout * 1000.0. *)
Duration(t) == IF timeout[t].class = "finite" THEN MulF64(timeout[t], K).v ELSE 0

(* spec.md 4.2 and 8: a timed atomic_wait that is not woken returns "timed *)
(* out" once its timeout has elapsed: never before the clock has advanced  *)
(* by the timeout, and, when that instant is a clock value, eventually.    *)
(* getEndTimeFromTimeout decides both: the U64 conversion (line 113) and   *)
(* the sentinel UINT64_MAX (line 104), which Platform::waitEvent reads as  *)
(* "forever".                                                              *)
TimedWaitLastsItsTimeout ==
  \A t \in Threads :
    /\ [](pc[t] = "timedOut" /\ timeout[t].class = "finite" => now >= start[t] + Duration(t))
    /\ (pc[t] = "waiting" /\ timeout[t].class = "finite" /\ start[t] + Duration(t) <= UINT64_MAX)
         ~> pc[t] = "timedOut"

(* spec.md 8: "timeout = -0.0 or any negative -> deadline = now -> wait    *)
(* returns immediately".                                                   *)
NegativeTimeoutReturnsAtOnce ==
  \A t \in Threads :
    pc[t] # "idle" /\ (timeout[t] = MinusInf \/ (timeout[t].class = "finite" /\ timeout[t].v < 0))
      => endTime[t] = start[t]

=============================================================================
