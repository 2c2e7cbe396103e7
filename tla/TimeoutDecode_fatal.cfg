\* U64 at 6 bits and F64 with a 3-bit significand: F64(UINT64_MAX - 1) rounds
\* to 2^W, as F64(2^64 - 2) rounds to 2^64.  K = 4 stands for 1000.0.  One
\* thread: the properties are about a single decode.  The timeouts are in
\* MCTimeoutDecode.
CONSTANTS
  Threads = {t1}
  W = 6
  P = 3
  K = 4
  FiniteTimeouts <- MCTimeoutsBelow2W
SPECIFICATION Spec
INVARIANT NoFatalTimeout
