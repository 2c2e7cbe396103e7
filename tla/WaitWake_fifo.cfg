\* Three threads, one call each, over two addresses: every order of waits,
\* wakes, timeouts and stores on two cells with their own WaitLists.  Two list
\* ids, so that a deleted list's memory is reused for either address.  The
\* abstract FIFO queues are per address; the table holds one list per
\* address.  WaitReturns is checked by the reuse run, where the liveness
\* graph stays small.
CONSTANTS
  Threads = {t1, t2, t3}
  Addrs = {a1, a2}
  Vals = {0, 1}
  ListIds = {l1, l2}
  NoList = NoList
  UINT32_MAX <- MCUint32Max
  WakeCounts <- MCWakeCounts
  Timeouts = {"InRange", "PlusInf"}
  MaxOps = 1
SPECIFICATION DefinedSpec
INVARIANT WaitListTableConsistent
SYMMETRY MCListSymmetry
PROPERTIES AbstractSpec
