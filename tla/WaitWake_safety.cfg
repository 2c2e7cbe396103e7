CONSTANTS
  Threads = {t1, t2, t3}
  Addrs = {a1}
  Vals = {0, 1}
  ListIds = {l1, l2}
  NoList = NoList
  UINT32_MAX <- MCUint32Max
  WakeCounts <- MCWakeCountsNonZero
  Timeouts = {"InRange"}
  MaxOps = 2
SPECIFICATION DefinedSpec
SYMMETRY MCSymmetry
INVARIANTS TypeOK WaitListTableConsistent TokenAccounting
