CONSTANTS
  Threads = {t1, t2}
  Addrs = {a1}
  Vals = {0, 1}
  ListIds = {l1, l2}
  NoList = NoList
  UINT32_MAX <- MCUint32Max
  WakeCounts <- MCWakeCounts
  Timeouts = {"InRange", "PlusInf"}
  MaxOps = 1
SPECIFICATION Spec
INVARIANT NoUseAfterFree
