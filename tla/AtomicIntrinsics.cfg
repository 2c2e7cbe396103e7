\* 5-bit offsets (0 .. 31) against memories ending at 16 or 24: multiples of
\* 8, as a byte size of whole pages is, so offsets at, just below and past
\* the end, aligned and not, occur for both widths.
CONSTANTS
  OffsetBits = 5
  EndOffsets = {16, 24}
SPECIFICATION Spec
INVARIANT AccessWithinMemory
