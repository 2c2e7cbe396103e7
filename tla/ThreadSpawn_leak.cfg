CONSTANTS
  Callers = {c1, c2}
  Recs = {r1, r2, r3, r4}
  NoRec = NoRec
  ElementBytes = 16
  EndOffset = 32
  ElementType <- MCElementType
  ExpectedType = "i32_to_none"
  Indices = {0, 1, 2}
  MaxLaunches = 2
SPECIFICATION Spec
INVARIANT NoLeakedRecord
