SPECIFICATION Spec
CONSTANTS
  r1 = r1
  r2 = r2
  Readers = {r1, r2}
  None = None
  Size = 17
  Hdr = 2
  Tag = 1
  Counts = {1, 2}
  MaxPayload = 8
  Junk = 1
  MaxWrites = 4
  Preempt = FALSE
INVARIANT TypeOK
INVARIANT WholeEntries
PROPERTY ImplementsFeed
SYMMETRY Same
