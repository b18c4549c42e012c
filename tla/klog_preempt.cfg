SPECIFICATION FairSpec
CONSTANTS
  r1 = r1
  r2 = r2
  Readers = {r1, r2}
  None = None
  Size = 16
  Hdr = 2
  Tag = 1
  Counts = {1, 2}
  MaxPayload = 8
  Junk = 1
  MaxWrites = 3
  Preempt = TRUE
INVARIANT HeadAligned
INVARIANT NoLostWakeup
PROPERTY BlockedReaderReturns
