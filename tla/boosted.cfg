SPECIFICATION FairSpec
CONSTANTS
  Freqs <- MCFreqs
  Limits <- MCLimits
  Tunables <- MCTunables
  Overlaps = {}
  MaxEvents = 4
INVARIANT TypeOK
INVARIANT Watched
INVARIANT QuietAfterStop
PROPERTY BusyReachesMax
CHECK_DEADLOCK FALSE
