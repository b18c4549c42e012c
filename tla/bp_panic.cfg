SPECIFICATION FairSpec
CONSTANTS
  RebootTimeout = 3
  SnoozeDelay = 4
  UpdateDelay = 2
  Word = 8
  Jumps <- MCJumps
  MaxSets = 1
  MaxInbox = 2
INVARIANT TypeOK
INVARIANT PromiseKept
PROPERTY UnansweredReboots
PROPERTY SnoozeReminds
PROPERTY NoticeGiven
