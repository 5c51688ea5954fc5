CONSTANTS
  NsPerMs = 2
  MsPerSec = 2
  IntHalf = 32
  MinValidSec <- MCMinValidSec
  MaxValidSec = 10
  MaxDurSec = 12
  Timestamps <- MCTimestamps
  Durations <- MCDurations
  Nil = Nil

SPECIFICATION Spec

\* One record is built; the function then returns.
CHECK_DEADLOCK FALSE

INVARIANT StampsAreMillis
