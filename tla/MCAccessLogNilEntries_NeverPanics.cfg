CONSTANTS
  Apis <- MCApis
  AppendHeaders = FALSE
  Messages <- MCMessages
  MaxMsgs = 2

SPECIFICATION NilEntriesSpec

CHECK_DEADLOCK FALSE

INVARIANT NeverPanics
