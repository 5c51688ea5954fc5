CONSTANTS
  Apis <- MCApis
  AppendHeaders = FALSE
  Messages <- MCMessages
  MaxMsgs = 2

SPECIFICATION Spec

CHECK_DEADLOCK FALSE

PROPERTY FailedSendEndsStream
