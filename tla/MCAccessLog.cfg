CONSTANTS
  Apis <- MCApis
  AppendHeaders = FALSE
  Messages <- MCMessages
  MaxMsgs = 2

SPECIFICATION Spec

CHECK_DEADLOCK FALSE

INVARIANT TypeOK
PROPERTY ForwardedInOrder
PROPERTY WatcherExits
PROPERTY StreamEndsWhenClientDone
PROPERTY ForwardingSpec
