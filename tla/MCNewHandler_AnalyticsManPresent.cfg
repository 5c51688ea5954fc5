CONSTANTS
  ManagementAPIs <- MCManagementAPIs
  RemoteServiceAPIs <- MCRemoteServiceAPIs
  BadURLs <- MCBadURLs
  Nil = Nil

SPECIFICATION Spec

\* NewHandler returns: its final states have no successor.
CHECK_DEADLOCK FALSE

INVARIANT AnalyticsManPresent
