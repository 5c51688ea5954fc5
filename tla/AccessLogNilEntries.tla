------------------------- MODULE AccessLogNilEntries -------------------------
(***************************************************************************)
(* The access-log stream of AccessLog when a client sends HTTP log entries *)
(* without a Request, a Response or CommonProperties (the gRPC service     *)
(* accepts them; Envoy itself always sets them).                           *)
(***************************************************************************)
EXTENDS AccessLog

\* Lines 167-175: for an entry with a known target, v.Response.ResponseCode,
\* req.Path and cp.StartTime dereference the three messages; a nil one is
\* a nil pointer dereference, a panic of the handler goroutine that grpc-go
\* does not recover, which ends the process.
EntryPanics ==
  /\ hpc = "entries"
  /\ ei <= Len(msg.entries)
  /\ Forwardable(msg.entries[ei])
  /\ ~msg.entries[ei].complete
  /\ hpc' = "panicked"
  /\ UNCHANGED <<envVars, msg, ei, mark, records, metrics, result, wpc, responses>>

NilEntriesNext == Next \/ EntryPanics

NilEntriesSpec == Init /\ [][NilEntriesNext]_vars /\ Fairness

\* The service handles every message a client can send without crashing:
\* the handler goroutine never panics.
NeverPanics == hpc # "panicked"

=============================================================================
