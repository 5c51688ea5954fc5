------------------------ MODULE MCAccessLogNilEntries ------------------------
(***************************************************************************)
(* A client that sends an HTTP log entry whose target is known from the    *)
(* ext_authz metadata but which lacks its Response.                        *)
(***************************************************************************)
EXTENDS AccessLogNilEntries

MCApis == {"api1"}

E(meta, api, complete) == [meta |-> meta, api |-> api, complete |-> complete]

MCMessages ==
  { [kind |-> "http", entries |-> <<E(TRUE, "api1", TRUE), E(TRUE, "api1", FALSE)>>],
    [kind |-> "tcp", entries |-> << >>] }
=============================================================================
