----------------------------- MODULE MCAccessLog -----------------------------
(***************************************************************************)
(* One access-log stream on which Envoy sends up to two messages: HTTP     *)
(* logs mixing entries with and without ext_authz metadata and with an     *)
(* unknown target, and TCP logs.                                           *)
(***************************************************************************)
EXTENDS AccessLog

MCApis == {"api1"}

E(meta, api) == [meta |-> meta, api |-> api, complete |-> TRUE]

MCMessages ==
  { [kind |-> "http", entries |-> <<E(TRUE, "api1"), E(FALSE, "api1")>>],
    [kind |-> "http", entries |-> <<E(TRUE, ""), E(TRUE, "api1")>>],
    [kind |-> "tcp", entries |-> << >>] }
=============================================================================
