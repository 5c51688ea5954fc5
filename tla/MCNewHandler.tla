----------------------------- MODULE MCNewHandler -----------------------------
(***************************************************************************)
(* NewHandler on configurations whose URLs are empty, well-formed or       *)
(* rejected by url.Parse, with every golib and OS call free to fail.       *)
(***************************************************************************)
EXTENDS NewHandler

MCManagementAPIs == {"", "https://mgmt", "http://mgmt:8080", "::bad"}
MCRemoteServiceAPIs == {"", "https://rs", "http://rs:9000", "%zz"}
MCBadURLs == {"::bad", "%zz"}
=============================================================================
