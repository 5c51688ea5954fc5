---------------------------- MODULE MCEnvSpecExt ----------------------------
(***************************************************************************)
(* Small EnvironmentSpecs for NewEnvironmentSpecExt, shaped after the      *)
(* specifications of config tests (createGoodEnvSpec and the validation    *)
(* cases): operations with and without HTTPMatches, ANY methods, shared    *)
(* templates, parameter bindings with only a substitution, CORS wildcards  *)
(* and regexes, and templates and regexes that fail to compile.  Every     *)
(* spec has unique API IDs, base paths and operation names, as             *)
(* ValidateEnvironmentSpecs requires.                                      *)
(***************************************************************************)
EXTENDS EnvSpecExt

MCTemplates ==
  {"/pets", "/pets/{id}", "*", "/x/{bad", "/t/{path}", "{path}", "{bad",
   "Bearer {token}", "{token}", "{id}"}
MCBadTemplates == {"/x/{bad", "{bad"}
MCOrigins == {"*", "https://a.example"}
MCRegexes == {"^https://.*$", "(("}
MCBadRegexes == {"(("}
MCAnyMethod == "ANY"

MCSplit ==
  [s \in {"", "/pets", "/pets/{id}", "*", "/x/{bad", "/v1", "/v2"} |->
     CASE s = ""           -> <<"">>
       [] s = "/pets"      -> <<"", "pets">>
       [] s = "/pets/{id}" -> <<"", "pets", "{id}">>
       [] s = "*"          -> <<"*">>
       [] s = "/x/{bad"    -> <<"", "x", "{bad">>
       [] s = "/v1"        -> <<"", "v1">>
       [] s = "/v2"        -> <<"", "v2">>]

P(t, s) == [template |-> t, substitution |-> s]
M(method, path) == [method |-> method, path |-> path]
T(path, h, q) == [path |-> path, headerAdd |-> h, queryAdd |-> q]
Jwt(ps) == [in |-> ps]
Op(ms, ci, tr, js) ==
  [matches |-> ms, consumerIn |-> ci, transforms |-> tr, jwts |-> js]

NoTransforms == T("", <<>>, <<>>)

OpShapes ==
  { \* no HTTPMatches: stored under the wildcard route
    Op(<<>>, <<>>, NoTransforms, <<>>),
    \* GET /pets, a binding with only a substitution, a JWT with a transform
    Op(<<M("GET", "/pets")>>, <<P("", "{id}")>>, NoTransforms,
       <<Jwt(<<P("Bearer {token}", "{token}")>>)>>),
    \* ANY and POST matches, an empty binding, a path rewrite
    Op(<<M("ANY", "/pets/{id}"), M("POST", "/pets")>>, <<P("", "")>>,
       T("/t/{path}", <<"{path}">>, <<>>), <<>>),
    \* ANY * is the same route as an operation without matches
    Op(<<M("ANY", "*")>>, <<>>, NoTransforms, <<>>),
    \* a path template transform.Parse rejects
    Op(<<M("GET", "/x/{bad")>>, <<>>, NoTransforms, <<>>) }

Heads ==
  { [cors |-> [origins |-> <<>>, regexes |-> <<>>], consumerIn |-> <<>>,
     transforms |-> NoTransforms, jwts |-> <<>>],
    [cors |-> [origins |-> <<"*">>, regexes |-> <<"^https://.*$">>],
     consumerIn |-> <<P("Bearer {token}", "{token}")>>,
     transforms |-> T("/t/{path}", <<>>, <<"{path}">>),
     jwts |-> <<Jwt(<<P("", "")>>), Jwt(<<P("{path}", "")>>)>>],
    [cors |-> [origins |-> <<"https://a.example">>, regexes |-> <<>>],
     consumerIn |-> <<>>, transforms |-> T("", <<"{bad">>, <<>>),
     jwts |-> <<>>],
    [cors |-> [origins |-> <<"https://a.example", "*">>, regexes |-> <<"((">>],
     consumerIn |-> <<>>, transforms |-> NoTransforms, jwts |-> <<>>] }

OpSeqs ==
  {<<>>} \cup {<<o>> : o \in OpShapes} \cup {<<o1, o2>> : o1, o2 \in OpShapes}

API(i, h, ops) ==
  [id |-> IF i = 1 THEN "api1" ELSE "api2",
   basePath |-> IF i = 1 THEN "/v1" ELSE "/v2",
   cors |-> h.cors, consumerIn |-> h.consumerIn, transforms |-> h.transforms,
   jwts |-> h.jwts, operations |-> ops]

MCSpecs ==
  {[apis |-> << >>]}
    \cup {[apis |-> <<API(1, h, ops)>>] : h \in Heads, ops \in OpSeqs}
    \cup {[apis |-> <<API(1, h1, o1), API(2, h2, <<o2>>)>>] :
            h1, h2 \in Heads, o1 \in OpSeqs, o2 \in OpShapes}
=============================================================================
