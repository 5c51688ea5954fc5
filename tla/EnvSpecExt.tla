----------------------------- MODULE EnvSpecExt -----------------------------
(***************************************************************************)
(* NewEnvironmentSpecExt (config/environment_spec_ext.go, the first file   *)
(* of src/unnamed/part_000): the one-shot compilation of a validated       *)
(* EnvironmentSpec into an EnvironmentSpecExt holding the API base-path    *)
(* tree, the operation tree, the CORS tables and the template cache.       *)
(*                                                                         *)
(* The function is sequential; the model takes one step per iteration of   *)
(* its outer loops: one for the head of each API (lines 41-96), one for    *)
(* each operation (lines 98-136) and one for the final loop over the       *)
(* flattened JWT requirements (lines 139-146).  A step that meets a        *)
(* template transform.Parse rejects ends in "error" (the function returns  *)
(* nil, err and the half-built extension is dropped); a CORS regex that    *)
(* regexp.MustCompile rejects ends in "panic".                             *)
(*                                                                         *)
(* Strings are abstracted to the values listed in the constants; the       *)
(* compiled template stored for a raw string is abstracted to whether      *)
(* transform.Parse returned a template (TRUE) or nil (FALSE).             *)
(***************************************************************************)
EXTENDS Naturals, Sequences, FiniteSets, Functions

CONSTANTS
  Templates,     \* the non-empty raw template strings a specification may hold
  BadTemplates,  \* those transform.Parse rejects
  Origins,       \* literal CORS origins, "*" among them
  Regexes,       \* CORS origin regular expressions
  BadRegexes,    \* those regexp.MustCompile panics on
  AnyMethod,     \* the method token that matches any HTTP method
  Split,         \* strings.Split(s, "/") for every path string used
  Specs          \* the validated EnvironmentSpecs the function may be given

\* const wildcard = "*"
Wildcard == "*"

\* Go's zero string: an unset template, path or substitution.
NoString == ""

\* A template string of the configuration, possibly empty.
TemplateStr == Templates \cup {NoString}

(***************************************************************************)
(* The parts of an EnvironmentSpec (config/environment_spec.go) the        *)
(* function reads.  ValidateEnvironmentSpecs has already run on it.        *)
(***************************************************************************)
ParamType == [template : TemplateStr, substitution : TemplateStr]
TransformsType ==
  [path : TemplateStr, headerAdd : Seq(TemplateStr), queryAdd : Seq(TemplateStr)]
JwtType == [in : Seq(ParamType)]
MatchType == [method : STRING, path : TemplateStr \cap DOMAIN Split]
OperationType ==
  [matches : Seq(MatchType), consumerIn : Seq(ParamType),
   transforms : TransformsType, jwts : Seq(JwtType)]
APIType ==
  [id : STRING, basePath : DOMAIN Split,
   cors : [origins : Seq(Origins), regexes : Seq(Regexes)],
   consumerIn : Seq(ParamType), transforms : TransformsType,
   jwts : Seq(JwtType), operations : Seq(OperationType)]

ASSUME SpecsAssumption ==
  /\ BadTemplates \subseteq Templates
  /\ BadRegexes \subseteq Regexes
  /\ NoString \notin Templates
  /\ Specs # {}
  /\ Specs \subseteq [apis : Seq(APIType)]
  /\ \A s \in DOMAIN Split : Split[s] \in Seq(STRING)


(***************************************************************************)
(* The templates each parse helper hands to transform.Parse.               *)
(***************************************************************************)

\* Mutant of ParamTemplates: the skip test written with || instead of &&.
ParamTemplatesOr(p) ==
  IF p.template = NoString \/ p.substitution = NoString
  THEN {}
  ELSE {p.template, p.substitution} \ {NoString}

\* parseAPIOperationParameter (lines 234-244): nothing when both the
\* template and the substitution are empty; parseTemplate skips "" itself.
ParamTemplates(p) ==
  IF p.template = NoString /\ p.substitution = NoString
  THEN {}
  ELSE {p.template, p.substitution} \ {NoString}

\* The parameters of a ConsumerAuthorization.In or JWTAuthentication.In.
ParamsTemplates(ps) == UNION { ParamTemplates(ps[i]) : i \in DOMAIN ps }

\* parseHTTPRequestTransforms (lines 64-84): the path transform and the
\* value of every header and query Add.
TransformTemplates(t) ==
  ({t.path} \cup Range(t.headerAdd) \cup Range(t.queryAdd)) \ {NoString}

\* The templates of one operation: its path templates (lines 106-118), its
\* consumer authorization (125-130) and its transforms (132-135).
OperationTemplates(op) ==
  ({m.path : m \in Range(op.matches)} \ {NoString})
    \cup ParamsTemplates(op.consumerIn)
    \cup TransformTemplates(op.transforms)

\* JWTAuthentications (lines 169-182): the requirements the validator
\* flattened into every API and operation, in API order.
JWTAuthentications(s) ==
  UNION { Range(a.jwts) \cup UNION { Range(o.jwts) : o \in Range(a.operations) }
            : a \in Range(s.apis) }

\* m[k] = v on a Go map, and AddChild on a path.Tree, which replaces the
\* value already stored at that path.
Put(m, k, v) == [x \in DOMAIN m \cup {k} |-> IF x = k THEN v ELSE m[x]]

\* Every entry of f put into m.
PutAll(m, f) ==
  [x \in DOMAIN m \cup DOMAIN f |-> IF x \in DOMAIN f THEN f[x] ELSE m[x]]

\* parseTemplate (lines 223-230) over a set of raw strings: each one is
\* stored, with a nil template when Parse fails.
Parsed(cache, ts) ==
  PutAll(cache, [t \in ts |-> t \notin BadTemplates])

\* The operation tree key of an HTTPMatch (lines 107-112).
MatchKey(api, m) ==
  <<api.id, IF m.method = AnyMethod THEN Wildcard ELSE m.method>>
    \o Split[m.path]

\* The key an operation without HTTPMatches is stored under (line 102).
WildcardKey(api) == <<api.id, Wildcard, Wildcard>>

-----------------------------------------------------------------------------

VARIABLES
  spec,                \* the EnvironmentSpec being compiled
  pc,                  \* "api", "op", "jwt", or the outcome "done", "error", "panic"
  ai,                  \* index of the API the outer loop is at
  oi,                  \* index of the operation the inner loop is at
  compiledTemplates,   \* raw template -> TRUE if a template, FALSE if nil
  apiPathTree,         \* base path segments -> API index
  opPathTree,          \* api ID, method, path segments -> OpTemplateMatch
  corsVary,            \* api ID -> whether a Vary header is needed
  corsAllowedOrigins,  \* api ID -> the statically allowed origins
  compiledRegExps      \* the origin regexes compiled

vars == <<spec, pc, ai, oi, compiledTemplates, apiPathTree, opPathTree,
          corsVary, corsAllowedOrigins, compiledRegExps>>

Init ==
  /\ spec \in Specs
  /\ pc = IF Len(spec.apis) = 0 THEN "jwt" ELSE "api"
  /\ ai = 1
  /\ oi = 1
  /\ compiledTemplates = << >>
  /\ apiPathTree = << >>
  /\ opPathTree = << >>
  /\ corsVary = << >>
  /\ corsAllowedOrigins = << >>
  /\ compiledRegExps = {}

\* Where the outer loop goes after API ai: the JWT loop when it was the last.
NextAPI ==
  /\ ai' = ai + 1
  /\ oi' = 1
  /\ pc' = IF ai = Len(spec.apis) THEN "jwt" ELSE "api"

\* Mutant of AddAPI: the origin regexes compiled without checking them
\* (regexp.Compile with its error ignored).
AddAPIUnchecked ==
  LET api == spec.apis[ai]
      ts  == ParamsTemplates(api.consumerIn) \cup TransformTemplates(api.transforms)
  IN
  /\ pc = "api"
  /\ ai <= Len(spec.apis)
  /\ apiPathTree' = Put(apiPathTree, <<"/">> \o Split[api.basePath], ai)
  /\ corsAllowedOrigins' = Put(corsAllowedOrigins, api.id, Range(api.cors.origins))
  /\ corsVary' = Put(corsVary, api.id, \/ Wildcard \in Range(api.cors.origins)
                                      \/ Len(api.cors.regexes) > 0
                                      \/ Len(api.cors.origins) > 1)
  /\ compiledRegExps' = compiledRegExps \cup Range(api.cors.regexes)
  /\ compiledTemplates' = Parsed(compiledTemplates, ts)
  /\ IF ts \cap BadTemplates # {}
       THEN pc' = "error" /\ UNCHANGED <<ai, oi>>
     ELSE IF Len(api.operations) = 0
       THEN NextAPI
     ELSE pc' = "op" /\ UNCHANGED <<ai, oi>>
  /\ UNCHANGED <<spec, opPathTree>>

\* Lines 41-96 for an API whose CORS regexes all compile: the base path is
\* added to apiPathTree, the CORS tables are filled, then the consumer
\* authorization and the transforms are parsed.
AddAPI ==
  LET api == spec.apis[ai]
      ts  == ParamsTemplates(api.consumerIn) \cup TransformTemplates(api.transforms)
  IN
  /\ pc = "api"
  /\ ai <= Len(spec.apis)
  /\ Range(api.cors.regexes) \cap BadRegexes = {}
  /\ apiPathTree' = Put(apiPathTree, <<"/">> \o Split[api.basePath], ai)
  /\ corsAllowedOrigins' = Put(corsAllowedOrigins, api.id, Range(api.cors.origins))
  /\ corsVary' = Put(corsVary, api.id, \/ Wildcard \in Range(api.cors.origins)
                                      \/ Len(api.cors.regexes) > 0
                                      \/ Len(api.cors.origins) > 1)
  /\ compiledRegExps' = compiledRegExps \cup Range(api.cors.regexes)
  /\ compiledTemplates' = Parsed(compiledTemplates, ts)
  /\ IF ts \cap BadTemplates # {}
       THEN pc' = "error" /\ UNCHANGED <<ai, oi>>
     ELSE IF Len(api.operations) = 0
       THEN NextAPI
     ELSE pc' = "op" /\ UNCHANGED <<ai, oi>>
  /\ UNCHANGED <<spec, opPathTree>>

\* Line 59: regexp.MustCompile panics on an origin regex it cannot compile.
CorsRegexPanic ==
  /\ pc = "api"
  /\ ai <= Len(spec.apis)
  /\ Range(spec.apis[ai].cors.regexes) \cap BadRegexes # {}
  /\ pc' = "panic"
  /\ UNCHANGED <<spec, ai, oi, compiledTemplates, apiPathTree, opPathTree,
                 corsVary, corsAllowedOrigins, compiledRegExps>>

\* Mutant of AddOperation: every route points at the loop variable, which
\* ends on the last operation (taking &op of a range variable before Go 1.22).
AddOperationLastOp ==
  LET api == spec.apis[ai]
      op  == api.operations[oi]
      ts  == OperationTemplates(op)
      last == <<ai, Len(api.operations)>>
      entries ==
        IF Len(op.matches) = 0
        THEN [k \in {WildcardKey(api)} |-> [op |-> last, template |-> NoString]]
        ELSE [k \in {MatchKey(api, m) : m \in Range(op.matches)} |->
                [op |-> last,
                 template |-> (CHOOSE m \in Range(op.matches) :
                                 MatchKey(api, m) = k).path]]
  IN
  /\ pc = "op"
  /\ opPathTree' = PutAll(opPathTree, entries)
  /\ compiledTemplates' = Parsed(compiledTemplates, ts)
  /\ IF ts \cap BadTemplates # {}
       THEN pc' = "error" /\ UNCHANGED <<ai, oi>>
     ELSE IF oi = Len(api.operations)
       THEN NextAPI
     ELSE oi' = oi + 1 /\ UNCHANGED <<pc, ai>>
  /\ UNCHANGED <<spec, apiPathTree, corsVary, corsAllowedOrigins, compiledRegExps>>

\* Lines 98-136 for operation oi of API ai: every HTTPMatch is stored in
\* opPathTree with its parsed path template (an operation without matches
\* under the wildcard key, with no template), then the consumer
\* authorization and the transforms are parsed.
AddOperation ==
  LET api == spec.apis[ai]
      op  == api.operations[oi]
      ts  == OperationTemplates(op)
      entries ==
        IF Len(op.matches) = 0
        THEN [k \in {WildcardKey(api)} |-> [op |-> <<ai, oi>>, template |-> NoString]]
        ELSE [k \in {MatchKey(api, m) : m \in Range(op.matches)} |->
                [op |-> <<ai, oi>>,
                 template |-> (CHOOSE m \in Range(op.matches) :
                                 MatchKey(api, m) = k).path]]
  IN
  /\ pc = "op"
  /\ opPathTree' = PutAll(opPathTree, entries)
  /\ compiledTemplates' = Parsed(compiledTemplates, ts)
  /\ IF ts \cap BadTemplates # {}
       THEN pc' = "error" /\ UNCHANGED <<ai, oi>>
     ELSE IF oi = Len(api.operations)
       THEN NextAPI
     ELSE oi' = oi + 1 /\ UNCHANGED <<pc, ai>>
  /\ UNCHANGED <<spec, apiPathTree, corsVary, corsAllowedOrigins, compiledRegExps>>

\* Lines 139-146: the transformations of every flattened JWT requirement.
ParseJWTs ==
  LET ts == UNION { ParamsTemplates(j.in) : j \in JWTAuthentications(spec) }
  IN
  /\ pc = "jwt"
  /\ compiledTemplates' = Parsed(compiledTemplates, ts)
  /\ pc' = IF ts \cap BadTemplates # {} THEN "error" ELSE "done"
  /\ UNCHANGED <<spec, ai, oi, apiPathTree, opPathTree, corsVary,
                 corsAllowedOrigins, compiledRegExps>>

\* The function has returned (line 148) or failed; nothing changes after.
Returned ==
  /\ pc \in {"done", "error", "panic"}
  /\ UNCHANGED vars

Next ==
  \/ AddAPI
  \/ CorsRegexPanic
  \/ AddOperation
  \/ ParseJWTs
  \/ Returned

Spec == Init /\ [][Next]_vars

-----------------------------------------------------------------------------

TypeOK ==
  /\ spec \in Specs
  /\ pc \in {"api", "op", "jwt", "done", "error", "panic"}
  /\ ai \in 1..Len(spec.apis) + 1
  /\ oi \in Nat \ {0}
  /\ DOMAIN compiledTemplates \subseteq Templates
  /\ compiledTemplates \in [DOMAIN compiledTemplates -> BOOLEAN]
  /\ apiPathTree \in [DOMAIN apiPathTree -> 1..Len(spec.apis)]
  /\ opPathTree \in [DOMAIN opPathTree ->
                      [op : (1..Len(spec.apis)) \X (Nat \ {0}), template : TemplateStr]]
  /\ corsVary \in [DOMAIN corsVary -> BOOLEAN]
  /\ corsAllowedOrigins \in [DOMAIN corsAllowedOrigins -> SUBSET Origins]
  /\ compiledRegExps \subseteq Regexes \ BadRegexes

(***************************************************************************)
(* What the compiled extension must hold, stated from the specification of *)
(* the repository (sections 4.1, 4.2 and 4.6), not from the loops above.   *)
(***************************************************************************)

\* Every raw template string referenced anywhere in a specification: path
\* templates of HTTP matches, path/header/query transform templates, and
\* the template and substitution of every parameter binding (consumer
\* authorization and JWT requirements, of APIs and of operations).
ReferencedTemplates(s) ==
  LET apis   == Range(s.apis)
      ops    == UNION { Range(a.operations) : a \in apis }
      scopes == apis \cup ops
      params == (UNION { Range(x.consumerIn) : x \in scopes })
                  \cup UNION { Range(j.in) : j \in UNION { Range(x.jwts) : x \in scopes } }
  IN  ( { m.path : m \in UNION { Range(o.matches) : o \in ops } }
        \cup (UNION { {x.transforms.path} \cup Range(x.transforms.headerAdd)
                       \cup Range(x.transforms.queryAdd) : x \in scopes })
        \cup (UNION { {p.template, p.substitution} : p \in params }) ) \ {NoString}

\* The routes operation o of API a declares: one per HTTPMatch, or the
\* any-method, any-path route when it has none.
DeclaredKeys(a, o) ==
  LET api == spec.apis[a]
      op  == api.operations[o]
  IN  IF Len(op.matches) = 0 THEN {WildcardKey(api)}
      ELSE {MatchKey(api, m) : m \in Range(op.matches)}

\* Template cache (spec 4.1, 8): once NewEnvironmentSpecExt has returned an
\* extension, its cache holds exactly the distinct non-empty raw templates
\* referenced anywhere in the specification, each with a compiled (non-nil)
\* template, so GetTemplate never hands a request a nil template for a
\* string the configuration uses.
TemplateCacheExact ==
  pc = "done" =>
    /\ DOMAIN compiledTemplates = ReferencedTemplates(spec)
    /\ \A t \in DOMAIN compiledTemplates : compiledTemplates[t]

\* Operation tree (spec 4.2): once an extension is returned, opPathTree
\* holds a route for every route an operation declares and no other, and
\* each route leads to an operation that declares it, with the compiled
\* path template of the very HTTPMatch that declared it.
OpTreeSound ==
  pc = "done" =>
    /\ DOMAIN opPathTree =
         UNION { UNION { DeclaredKeys(a, o) : o \in DOMAIN spec.apis[a].operations }
                   : a \in DOMAIN spec.apis }
    /\ \A k \in DOMAIN opPathTree :
         LET v   == opPathTree[k]
             api == spec.apis[v.op[1]]
             op  == api.operations[v.op[2]]
         IN  \/ Len(op.matches) = 0 /\ k = WildcardKey(api) /\ v.template = NoString
             \/ \E m \in Range(op.matches) : MatchKey(api, m) = k /\ v.template = m.path

\* Spec 4.2: "insertion order does not affect outcome".  Every operation of
\* a returned extension is the one its own declared routes lead to.
OperationsRoutable ==
  pc = "done" =>
    \A a \in DOMAIN spec.apis : \A o \in DOMAIN spec.apis[a].operations :
      \A k \in DeclaredKeys(a, o) : opPathTree[k].op = <<a, o>>

\* Spec 7: compilation either succeeds or returns an error; it never takes
\* the process down, whatever CORS regex a validated specification holds.
NeverPanics == pc # "panic"

=============================================================================
