-------------------------- MODULE EnvSpecExtProofs --------------------------
(***************************************************************************)
(* Proofs about NewEnvironmentSpecExt (module EnvSpecExt) for every set of *)
(* templates, regexes and validated specifications.                       *)
(***************************************************************************)
EXTENDS EnvSpecExt, TLAPS

USE SpecsAssumption

-----------------------------------------------------------------------------
(* What the parse helpers hand to transform.Parse are non-empty template   *)
(* strings of the configuration.                                          *)

\* The elements of a sequence over S are in S.
LEMMA SeqElems ==
  ASSUME NEW S, NEW s \in Seq(S)
  PROVE  /\ \A i \in DOMAIN s : s[i] \in S
         /\ Range(s) \subseteq S
BY DEF Range

LEMMA ParamTemplatesType ==
  ASSUME NEW p \in ParamType
  PROVE  ParamTemplates(p) \subseteq Templates
BY DEF ParamTemplates, ParamType, TemplateStr

LEMMA ParamsTemplatesType ==
  ASSUME NEW ps \in Seq(ParamType)
  PROVE  ParamsTemplates(ps) \subseteq Templates
<1>1. \A i \in DOMAIN ps : ps[i] \in ParamType
  BY SeqElems
<1>. QED  BY <1>1, ParamTemplatesType DEF ParamsTemplates

LEMMA TransformTemplatesType ==
  ASSUME NEW t \in TransformsType
  PROVE  TransformTemplates(t) \subseteq Templates
<1>1. Range(t.headerAdd) \cup Range(t.queryAdd) \subseteq TemplateStr
  BY SeqElems DEF TransformsType
<1>. QED  BY <1>1 DEF TransformTemplates, TransformsType, TemplateStr

LEMMA OperationTemplatesType ==
  ASSUME NEW op \in OperationType
  PROVE  OperationTemplates(op) \subseteq Templates
<1>1. Range(op.matches) \subseteq MatchType
  BY SeqElems DEF OperationType
<1>2. {m.path : m \in Range(op.matches)} \ {NoString} \subseteq Templates
  BY <1>1 DEF MatchType, TemplateStr
<1>3. ParamsTemplates(op.consumerIn) \subseteq Templates
  BY ParamsTemplatesType DEF OperationType
<1>4. TransformTemplates(op.transforms) \subseteq Templates
  BY TransformTemplatesType DEF OperationType
<1>. QED  BY <1>2, <1>3, <1>4 DEF OperationTemplates

LEMMA JWTTemplatesType ==
  ASSUME NEW s \in [apis : Seq(APIType)]
  PROVE  UNION { ParamsTemplates(j.in) : j \in JWTAuthentications(s) } \subseteq Templates
<1>1. JWTAuthentications(s) \subseteq JwtType
  <2>1. Range(s.apis) \subseteq APIType
    BY SeqElems
  <2>2. \A a \in APIType : Range(a.jwts) \subseteq JwtType
    BY SeqElems DEF APIType
  <2>3. \A a \in APIType : Range(a.operations) \subseteq OperationType
    BY SeqElems DEF APIType
  <2>4. \A o \in OperationType : Range(o.jwts) \subseteq JwtType
    BY SeqElems DEF OperationType
  <2>. QED  BY <2>1, <2>2, <2>3, <2>4 DEF JWTAuthentications
<1>. QED  BY <1>1, ParamsTemplatesType DEF JwtType

\* Storing parsed templates keeps the cache a map from templates to
\* whether Parse returned one.
LEMMA ParsedType ==
  ASSUME NEW cache, NEW ts \in SUBSET Templates,
         DOMAIN cache \subseteq Templates,
         cache \in [DOMAIN cache -> BOOLEAN]
  PROVE  /\ DOMAIN Parsed(cache, ts) \subseteq Templates
         /\ Parsed(cache, ts) \in [DOMAIN Parsed(cache, ts) -> BOOLEAN]
BY DEF Parsed, PutAll

-----------------------------------------------------------------------------
(* Type correctness.                                                       *)

\* The loop indexes: the outer loop is at an API of the specification,
\* and the inner one at an operation of that API.
LoopBounds ==
  /\ pc = "api" => ai \in 1..Len(spec.apis) /\ oi = 1
  /\ pc = "op"  => ai \in 1..Len(spec.apis)
                   /\ oi \in 1..Len(spec.apis[ai].operations)
  /\ pc \in {"jwt", "done"} => ai = Len(spec.apis) + 1

\* The inductive strengthening of TypeOK.
TypeInv == TypeOK /\ LoopBounds

LEMMA InitTypeInv == Init => TypeInv
<1> SUFFICES ASSUME Init PROVE TypeInv
  OBVIOUS
<1>1. spec \in [apis : Seq(APIType)]
  BY DEF Init
<1>. QED  BY <1>1 DEF Init, TypeInv, TypeOK, LoopBounds

LEMMA AddAPITypeInv == TypeInv /\ AddAPI => TypeInv'
<1> SUFFICES ASSUME TypeInv, AddAPI PROVE TypeInv'
  OBVIOUS
<1> DEFINE api == spec.apis[ai]
           ts == ParamsTemplates(api.consumerIn) \cup TransformTemplates(api.transforms)
<1>1. /\ spec \in [apis : Seq(APIType)]
      /\ ai \in 1..Len(spec.apis)
      /\ api \in APIType
  BY DEF AddAPI, TypeInv, TypeOK
<1>2. /\ Range(api.cors.origins) \subseteq Origins
      /\ Range(api.cors.regexes) \subseteq Regexes
  BY <1>1, SeqElems DEF APIType
<1>3. ts \subseteq Templates
  BY <1>1, ParamsTemplatesType, TransformTemplatesType DEF APIType
<1>4. /\ DOMAIN compiledTemplates' \subseteq Templates
      /\ compiledTemplates' \in [DOMAIN compiledTemplates' -> BOOLEAN]
  BY <1>3, ParsedType DEF AddAPI, TypeInv, TypeOK
<1>5. apiPathTree' \in [DOMAIN apiPathTree' -> 1..Len(spec.apis)]
  BY <1>1 DEF AddAPI, TypeInv, TypeOK, Put
<1>6. corsVary' \in [DOMAIN corsVary' -> BOOLEAN]
  BY DEF AddAPI, TypeInv, TypeOK, Put
<1>7. corsAllowedOrigins' \in [DOMAIN corsAllowedOrigins' -> SUBSET Origins]
  BY <1>2 DEF AddAPI, TypeInv, TypeOK, Put
<1>8. compiledRegExps' \subseteq Regexes \ BadRegexes
  BY <1>2 DEF AddAPI, TypeInv, TypeOK
<1>9. /\ pc' \in {"api", "op", "jwt", "done", "error", "panic"}
      /\ ai' \in 1..Len(spec'.apis) + 1
      /\ oi' \in Nat \ {0}
      /\ LoopBounds'
  BY <1>1 DEF AddAPI, NextAPI, TypeInv, TypeOK, LoopBounds
<1>. QED  BY <1>4, <1>5, <1>6, <1>7, <1>8, <1>9 DEF AddAPI, TypeInv, TypeOK

LEMMA AddOperationTypeInv == TypeInv /\ AddOperation => TypeInv'
<1> SUFFICES ASSUME TypeInv, AddOperation PROVE TypeInv'
  OBVIOUS
<1> DEFINE api == spec.apis[ai]
           op  == api.operations[oi]
           ts  == OperationTemplates(op)
           OpRec == [op : (1..Len(spec.apis)) \X (Nat \ {0}), template : TemplateStr]
<1>1. /\ spec \in [apis : Seq(APIType)]
      /\ ai \in 1..Len(spec.apis)
      /\ oi \in 1..Len(api.operations)
  BY DEF AddOperation, TypeInv, TypeOK, LoopBounds
<1>2. api \in APIType
  BY <1>1
<1>3. op \in OperationType
  BY <1>1, <1>2 DEF APIType
<1>4. Range(op.matches) \subseteq MatchType
  BY <1>3, SeqElems DEF OperationType
<1>5. /\ DOMAIN compiledTemplates' \subseteq Templates
      /\ compiledTemplates' \in [DOMAIN compiledTemplates' -> BOOLEAN]
  BY <1>3, OperationTemplatesType, ParsedType DEF AddOperation, TypeInv, TypeOK
<1>6. opPathTree' \in [DOMAIN opPathTree' -> OpRec]
  <2>1. [op |-> <<ai, oi>>, template |-> NoString] \in OpRec
    BY <1>1 DEF TemplateStr
  <2>2. ASSUME NEW k \in {MatchKey(api, m) : m \in Range(op.matches)}
        PROVE  [op |-> <<ai, oi>>,
                template |-> (CHOOSE m \in Range(op.matches) : MatchKey(api, m) = k).path]
                 \in OpRec
    <3>1. \E m \in Range(op.matches) : MatchKey(api, m) = k
      BY <2>2
    <3>2. (CHOOSE m \in Range(op.matches) : MatchKey(api, m) = k) \in MatchType
      BY <3>1, <1>4
    <3>. QED  BY <3>2, <1>1 DEF MatchType
  <2>. QED  BY <2>1, <2>2 DEF AddOperation, TypeInv, TypeOK, PutAll
<1>7. /\ pc' \in {"api", "op", "jwt", "done", "error", "panic"}
      /\ ai' \in 1..Len(spec'.apis) + 1
      /\ oi' \in Nat \ {0}
      /\ LoopBounds'
  BY <1>1 DEF AddOperation, NextAPI, TypeInv, TypeOK, LoopBounds
<1>. QED  BY <1>5, <1>6, <1>7 DEF AddOperation, TypeInv, TypeOK

LEMMA ParseJWTsTypeInv == TypeInv /\ ParseJWTs => TypeInv'
<1> SUFFICES ASSUME TypeInv, ParseJWTs PROVE TypeInv'
  OBVIOUS
<1>1. spec \in [apis : Seq(APIType)]
  BY DEF TypeInv, TypeOK
<1>2. UNION { ParamsTemplates(j.in) : j \in JWTAuthentications(spec) } \subseteq Templates
  BY <1>1, JWTTemplatesType
<1>3. /\ DOMAIN compiledTemplates' \subseteq Templates
      /\ compiledTemplates' \in [DOMAIN compiledTemplates' -> BOOLEAN]
  BY <1>2, ParsedType DEF ParseJWTs, TypeInv, TypeOK
<1>. QED  BY <1>3 DEF ParseJWTs, TypeInv, TypeOK, LoopBounds

LEMMA NextTypeInv == TypeInv /\ [Next]_vars => TypeInv'
<1> SUFFICES ASSUME TypeInv, [Next]_vars PROVE TypeInv'
  OBVIOUS
<1>1. CASE AddAPI
  BY <1>1, AddAPITypeInv
<1>2. CASE CorsRegexPanic
  BY <1>2 DEF CorsRegexPanic, TypeInv, TypeOK, LoopBounds
<1>3. CASE AddOperation
  BY <1>3, AddOperationTypeInv
<1>4. CASE ParseJWTs
  BY <1>4, ParseJWTsTypeInv
<1>5. CASE Returned \/ UNCHANGED vars
  BY <1>5 DEF Returned, TypeInv, TypeOK, LoopBounds, vars
<1>. QED  BY <1>1, <1>2, <1>3, <1>4, <1>5 DEF Next

\* NewEnvironmentSpecExt only ever stores, for a validated specification,
\* templates of the configuration in the cache, API indexes in the base-path
\* tree, operation references and path templates in the operation tree,
\* listed origins, and regexes that compiled.
THEOREM TypeCorrect == Spec => []TypeOK
<1>1. Init => TypeInv
  BY InitTypeInv
<1>2. TypeInv /\ [Next]_vars => TypeInv'
  BY NextTypeInv
<1>3. TypeInv => TypeOK
  BY DEF TypeInv
<1>. QED  BY <1>1, <1>2, <1>3, PTL DEF Spec

-----------------------------------------------------------------------------
(* The operation tree.                                                     *)

\* The operations of the specification, as <<API index, operation index>>.
Pairs == UNION { {a} \X DOMAIN spec.apis[a].operations : a \in DOMAIN spec.apis }

\* The operations whose iteration of the loop at lines 98-136 has completed.
DoneOps ==
  { p \in Pairs : \/ p[1] < ai
                  \/ pc = "op" /\ p[1] = ai /\ p[2] < oi }

\* Route k with value v is one the operation v.op declares, with the path
\* template of the match that declares it.
RouteOf(k, v) ==
  LET api == spec.apis[v.op[1]]
      op  == api.operations[v.op[2]]
  IN  \/ Len(op.matches) = 0 /\ k = WildcardKey(api) /\ v.template = NoString
      \/ \E m \in Range(op.matches) : MatchKey(api, m) = k /\ v.template = m.path

\* While the function runs, the operation tree holds exactly the routes of
\* the operations done so far, each one declared by the operation it leads to.
RoutesInv ==
  pc \in {"api", "op", "jwt", "done"} =>
    /\ DOMAIN opPathTree = UNION { DeclaredKeys(p[1], p[2]) : p \in DoneOps }
    /\ \A k \in DOMAIN opPathTree : RouteOf(k, opPathTree[k])

\* The pairs of Pairs are the API and operation indexes of the specification.
LEMMA PairsIndexes ==
  ASSUME NEW sp \in [apis : Seq(APIType)]
  PROVE  LET P == UNION { {a} \X DOMAIN sp.apis[a].operations : a \in DOMAIN sp.apis }
         IN  \A a, o : <<a, o>> \in P <=> /\ a \in 1..Len(sp.apis)
                                           /\ o \in 1..Len(sp.apis[a].operations)
<1>1. ASSUME NEW a \in 1..Len(sp.apis)
      PROVE  DOMAIN sp.apis[a].operations = 1..Len(sp.apis[a].operations)
  <2>1. sp.apis[a] \in APIType
    OBVIOUS
  <2>2. sp.apis[a].operations \in Seq(OperationType)
    BY <2>1 DEF APIType
  <2>. QED  BY <2>2
<1>. QED  BY <1>1

\* Every element of Pairs is an index pair of an operation.
LEMMA PairsShape ==
  ASSUME spec \in [apis : Seq(APIType)]
  PROVE  \A p \in Pairs : /\ p = <<p[1], p[2]>>
                          /\ p[1] \in 1..Len(spec.apis)
                          /\ p[2] \in 1..Len(spec.apis[p[1]].operations)
<1> SUFFICES ASSUME NEW p \in Pairs
             PROVE  /\ p = <<p[1], p[2]>>
                    /\ p[1] \in 1..Len(spec.apis)
                    /\ p[2] \in 1..Len(spec.apis[p[1]].operations)
  OBVIOUS
<1>1. PICK a \in DOMAIN spec.apis : p \in {a} \X DOMAIN spec.apis[a].operations
  BY DEF Pairs
<1>2. a \in 1..Len(spec.apis)
  BY <1>1
<1>3. DOMAIN spec.apis[a].operations = 1..Len(spec.apis[a].operations)
  BY <1>2, PairsIndexes
<1>. QED  BY <1>1, <1>2, <1>3

\* The routes of every operation of Pairs, operation by operation.
LEMMA PairsUnion ==
  UNION { DeclaredKeys(p[1], p[2]) : p \in Pairs }
    = UNION { UNION { DeclaredKeys(a, o) : o \in DOMAIN spec.apis[a].operations }
                : a \in DOMAIN spec.apis }
<1>1. ASSUME NEW x, NEW p \in Pairs, x \in DeclaredKeys(p[1], p[2])
      PROVE  \E a \in DOMAIN spec.apis :
               \E o \in DOMAIN spec.apis[a].operations : x \in DeclaredKeys(a, o)
  <2>1. PICK a \in DOMAIN spec.apis : p \in {a} \X DOMAIN spec.apis[a].operations
    BY DEF Pairs
  <2>. QED  BY <1>1, <2>1
<1>2. ASSUME NEW x, NEW a \in DOMAIN spec.apis, NEW o \in DOMAIN spec.apis[a].operations,
             x \in DeclaredKeys(a, o)
      PROVE  \E p \in Pairs : x \in DeclaredKeys(p[1], p[2])
  <2>1. <<a, o>> \in Pairs
    BY DEF Pairs
  <2>. QED  BY <1>2, <2>1
<1>. QED  BY <1>1, <1>2

\* RoutesInv is kept by a step that leaves the specification, the tree and
\* the operations done alone.
LEMMA RoutesInvFrame ==
  ASSUME RoutesInv, spec' = spec, opPathTree' = opPathTree, DoneOps' = DoneOps,
         pc' \in {"api", "op", "jwt", "done"} => pc \in {"api", "op", "jwt", "done"}
  PROVE  RoutesInv'
<1>1. \A a, o : DeclaredKeys(a, o)' = DeclaredKeys(a, o)
  BY DEF DeclaredKeys
<1>2. \A k, v : RouteOf(k, v)' = RouteOf(k, v)
  BY DEF RouteOf
<1>. QED  BY <1>1, <1>2 DEF RoutesInv

LEMMA InitRoutesInv == Init => RoutesInv
<1> SUFFICES ASSUME Init PROVE RoutesInv
  OBVIOUS
<1>1. spec \in [apis : Seq(APIType)]
  BY DEF Init
<1>2. DoneOps = {}
  BY <1>1 DEF Init, DoneOps, Pairs
<1>. QED  BY <1>2 DEF Init, RoutesInv

\* The new routes of AddOperation are those its operation declares, and
\* each leads to it with its own match's template.
LEMMA AddOperationEntries ==
  ASSUME TypeInv, pc = "op"
  PROVE  LET api == spec.apis[ai]
             op  == api.operations[oi]
             entries ==
               IF Len(op.matches) = 0
               THEN [k \in {WildcardKey(api)} |-> [op |-> <<ai, oi>>, template |-> NoString]]
               ELSE [k \in {MatchKey(api, m) : m \in Range(op.matches)} |->
                       [op |-> <<ai, oi>>,
                        template |-> (CHOOSE m \in Range(op.matches) :
                                        MatchKey(api, m) = k).path]]
         IN  /\ DOMAIN entries = DeclaredKeys(ai, oi)
             /\ \A k \in DOMAIN entries : RouteOf(k, entries[k])
<1> DEFINE api == spec.apis[ai]
           op  == api.operations[oi]
<1>1. CASE Len(op.matches) = 0
  BY <1>1 DEF DeclaredKeys, RouteOf
<1>2. CASE Len(op.matches) # 0
  <2>1. ASSUME NEW k \in {MatchKey(api, m) : m \in Range(op.matches)}
        PROVE  LET c == CHOOSE m \in Range(op.matches) : MatchKey(api, m) = k
               IN  c \in Range(op.matches) /\ MatchKey(api, c) = k
    BY <2>1
  <2>. QED  BY <1>2, <2>1 DEF DeclaredKeys, RouteOf
<1>. QED  BY <1>1, <1>2

\* An operation iteration that does not fail completes its operation.
LEMMA AddOperationDoneOps ==
  ASSUME TypeInv, AddOperation, pc' # "error"
  PROVE  DoneOps' = DoneOps \cup {<<ai, oi>>}
<1> DEFINE api == spec.apis[ai]
<1>1. /\ spec \in [apis : Seq(APIType)]
      /\ pc = "op" /\ ai \in 1..Len(spec.apis)
      /\ oi \in 1..Len(spec.apis[ai].operations)
  BY DEF AddOperation, TypeInv, TypeOK, LoopBounds
<1>2. spec' = spec
  BY DEF AddOperation
<1>3. CASE oi = Len(api.operations)
  <2>1. ai' = ai + 1 /\ pc' \in {"api", "jwt"}
    BY <1>1, <1>3 DEF AddOperation, NextAPI
  <2>2. <<ai, oi>> \in Pairs
    BY <1>1, PairsIndexes DEF Pairs
  <2>3. ASSUME NEW p \in Pairs
        PROVE  p[1] < ai + 1 <=> \/ p[1] < ai
                                 \/ p[1] = ai /\ p[2] < oi
                                 \/ p = <<ai, oi>>
    <3>1. p = <<p[1], p[2]>> /\ p[1] \in 1..Len(spec.apis)
          /\ p[2] \in 1..Len(spec.apis[p[1]].operations)
      BY <1>1, PairsShape
    <3>. QED  BY <3>1, <1>3, <1>1
  <2>. QED  BY <1>1, <1>2, <2>1, <2>2, <2>3 DEF DoneOps, Pairs
<1>4. CASE oi # Len(api.operations)
  <2>1. pc' = "op" /\ ai' = ai /\ oi' = oi + 1
    BY <1>1, <1>4 DEF AddOperation
  <2>. QED  BY <1>1, <1>2, <2>1, PairsIndexes DEF DoneOps, Pairs
<1>. QED  BY <1>3, <1>4

LEMMA AddAPIRoutesInv == TypeInv /\ RoutesInv /\ AddAPI => RoutesInv'
<1> SUFFICES ASSUME TypeInv, RoutesInv, AddAPI PROVE RoutesInv'
  OBVIOUS
<1>1. /\ spec \in [apis : Seq(APIType)]
      /\ pc = "api" /\ ai \in 1..Len(spec.apis) /\ oi = 1
  BY DEF AddAPI, TypeInv, TypeOK, LoopBounds
<1>2. UNCHANGED <<spec, opPathTree>>
  BY DEF AddAPI
<1>3. CASE pc' = "error"
  <2>0. ai' = ai /\ oi' = oi
    BY <1>1, <1>3 DEF AddAPI, NextAPI
  <2>1. DoneOps' = DoneOps
    BY <1>1, <1>2, <1>3, <2>0 DEF DoneOps, Pairs
  <2>. QED  BY <1>1, <1>2, <1>3, <2>1, RoutesInvFrame
<1>4. CASE pc' # "error" /\ Len(spec.apis[ai].operations) = 0
  <2>1. ai' = ai + 1 /\ pc' \in {"api", "jwt"}
    BY <1>1, <1>4 DEF AddAPI, NextAPI
  <2>2. DoneOps' = DoneOps
    BY <1>1, <1>2, <1>4, <2>1, PairsIndexes DEF DoneOps, Pairs
  <2>. QED  BY <1>1, <1>2, <2>2, RoutesInvFrame
<1>5. CASE pc' # "error" /\ Len(spec.apis[ai].operations) # 0
  <2>1. pc' = "op" /\ ai' = ai /\ oi' = 1
    BY <1>1, <1>5 DEF AddAPI
  <2>2. DoneOps' = DoneOps
    BY <1>1, <1>2, <2>1, PairsIndexes DEF DoneOps, Pairs
  <2>. QED  BY <1>1, <1>2, <2>2, RoutesInvFrame
<1>. QED  BY <1>3, <1>4, <1>5

LEMMA AddOperationRoutesInv == TypeInv /\ RoutesInv /\ AddOperation => RoutesInv'
<1> SUFFICES ASSUME TypeInv, RoutesInv, AddOperation, pc' # "error" PROVE RoutesInv'
  BY DEF AddOperation, RoutesInv
<1> DEFINE api == spec.apis[ai]
           op  == api.operations[oi]
           entries ==
             IF Len(op.matches) = 0
             THEN [k \in {WildcardKey(api)} |-> [op |-> <<ai, oi>>, template |-> NoString]]
             ELSE [k \in {MatchKey(api, m) : m \in Range(op.matches)} |->
                     [op |-> <<ai, oi>>,
                      template |-> (CHOOSE m \in Range(op.matches) :
                                      MatchKey(api, m) = k).path]]
<1>1. /\ spec \in [apis : Seq(APIType)]
      /\ pc = "op" /\ ai \in 1..Len(spec.apis)
      /\ oi \in 1..Len(spec.apis[ai].operations)
  BY DEF AddOperation, TypeInv, TypeOK, LoopBounds
<1>2. /\ opPathTree' = PutAll(opPathTree, entries)
      /\ spec' = spec
  BY DEF AddOperation
<1>3. /\ DOMAIN entries = DeclaredKeys(ai, oi)
      /\ \A k \in DOMAIN entries : RouteOf(k, entries[k])
  BY <1>1, AddOperationEntries
<1>4. DoneOps' = DoneOps \cup {<<ai, oi>>}
  BY AddOperationDoneOps
<1>5. pc' \in {"api", "op", "jwt", "done"}
  BY DEF AddOperation, NextAPI
<1>6. DOMAIN opPathTree' = UNION { DeclaredKeys(p[1], p[2]) : p \in DoneOps' }
  <2>1. DOMAIN opPathTree = UNION { DeclaredKeys(p[1], p[2]) : p \in DoneOps }
    BY <1>1 DEF RoutesInv
  <2>2. UNION { DeclaredKeys(p[1], p[2]) : p \in DoneOps \cup {<<ai, oi>>} }
          = (UNION { DeclaredKeys(p[1], p[2]) : p \in DoneOps }) \cup DeclaredKeys(ai, oi)
    <3>1. DeclaredKeys(<<ai, oi>>[1], <<ai, oi>>[2]) = DeclaredKeys(ai, oi)
      OBVIOUS
    <3>2. { DeclaredKeys(p[1], p[2]) : p \in DoneOps \cup {<<ai, oi>>} }
            = { DeclaredKeys(p[1], p[2]) : p \in DoneOps } \cup {DeclaredKeys(ai, oi)}
      BY <3>1
    <3>. QED  BY <3>2, Zenon
  <2>3. DOMAIN opPathTree' = DOMAIN opPathTree \cup DOMAIN entries
    BY <1>2 DEF PutAll
  <2>. QED  BY <1>3, <1>4, <2>1, <2>2, <2>3
<1>7. \A k \in DOMAIN opPathTree' : RouteOf(k, opPathTree'[k])
  <2>1. \A k \in DOMAIN opPathTree : RouteOf(k, opPathTree[k])
    BY <1>1 DEF RoutesInv
  <2>2. \A k \in DOMAIN opPathTree' :
          opPathTree'[k] = IF k \in DOMAIN entries THEN entries[k] ELSE opPathTree[k]
    BY <1>2 DEF PutAll
  <2>3. DOMAIN opPathTree' = DOMAIN opPathTree \cup DOMAIN entries
    BY <1>2 DEF PutAll
  <2>. QED  BY <1>3, <2>1, <2>2, <2>3
<1>8. \A a, o : DeclaredKeys(a, o)' = DeclaredKeys(a, o)
  BY <1>2 DEF DeclaredKeys
<1>9. \A k, v : RouteOf(k, v)' = RouteOf(k, v)
  BY <1>2 DEF RouteOf
<1>. QED  BY <1>5, <1>6, <1>7, <1>8, <1>9 DEF RoutesInv

LEMMA NextRoutesInv == TypeInv /\ RoutesInv /\ [Next]_vars => RoutesInv'
<1> SUFFICES ASSUME TypeInv, RoutesInv, [Next]_vars PROVE RoutesInv'
  OBVIOUS
<1>1. CASE AddAPI
  BY <1>1, AddAPIRoutesInv
<1>2. CASE CorsRegexPanic
  BY <1>2 DEF CorsRegexPanic, RoutesInv
<1>3. CASE AddOperation
  BY <1>3, AddOperationRoutesInv
<1>4. CASE ParseJWTs
  <2>1. DoneOps' = DoneOps
    BY <1>4 DEF ParseJWTs, DoneOps, Pairs
  <2>. QED  BY <1>4, <2>1, RoutesInvFrame DEF ParseJWTs
<1>5. CASE Returned \/ UNCHANGED vars
  <2>1. DoneOps' = DoneOps
    BY <1>5 DEF Returned, vars, DoneOps, Pairs
  <2>. QED  BY <1>5, <2>1, RoutesInvFrame DEF Returned, vars
<1>. QED  BY <1>1, <1>2, <1>3, <1>4, <1>5 DEF Next

\* Once the loops have run to the end, every operation is done.
LEMMA RoutesInvDone == TypeInv /\ RoutesInv => OpTreeSound
<1> SUFFICES ASSUME TypeInv, RoutesInv, pc = "done" PROVE OpTreeSound
  BY DEF OpTreeSound
<1>1. spec \in [apis : Seq(APIType)] /\ ai = Len(spec.apis) + 1
  BY DEF TypeInv, TypeOK, LoopBounds
<1>2. DoneOps = Pairs
  BY <1>1, PairsIndexes DEF DoneOps, Pairs
<1>. QED  BY <1>2, PairsUnion DEF RoutesInv, RouteOf, OpTreeSound

\* NewEnvironmentSpecExt returns an operation tree that holds exactly the
\* routes the operations declare (the wildcard route for one without
\* HTTPMatches), each leading to an operation that declares it, with the
\* path template of the declaring match: spec 4.2 for every specification.
THEOREM OpTreeSoundness == Spec => []OpTreeSound
<1>1. Init => TypeInv /\ RoutesInv
  BY InitTypeInv, InitRoutesInv
<1>2. TypeInv /\ RoutesInv /\ [Next]_vars => (TypeInv /\ RoutesInv)'
  BY NextTypeInv, NextRoutesInv
<1>3. TypeInv /\ RoutesInv => OpTreeSound
  BY RoutesInvDone
<1>. QED  BY <1>1, <1>2, <1>3, PTL DEF Spec

-----------------------------------------------------------------------------
(* The template cache.                                                     *)

\* The templates the head of API a hands to parseTemplate (lines 78-95).
HeadTemplates(a) ==
  ParamsTemplates(spec.apis[a].consumerIn) \cup TransformTemplates(spec.apis[a].transforms)

\* The templates the loop at lines 139-146 hands to parseTemplate.
JwtTemplates ==
  UNION { ParamsTemplates(j.in) : j \in JWTAuthentications(spec) }

\* The APIs whose head (lines 41-96) has been compiled.
DoneHeads == { a \in DOMAIN spec.apis : a < ai \/ (pc = "op" /\ a = ai) }

\* The templates parsed so far.
CachedTemplates ==
  (UNION { HeadTemplates(a) : a \in DoneHeads })
    \cup (UNION { OperationTemplates(spec.apis[p[1]].operations[p[2]]) : p \in DoneOps })
    \cup (IF pc = "done" THEN JwtTemplates ELSE {})

\* While the function runs, the cache holds exactly the templates of the
\* iterations done so far, each compiled.
CacheInv ==
  pc \in {"api", "op", "jwt", "done"} =>
    /\ DOMAIN compiledTemplates = CachedTemplates
    /\ \A t \in DOMAIN compiledTemplates : compiledTemplates[t]

\* Storing templates that all parse keeps every cached template compiled.
LEMMA ParsedGood ==
  ASSUME NEW cache, NEW ts, ts \cap BadTemplates = {},
         \A t \in DOMAIN cache : cache[t]
  PROVE  /\ DOMAIN Parsed(cache, ts) = DOMAIN cache \cup ts
         /\ \A t \in DOMAIN Parsed(cache, ts) : Parsed(cache, ts)[t]
<1>1. DOMAIN Parsed(cache, ts) = DOMAIN cache \cup ts
  BY DEF Parsed, PutAll
<1>2. ASSUME NEW t \in DOMAIN Parsed(cache, ts) PROVE Parsed(cache, ts)[t]
  <2>1. Parsed(cache, ts)[t] = IF t \in ts THEN t \notin BadTemplates ELSE cache[t]
    BY <1>1 DEF Parsed, PutAll
  <2>2. CASE t \in ts
    <3>1. t \notin BadTemplates
      BY <2>2
    <3>. QED  BY <2>1, <2>2, <3>1, Zenon
  <2>3. CASE t \notin ts
    <3>1. t \in DOMAIN cache
      BY <1>1, <2>3
    <3>. QED  BY <2>1, <2>3, <3>1, Zenon
  <2>. QED  BY <2>2, <2>3
<1>. QED  BY <1>1, <1>2

\* An API iteration that does not fail completes the head of API ai and
\* no operation.
LEMMA AddAPIDone ==
  ASSUME TypeInv, AddAPI, pc' # "error"
  PROVE  /\ DoneOps' = DoneOps
         /\ DoneHeads' = DoneHeads \cup {ai}
         /\ pc' \in {"api", "op", "jwt"}
<1>1. /\ spec \in [apis : Seq(APIType)]
      /\ pc = "api" /\ ai \in 1..Len(spec.apis) /\ oi = 1
  BY DEF AddAPI, TypeInv, TypeOK, LoopBounds
<1>2. spec' = spec
  BY DEF AddAPI
<1>3. CASE Len(spec.apis[ai].operations) = 0
  <2>1. ai' = ai + 1 /\ pc' \in {"api", "jwt"}
    BY <1>1, <1>3 DEF AddAPI, NextAPI
  <2>2. DoneOps' = DoneOps
    BY <1>1, <1>2, <1>3, <2>1, PairsIndexes DEF DoneOps, Pairs
  <2>3. DoneHeads' = DoneHeads \cup {ai}
    BY <1>1, <1>2, <2>1 DEF DoneHeads
  <2>. QED  BY <2>1, <2>2, <2>3
<1>4. CASE Len(spec.apis[ai].operations) # 0
  <2>1. pc' = "op" /\ ai' = ai /\ oi' = 1
    BY <1>1, <1>4 DEF AddAPI
  <2>2. DoneOps' = DoneOps
    BY <1>1, <1>2, <2>1, PairsIndexes DEF DoneOps, Pairs
  <2>3. DoneHeads' = DoneHeads \cup {ai}
    BY <1>1, <1>2, <2>1 DEF DoneHeads
  <2>. QED  BY <2>1, <2>2, <2>3
<1>. QED  BY <1>3, <1>4

\* An operation iteration that does not fail completes no new head.
LEMMA AddOperationHeads ==
  ASSUME TypeInv, AddOperation, pc' # "error"
  PROVE  /\ DoneHeads' = DoneHeads
         /\ pc' \in {"api", "op", "jwt"}
<1>1. /\ spec \in [apis : Seq(APIType)]
      /\ pc = "op" /\ ai \in 1..Len(spec.apis)
  BY DEF AddOperation, TypeInv, TypeOK, LoopBounds
<1>2. spec' = spec
  BY DEF AddOperation
<1>3. CASE oi = Len(spec.apis[ai].operations)
  <2>1. ai' = ai + 1 /\ pc' \in {"api", "jwt"}
    BY <1>1, <1>3 DEF AddOperation, NextAPI
  <2>. QED  BY <1>1, <1>2, <2>1 DEF DoneHeads
<1>4. CASE oi # Len(spec.apis[ai].operations)
  <2>1. pc' = "op" /\ ai' = ai
    BY <1>1, <1>4 DEF AddOperation
  <2>. QED  BY <1>1, <1>2, <2>1 DEF DoneHeads
<1>. QED  BY <1>3, <1>4

\* The templates parsed so far, after a step that keeps the specification.
LEMMA CachedFrame ==
  ASSUME spec' = spec
  PROVE  CachedTemplates' =
           (UNION { HeadTemplates(a) : a \in DoneHeads' })
             \cup (UNION { OperationTemplates(spec.apis[p[1]].operations[p[2]]) : p \in DoneOps' })
             \cup (IF pc' = "done" THEN JwtTemplates ELSE {})
<1>1. \A a : HeadTemplates(a)' = HeadTemplates(a)
  BY DEF HeadTemplates
<1>2. JwtTemplates' = JwtTemplates
  BY DEF JwtTemplates
<1>. QED  BY <1>1, <1>2 DEF CachedTemplates

LEMMA InitCacheInv == Init => CacheInv
<1> SUFFICES ASSUME Init PROVE CacheInv
  OBVIOUS
<1>1. spec \in [apis : Seq(APIType)]
  BY DEF Init
<1>2. DoneOps = {} /\ DoneHeads = {} /\ pc # "done"
  BY <1>1 DEF Init, DoneOps, Pairs, DoneHeads
<1>3. CachedTemplates = {}
  BY <1>2 DEF CachedTemplates
<1>. QED  BY <1>3 DEF Init, CacheInv

LEMMA AddAPICacheInv == TypeInv /\ CacheInv /\ AddAPI => CacheInv'
<1> SUFFICES ASSUME TypeInv, CacheInv, AddAPI, pc' # "error" PROVE CacheInv'
  BY DEF AddAPI, CacheInv
<1> DEFINE ts == ParamsTemplates(spec.apis[ai].consumerIn)
                   \cup TransformTemplates(spec.apis[ai].transforms)
<1>1. /\ DoneOps' = DoneOps
      /\ DoneHeads' = DoneHeads \cup {ai}
      /\ pc' \in {"api", "op", "jwt"}
  BY AddAPIDone
<1>2. pc = "api" /\ spec' = spec
  BY DEF AddAPI
<1>3. ts \cap BadTemplates = {}
  BY DEF AddAPI
<1>4. /\ DOMAIN compiledTemplates = CachedTemplates
      /\ \A t \in DOMAIN compiledTemplates : compiledTemplates[t]
  BY <1>2 DEF CacheInv
<1>5. compiledTemplates' = Parsed(compiledTemplates, ts)
  BY DEF AddAPI
<1>6. CachedTemplates' = CachedTemplates \cup ts
  <2>1. UNION { HeadTemplates(a) : a \in DoneHeads \cup {ai} }
          = (UNION { HeadTemplates(a) : a \in DoneHeads }) \cup HeadTemplates(ai)
    OBVIOUS
  <2>2. HeadTemplates(ai) = ts
    BY DEF HeadTemplates
  <2>. QED  BY <1>1, <1>2, <2>1, <2>2, CachedFrame DEF CachedTemplates
<1>. QED  BY <1>1, <1>3, <1>4, <1>5, <1>6, ParsedGood DEF CacheInv

LEMMA AddOperationCacheInv == TypeInv /\ CacheInv /\ AddOperation => CacheInv'
<1> SUFFICES ASSUME TypeInv, CacheInv, AddOperation, pc' # "error" PROVE CacheInv'
  BY DEF AddOperation, CacheInv
<1> DEFINE ts == OperationTemplates(spec.apis[ai].operations[oi])
<1>1. /\ DoneOps' = DoneOps \cup {<<ai, oi>>}
      /\ DoneHeads' = DoneHeads
      /\ pc' \in {"api", "op", "jwt"}
  BY AddOperationDoneOps, AddOperationHeads
<1>2. pc = "op" /\ spec' = spec
  BY DEF AddOperation
<1>3. ts \cap BadTemplates = {}
  BY DEF AddOperation
<1>4. /\ DOMAIN compiledTemplates = CachedTemplates
      /\ \A t \in DOMAIN compiledTemplates : compiledTemplates[t]
  BY <1>2 DEF CacheInv
<1>5. compiledTemplates' = Parsed(compiledTemplates, ts)
  BY DEF AddOperation
<1>6. CachedTemplates' = CachedTemplates \cup ts
  <2>1. UNION { OperationTemplates(spec.apis[p[1]].operations[p[2]]) : p \in DoneOps \cup {<<ai, oi>>} }
          = (UNION { OperationTemplates(spec.apis[p[1]].operations[p[2]]) : p \in DoneOps }) \cup ts
    <3>1. OperationTemplates(spec.apis[<<ai, oi>>[1]].operations[<<ai, oi>>[2]]) = ts
      OBVIOUS
    <3>. QED  BY <3>1
  <2>. QED  BY <1>1, <1>2, <2>1, CachedFrame DEF CachedTemplates
<1>. QED  BY <1>1, <1>3, <1>4, <1>5, <1>6, ParsedGood DEF CacheInv

LEMMA ParseJWTsCacheInv == CacheInv /\ ParseJWTs => CacheInv'
<1> SUFFICES ASSUME CacheInv, ParseJWTs, pc' # "error" PROVE CacheInv'
  BY DEF ParseJWTs, CacheInv
<1>1. pc = "jwt" /\ pc' = "done" /\ UNCHANGED <<spec, ai, oi>>
  BY DEF ParseJWTs
<1>2. JwtTemplates \cap BadTemplates = {}
  BY <1>1 DEF ParseJWTs, JwtTemplates
<1>3. /\ DOMAIN compiledTemplates = CachedTemplates
      /\ \A t \in DOMAIN compiledTemplates : compiledTemplates[t]
  BY <1>1 DEF CacheInv
<1>4. compiledTemplates' = Parsed(compiledTemplates, JwtTemplates)
  BY DEF ParseJWTs, JwtTemplates
<1>5. DoneOps' = DoneOps /\ DoneHeads' = DoneHeads
  BY <1>1 DEF DoneOps, Pairs, DoneHeads
<1>6. CachedTemplates' = CachedTemplates \cup JwtTemplates
  BY <1>1, <1>5, CachedFrame DEF CachedTemplates
<1>. QED  BY <1>1, <1>2, <1>3, <1>4, <1>6, ParsedGood DEF CacheInv

LEMMA NextCacheInv == TypeInv /\ CacheInv /\ [Next]_vars => CacheInv'
<1> SUFFICES ASSUME TypeInv, CacheInv, [Next]_vars PROVE CacheInv'
  OBVIOUS
<1>1. CASE AddAPI
  BY <1>1, AddAPICacheInv
<1>2. CASE CorsRegexPanic
  BY <1>2 DEF CorsRegexPanic, CacheInv
<1>3. CASE AddOperation
  BY <1>3, AddOperationCacheInv
<1>4. CASE ParseJWTs
  BY <1>4, ParseJWTsCacheInv
<1>5. CASE Returned \/ UNCHANGED vars
  <2>1. UNCHANGED <<spec, pc, ai, oi, compiledTemplates>>
    BY <1>5 DEF Returned, vars
  <2>2. CachedTemplates' = CachedTemplates
    BY <2>1 DEF CachedTemplates, DoneOps, Pairs, DoneHeads, HeadTemplates, JwtTemplates
  <2>. QED  BY <2>1, <2>2 DEF CacheInv
<1>. QED  BY <1>1, <1>2, <1>3, <1>4, <1>5 DEF Next

\* The templates of a list of parameter bindings are the non-empty
\* templates and substitutions of its bindings.
LEMMA ParamsTemplatesRange ==
  ASSUME NEW ps
  PROVE  ParamsTemplates(ps)
           = (UNION { {p.template, p.substitution} : p \in Range(ps) }) \ {NoString}
<1>1. \A p : ParamTemplates(p) = {p.template, p.substitution} \ {NoString}
  BY DEF ParamTemplates
<1>. QED  BY <1>1 DEF ParamsTemplates, Range

\* Once every iteration is done, the templates parsed are those the
\* specification references: the heads and operations of every API, and
\* the flattened JWT requirements, cover every scope of the specification.
LEMMA CachedAll ==
  ASSUME spec \in [apis : Seq(APIType)]
  PROVE  (UNION { HeadTemplates(a) : a \in DOMAIN spec.apis })
           \cup (UNION { OperationTemplates(spec.apis[p[1]].operations[p[2]]) : p \in Pairs })
           \cup JwtTemplates
         = ReferencedTemplates(spec)
<1> DEFINE apis   == Range(spec.apis)
           ops    == UNION { Range(a.operations) : a \in apis }
           scopes == apis \cup ops
           MatchT == { m.path : m \in UNION { Range(o.matches) : o \in ops } } \ {NoString}
           TransT == UNION { TransformTemplates(x.transforms) : x \in scopes }
           ConsT  == UNION { ParamsTemplates(x.consumerIn) : x \in scopes }
           JwtT   == UNION { ParamsTemplates(j.in) : j \in UNION { Range(x.jwts) : x \in scopes } }
<1>1. UNION { HeadTemplates(a) : a \in DOMAIN spec.apis }
        = UNION { ParamsTemplates(x.consumerIn) \cup TransformTemplates(x.transforms) : x \in apis }
  BY DEF HeadTemplates, Range
<1>2. UNION { OperationTemplates(spec.apis[p[1]].operations[p[2]]) : p \in Pairs }
        = UNION { OperationTemplates(o) : o \in ops }
  <2>1. ASSUME NEW p \in Pairs
        PROVE  spec.apis[p[1]].operations[p[2]] \in ops
    <3>1. p[1] \in DOMAIN spec.apis /\ p[2] \in DOMAIN spec.apis[p[1]].operations
      BY PairsShape, PairsIndexes
    <3>. QED  BY <3>1 DEF Range
  <2>2. ASSUME NEW o \in ops
        PROVE  \E p \in Pairs : spec.apis[p[1]].operations[p[2]] = o
    <3>1. PICK a \in DOMAIN spec.apis : o \in Range(spec.apis[a].operations)
      BY DEF Range
    <3>2. PICK i \in DOMAIN spec.apis[a].operations : o = spec.apis[a].operations[i]
      BY <3>1 DEF Range
    <3>3. <<a, i>> \in Pairs
      BY DEF Pairs
    <3>. QED  BY <3>2, <3>3
  <2>. QED  BY <2>1, <2>2
<1>3. JWTAuthentications(spec) = UNION { Range(x.jwts) : x \in scopes }
  BY DEF JWTAuthentications
<1>4. \A o \in ops : OperationTemplates(o)
        = ({m.path : m \in Range(o.matches)} \ {NoString})
            \cup ParamsTemplates(o.consumerIn) \cup TransformTemplates(o.transforms)
  BY DEF OperationTemplates
<1>5. ASSUME NEW t
      PROVE  t \in (UNION { HeadTemplates(a) : a \in DOMAIN spec.apis })
                    \cup (UNION { OperationTemplates(spec.apis[p[1]].operations[p[2]]) : p \in Pairs })
                    \cup JwtTemplates
             <=> t \in MatchT \cup TransT \cup ConsT \cup JwtT
  <2>1. JwtTemplates = JwtT
    BY <1>3 DEF JwtTemplates
  <2>2. t \in UNION { OperationTemplates(o) : o \in ops }
          <=> \E o \in ops : t \in OperationTemplates(o)
    OBVIOUS
  <2>3. t \in MatchT <=> \E o \in ops : t \in {m.path : m \in Range(o.matches)} \ {NoString}
    OBVIOUS
  <2>4. t \in UNION { ParamsTemplates(x.consumerIn) \cup TransformTemplates(x.transforms) : x \in apis }
          <=> \E x \in apis : t \in ParamsTemplates(x.consumerIn) \cup TransformTemplates(x.transforms)
    OBVIOUS
  <2>5. t \in TransT <=> \E x \in scopes : t \in TransformTemplates(x.transforms)
    OBVIOUS
  <2>6. t \in ConsT <=> \E x \in scopes : t \in ParamsTemplates(x.consumerIn)
    OBVIOUS
  <2>7. t \in UNION { HeadTemplates(a) : a \in DOMAIN spec.apis }
          <=> \E x \in apis : t \in ParamsTemplates(x.consumerIn) \/ t \in TransformTemplates(x.transforms)
    BY <1>1, <2>4
  <2>8. t \in UNION { OperationTemplates(spec.apis[p[1]].operations[p[2]]) : p \in Pairs }
          <=> \E o \in ops : \/ t \in {m.path : m \in Range(o.matches)} \ {NoString}
                              \/ t \in ParamsTemplates(o.consumerIn)
                              \/ t \in TransformTemplates(o.transforms)
    BY <1>2, <1>4, <2>2
  <2>9. t \in TransT <=> \/ \E x \in apis : t \in TransformTemplates(x.transforms)
                          \/ \E o \in ops : t \in TransformTemplates(o.transforms)
    BY <2>5
  <2>10. t \in ConsT <=> \/ \E x \in apis : t \in ParamsTemplates(x.consumerIn)
                           \/ \E o \in ops : t \in ParamsTemplates(o.consumerIn)
    BY <2>6
  <2>. QED  BY <2>1, <2>3, <2>7, <2>8, <2>9, <2>10
<1>6. ASSUME NEW t
      PROVE  t \in ReferencedTemplates(spec) <=> t \in MatchT \cup TransT \cup ConsT \cup JwtT
  <2> DEFINE params == (UNION { Range(x.consumerIn) : x \in scopes })
                         \cup UNION { Range(j.in) : j \in UNION { Range(x.jwts) : x \in scopes } }
             RawT   == UNION { {x.transforms.path} \cup Range(x.transforms.headerAdd)
                                 \cup Range(x.transforms.queryAdd) : x \in scopes }
             RawP   == UNION { {p.template, p.substitution} : p \in params }
  <2>1. ReferencedTemplates(spec)
          = ({ m.path : m \in UNION { Range(o.matches) : o \in ops } } \cup RawT \cup RawP) \ {NoString}
    BY DEF ReferencedTemplates
  <2>2. t \in RawT \ {NoString} <=> t \in TransT
    <3>1. t \in RawT <=> \E x \in scopes : t \in {x.transforms.path} \cup Range(x.transforms.headerAdd)
                                                   \cup Range(x.transforms.queryAdd)
      OBVIOUS
    <3>2. t \in TransT <=> \E x \in scopes : t \in TransformTemplates(x.transforms)
      OBVIOUS
    <3>. QED  BY <3>1, <3>2 DEF TransformTemplates
  <2>3. t \in ConsT <=> /\ t # NoString
                        /\ \E x \in scopes : \E p \in Range(x.consumerIn) :
                             t \in {p.template, p.substitution}
    <3>1. \A x \in scopes : ParamsTemplates(x.consumerIn)
            = (UNION { {p.template, p.substitution} : p \in Range(x.consumerIn) }) \ {NoString}
      BY ParamsTemplatesRange
    <3>2. t \in ConsT <=> \E x \in scopes : t \in ParamsTemplates(x.consumerIn)
      OBVIOUS
    <3>3. ASSUME NEW x \in scopes
          PROVE  t \in ParamsTemplates(x.consumerIn)
                   <=> t # NoString /\ \E p \in Range(x.consumerIn) : t \in {p.template, p.substitution}
      <4>1. ParamsTemplates(x.consumerIn)
              = (UNION { {p.template, p.substitution} : p \in Range(x.consumerIn) }) \ {NoString}
        BY <3>1
      <4>2. t \in UNION { {p.template, p.substitution} : p \in Range(x.consumerIn) }
              <=> \E p \in Range(x.consumerIn) : t \in {p.template, p.substitution}
        OBVIOUS
      <4>. QED  BY <4>1, <4>2
    <3>. QED  BY <3>2, <3>3, Zenon
  <2>4. t \in JwtT <=> /\ t # NoString
                       /\ \E j \in UNION { Range(x.jwts) : x \in scopes } : \E p \in Range(j.in) :
                            t \in {p.template, p.substitution}
    <3>1. \A j : ParamsTemplates(j.in)
            = (UNION { {p.template, p.substitution} : p \in Range(j.in) }) \ {NoString}
      BY ParamsTemplatesRange
    <3>2. t \in JwtT <=> \E j \in UNION { Range(x.jwts) : x \in scopes } : t \in ParamsTemplates(j.in)
      OBVIOUS
    <3>3. ASSUME NEW j
          PROVE  t \in ParamsTemplates(j.in)
                   <=> t # NoString /\ \E p \in Range(j.in) : t \in {p.template, p.substitution}
      <4>1. ParamsTemplates(j.in)
              = (UNION { {p.template, p.substitution} : p \in Range(j.in) }) \ {NoString}
        BY <3>1
      <4>2. t \in UNION { {p.template, p.substitution} : p \in Range(j.in) }
              <=> \E p \in Range(j.in) : t \in {p.template, p.substitution}
        OBVIOUS
      <4>. QED  BY <4>1, <4>2
    <3>. QED  BY <3>2, <3>3, Zenon
  <2>5. t \in RawP \ {NoString} <=> t \in ConsT \cup JwtT
    BY <2>3, <2>4
  <2>. QED  BY <2>1, <2>2, <2>5
<1>. QED  BY <1>5, <1>6

\* When the function returns, every iteration is done.
LEMMA CacheInvDone == TypeInv /\ CacheInv => TemplateCacheExact
<1> SUFFICES ASSUME TypeInv, CacheInv, pc = "done" PROVE TemplateCacheExact
  BY DEF TemplateCacheExact
<1>1. spec \in [apis : Seq(APIType)] /\ ai = Len(spec.apis) + 1
  BY DEF TypeInv, TypeOK, LoopBounds
<1>2. DoneOps = Pairs /\ DoneHeads = DOMAIN spec.apis
  BY <1>1, PairsIndexes DEF DoneOps, Pairs, DoneHeads
<1>3. DOMAIN compiledTemplates = ReferencedTemplates(spec)
  BY <1>1, <1>2, CachedAll DEF CacheInv, CachedTemplates
<1>. QED  BY <1>3 DEF CacheInv, TemplateCacheExact

\* NewEnvironmentSpecExt returns an extension whose template cache holds
\* exactly the distinct non-empty templates the specification references,
\* each compiled: spec 4.1 for every validated specification.
THEOREM TemplateCacheExactness == Spec => []TemplateCacheExact
<1>1. Init => TypeInv /\ CacheInv
  BY InitTypeInv, InitCacheInv
<1>2. TypeInv /\ CacheInv /\ [Next]_vars => (TypeInv /\ CacheInv)'
  BY NextTypeInv, NextCacheInv
<1>3. TypeInv /\ CacheInv => TemplateCacheExact
  BY CacheInvDone
<1>. QED  BY <1>1, <1>2, <1>3, PTL DEF Spec

=============================================================================
