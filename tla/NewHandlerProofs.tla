-------------------------- MODULE NewHandlerProofs --------------------------
(***************************************************************************)
(* Proofs about NewHandler: the type invariant and HandlerWired hold in    *)
(* every run of NewHandler, for every set of configured URLs.              *)
(***************************************************************************)
EXTENDS NewHandler, TLAPS

USE NewHandlerAssumption

\* The statements of NewHandler in the order they run.
After(p) ==
  CASE p = "managementAPI"    -> {"remoteServiceAPI", "product", "auth", "quota", "mkdir", "analytics", "done"}
    [] p = "remoteServiceAPI" -> {"product", "auth", "quota", "mkdir", "analytics", "done"}
    [] p = "product"          -> {"auth", "quota", "mkdir", "analytics", "done"}
    [] p = "auth"             -> {"quota", "mkdir", "analytics", "done"}
    [] p = "quota"            -> {"mkdir", "analytics", "done"}

\* A local manager is the one NewHandler built with its base URL exactly
\* when that manager is running.
Built(local, kind, base) ==
  local = IF kind \in running THEN Manager(kind, base) ELSE Nil

\* The invariant of the construction: each URL parsed so far is the
\* endpoint of the configuration; each manager is running exactly when its
\* constructor has succeeded, and then carries the URL parsed before it;
\* the returned handler is made of the locals.
WiredInv ==
  /\ TypeOK
  /\ pc \in After("managementAPI") => managementAPI = Endpoint(config.managementAPI)
  /\ pc \in After("remoteServiceAPI") => remoteServiceAPI = Endpoint(config.remoteServiceAPI)
  /\ pc \in {"managementAPI", "remoteServiceAPI"} => remoteServiceAPI = Nil
  /\ pc = "managementAPI" => managementAPI = Nil
  /\ Built(productMan, "product", remoteServiceAPI)
  /\ Built(authMan, "auth", Nil)
  /\ Built(quotaMan, "quota", remoteServiceAPI)
  /\ Built(analyticsMan, "analytics", managementAPI)
  /\ pc \in After("product") => "product" \in running
  /\ pc \in After("auth") => "auth" \in running
  /\ pc \in After("quota") => "quota" \in running
  /\ pc \in {"managementAPI", "remoteServiceAPI", "product"} => running = {}
  /\ pc = "auth" => running = {"product"}
  /\ pc = "quota" => running = {"product", "auth"}
  /\ pc \in {"mkdir", "analytics"} => running = {"product", "auth", "quota"}
  /\ (result # Nil) = (pc = "done")
  /\ pc = "done" =>
       result = [managementAPI |-> managementAPI,
                 remoteServiceAPI |-> remoteServiceAPI,
                 productMan |-> productMan, authMan |-> authMan,
                 quotaMan |-> quotaMan, analyticsMan |-> analyticsMan]

-----------------------------------------------------------------------------


\* The initial state: nothing parsed, built or returned.
LEMMA InitWired == Init => WiredInv
BY NilAssumption DEF Init, WiredInv, TypeOK, URLValue, Config, Kinds, Built, After, mans

\* A URL parse keeps the managers (none is running yet) and the result.
LEMMA ParseManagementWired ==
  ASSUME WiredInv, ParseManagementAPI PROVE WiredInv'
<1> USE DEF WiredInv, ParseManagementAPI, ParseURL, Fail
<1>1. CASE config.managementAPI = NoString
  BY <1>1 DEF TypeOK, URLValue, Config, Endpoint, Built, After, mans
<1>2. CASE config.managementAPI # NoString /\ config.managementAPI \notin BadURLs
  BY <1>2 DEF TypeOK, URLValue, Config, URL, Endpoint, Built, After, mans
<1>3. CASE config.managementAPI \in BadURLs
  BY <1>3 DEF TypeOK, URLValue, Config, Built, After, mans
<1> QED BY <1>1, <1>2, <1>3

LEMMA ParseRemoteServiceWired ==
  ASSUME WiredInv, ParseRemoteServiceAPI PROVE WiredInv'
<1> USE DEF WiredInv, ParseRemoteServiceAPI, ParseURL, Fail
<1>1. CASE config.remoteServiceAPI = NoString
  BY <1>1 DEF TypeOK, URLValue, Config, Endpoint, Built, After, mans
<1>2. CASE config.remoteServiceAPI # NoString /\ config.remoteServiceAPI \notin BadURLs
  BY <1>2 DEF TypeOK, URLValue, Config, URL, Endpoint, Built, After, mans
<1>3. CASE config.remoteServiceAPI \in BadURLs
  BY <1>3 DEF TypeOK, URLValue, Config, Built, After, mans
<1> QED BY <1>1, <1>2, <1>3

\* Each constructor either starts its manager with the URL parsed before it
\* or ends NewHandler with an error.
LEMMA ProductWired == ASSUME WiredInv, NewProductManager PROVE WiredInv'
BY DEF WiredInv, NewProductManager, NewManager, Fail, TypeOK, URLValue,
       Kinds, Manager, ManagerValue, Built, After, mans

LEMMA AuthWired == ASSUME WiredInv, NewAuthManager PROVE WiredInv'
BY DEF WiredInv, NewAuthManager, NewManager, Fail, TypeOK, URLValue,
       Kinds, Manager, ManagerValue, Built, After, mans

LEMMA QuotaWired == ASSUME WiredInv, NewQuotaManager PROVE WiredInv'
BY DEF WiredInv, NewQuotaManager, NewManager, Fail, TypeOK, URLValue,
       Kinds, Manager, ManagerValue, Built, After, mans

LEMMA MkdirWired == ASSUME WiredInv, MakeAnalyticsDir PROVE WiredInv'
BY DEF WiredInv, MakeAnalyticsDir, TypeOK, Built, After, mans

\* The last step returns the handler made of the locals, with or without
\* an analytics manager.
LEMMA AnalyticsWired == ASSUME WiredInv, NewAnalyticsManager PROVE WiredInv'
<1> USE DEF WiredInv, NewAnalyticsManager
<1>1. result' \in HandlerValue
  BY DEF TypeOK, ManagerValue, HandlerValue, Kinds, Manager, mans
<1>2. result' # Nil BY <1>1, NilAssumption
<1> QED BY <1>1, <1>2 DEF TypeOK, ManagerValue, Kinds, Manager, ManagerValue, Built, After, mans

LEMMA StutterWired == ASSUME WiredInv, UNCHANGED vars PROVE WiredInv'
BY DEF WiredInv, vars, TypeOK, URLValue, Config, Built, After, mans

\* WiredInv is inductive.
LEMMA NextWired == WiredInv /\ [Next]_vars => WiredInv'
BY ParseManagementWired, ParseRemoteServiceWired, ProductWired, AuthWired,
   QuotaWired, MkdirWired, AnalyticsWired, StutterWired DEF Next

\* Every state NewHandler passes through has the types of TypeOK.
THEOREM NewHandlerTypeCorrect == Spec => []TypeOK
<1>1. WiredInv => TypeOK BY DEF WiredInv
<1> QED BY InitWired, NextWired, <1>1, PTL DEF Spec

\* A handler NewHandler returns is wired to its configuration (HandlerWired):
\* product and quota managers on RemoteServiceAPI, analytics on
\* ManagementAPI, and its managers exactly the running ones.
THEOREM HandlerWiredness == Spec => []HandlerWired
<1>1. WiredInv => HandlerWired
  <2> SUFFICES ASSUME WiredInv, result # Nil PROVE HandlerWired
    BY DEF HandlerWired
  <2>1. /\ pc = "done"
        /\ {"product", "auth", "quota"} \subseteq running
        /\ running \subseteq Kinds
        /\ managementAPI \in URLValue /\ remoteServiceAPI \in URLValue
    BY DEF WiredInv, TypeOK, After
  <2>2. /\ productMan = Manager("product", remoteServiceAPI)
        /\ authMan = Manager("auth", Nil)
        /\ quotaMan = Manager("quota", remoteServiceAPI)
        /\ analyticsMan = IF "analytics" \in running
                           THEN Manager("analytics", managementAPI) ELSE Nil
    BY <2>1 DEF WiredInv, Built
  <2>3. \A k \in Kinds, b \in URLValue : Manager(k, b) # Nil
    BY NilAssumption DEF Manager, ManagerValue
  <2>4. /\ result.managementAPI = Endpoint(config.managementAPI)
        /\ result.remoteServiceAPI = Endpoint(config.remoteServiceAPI)
        /\ result.productMan = Manager("product", result.remoteServiceAPI)
        /\ result.quotaMan = Manager("quota", result.remoteServiceAPI)
        /\ result.analyticsMan \in {Nil, Manager("analytics", result.managementAPI)}
    BY <2>1, <2>2 DEF WiredInv, After
  <2>5. CASE "analytics" \in running
    <3>1. running = Kinds BY <2>1, <2>5 DEF Kinds
    <3>2. {result.productMan, result.authMan, result.quotaMan, result.analyticsMan} \ {Nil}
          = {Manager("product", remoteServiceAPI), Manager("auth", Nil),
             Manager("quota", remoteServiceAPI), Manager("analytics", managementAPI)}
      BY <2>1, <2>2, <2>3, <2>5 DEF WiredInv, Kinds, URLValue
    <3>3. {m.kind : m \in {Manager("product", remoteServiceAPI), Manager("auth", Nil),
             Manager("quota", remoteServiceAPI), Manager("analytics", managementAPI)}}
          = Kinds
      BY DEF Manager, Kinds
    <3> QED BY <3>1, <3>2, <3>3, <2>4 DEF HandlerWired
  <2>6. CASE "analytics" \notin running
    <3>1. running = {"product", "auth", "quota"} BY <2>1, <2>6 DEF Kinds
    <3>2. {result.productMan, result.authMan, result.quotaMan, result.analyticsMan} \ {Nil}
          = {Manager("product", remoteServiceAPI), Manager("auth", Nil),
             Manager("quota", remoteServiceAPI)}
      BY <2>1, <2>2, <2>3, <2>6 DEF WiredInv, Kinds, URLValue
    <3>3. {m.kind : m \in {Manager("product", remoteServiceAPI), Manager("auth", Nil),
             Manager("quota", remoteServiceAPI)}}
          = {"product", "auth", "quota"}
      BY DEF Manager
    <3> QED BY <3>1, <3>2, <3>3, <2>4 DEF HandlerWired
  <2> QED BY <2>5, <2>6
<1> QED BY InitWired, NextWired, <1>1, PTL DEF Spec

=============================================================================
