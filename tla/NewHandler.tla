----------------------------- MODULE NewHandler -----------------------------
(***************************************************************************)
(* NewHandler (src/server/handler.go, lines 66-155): builds the handler    *)
(* the servers share.  It parses the two tenant URLs, then constructs the  *)
(* product, auth, quota and analytics managers of golib in that order,     *)
(* returning nil and the error at the first failure.  One step per call.   *)
(*                                                                         *)
(* A golib NewManager that succeeds has started the manager's background  *)
(* work (polling, JWKS refresh, quota sync, analytics upload); `running'   *)
(* holds the managers in that state.  Nothing in NewHandler stops one.    *)
(* Whether a call of golib or of the OS fails is the environment's choice. *)
(***************************************************************************)
EXTENDS Naturals, FiniteSets

CONSTANTS
  ManagementAPIs,      \* values config.Tenant.ManagementAPI may take
  RemoteServiceAPIs,   \* values config.Tenant.RemoteServiceAPI may take
  BadURLs,             \* the strings url.Parse rejects
  Nil                  \* Go's nil

\* Go's empty string, the value of an unset configuration field.
NoString == ""

ASSUME NewHandlerAssumption ==
  /\ NoString \in ManagementAPIs \cap RemoteServiceAPIs
  /\ NoString \notin BadURLs
  /\ Nil \notin ManagementAPIs \cup RemoteServiceAPIs

\* What url.Parse returns for a string it accepts: the *url.URL of s.
URL(s) == [url |-> s]

\* A manager, with the BaseURL it was given (Nil for auth, which has none).
Manager(kind, base) == [kind |-> kind, base |-> base]

Kinds == {"product", "auth", "quota", "analytics"}

\* The URLs url.Parse can return, and nil.
URLValue ==
  {URL(s) : s \in (ManagementAPIs \cup RemoteServiceAPIs) \ (BadURLs \cup {NoString})} \cup {Nil}

\* The managers, and the handlers, NewHandler can build.
ManagerValue == [kind : Kinds, base : URLValue]

HandlerValue ==
  [managementAPI : URLValue, remoteServiceAPI : URLValue,
   productMan : ManagerValue \cup {Nil}, authMan : ManagerValue \cup {Nil},
   quotaMan : ManagerValue \cup {Nil}, analyticsMan : ManagerValue \cup {Nil}]

\* Go's nil is no manager and no handler.
ASSUME NilAssumption == Nil \notin ManagerValue \cup HandlerValue

Config == [managementAPI : ManagementAPIs, remoteServiceAPI : RemoteServiceAPIs]

VARIABLES
  pc,                \* the next statement of NewHandler, or its outcome
  config,            \* the *Config argument
  managementAPI,     \* local managementAPI (line 68)
  remoteServiceAPI,  \* local remoteServiceAPI (line 68)
  productMan, authMan, quotaMan, analyticsMan,   \* locals, Nil until set
  running,           \* managers whose background work has been started
  result             \* the returned *handler, Nil until it returns one

vars == <<pc, config, managementAPI, remoteServiceAPI, productMan, authMan,
          quotaMan, analyticsMan, running, result>>

mans == <<productMan, authMan, quotaMan, analyticsMan>>

Init ==
  /\ pc = "managementAPI"
  /\ config \in Config
  /\ managementAPI = Nil /\ remoteServiceAPI = Nil
  /\ productMan = Nil /\ authMan = Nil /\ quotaMan = Nil /\ analyticsMan = Nil
  /\ running = {}
  /\ result = Nil

\* return nil, err
Fail == pc' = "error"

\* Mutant of ParseURL: the error of url.Parse not checked.
ParseURLIgnoreError(field, local, next) ==
  /\ pc = field
  /\ \/ /\ config[field] = NoString
        /\ pc' = next /\ UNCHANGED local
     \/ /\ config[field] # NoString
        /\ local' = URL(config[field])
        /\ pc' = next

\* Lines 70-81: a non-empty URL is parsed; a parse error returns.
ParseURL(field, local, next) ==
  /\ pc = field
  /\ \/ /\ config[field] = NoString
        /\ pc' = next /\ UNCHANGED local
     \/ /\ config[field] # NoString /\ config[field] \notin BadURLs
        /\ local' = URL(config[field])
        /\ pc' = next
     \/ /\ config[field] \in BadURLs
        /\ Fail /\ UNCHANGED local

ParseManagementAPI ==
  /\ ParseURL("managementAPI", managementAPI, "remoteServiceAPI")
  /\ UNCHANGED <<config, remoteServiceAPI, mans, running, result>>

ParseRemoteServiceAPI ==
  /\ ParseURL("remoteServiceAPI", remoteServiceAPI, "product")
  /\ UNCHANGED <<config, managementAPI, mans, running, result>>

\* A golib NewManager call: either it returns a started manager, or nil
\* and an error, upon which NewHandler returns nil, err.
NewManager(kind, local, base, next) ==
  /\ pc = kind
  /\ \/ /\ local' = Manager(kind, base)
        /\ running' = running \cup {kind}
        /\ pc' = next
     \/ /\ Fail /\ UNCHANGED <<local, running>>

\* Lines 83-98: product.NewManager with BaseURL remoteServiceAPI.
NewProductManager ==
  /\ NewManager("product", productMan, remoteServiceAPI, "auth")
  /\ UNCHANGED <<config, managementAPI, remoteServiceAPI, authMan, quotaMan,
                 analyticsMan, result>>

\* Lines 100-107: auth.NewManager.
NewAuthManager ==
  /\ NewManager("auth", authMan, Nil, "quota")
  /\ UNCHANGED <<config, managementAPI, remoteServiceAPI, productMan,
                 quotaMan, analyticsMan, result>>

\* Lines 109-117: quota.NewManager with BaseURL remoteServiceAPI.
NewQuotaManager ==
  /\ NewManager("quota", quotaMan, remoteServiceAPI, "mkdir")
  /\ UNCHANGED <<config, managementAPI, remoteServiceAPI, productMan,
                 authMan, analyticsMan, result>>

\* Lines 119-124: os.MkdirAll of the analytics buffer directory.
MakeAnalyticsDir ==
  /\ pc = "mkdir"
  /\ pc' \in {"analytics", "error"}
  /\ UNCHANGED <<config, managementAPI, remoteServiceAPI, mans, running, result>>

\* Mutant of NewAnalyticsManager: BaseURL set to remoteServiceAPI.
NewAnalyticsManagerWrongBase ==
  /\ pc = "analytics"
  /\ \/ /\ analyticsMan' = Manager("analytics", remoteServiceAPI)
        /\ running' = running \cup {"analytics"}
     \/ UNCHANGED <<analyticsMan, running>>
  /\ result' = [managementAPI |-> managementAPI,
                remoteServiceAPI |-> remoteServiceAPI,
                productMan |-> productMan, authMan |-> authMan,
                quotaMan |-> quotaMan, analyticsMan |-> analyticsMan']
  /\ pc' = "done"
  /\ UNCHANGED <<config, managementAPI, remoteServiceAPI, productMan,
                 authMan, quotaMan>>

\* Lines 126-154: analytics.NewManager with BaseURL managementAPI; its err
\* is assigned and never read, and the handler is returned with nil error.
NewAnalyticsManager ==
  /\ pc = "analytics"
  /\ \/ /\ analyticsMan' = Manager("analytics", managementAPI)
        /\ running' = running \cup {"analytics"}
     \/ UNCHANGED <<analyticsMan, running>>
  /\ result' = [managementAPI |-> managementAPI,
                remoteServiceAPI |-> remoteServiceAPI,
                productMan |-> productMan, authMan |-> authMan,
                quotaMan |-> quotaMan, analyticsMan |-> analyticsMan']
  /\ pc' = "done"
  /\ UNCHANGED <<config, managementAPI, remoteServiceAPI, productMan,
                 authMan, quotaMan>>

Next ==
  \/ ParseManagementAPI \/ ParseRemoteServiceAPI
  \/ NewProductManager \/ NewAuthManager \/ NewQuotaManager
  \/ MakeAnalyticsDir \/ NewAnalyticsManager

Spec == Init /\ [][Next]_vars

-----------------------------------------------------------------------------

TypeOK ==
  /\ pc \in {"managementAPI", "remoteServiceAPI", "product", "auth", "quota",
             "mkdir", "analytics", "done", "error"}
  /\ config \in Config
  /\ managementAPI \in URLValue /\ remoteServiceAPI \in URLValue
  /\ \A k \in 1..4 : mans[k] \in ManagerValue \cup {Nil}
  /\ running \subseteq Kinds
  /\ result \in HandlerValue \cup {Nil}

\* The endpoint a configured URL string designates: nil when it is empty.
Endpoint(s) == IF s = NoString THEN Nil ELSE URL(s)

\* A returned handler is wired to its configuration: product and quota talk
\* to RemoteServiceAPI and analytics to ManagementAPI, each nil exactly when
\* the configuration leaves it empty, the handler's own URLs are those, and
\* each of its managers is one NewHandler started.
HandlerWired ==
  result # Nil =>
    /\ result.managementAPI = Endpoint(config.managementAPI)
    /\ result.remoteServiceAPI = Endpoint(config.remoteServiceAPI)
    /\ result.productMan = Manager("product", result.remoteServiceAPI)
    /\ result.quotaMan = Manager("quota", result.remoteServiceAPI)
    /\ result.analyticsMan \in {Nil, Manager("analytics", result.managementAPI)}
    /\ {m.kind : m \in {result.productMan, result.authMan, result.quotaMan,
                         result.analyticsMan} \ {Nil}} = running

\* Every handler NewHandler returns has an analytics manager: the access-log
\* server calls a.handler.analyticsMan.SendRecords on every entry.
AnalyticsManPresent == result # Nil => result.analyticsMan # Nil

=============================================================================
