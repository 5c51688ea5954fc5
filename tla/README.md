# TLA+ models of apigee-remote-service-envoy

This directory holds TLA+ models of the parts of the repository under `src/`:

- `src/unnamed/part_000`. Its first file is `config/environment_spec_ext.go`, which compiles a validated specification. The rest of the file is tests.
- `src/server/accesslog.go`. The gRPC access-log stream server.
- `src/server/handler.go`. Handler construction.

It also has TLC configurations that model-check the models on small instances, and TLAPS proofs.

## 1. Inventory of the system

| Part | Source | State | Operations | What makes it hard |
|---|---|---|---|---|
| Specification compiler | `NewEnvironmentSpecExt`, part_000 30-149 | `apiPathTree`, `opPathTree`, `compiledTemplates`, `corsVary`, `corsAllowedOrigins`, `compiledRegExps` | one pass: API loop (base path, CORS, consumer authorization, transforms), operation loop (routes, templates), JWT loop | early returns that leave a half-built value; routes keyed by strings built from several fields; overwrite in the trie; `MustCompile` panic |
| Template cache | `parseTemplate`, `parseAPIOperationParameter`, `GetTemplate`, 222-248 | `compiledTemplates` | store a parse result, even a nil one, then return the error | nil entries on error; `""` skipped |
| CORS precomputation | 52-62 | `corsVary`, `corsAllowedOrigins`, `compiledRegExps` | per API | the "must vary" rule |
| JWT flattening accessor | `JWTAuthentications`, 168-182 | none (reads the validator's lists) | read | depends on the validator having run |
| Requirement emptiness | `IsEmpty`, `isEmpty`, 198-220 | none | pure, recursive | disabled vs. empty; nesting; nil children |
| Path trie | golib `path.Tree` (not in this repository) | trie | `AddChild`, lookup | overwrite at an existing path; precedence |
| Access-log stream | `StreamAccessLogs`, `handleHTTPLogs`, accesslog.go 62-205 | the stream, analytics records, a metrics counter | handler loop on `Recv`; watcher goroutine; Envoy, server shutdown, timer | two goroutines and a select; a shadowed `err`; the stream timeout |
| Timestamp conversion | accesslog.go 172-182, 207-240 | none | pure int64 arithmetic | `UnixNano` overflow; `AsDuration` saturation |
| Handler construction | `NewHandler`, handler.go 66-155 | the managers | a sequence of constructors with early returns | ignored error of `analytics.NewManager`; managers left started on failure |

How the parts interact:

- The validator, which is not under `src/`, runs first.
- `NewEnvironmentSpecExt` builds the extension. The request-time filter then only reads the extension.
- `NewHandler` builds the managers that the access-log server uses. For each log entry with a known target, the access-log server calls `analyticsMan.SendRecords`.

## 2. Modules

### EnvSpecExt (`NewEnvironmentSpecExt`, parseTemplate, JWTAuthentications)

The function is sequential. The model takes one step per iteration of its outer loops. `pc` is one of:

- `api`: the API loop, action `AddAPI`.
- `op`: the operation loop, action `AddOperation`.
- `jwt`: the JWT loop, action `ParseJWTs`.
- one of the outcomes `done`, `error` and `panic`.

Each action is the whole body of one iteration:

- `AddAPI` covers lines 41-96. It adds the base path to `apiPathTree`, fills the CORS tables, records the regexes, and parses the consumer-authorization bindings and the transforms.
- `CorsRegexPanic` is `regexp.MustCompile` at line 59 meeting a bad pattern.
- `AddOperation` covers lines 98-136. It adds one route per HTTPMatch, or the wildcard route `[id, *, *]` when the operation has no matches. The route key is `[api.ID, method or *] ++ strings.Split(path, "/")`. It then parses the consumer bindings and the transforms.
- `ParseJWTs` covers lines 139-146.

An iteration that meets a template `transform.Parse` rejects ends in `error`, because the function returns `nil, err` and the value is dropped. Within that iteration, the model stores every template the iteration parses. The code stops at the first failing one. The difference is only visible in a value that is discarded.

Data abstractions:

- Strings are model values from small sets.
- `transform.Parse` is the set `BadTemplates` of strings it rejects. `regexp.MustCompile` is the set `BadRegexes`.
- `strings.Split` is a table `Split`.
- A compiled template is abstracted to "non-nil" (`TRUE`) or nil (`FALSE`).
- `AddChild` on a `path.Tree` and the assignments to Go maps are `Put` and `PutAll`. A new value replaces the one already stored at the same key.

The types of a validated specification (`APIType` and the others) are modelled from the spec, because `environment_spec.go` is not under `src/`. `SpecsAssumption` states them, and TLC evaluates it on every run.

### AccessLog (`StreamAccessLogs`, `handleHTTPLogs`)

One gRPC stream has three actors:

- **Handler goroutine.** `RecvMessage`, `RecvEOF` and `RecvError` cover lines 74-97. `SkipEntry`, `SendEntry`, `SendEntryFails` and `EntriesDone` cover the entry loop, lines 103-205.
- **Watcher goroutine** (lines 64-72). `WatchStreamDone` is the stream-context case. `WatchCloseStream` is the server-context or timeout case, and it calls `SendAndClose`. Go's select takes any ready case, so both are enabled together when both are ready.
- **Environment.** Envoy sends (`ClientSend`), half-closes (`ClientClose`), or breaks or cancels the stream (`ClientFail`). The server context may be cancelled (`ServerShutdown`), and the timer may fire (`TimerFires`).

A log entry is abstracted to three things: whether it carries ext_authz metadata, the API that the metadata or the headers name (`NoAPI`, Go's `""`, when neither does), and whether it is `complete`, that is, carries the `Response`, `Request` and `CommonProperties` messages that lines 168-175 dereference. `records` is the sequence of analytics records sent. `metrics` counts `analytics_requests_count` by status.

`SendEntryFails` models the code as written. The error of `handleHTTPLogs` is scoped to the `if` at line 87, so the loop continues.

`ForwardedInOrder` states the filtering without `SelectSeq`. `ForwardedPrefix(s, n, out)` says that an increasing enumeration of the indexes of the forwardable entries among the first `n` of `s` lists `out`. Such an enumeration is unique, so this says the same as `out = SelectSeq(SubSeq(s, 1, n), Forwardable)`. TLC checked that equivalence on every state of `access_log_stream`. The form without recursion is the one TLAPS can prove.

`AccessLogNilEntries` extends `AccessLog` with `EntryPanics`: the handler meets a forwardable entry that lacks one of those messages, and the nil dereference panics the goroutine (`hpc = "panicked"`).

### AnalyticsForwarding (abstract specification of a stream)

What one stream promises analytics, with no goroutines in it. The stream takes a batch of entries to forward (`Take`), sends them as records in order (`Forward`), abandons the rest of the batch only on a counted failure (`Abandon`), and ends only between batches (`End`). Weak fairness on `Forward \/ Abandon` says that a batch taken is eventually finished.

`AccessLog` implements it under the refinement mapping in `AccessLog.tla`:

- `backlog` is `Pending`: in the entry loop, the forwardable entries of the current message from index `ei` on; otherwise empty.
  `ForwardedFrom(s, i)` builds that sequence without `SelectSeq`. `Targets(s, i)` is the set of forwardable indexes from `i` on, and `Rank(s, i, j)` is the number of targets up to `j`. The `k`-th element is the entry at the target of rank `k`. TLC checked that this equals `SelectSeq(SubSeq(s, i, Len(s)), Forwardable)` for every sequence of up to 3 entries and every `i`, with `AppendHeaders` both FALSE and TRUE.
- `records` is `records`, `failures` is `metrics.error`, and `ended` is `hpc = "returned"`.
- `Batches` is the set of forwardable subsequences of the messages Envoy may send.

`RecvMessage` maps to `Take`, `SendEntry` to `Forward`, `SendEntryFails` to `Abandon`, and `RecvEOF` and `RecvError` to `End`. The other steps are stutters. `SkipEntry` passes over an entry that is not forwardable, so `Pending` is unchanged. `SendEntryFails` is an `Abandon` because `handleHTTPLogs` returns at the first failed send and drops the rest of the message. The abstract specification lets the stream go on after a failure. That is why the shadowed `err` (finding 3) is a violation of `FailedSendEndsStream` and not of the refinement.

### NewHandler (`NewHandler`, handler.go 66-155)

The function is sequential. `pc` names the next statement or the outcome (`done`, `error`). It has one action per call:

- `ParseManagementAPI` and `ParseRemoteServiceAPI`: `url.Parse` of a non-empty field. `BadURLs` is the set it rejects.
- `NewProductManager`, `NewAuthManager` and `NewQuotaManager`: the golib constructors. Each either returns a manager with its `BaseURL` or fails, and a failure returns `nil, err`.
- `MakeAnalyticsDir`: `os.MkdirAll`.
- `NewAnalyticsManager`: the constructor's error is assigned but never read, and the handler is returned either way.

`running` is the set of managers whose background work has started. A golib constructor that succeeds has started it, and nothing in `NewHandler` stops it. A manager is a record of its kind and its base URL, and a URL is the record of the string it was parsed from.

### ApigeeTime (timestamps of a record, accesslog.go 172-182 and 207-240)

The operators translate `pbTimestampToApigee`, `pbTimestampAddDurationApigee`, `timeToApigeeInt`, and the `CheckValid` and `AsDuration` of `timestamppb` and `durationpb` that they call:

- `Wrap` is int64 two's-complement arithmetic.
- `Quo` is Go's truncating division.
- `AsDuration` saturates on overflow, as `durationpb` does.

The units are constants. The width of int64 is given as `IntHalf`, half the number of its values (2^63 in Go), so that `MinInt = -IntHalf` and `MaxInt = IntHalf - 1` are linear in a constant. The provers cannot reason about `2^Bits`. The instance is a scaled clock: 2 ns per ms, 2 ms per s, `IntHalf = 32` (a 6-bit int64), timestamps valid for seconds -10..9, and durations up to 12 s. At this scale, as in Go, valid timestamps reach past what the wrapped nanoseconds hold. One step, `RecordTimestamps`, builds the two stamps of one record from a timestamp and a duration chosen from bounded sets.

### AuthRequirement (`IsEmpty`, `isEmpty`, part_000 198-220)

`isEmpty` is a RECURSIVE operator over requirement trees. A node is a record of `disabled`, a `kind` (`jwt`, `any`, `all`, or `nil` for the zero interface) and its `children`. `IsEmpty` is `~disabled /\ isEmpty`. The node shapes are taken from spec 4.3, because `environment_spec.go` is not under `src/`. The state machine evaluates `IsEmpty` once, as the table test does. The reference is declarative: the set of nodes of a tree (`Nodes`), and whether one of them is a JWT.

## 3. Runs

| Run | Checks | Bounds | Result |
|---|---|---|---|
| `compile_specs` (`MCEnvSpecExt.cfg`) | `TypeOK`, `TemplateCacheExact`, `OpTreeSound` | 2605 specifications: 0, 1 or 2 APIs; 4 API heads; up to 2 operations of 5 shapes on the first API and 1 on the second | pass, 8948 states |
| `routes_shadowed` | `OperationsRoutable` | same | violation |
| `cors_regex_panics` | `NeverPanics` | same | violation |
| `access_log_stream` (`MCAccessLog.cfg`) | `TypeOK`, `ForwardedInOrder`, `WatcherExits`, `StreamEndsWhenClientDone`, `ForwardingSpec` | 3 message shapes, up to 2 messages, 1 API | pass, about 4600 states |
| `failed_send_continues` | `FailedSendEndsStream` | same | violation |
| `timeout_does_not_end_stream` | `StreamEndsAfterTimeout` | same | violation |
| `nil_entry_panics` (`MCAccessLogNilEntries`) | `NeverPanics` | an HTTP message with a complete and an incomplete forwardable entry, and a TCP message | violation |
| `new_handler` (`MCNewHandler.cfg`) | `TypeOK`, `HandlerWired` | 4 management and 4 remote-service URL strings: empty, two good ones, one `url.Parse` rejects | pass, 134 states |
| `handler_nil_analytics` | `AnalyticsManPresent` | same | violation |
| `record_timestamps` (`MCApigeeTime.cfg`) | `StampsExact` | scaled clock; seconds -11..10 with 5 nanos values; 11 second and 6 nanos values of durations; nil for both | pass, 7438 states |
| `timestamps_overflow` | `StampsAreMillis` | same | violation |
| `auth_requirement_empty` (`MCAuthRequirement.cfg`) | `EmptyIffNoJWT` | all 1448 trees up to three levels, lists of one or two children, every kind and flag at the leaves | pass, 2896 states |

Why these bounds are enough:

- **Operation shapes.** The five shapes cover each case of the code:
  - no matches;
  - one GET match;
  - ANY plus POST with a path transform;
  - `ANY *`, the same key as no matches;
  - a path template that fails to parse.
  
  The bindings cover three forms: only a substitution, both template and substitution empty, and both set.
- **API heads.** The four heads cover: no CORS; the wildcard origin with a regex; a single literal origin with a bad header template; and two origins with a bad regex.
- **Reaching every case.** Two APIs reach the second pass of the outer loop. Two operations reach the overwrite of one route by another.
- **Handler construction.** Each URL set has the empty string, two accepted URLs and a rejected one. Together they reach every branch of the parse and the two BaseURLs.
- **Timestamps.** The scaled clock keeps Go's proportions. Valid start times run past the int64 nanoseconds on both sides, and durations reach the saturation bound of `AsDuration`. The nanos include the values that round differently under truncation.
- **Requirements.** Three levels are the depth of the test's "nested empty" case. Two children per list put a JWT beside a nil or empty sibling.
- **Access log.** Two messages reach a second `Recv` after a failure. The message shapes cover a skipped entry between two forwarded ones, an entry without a target, and a TCP message.

Fairness in `AccessLog`:

- Weak fairness is assumed for each handler action and for the watcher. The Go scheduler runs a goroutine that can proceed.
- Weak fairness is also assumed for `TimerFires`, because `time.After` fires.
- `SendEntry` and `SendEntryFails` are fair only as a disjunction, because `SendRecords` may fail every time.
- Envoy and server shutdown get no fairness. A client may keep a stream open forever, and liveness properties therefore start from the client's own action.

The `EnvSpecExt` model ends in a terminal state, and the `Returned` action stutters there. The access-log model may stop for good: for example, the handler has returned and no timer remains. Its run therefore sets `CHECK_DEADLOCK FALSE`.

Each property of a passing run has a mutant in the module, a plausible bug that TLC catches:

- `AddAPIUnchecked`: the regex is compiled without a check.
- `ParamTemplatesOr`: `||` for `&&`.
- `AddOperationLastOp`: every route points at the last operation.
- `RecvMessageOffByOne`: the mark is taken one record early.
- `SkipEntryBreak`: `break` for `continue`.
- `WatchCloseStreamNoTimeout`: the timeout case is missing.
- `RecvEOFContinue`: `io.EOF` does not return.
- `SendEntryFailsUncounted`: a failed send counted as "ok" (`ForwardingSpec`).
- `ParseURLIgnoreError`: the error of `url.Parse` not checked (`TypeOK` of `NewHandler`).
- `NewAnalyticsManagerWrongBase`: analytics given the remote-service URL (`HandlerWired`).
- `AsTimeSecondsOnly`: the nanos of a timestamp dropped (`StampsExact`).
- `isEmptyNoAll`: the All case missing from the type switch (`EmptyIffNoJWT`).

## 4. Findings

1. **Shadowed routes** (`OperationsRoutable`). Two operations without HTTPMatches, or one with `ANY *` and one without, share the route `[id, *, *]`. The later one silently replaces the earlier one. Spec 4.2 says insertion order does not affect the outcome, and the validator does not reject such a specification.
2. **Panic on a bad CORS regex** (`NeverPanics`). `regexp.MustCompile` at line 59 panics. Spec 7 says construction returns the first error.
3. **Failed analytics sends do not end the stream** (`FailedSendEndsStream`). This is a code bug: `err :=` at accesslog.go:87 shadows the outer `err`, so lines 91-93 never return it.
4. **The stream timeout does not end the stream** (`StreamEndsAfterTimeout`). `SendAndClose` only sends the response, and `Recv` keeps blocking while Envoy keeps the stream open.
5. **A nil analytics manager is returned** (`AnalyticsManPresent`). The error of `analytics.NewManager` at handler.go:126 is assigned and never read. `NewHandler` returns a handler with a nil `analyticsMan` and a nil error, and the access-log server then calls `SendRecords` on it.
6. **Timestamps wrap** (`StampsAreMillis`). `UnixNano` at accesslog.go:239 wraps outside the years 1678-2262, which `CheckValid` accepts. Separately, `AsDuration` saturates, so a valid start plus a large negative duration gives a wrong end.
7. **Entries without a response or common properties panic** (`NeverPanics` of `AccessLogNilEntries`). Lines 168-175 dereference them without a nil check, although the headers and metadata are read through nil-safe getters.

## 5. Proofs

`EnvSpecExtProofs.tla` proves three theorems for every value of the constants, under `SpecsAssumption`. That assumption covers three things: the types of a validated specification, that `""` is not a template, and that `Split` yields sequences.

- **`TypeCorrect == Spec => []TypeOK`.** `TypeOK` is not inductive by itself. `AddOperation` reads `spec.apis[ai].operations[oi]`, and `TypeOK` does not say that this operation exists. The inductive invariant is `TypeInv == TypeOK /\ LoopBounds`. `LoopBounds` says:
  - in the API loop, `ai` is an API and `oi = 1`;
  - in the operation loop, `oi` is an operation of API `ai`;
  - after the loops, `ai = Len(spec.apis) + 1`.
  
  The proof has one lemma per action. It uses lemmas bounding what each parse helper hands to `transform.Parse` (`ParamsTemplatesType`, `TransformTemplatesType`, `OperationTemplatesType`, `JWTTemplatesType`), `ParsedType` for the cache update, and `SeqElems` for sequence elements.
- **`OpTreeSoundness == Spec => []OpTreeSound`.** This is spec 4.2's routing table: exactly the declared routes, each leading to an operation that declares it, with the template of the declaring match. `OpTreeSound` only speaks of the returned value, so it is proved through a loop invariant, `RoutesInv`. `RoutesInv` says that the tree holds exactly the routes of `DoneOps`, the operations whose iteration has completed, and that each route satisfies `RouteOf`. The supporting lemmas are:
  - `AddOperationEntries`: the entries one iteration adds are its operation's declared routes, built correctly.
  - `RoutesInvFrame`: the steps that leave the tree alone keep the invariant.
  - `PairsIndexes`, `PairsShape` and `PairsUnion`: the pairs of indexes of the operations.
  - `RoutesInvDone`: when the function returns, every operation is done, so `RoutesInv` gives `OpTreeSound`.
  
  The invariant tolerates shadowing. A replacing operation also declares the route. For that reason, the `routes_shadowed` finding is a violation of `OperationsRoutable`, not of `OpTreeSound`.

- **`TemplateCacheExactness == Spec => []TemplateCacheExact`.** This is spec 4.1's template cache: exactly the referenced templates, each compiled. The loop invariant is `CacheInv`: in every state the loops reach, the cache holds exactly `CachedTemplates`, and every entry is a successful compilation. `CachedTemplates` is the union of three parts:
  - the head templates (consumer parameters and transforms) of the APIs in `DoneHeads`, those whose head has been compiled;
  - the templates of the operations in `DoneOps`;
  - after `ParseJWTs`, the JWT parameter templates.

  A failing parse leaves the loop for `"error"`, so `CacheInv` says nothing there. The cache keys are the templates, so an entry added twice is still one entry. `CachedAll` shows that, once every API and operation is done, `CachedTemplates` equals `ReferencedTemplates`. It works element by element, through `ParamsTemplatesRange`. `CachedFrame` rewrites `CachedTemplates'` for the steps that leave `spec` alone. TLC checked `CacheInv` on `compile_specs` first.

TLC checked `TypeInv` and `RoutesInv` on the `compile_specs` instance before they were proved.

`NewHandlerProofs.tla` proves two theorems under `NewHandlerAssumption` and `NilAssumption`. The second assumption says that Go's nil is neither a manager nor a handler.

- **`NewHandlerTypeCorrect == Spec => []TypeOK`.**
- **`HandlerWiredness == Spec => []HandlerWired`.** `HandlerWired` speaks only of the returned handler, so the proof goes through `WiredInv`, which follows the locals through the function:
  - once the parse of a field is past, its local is `Endpoint` of that field;
  - each manager local is `Built`, that is, the manager with its base URL exactly when its kind is in `running`;
  - `running` holds only kinds whose constructor `pc` is past;
  - a handler is returned exactly at `done`, and it is the record of the locals.
  
  There is one lemma per action (`ParseManagementWired` and the others), plus `InitWired` and `StutterWired`. `NextWired` combines them. TLC checked `WiredInv` on the `new_handler` instance first.

`AccessLogProofs.tla` proves two theorems for the stream model, under `AccessLogAssumption`.

- **`AccessLogTypeCorrect == Spec => []TypeOK`.** There is one lemma per actor (handler, watcher, environment), and `CurrentEntry` covers the entry under the loop index. `TypeOK` is inductive as it stands. Each step that reads `msg.entries[ei]` is guarded by `ei <= Len(msg.entries)`, and `ei` only grows from 1.
- **`ForwardedInOrderHolds == Spec => ForwardedInOrder`.** This is an action property. The inductive invariant is `FwdInv`: while the handler walks a message, `mark <= Len(records)`, `ei <= Len(msg.entries) + 1`, and the records sent since the mark (`Out`) are `ForwardedPrefix(msg.entries, ei - 1, Out)`. It rests on three lemmas about `ForwardedPrefix`:
  - `EmptyPrefix`: `RecvMessage` restarts the prefix;
  - `SkipPrefix`: `SkipEntry` extends it;
  - `ExtendPrefix`: `SendEntry` extends it and appends the entry.

  `OutAppend` relates `SubSeq` of the appended records to `Out`. `OkOnlyAtEntriesDone` shows that only `EntriesDone` counts a request "ok", and it runs once `ei = Len(msg.entries) + 1`, so the invariant covers the whole message. TLC checked `FwdInv` on `access_log_stream` first.

`AccessLogRefinementProofs.tla` proves **`ForwardingSafety == Spec => Forwarding!SafetySpec`**. `SafetySpec` is `AnalyticsForwarding` without its fairness condition. The proof follows the refinement mapping step by step, with the invariant `TypeOK /\ FwdInv` from `AccessLogProofs`:
- `TargetsFinite`, `RankBounds`, `RankMono` and `RankOnto`: the ranks number the targets `1..Cardinality(Targets(s, i))` one to one. Ontoness comes from `FS_Injection`: an injection between two finite sets of the same size is onto.
- `ForwardedFromType`: `ForwardedFrom(s, i)` is a sequence of entries.
- `ForwardedFromEnd`: nothing is pending past the last entry.
- `ForwardedFromSkip`: an entry that is not forwardable leaves what is pending unchanged.
- `ForwardedFromCons`: at a forwardable entry, that entry is the head of what is pending, and the tail is what is pending from the next index on.
- `InitRefines`, plus one lemma per handler action (`RecvMessageRefines` and the others) and `OthersRefine` for the watcher and Envoy. `NextRefines` combines them.

`EntriesDone` needs `FwdInv`. Its guard `ei > Len(msg.entries)` only shows that nothing is pending because `FwdInv` gives `ei <= Len(msg.entries) + 1`. Counting the request "ok" then changes nothing analytics sees.

`ApigeeTimeProofs.tla` proves **`StampsExactness == Spec => []StampsExact`** under `ApigeeTimeAssumption`. That assumption says the units are positive, the ranges are integers, and the seconds and nanos of the messages are integers, as the int64 and int32 fields of protobuf are. It does not bound the constants, so the theorem holds for Go's units as well as for the scaled clock. The arithmetic is in four lemmas:
- `WrapId`: the wrap leaves a value within int64 alone;
- `QuoMul`: truncating division undoes a multiplication, for either sign;
- `AsDurationExact`: a valid duration whose nanoseconds fit in int64 passes the overflow checks of `AsDuration` unchanged. Its seconds and nanos have the same sign, so the product alone also fits in int64;
- `StartExact` and `EndExact`: the two conversions.

The invariant `StampsInv` says that the stamps are the two conversions of the recorded start time and duration once the record is built, and that the start time is still nil before. TLC checked it on `record_timestamps`.

Two conventions keep the module in the provers' reach:

- Go's zero string is the operator `NoString`, and proofs never expand it. The SMT backend of tlapm 1.4.5 fails on the literal `""`.
- Map updates are `Put` and `PutAll` rather than TLC's `@@` and `:>`, which tlapm cannot expand.

Some things stay with TLC:

- Liveness under fairness (`WatcherExits`, `StreamEndsWhenClientDone`) and anything that involves ENABLED.
- Facts about `SelectSeq`. Its definition is a recursive function over `0..Len(s)`. Even `SelectSeq(<< >>, T) = << >>` needs the existence of that function, which the library proves only with induction theorems that take an operator parameter, and the installed provers cannot instantiate those. For that reason `ForwardedInOrder` is stated through `ForwardedPrefix`.
- Recursive operators, in the modules that use them (`isEmpty` and `Nodes` of `AuthRequirement`).
- The liveness half of the refinement `ForwardingSpec`: the weak fairness of `Forward \/ Abandon`, which says a batch taken is eventually finished. `ForwardingSafety` proves the rest.
- `StampsAreMillis`, which is false: see finding 6.

## 6. Plan for the next sittings

1. **`PathTree` module.** Insertion and lookup of the golib trie with literal > parameter > wildcard precedence, modelled from spec 4.2 and marked `spec_modelled`. It would be composed with `EnvSpecExt` to check resolution of requests against the declared routes.
2. **Composition.** Compose `NewHandler` with `AccessLog`, so that a handler with a nil `analyticsMan` feeds the stream, and show the resulting panic on the first forwardable entry.

## 7. Not modelled

- The structural validator and the types of `environment_spec.go`. They are not under `src/`, and their guarantees are assumed.
- `transform.Parse` and `regexp` syntax. They are abstracted to sets of rejected strings.
- Logging and Prometheus label values.
- The contents of analytics records: timestamps, headers, attributes.
- `AccessLogServer.Register`, which is wiring.
- The accessor methods of `handler`.
- The one-line `isEmpty` methods of `HTTPRequestTransforms`, `NameValueTransforms` and `ConsumerAuthorization` (part_000 184-196). They are conjunctions of length tests, called only from tests.
- The background work of the golib managers. `NewHandler` models only whether each one was started. When a later step fails, the managers already started are not closed (handler.go:105 and after). No caller of `NewHandler` is under `src/`, so whether that leak outlives the failure is not known, and no property is checked on it.
- The `SendAndClose` that the watcher may make after the handler has returned. The model records it in `responses`, but what grpc-go does with it is outside the repository.
