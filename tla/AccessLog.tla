----------------------------- MODULE AccessLog ------------------------------
(***************************************************************************)
(* AccessLogServer.StreamAccessLogs (src/server/accesslog.go): one gRPC    *)
(* access-log stream from Envoy.  Three actors share the stream:           *)
(*   - the handler goroutine, which loops on srv.Recv() and forwards every *)
(*     HTTP log entry with a known target to analyticsMan.SendRecords      *)
(*     (handleHTTPLogs, lines 101-205), one entry at a time;               *)
(*   - the watcher goroutine started at line 64, which waits for the       *)
(*     stream context, the server context or the stream timeout and, for   *)
(*     the last two, calls srv.SendAndClose(nil);                          *)
(*   - the environment: Envoy sending, half-closing, breaking or           *)
(*     cancelling the stream, the server context being cancelled, and the  *)
(*     timer of time.After(a.streamTimeout) expiring.                      *)
(* A log entry is abstracted to whether it carries ext_authz metadata, the *)
(* API its metadata (or metadata headers) name, "" when none, and whether  *)
(* its Request, Response and CommonProperties are all set, as Envoy sets   *)
(* them.  An entry missing one of them is sent only by other clients; what *)
(* the handler does with it is modelled in AccessLogNilEntries.           *)
(***************************************************************************)
EXTENDS Naturals, Sequences, FiniteSets

CONSTANTS
  Apis,             \* API proxy names the ext_authz metadata may carry
  AppendHeaders,    \* handler.appendMetadataHeaders
  Messages,         \* the StreamAccessLogsMessages Envoy may send
  MaxMsgs           \* bound on the messages sent on the stream

\* Go's empty string: the api of an entry whose target is unknown.
NoAPI == ""

Entry == [meta : BOOLEAN, api : Apis \cup {NoAPI}, complete : BOOLEAN]

\* A StreamAccessLogsMessage: HTTP logs with their entries, or TCP logs.
Message == [kind : {"http", "tcp"}, entries : Seq(Entry)]

ASSUME AccessLogAssumption ==
  /\ NoAPI \notin Apis
  /\ AppendHeaders \in BOOLEAN
  /\ MaxMsgs \in Nat
  /\ Messages \subseteq Message /\ Messages # {}

\* Lines 125-139: an entry is sent when its target is known, read from the
\* ext_authz metadata or, if headers are appended, from the headers.
Forwardable(e) == (e.meta \/ AppendHeaders) /\ e.api # NoAPI

VARIABLES
  inbox,          \* messages Envoy has sent and the handler not yet received
  sentMsgs,       \* how many messages Envoy has sent
  client,         \* Envoy's side: "open", "closed" (EOF), "broken", "canceled"
  hpc,            \* handler: "recv", "entries", "returned"
  msg,            \* the message handleHTTPLogs is processing
  ei,             \* index of the next entry of msg
  mark,           \* Len(records) when msg was received
  records,        \* the analytics records sent, in order
  metrics,        \* analytics_requests_count by status
  result,         \* what StreamAccessLogs returned: "none", "nil", "err"
  wpc,            \* watcher goroutine: "wait" or "done"
  responses,      \* one per SendAndClose: whether the handler had returned
  serverCtxDone,  \* a.context is done
  timerFired      \* time.After(a.streamTimeout) has fired

vars == <<inbox, sentMsgs, client, hpc, msg, ei, mark, records, metrics,
          result, wpc, responses, serverCtxDone, timerFired>>

handlerVars == <<hpc, msg, ei, mark, records, metrics, result>>
envVars == <<inbox, sentMsgs, client, serverCtxDone, timerFired>>

Init ==
  /\ inbox = << >>
  /\ sentMsgs = 0
  /\ client = "open"
  /\ hpc = "recv"
  /\ msg = CHOOSE m \in Messages : TRUE
  /\ ei = 1
  /\ mark = 0
  /\ records = << >>
  /\ metrics = [ok |-> 0, error |-> 0]
  /\ result = "none"
  /\ wpc = "wait"
  /\ responses = << >>
  /\ serverCtxDone = FALSE
  /\ timerFired = FALSE

-----------------------------------------------------------------------------
(* The handler goroutine.                                                  *)

\* Mutant of RecvMessage: the mark taken one record early.
RecvMessageOffByOne ==
  /\ hpc = "recv"
  /\ inbox # << >>
  /\ inbox' = Tail(inbox)
  /\ msg' = Head(inbox)
  /\ IF Head(inbox).kind = "http"
       THEN hpc' = "entries" /\ ei' = 1 /\ mark' = Len(records) - 1
       ELSE UNCHANGED <<hpc, ei, mark>>
  /\ UNCHANGED <<sentMsgs, client, records, metrics, result, wpc, responses,
                 serverCtxDone, timerFired>>

\* Lines 75 and 83-97: srv.Recv() returns a message; HTTP logs go to
\* handleHTTPLogs, TCP logs are logged and dropped.
RecvMessage ==
  /\ hpc = "recv"
  /\ inbox # << >>
  /\ inbox' = Tail(inbox)
  /\ msg' = Head(inbox)
  /\ IF Head(inbox).kind = "http"
       THEN hpc' = "entries" /\ ei' = 1 /\ mark' = Len(records)
       ELSE UNCHANGED <<hpc, ei, mark>>
  /\ UNCHANGED <<sentMsgs, client, records, metrics, result, wpc, responses,
                 serverCtxDone, timerFired>>

\* Mutant of RecvEOF: io.EOF handled with continue instead of return.
RecvEOFContinue ==
  /\ hpc = "recv"
  /\ inbox = << >>
  /\ client = "closed"
  /\ UNCHANGED <<envVars, handlerVars, wpc, responses>>

\* Lines 76-78: io.EOF once Envoy has half-closed and everything is read.
RecvEOF ==
  /\ hpc = "recv"
  /\ inbox = << >>
  /\ client = "closed"
  /\ hpc' = "returned"
  /\ result' = "nil"
  /\ UNCHANGED <<envVars, msg, ei, mark, records, metrics, wpc, responses>>

\* Lines 79-81: any other Recv error (broken transport, cancelled stream).
RecvError ==
  /\ hpc = "recv"
  /\ client \in {"broken", "canceled"}
  /\ hpc' = "returned"
  /\ result' = "err"
  /\ UNCHANGED <<envVars, msg, ei, mark, records, metrics, wpc, responses>>

\* Mutant of SkipEntry: break instead of continue, ending the message.
SkipEntryBreak ==
  /\ hpc = "entries"
  /\ ei <= Len(msg.entries)
  /\ ~Forwardable(msg.entries[ei])
  /\ metrics' = [metrics EXCEPT !.ok = @ + 1]
  /\ hpc' = "recv"
  /\ UNCHANGED <<envVars, msg, ei, mark, records, result, wpc, responses>>

\* Lines 125-139: an entry whose target is unknown is skipped (continue).
SkipEntry ==
  /\ hpc = "entries"
  /\ ei <= Len(msg.entries)
  /\ ~Forwardable(msg.entries[ei])
  /\ ei' = ei + 1
  /\ UNCHANGED <<envVars, hpc, msg, mark, records, metrics, result, wpc, responses>>

\* Lines 141-201: the Response, Request and CommonProperties of the entry
\* are read (lines 168-175), a record is built and SendRecords accepts it.
SendEntry ==
  /\ hpc = "entries"
  /\ ei <= Len(msg.entries)
  /\ Forwardable(msg.entries[ei])
  /\ msg.entries[ei].complete
  /\ records' = Append(records, msg.entries[ei])
  /\ ei' = ei + 1
  /\ UNCHANGED <<envVars, hpc, msg, mark, metrics, result, wpc, responses>>

\* Mutant of SendEntryFails: the failed request counted with status "ok".
SendEntryFailsUncounted ==
  /\ hpc = "entries"
  /\ ei <= Len(msg.entries)
  /\ Forwardable(msg.entries[ei])
  /\ msg.entries[ei].complete
  /\ metrics' = [metrics EXCEPT !.ok = @ + 1]
  /\ hpc' = "recv"
  /\ UNCHANGED <<envVars, msg, ei, mark, records, result, wpc, responses>>

\* Lines 197-200, then 86-93: SendRecords fails, handleHTTPLogs returns the
\* error, the request is counted with status "error", and the check at
\* line 91 tests the err of srv.Recv() (the handleHTTPLogs error is scoped
\* to the if at line 87), which is nil: the loop goes on receiving.
SendEntryFails ==
  /\ hpc = "entries"
  /\ ei <= Len(msg.entries)
  /\ Forwardable(msg.entries[ei])
  /\ msg.entries[ei].complete
  /\ metrics' = [metrics EXCEPT !.error = @ + 1]
  /\ hpc' = "recv"
  /\ UNCHANGED <<envVars, msg, ei, mark, records, result, wpc, responses>>

\* Lines 204 and 86-90: every entry handled, the request counted "ok".
EntriesDone ==
  /\ hpc = "entries"
  /\ ei > Len(msg.entries)
  /\ metrics' = [metrics EXCEPT !.ok = @ + 1]
  /\ hpc' = "recv"
  /\ UNCHANGED <<envVars, msg, ei, mark, records, result, wpc, responses>>

-----------------------------------------------------------------------------
(* The watcher goroutine (lines 64-72).  Go's select takes any ready case. *)

\* srv.Context() is done once the handler has returned or Envoy cancelled.
StreamCtxDone == hpc = "returned" \/ client = "canceled"

WatchStreamDone ==
  /\ wpc = "wait"
  /\ StreamCtxDone
  /\ wpc' = "done"
  /\ UNCHANGED <<envVars, handlerVars, responses>>

\* Mutant of WatchCloseStream: the time.After case left out of the select.
WatchCloseStreamNoTimeout ==
  /\ wpc = "wait"
  /\ serverCtxDone
  /\ wpc' = "done"
  /\ responses' = Append(responses, hpc = "returned")
  /\ UNCHANGED <<envVars, handlerVars>>

\* The server context or the timeout: SendAndClose(nil).
WatchCloseStream ==
  /\ wpc = "wait"
  /\ serverCtxDone \/ timerFired
  /\ wpc' = "done"
  /\ responses' = Append(responses, hpc = "returned")
  /\ UNCHANGED <<envVars, handlerVars>>

-----------------------------------------------------------------------------
(* The environment.                                                        *)

\* Lines 75 and 83: Envoy sends one StreamAccessLogsMessage on the stream.
ClientSend(m) ==
  /\ client = "open"
  /\ sentMsgs < MaxMsgs
  /\ inbox' = Append(inbox, m)
  /\ sentMsgs' = sentMsgs + 1
  /\ UNCHANGED <<client, serverCtxDone, timerFired, handlerVars, wpc, responses>>

ClientClose ==
  /\ client = "open"
  /\ client' = "closed"
  /\ UNCHANGED <<inbox, sentMsgs, serverCtxDone, timerFired, handlerVars, wpc, responses>>

ClientFail ==
  /\ client \in {"open", "closed"}
  /\ hpc # "returned"
  /\ \E c \in {"broken", "canceled"} : client' = c
  /\ UNCHANGED <<inbox, sentMsgs, serverCtxDone, timerFired, handlerVars, wpc, responses>>

ServerShutdown ==
  /\ ~serverCtxDone
  /\ serverCtxDone' = TRUE
  /\ UNCHANGED <<inbox, sentMsgs, client, timerFired, handlerVars, wpc, responses>>

TimerFires ==
  /\ ~timerFired
  /\ timerFired' = TRUE
  /\ UNCHANGED <<inbox, sentMsgs, client, serverCtxDone, handlerVars, wpc, responses>>

-----------------------------------------------------------------------------

Handler ==
  \/ RecvMessage \/ RecvEOF \/ RecvError
  \/ SkipEntry \/ SendEntry \/ SendEntryFails \/ EntriesDone

Watcher == WatchStreamDone \/ WatchCloseStream

Environment ==
  \/ \E m \in Messages : ClientSend(m)
  \/ ClientClose \/ ClientFail \/ ServerShutdown \/ TimerFires

Next == Handler \/ Watcher \/ Environment

\* The Go scheduler runs both goroutines whenever they can proceed, and
\* time.After fires; Envoy and the server's shutdown owe nothing.  SendEntry
\* and SendEntryFails are one call, SendRecords, which may keep failing, so
\* only their disjunction is fair.
Fairness ==
  /\ WF_vars(RecvMessage) /\ WF_vars(RecvEOF) /\ WF_vars(RecvError)
  /\ WF_vars(SkipEntry) /\ WF_vars(SendEntry \/ SendEntryFails)
  /\ WF_vars(EntriesDone)
  /\ WF_vars(Watcher)
  /\ WF_vars(TimerFires)

Spec == Init /\ [][Next]_vars /\ Fairness

-----------------------------------------------------------------------------

TypeOK ==
  /\ inbox \in Seq(Messages)
  /\ sentMsgs \in 0..MaxMsgs
  /\ client \in {"open", "closed", "broken", "canceled"}
  /\ hpc \in {"recv", "entries", "returned"}
  /\ msg \in Messages
  /\ ei \in Nat \ {0}
  /\ mark \in Nat
  /\ records \in Seq(Entry)
  /\ metrics \in [ok : Nat, error : Nat]
  /\ result \in {"none", "nil", "err"}
  /\ wpc \in {"wait", "done"}
  /\ responses \in Seq(BOOLEAN)
  /\ serverCtxDone \in BOOLEAN
  /\ timerFired \in BOOLEAN

\* The records out are the entries among the first n of s that have a
\* known target, each once and in the order of s: an increasing
\* enumeration g of those entries' indexes lists them.  (There is only one
\* such g, so this says SubSeq(out) = SelectSeq(SubSeq(s, 1, n), Forwardable).)
ForwardedPrefix(s, n, out) ==
  \E g \in [1..Len(out) -> 1..n] :
    /\ \A j, k \in 1..Len(out) : j < k => g[j] < g[k]
    /\ {g[k] : k \in 1..Len(out)} = {i \in 1..n : Forwardable(s[i])}
    /\ \A k \in 1..Len(out) : out[k] = s[g[k]]

\* handleHTTPLogs: a message counted "ok" has had every entry with a known
\* target sent to analytics, once each, in the order of the message, and
\* nothing else; skipping one entry must not drop or repeat another.
ForwardedInOrder ==
  [][ (hpc = "entries" /\ metrics'.ok = metrics.ok + 1)
        => ForwardedPrefix(msg.entries, Len(msg.entries),
                           SubSeq(records, mark + 1, Len(records)))
    ]_vars

\* The watcher goroutine of every stream exits: the stream timeout bounds
\* its wait even when Envoy keeps the stream open and the server runs on.
WatcherExits == <>(wpc = "done")

\* Once Envoy half-closes, breaks or cancels the stream, StreamAccessLogs
\* drains what was sent and returns.
StreamEndsWhenClientDone == (client # "open") ~> (hpc = "returned")

\* The indexes, from i on, of the entries of s with a known target, and the
\* place of index j among them.
Targets(s, i) == {j \in i..Len(s) : Forwardable(s[j])}
Rank(s, i, j) == Cardinality({k \in Targets(s, i) : k <= j})

\* The entries of s from index i on that handleHTTPLogs sends, in order:
\* the k-th is the entry of rank k.  (This is
\* SelectSeq(SubSeq(s, i, Len(s)), Forwardable), written without recursion.)
ForwardedFrom(s, i) ==
  [k \in 1..Cardinality(Targets(s, i)) |->
     s[CHOOSE j \in Targets(s, i) : Rank(s, i, j) = k]]

\* The entries of the message being handled that are still to be sent.
Pending ==
  IF hpc = "entries" THEN ForwardedFrom(msg.entries, ei) ELSE << >>

Forwarding == INSTANCE AnalyticsForwarding
                WITH Batches <- {ForwardedFrom(m.entries, 1) : m \in Messages},
                     backlog <- Pending,
                     records <- records,
                     failures <- metrics.error,
                     ended <- hpc = "returned"

\* StreamAccessLogs implements AnalyticsForwarding: whatever Envoy, the
\* watcher and the timer do, the records sent are the forwardable entries
\* of the received HTTP messages, in order and once each; a message's
\* remaining entries are dropped only by a failed SendRecords, counted as
\* an "error" request; the stream returns only between messages; and a
\* message being handled is eventually finished.
ForwardingSpec == Forwarding!Spec

\* Lines 87-93 return the error of a failed handleHTTPLogs: a step that
\* counts a failed analytics request ends the stream.
FailedSendEndsStream ==
  [][ metrics'.error = metrics.error + 1 => hpc' = "returned" ]_vars

\* AccessLogServer.streamTimeout is "the duration for a stream to live"
\* (line 45): once it has elapsed, StreamAccessLogs returns.
StreamEndsAfterTimeout == timerFired ~> (hpc = "returned")

=============================================================================
