-------------------------- MODULE AccessLogProofs --------------------------
(***************************************************************************)
(* Proofs about the access-log stream: every state of StreamAccessLogs,    *)
(* under every interleaving of the handler, the watcher and Envoy, is well *)
(* typed, and handleHTTPLogs forwards the entries of every message it      *)
(* counts "ok" in order and once each, for every set of messages and every *)
(* bound.                                                                  *)
(***************************************************************************)
EXTENDS AccessLog, SequenceTheorems, TLAPS

USE AccessLogAssumption

\* The entry the handler is at belongs to Entry.
LEMMA CurrentEntry ==
  ASSUME TypeOK, hpc = "entries", ei <= Len(msg.entries)
  PROVE  msg.entries[ei] \in Entry
<1>1. msg.entries \in Seq(Entry) BY DEF TypeOK, Message
<1> QED BY <1>1 DEF TypeOK, envVars, handlerVars

LEMMA InitTypeOK == Init => TypeOK
<1>0. \E m \in Messages : TRUE BY AccessLogAssumption
<1>1. (CHOOSE m \in Messages : TRUE) \in Messages BY <1>0
<1> SUFFICES ASSUME Init PROVE TypeOK OBVIOUS
<1>2. serverCtxDone \in BOOLEAN /\ timerFired \in BOOLEAN BY Zenon DEF Init
<1> QED BY <1>1, <1>2 DEF Init, TypeOK

\* The handler's steps.
LEMMA HandlerTypeOK == TypeOK /\ Handler => TypeOK'
<1> SUFFICES ASSUME TypeOK, Handler PROVE TypeOK' OBVIOUS
<1>1. CASE RecvMessage
  <2>1. Head(inbox) \in Messages BY <1>1 DEF RecvMessage, TypeOK, envVars, handlerVars
  <2> QED BY <1>1, <2>1 DEF RecvMessage, TypeOK, envVars, handlerVars
<1>2. CASE RecvEOF BY <1>2 DEF RecvEOF, TypeOK, envVars, handlerVars
<1>3. CASE RecvError BY <1>3 DEF RecvError, TypeOK, envVars, handlerVars
<1>4. CASE SkipEntry BY <1>4 DEF SkipEntry, TypeOK, envVars, handlerVars
<1>5. CASE SendEntry
  <2>1. msg.entries[ei] \in Entry BY <1>5, CurrentEntry DEF SendEntry
  <2> QED BY <1>5, <2>1 DEF SendEntry, TypeOK, envVars, handlerVars
<1>6. CASE SendEntryFails BY <1>6 DEF SendEntryFails, TypeOK, envVars, handlerVars
<1>7. CASE EntriesDone BY <1>7 DEF EntriesDone, TypeOK, envVars, handlerVars
<1> QED BY <1>1, <1>2, <1>3, <1>4, <1>5, <1>6, <1>7 DEF Handler

\* The watcher's steps: SendAndClose records one response.
LEMMA WatcherTypeOK == TypeOK /\ Watcher => TypeOK'
<1> SUFFICES ASSUME TypeOK, Watcher PROVE TypeOK' OBVIOUS
<1>1. CASE WatchStreamDone BY <1>1 DEF WatchStreamDone, TypeOK, envVars, handlerVars
<1>2. CASE WatchCloseStream
  <2>1. (hpc = "returned") \in BOOLEAN BY Zenon
  <2>2. responses' \in Seq(BOOLEAN) BY <1>2, <2>1 DEF WatchCloseStream, TypeOK
  <2> QED BY <1>2, <2>2 DEF WatchCloseStream, TypeOK, envVars, handlerVars
<1> QED BY <1>1, <1>2 DEF Watcher

\* Envoy, server shutdown and the timer.
LEMMA EnvironmentTypeOK == TypeOK /\ Environment => TypeOK'
<1> SUFFICES ASSUME TypeOK, Environment PROVE TypeOK' OBVIOUS
<1>1. CASE \E m \in Messages : ClientSend(m) BY <1>1 DEF ClientSend, TypeOK, envVars, handlerVars
<1>2. CASE ClientClose BY <1>2 DEF ClientClose, TypeOK, envVars, handlerVars
<1>3. CASE ClientFail BY <1>3 DEF ClientFail, TypeOK, envVars, handlerVars
<1>4. CASE ServerShutdown BY <1>4 DEF ServerShutdown, TypeOK, envVars, handlerVars
<1>5. CASE TimerFires BY <1>5 DEF TimerFires, TypeOK, envVars, handlerVars
<1> QED BY <1>1, <1>2, <1>3, <1>4, <1>5 DEF Environment

\* Every state of the stream is well typed (TypeOK): the inbox holds
\* messages Envoy sent, the handler's entry index and mark are in range,
\* and only entries of received messages are sent as records.
THEOREM AccessLogTypeCorrect == Spec => []TypeOK
<1>1. TypeOK /\ [Next]_vars => TypeOK'
  BY HandlerTypeOK, WatcherTypeOK, EnvironmentTypeOK DEF Next, vars, TypeOK, envVars, handlerVars
<1> QED BY InitTypeOK, <1>1, PTL DEF Spec

-----------------------------------------------------------------------------
(* ForwardedInOrder.                                                       *)

\* The records sent since the current message was received.
Out == SubSeq(records, mark + 1, Len(records))

\* The inductive invariant: while handleHTTPLogs walks the entries of a
\* message, the records sent since it was received are the forwardable
\* entries before the current one, each once and in order.
FwdInv ==
  hpc = "entries" =>
    /\ mark <= Len(records)
    /\ ei <= Len(msg.entries) + 1
    /\ ForwardedPrefix(msg.entries, ei - 1, Out)

\* No entry considered, nothing sent.
LEMMA EmptyPrefix ==
  ASSUME NEW s \in Seq(Entry)
  PROVE  ForwardedPrefix(s, 0, << >>)
<1>1. Len(<< >>) = 0 /\ 1..0 = {}
  OBVIOUS
<1>2. << >> \in [1..0 -> 1..0]
  OBVIOUS
<1>3. {<< >>[k] : k \in 1..0} = {} /\ {i \in 1..0 : Forwardable(s[i])} = {}
  OBVIOUS
<1> QED
  BY <1>1, <1>2, <1>3, Zenon DEF ForwardedPrefix

\* An entry without a known target extends the prefix and sends nothing.
LEMMA SkipPrefix ==
  ASSUME NEW s \in Seq(Entry), NEW n \in 0..(Len(s) - 1), NEW out \in Seq(Entry),
         ForwardedPrefix(s, n, out), ~Forwardable(s[n + 1])
  PROVE  ForwardedPrefix(s, n + 1, out)
<1> PICK g \in [1..Len(out) -> 1..n] :
      /\ \A j, k \in 1..Len(out) : j < k => g[j] < g[k]
      /\ {g[k] : k \in 1..Len(out)} = {i \in 1..n : Forwardable(s[i])}
      /\ \A k \in 1..Len(out) : out[k] = s[g[k]]
  BY DEF ForwardedPrefix
<1>1. g \in [1..Len(out) -> 1..(n + 1)]
  OBVIOUS
<1>2. {i \in 1..(n + 1) : Forwardable(s[i])} = {i \in 1..n : Forwardable(s[i])}
  OBVIOUS
<1> QED
  BY <1>1, <1>2 DEF ForwardedPrefix

\* An entry with a known target extends the prefix and is appended to the
\* records sent.
LEMMA ExtendPrefix ==
  ASSUME NEW s \in Seq(Entry), NEW n \in 0..(Len(s) - 1), NEW out \in Seq(Entry),
         ForwardedPrefix(s, n, out), Forwardable(s[n + 1])
  PROVE  ForwardedPrefix(s, n + 1, Append(out, s[n + 1]))
<1> PICK g \in [1..Len(out) -> 1..n] :
      /\ \A j, k \in 1..Len(out) : j < k => g[j] < g[k]
      /\ {g[k] : k \in 1..Len(out)} = {i \in 1..n : Forwardable(s[i])}
      /\ \A k \in 1..Len(out) : out[k] = s[g[k]]
  BY DEF ForwardedPrefix
<1> DEFINE L == Len(out)
           o2 == Append(out, s[n + 1])
           h == [k \in 1..(L + 1) |-> IF k <= L THEN g[k] ELSE n + 1]
<1>1. Len(o2) = L + 1
  OBVIOUS
<1>2. h \in [1..Len(o2) -> 1..(n + 1)]
  BY <1>1
<1>3. \A j, k \in 1..Len(o2) : j < k => h[j] < h[k]
  BY <1>1
<1>4. {h[k] : k \in 1..Len(o2)} = {i \in 1..(n + 1) : Forwardable(s[i])}
  <2>1. {h[k] : k \in 1..Len(o2)} = {g[k] : k \in 1..L} \cup {n + 1}
    <3>1. \A k \in 1..L : h[k] = g[k]
      OBVIOUS
    <3>2. h[L + 1] = n + 1
      OBVIOUS
    <3>4. ASSUME NEW y
          PROVE  y \in {h[k] : k \in 1..Len(o2)} <=> y \in {g[k] : k \in 1..L} \cup {n + 1}
      <4>1. ASSUME NEW k \in 1..Len(o2), y = h[k]
            PROVE  y \in {g[k2] : k2 \in 1..L} \cup {n + 1}
        <5>1. CASE k <= L
          BY <4>1, <5>1, <3>1
        <5>2. CASE k = L + 1
          BY <4>1, <5>2, <3>2
        <5> QED
          BY <1>1, <5>1, <5>2
      <4>2. ASSUME NEW k \in 1..L, y = g[k]
            PROVE  y \in {h[k2] : k2 \in 1..Len(o2)}
        BY <4>2, <3>1, <1>1
      <4>3. ASSUME y = n + 1
            PROVE  y \in {h[k2] : k2 \in 1..Len(o2)}
        BY <4>3, <3>2, <1>1
      <4> QED
        BY <4>1, <4>2, <4>3
    <3> QED
      BY <3>4
  <2>2. {i \in 1..(n + 1) : Forwardable(s[i])}
          = {i \in 1..n : Forwardable(s[i])} \cup {n + 1}
    OBVIOUS
  <2> QED
    BY <2>1, <2>2
<1>5. \A k \in 1..Len(o2) : o2[k] = s[h[k]]
  BY <1>1
<1>6. \E f \in [1..Len(o2) -> 1..(n + 1)] :
        /\ \A j, k \in 1..Len(o2) : j < k => f[j] < f[k]
        /\ {f[k] : k \in 1..Len(o2)} = {i \in 1..(n + 1) : Forwardable(s[i])}
        /\ \A k \in 1..Len(o2) : o2[k] = s[f[k]]
  BY <1>2, <1>3, <1>4, <1>5
<1> QED
  BY <1>6 DEF ForwardedPrefix

\* The records sent since the mark, after one more record is appended.
LEMMA OutAppend ==
  ASSUME NEW S, NEW r \in Seq(S), NEW m \in 0..Len(r), NEW x \in S
  PROVE  SubSeq(Append(r, x), m + 1, Len(r) + 1) = Append(SubSeq(r, m + 1, Len(r)), x)
<1> DEFINE a == SubSeq(Append(r, x), m + 1, Len(r) + 1)
           b == Append(SubSeq(r, m + 1, Len(r)), x)
<1>1. Len(a) = Len(r) + 1 - m /\ Len(b) = Len(r) + 1 - m
  OBVIOUS
<1>2. a \in Seq(S) /\ b \in Seq(S)
  OBVIOUS
<1>3. \A k \in 1..Len(a) : a[k] = b[k]
  BY <1>1
<1> QED
  BY <1>1, <1>2, <1>3, SeqEqual

\* The records sent since the mark are records.
LEMMA OutType ==
  ASSUME TypeOK, mark <= Len(records)
  PROVE  Out \in Seq(Entry)
BY DEF TypeOK, Out

\* The entries of the message being handled.
LEMMA MsgEntries ==
  ASSUME TypeOK
  PROVE  msg.entries \in Seq(Entry)
BY DEF TypeOK, Message

LEMMA InitFwdInv == Init => FwdInv
BY DEF Init, FwdInv

\* The handler's steps: receiving an HTTP message restarts the prefix;
\* skipping or sending an entry extends it.
LEMMA HandlerFwdInv == TypeOK /\ FwdInv /\ Handler => FwdInv'
<1> SUFFICES ASSUME TypeOK, FwdInv, Handler PROVE FwdInv' OBVIOUS
<1>0. msg.entries \in Seq(Entry)
  BY MsgEntries
<1>1. CASE RecvMessage
  <2>1. CASE Head(inbox).kind = "http"
    <3>1. Head(inbox) \in Messages
      BY <1>1 DEF RecvMessage, TypeOK
    <3>2. msg'.entries \in Seq(Entry)
      BY <1>1, <3>1 DEF RecvMessage, Message
    <3>3. Out' = << >>
      BY <1>1, <2>1 DEF RecvMessage, Out, TypeOK
    <3>4. ForwardedPrefix(msg'.entries, 0, << >>)
      BY <3>2, EmptyPrefix
    <3> QED
      BY <1>1, <2>1, <3>3, <3>4 DEF RecvMessage, FwdInv, TypeOK
  <2>2. CASE Head(inbox).kind # "http"
    BY <1>1, <2>2 DEF RecvMessage, FwdInv
  <2> QED
    BY <2>1, <2>2
<1>2. CASE RecvEOF
  BY <1>2 DEF RecvEOF, FwdInv
<1>3. CASE RecvError
  BY <1>3 DEF RecvError, FwdInv
<1>4. CASE SkipEntry
  <2>1. /\ mark <= Len(records) /\ ei <= Len(msg.entries)
        /\ ForwardedPrefix(msg.entries, ei - 1, Out)
    BY <1>4 DEF SkipEntry, FwdInv
  <2>2. ei - 1 \in 0..(Len(msg.entries) - 1)
    BY <2>1 DEF TypeOK
  <2>3. ForwardedPrefix(msg.entries, (ei - 1) + 1, Out)
    <3>1. Out \in Seq(Entry)
      BY <2>1, OutType
    <3>2. ~Forwardable(msg.entries[(ei - 1) + 1])
      BY <1>4 DEF SkipEntry, TypeOK
    <3> QED
      BY <1>0, <2>1, <2>2, <3>1, <3>2, SkipPrefix
  <2>4. Out' = Out
    BY <1>4 DEF SkipEntry, Out, envVars, handlerVars
  <2> QED
    BY <1>4, <2>1, <2>3, <2>4 DEF SkipEntry, FwdInv, TypeOK
<1>5. CASE SendEntry
  <2>1. /\ mark <= Len(records) /\ ei <= Len(msg.entries)
        /\ ForwardedPrefix(msg.entries, ei - 1, Out)
    BY <1>5 DEF SendEntry, FwdInv
  <2>2. ei - 1 \in 0..(Len(msg.entries) - 1)
    BY <2>1 DEF TypeOK
  <2>3. msg.entries[ei] \in Entry
    BY <1>5, <2>1, CurrentEntry DEF SendEntry
  <2>4. ForwardedPrefix(msg.entries, (ei - 1) + 1, Append(Out, msg.entries[(ei - 1) + 1]))
    <3>1. Out \in Seq(Entry)
      BY <2>1, OutType
    <3>2. Forwardable(msg.entries[(ei - 1) + 1])
      BY <1>5 DEF SendEntry, TypeOK
    <3> QED
      BY <1>0, <2>1, <2>2, <3>1, <3>2, ExtendPrefix
  <2>5. Out' = Append(Out, msg.entries[ei])
    <3>1. records' = Append(records, msg.entries[ei]) /\ mark' = mark
      BY <1>5 DEF SendEntry, handlerVars
    <3>2. records \in Seq(Entry) /\ mark \in 0..Len(records)
      BY <2>1 DEF TypeOK
    <3>3. Len(records') = Len(records) + 1
      BY <2>3, <3>1, <3>2
    <3>4. SubSeq(Append(records, msg.entries[ei]), mark + 1, Len(records) + 1)
            = Append(SubSeq(records, mark + 1, Len(records)), msg.entries[ei])
      BY <2>3, <3>2, OutAppend
    <3> QED
      BY <3>1, <3>3, <3>4 DEF Out
  <2> QED
    BY <1>5, <2>1, <2>4, <2>5 DEF SendEntry, FwdInv, TypeOK
<1>6. CASE SendEntryFails
  BY <1>6 DEF SendEntryFails, FwdInv
<1>7. CASE EntriesDone
  BY <1>7 DEF EntriesDone, FwdInv
<1> QED
  BY <1>1, <1>2, <1>3, <1>4, <1>5, <1>6, <1>7 DEF Handler

\* The watcher and the environment leave the handler's state alone.
LEMMA OthersFwdInv ==
  FwdInv /\ (Watcher \/ Environment \/ UNCHANGED vars) => FwdInv'
<1> SUFFICES ASSUME FwdInv, Watcher \/ Environment \/ UNCHANGED vars
             PROVE  FwdInv'
  OBVIOUS
<1>1. UNCHANGED handlerVars
  BY DEF Watcher, WatchStreamDone, WatchCloseStream, Environment, ClientSend,
         ClientClose, ClientFail, ServerShutdown, TimerFires, vars, handlerVars
<1> QED
  BY <1>1 DEF FwdInv, Out, handlerVars

LEMMA NextFwdInv == TypeOK /\ FwdInv /\ [Next]_vars => FwdInv'
BY HandlerFwdInv, OthersFwdInv DEF Next

\* Only EntriesDone counts a request "ok"; every other step leaves the
\* count alone.
LEMMA OkOnlyAtEntriesDone ==
  ASSUME TypeOK, [Next]_vars, ~EntriesDone
  PROVE  metrics'.ok = metrics.ok
<1>1. CASE SendEntryFails
  BY <1>1 DEF SendEntryFails, TypeOK
<1>2. CASE Handler /\ ~SendEntryFails
  BY <1>2 DEF Handler, RecvMessage, RecvEOF, RecvError, SkipEntry, SendEntry,
              handlerVars
<1>3. CASE Watcher \/ Environment \/ UNCHANGED vars
  BY <1>3 DEF Watcher, WatchStreamDone, WatchCloseStream, Environment, ClientSend,
              ClientClose, ClientFail, ServerShutdown, TimerFires, vars, handlerVars
<1> QED
  BY <1>1, <1>2, <1>3 DEF Next

\* A step that counts the current message "ok" is EntriesDone, taken once
\* every entry is handled: the invariant then covers the whole message.
LEMMA ForwardedStep ==
  TypeOK /\ FwdInv /\ [Next]_vars =>
    [ (hpc = "entries" /\ metrics'.ok = metrics.ok + 1)
        => ForwardedPrefix(msg.entries, Len(msg.entries),
                           SubSeq(records, mark + 1, Len(records))) ]_vars
<1> SUFFICES ASSUME TypeOK, FwdInv, [Next]_vars, hpc = "entries",
                    metrics'.ok = metrics.ok + 1
             PROVE  ForwardedPrefix(msg.entries, Len(msg.entries),
                                    SubSeq(records, mark + 1, Len(records)))
  OBVIOUS
<1>1. EntriesDone
  <2>1. metrics.ok \in Nat
    BY DEF TypeOK
  <2> QED
    BY <2>1, OkOnlyAtEntriesDone
<1>2. ei = Len(msg.entries) + 1
  BY <1>1 DEF EntriesDone, FwdInv, TypeOK
<1> QED
  BY <1>2 DEF FwdInv, Out

\* handleHTTPLogs forwards, for every message it counts "ok", exactly the
\* entries with a known target, once each and in the message's order,
\* under every interleaving with the watcher and Envoy, for every set of
\* messages and every bound (ForwardedInOrder).
THEOREM ForwardedInOrderHolds == Spec => ForwardedInOrder
<1>1. Init => TypeOK /\ FwdInv
  BY InitTypeOK, InitFwdInv
<1>2. TypeOK /\ FwdInv /\ [Next]_vars => TypeOK' /\ FwdInv'
  BY HandlerTypeOK, WatcherTypeOK, EnvironmentTypeOK, NextFwdInv
     DEF Next, vars, TypeOK, envVars, handlerVars
<1>3. TypeOK /\ FwdInv /\ [Next]_vars =>
        [ (hpc = "entries" /\ metrics'.ok = metrics.ok + 1)
            => ForwardedPrefix(msg.entries, Len(msg.entries),
                               SubSeq(records, mark + 1, Len(records))) ]_vars
  BY ForwardedStep
<1> QED
  BY <1>1, <1>2, <1>3, PTL DEF Spec, ForwardedInOrder

=============================================================================
