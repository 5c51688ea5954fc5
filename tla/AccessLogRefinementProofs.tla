---------------------- MODULE AccessLogRefinementProofs ----------------------
(***************************************************************************)
(* The access-log stream implements what it promises analytics: every step *)
(* of StreamAccessLogs, under the refinement mapping of AccessLog          *)
(* (backlog <- Pending, failures <- metrics.error, ended <- the handler    *)
(* has returned), is a step of AnalyticsForwarding or leaves its state     *)
(* alone.  The lemmas first show what ForwardedFrom, the entries still to  *)
(* be sent, is at the end of a message, past an entry without a known      *)
(* target and at an entry with one.                                        *)
(***************************************************************************)
EXTENDS AccessLogProofs, FiniteSetTheorems

-----------------------------------------------------------------------------
(* Ranks.                                                                  *)

\* The targets from i on are a finite set of indexes of s.
LEMMA TargetsFinite ==
  ASSUME NEW s \in Seq(Entry), NEW i \in Nat \ {0}
  PROVE  /\ Targets(s, i) \subseteq 1..Len(s)
         /\ IsFiniteSet(Targets(s, i))
         /\ Cardinality(Targets(s, i)) \in Nat
<1>1. Targets(s, i) \subseteq 1..Len(s)
  BY DEF Targets
<1>2. IsFiniteSet(1..Len(s))
  BY FS_Interval
<1>3. IsFiniteSet(Targets(s, i))
  BY <1>1, <1>2, FS_Subset
<1> QED
  BY <1>1, <1>3, FS_CardinalityType

\* A target's rank is between 1 and the number of targets.
LEMMA RankBounds ==
  ASSUME NEW s \in Seq(Entry), NEW i \in Nat \ {0}, NEW j \in Targets(s, i)
  PROVE  Rank(s, i, j) \in 1..Cardinality(Targets(s, i))
<1> DEFINE T == Targets(s, i)
           B == {k \in T : k <= j}
<1>1. IsFiniteSet(T) /\ Cardinality(T) \in Nat /\ T \subseteq 1..Len(s)
  BY TargetsFinite
<1>2. IsFiniteSet(B) /\ Cardinality(B) <= Cardinality(T)
  BY <1>1, FS_Subset
<1>3. Cardinality(B) \in Nat /\ Cardinality(B) # 0
  <2>1. j \in B /\ B # {}
    BY <1>1
  <2> QED
    BY <1>2, <2>1, FS_EmptySet, FS_CardinalityType
<1> QED
  BY <1>1, <1>2, <1>3 DEF Rank

\* Ranks grow with the index: no two targets share a rank.
LEMMA RankMono ==
  ASSUME NEW s \in Seq(Entry), NEW i \in Nat \ {0},
         NEW j1 \in Targets(s, i), NEW j2 \in Targets(s, i), j1 < j2
  PROVE  Rank(s, i, j1) < Rank(s, i, j2)
<1> DEFINE T == Targets(s, i)
           B1 == {k \in T : k <= j1}
           B2 == {k \in T : k <= j2}
<1>1. IsFiniteSet(T) /\ T \subseteq 1..Len(s)
  BY TargetsFinite
<1>2. IsFiniteSet(B2) /\ B1 \subseteq B2
  BY <1>1, FS_Subset
<1>3. IsFiniteSet(B1) /\ Cardinality(B1) <= Cardinality(B2)
      /\ (Cardinality(B2) = Cardinality(B1) => B2 = B1)
  BY <1>2, FS_Subset
<1>4. j2 \in B2 /\ j2 \notin B1
  BY <1>1
<1>5. Cardinality(B1) \in Nat /\ Cardinality(B2) \in Nat
  BY <1>2, <1>3, FS_CardinalityType
<1> QED
  BY <1>3, <1>4, <1>5 DEF Rank

\* Every rank from 1 to the number of targets is some target's: the ranks
\* are one-to-one into 1..n, and a one-to-one map between sets of the same
\* finite size is onto.
LEMMA RankOnto ==
  ASSUME NEW s \in Seq(Entry), NEW i \in Nat \ {0},
         NEW k \in 1..Cardinality(Targets(s, i))
  PROVE  \E j \in Targets(s, i) : Rank(s, i, j) = k
<1> DEFINE T == Targets(s, i)
           n == Cardinality(T)
           f == [j \in T |-> Rank(s, i, j)]
<1>1. IsFiniteSet(T) /\ n \in Nat /\ T \subseteq 1..Len(s)
  BY TargetsFinite
<1>2. f \in [T -> 1..n]
  BY RankBounds
<1>3. f \in Injection(T, 1..n)
  <2>1. ASSUME NEW a \in T, NEW b \in T, f[a] = f[b] PROVE a = b
    <3>0. Rank(s, i, a) = Rank(s, i, b) /\ Rank(s, i, a) \in Nat /\ Rank(s, i, b) \in Nat
      BY <2>1, <1>1, RankBounds
    <3>1. ~(a < b)
      <4> SUFFICES ASSUME a < b PROVE FALSE
        OBVIOUS
      <4>1. Rank(s, i, a) < Rank(s, i, b)
        BY RankMono
      <4> QED
        BY <3>0, <4>1
    <3>2. ~(b < a)
      <4> SUFFICES ASSUME b < a PROVE FALSE
        OBVIOUS
      <4>1. Rank(s, i, b) < Rank(s, i, a)
        BY RankMono
      <4> QED
        BY <3>0, <4>1
    <3> QED
      BY <1>1, <3>1, <3>2
  <2>2. \A a, b \in T : f[a] = f[b] => a = b
    BY <2>1
  <2> QED
    BY <1>2, <2>2 DEF Injection, IsInjective
<1>4. IsFiniteSet(1..n) /\ Cardinality(1..n) = n
  BY <1>1, FS_Interval
<1>5. f \in Surjection(T, 1..n)
  BY <1>3, <1>4, FS_Injection
<1> QED
  BY <1>5 DEF Surjection

\* The entries still to be sent are entries.
LEMMA ForwardedFromType ==
  ASSUME NEW s \in Seq(Entry), NEW i \in Nat \ {0}
  PROVE  ForwardedFrom(s, i) \in Seq(Entry)
<1> DEFINE T == Targets(s, i)
<1>1. Cardinality(T) \in Nat /\ T \subseteq 1..Len(s)
  BY TargetsFinite
<1>2. ASSUME NEW k \in 1..Cardinality(T)
      PROVE  s[CHOOSE j \in T : Rank(s, i, j) = k] \in Entry
  <2>1. \E j \in T : Rank(s, i, j) = k
    BY RankOnto
  <2>2. (CHOOSE j \in T : Rank(s, i, j) = k) \in T
    BY <2>1
  <2>3. (CHOOSE j \in T : Rank(s, i, j) = k) \in 1..Len(s)
    BY <1>1, <2>2
  <2> QED
    BY <2>3
<1>3. \A k \in 1..Cardinality(T) :
        s[CHOOSE j \in T : Rank(s, i, j) = k] \in Entry
  BY <1>2
<1>4. ForwardedFrom(s, i) \in [1..Cardinality(T) -> Entry]
  BY <1>3 DEF ForwardedFrom
<1> QED
  BY <1>1, <1>4

-----------------------------------------------------------------------------
(* ForwardedFrom along a message.                                          *)

\* Past the last entry nothing is left to send.
LEMMA ForwardedFromEnd ==
  ASSUME NEW s \in Seq(Entry)
  PROVE  ForwardedFrom(s, Len(s) + 1) = << >>
<1>1. Targets(s, Len(s) + 1) = {}
  BY DEF Targets
<1>2. Cardinality(Targets(s, Len(s) + 1)) = 0
  BY <1>1, FS_EmptySet
<1>3. 1..Cardinality(Targets(s, Len(s) + 1)) = {}
  BY <1>2
<1> QED
  BY <1>3 DEF ForwardedFrom

\* An entry without a known target changes nothing of what is left.
LEMMA ForwardedFromSkip ==
  ASSUME NEW s \in Seq(Entry), NEW i \in 1..Len(s), ~Forwardable(s[i])
  PROVE  ForwardedFrom(s, i) = ForwardedFrom(s, i + 1)
<1>1. Targets(s, i) = Targets(s, i + 1)
  BY DEF Targets
<1>2. ASSUME NEW j PROVE Rank(s, i, j) = Rank(s, i + 1, j)
  BY <1>1 DEF Rank
<1>3. ASSUME NEW k
      PROVE  (CHOOSE j \in Targets(s, i) : Rank(s, i, j) = k)
               = (CHOOSE j \in Targets(s, i + 1) : Rank(s, i + 1, j) = k)
  BY <1>1, <1>2
<1>4. Cardinality(Targets(s, i)) = Cardinality(Targets(s, i + 1))
  BY <1>1
<1>5. ASSUME NEW k \in 1..Cardinality(Targets(s, i))
      PROVE  ForwardedFrom(s, i)[k] = ForwardedFrom(s, i + 1)[k]
  <2>1. ForwardedFrom(s, i)[k]
          = s[CHOOSE j \in Targets(s, i) : Rank(s, i, j) = k]
    BY DEF ForwardedFrom
  <2>2. ForwardedFrom(s, i + 1)[k]
          = s[CHOOSE j \in Targets(s, i + 1) : Rank(s, i + 1, j) = k]
    BY <1>4 DEF ForwardedFrom
  <2> QED
    BY <2>1, <2>2, <1>3
<1> QED
  BY <1>4, <1>5, Zenon DEF ForwardedFrom

\* At an entry with a known target, that entry is the next one to send and
\* the rest is what is left after it.
LEMMA ForwardedFromCons ==
  ASSUME NEW s \in Seq(Entry), NEW i \in 1..Len(s), Forwardable(s[i])
  PROVE  /\ ForwardedFrom(s, i) # << >>
         /\ Head(ForwardedFrom(s, i)) = s[i]
         /\ Tail(ForwardedFrom(s, i)) = ForwardedFrom(s, i + 1)
<1> DEFINE T0 == Targets(s, i)
           T1 == Targets(s, i + 1)
           n1 == Cardinality(T1)
           R0(j) == Rank(s, i, j)
           R1(j) == Rank(s, i + 1, j)
           F0 == ForwardedFrom(s, i)
           F1 == ForwardedFrom(s, i + 1)
<1>1. T0 = T1 \cup {i} /\ i \notin T1
  BY DEF Targets
<1>2. IsFiniteSet(T1) /\ n1 \in Nat /\ T1 \subseteq 1..Len(s)
  BY TargetsFinite
<1>3. Cardinality(T0) = n1 + 1
  BY <1>1, <1>2, FS_AddElement
<1>4. R0(i) = 1
  <2>1. {k \in T0 : k <= i} = {i}
    BY DEF Targets
  <2> QED
    BY <2>1, FS_Singleton DEF Rank
<1>5. ASSUME NEW j \in T1 PROVE R0(j) = R1(j) + 1
  <2> DEFINE B1 == {k \in T1 : k <= j}
  <2>1. {k \in T0 : k <= j} = B1 \cup {i} /\ i \notin B1
    BY DEF Targets
  <2>2. IsFiniteSet(B1)
    BY <1>2, FS_Subset
  <2> QED
    BY <2>1, <2>2, FS_AddElement DEF Rank
<1>6. (CHOOSE j \in T0 : R0(j) = 1) = i
  <2>1. ASSUME NEW j \in T0, R0(j) = 1 PROVE j = i
    <3> SUFFICES ASSUME j # i PROVE FALSE
      OBVIOUS
    <3>1. j \in T1
      BY <1>1
    <3>2. R1(j) \in 1..n1
      BY <3>1, RankBounds
    <3> QED
      BY <2>1, <3>1, <3>2, <1>5
  <2>2. i \in T0
    BY <1>1
  <2> QED
    BY <2>1, <2>2, <1>4
<1>7. ASSUME NEW k \in 1..n1
      PROVE  (CHOOSE j \in T0 : R0(j) = k + 1) = (CHOOSE j \in T1 : R1(j) = k)
  <2> DEFINE j0 == CHOOSE j \in T1 : R1(j) = k
             j1 == CHOOSE j \in T0 : R0(j) = k + 1
  <2>1. j0 \in T1 /\ R1(j0) = k
    BY RankOnto
  <2>2. j0 \in T0 /\ R0(j0) = k + 1
    BY <2>1, <1>1, <1>5
  <2>3. j1 \in T0 /\ R0(j1) = k + 1
    BY <2>2
  <2>4. j1 \in T1 /\ R1(j1) = k
    <3>1. j1 # i
      BY <2>3, <1>4
    <3>2. j1 \in T1
      BY <3>1, <2>3, <1>1
    <3> QED
      BY <3>2, <2>3, <1>5, <1>2, RankBounds
  <2>5. j1 = j0
    <3>1. R1(j1) \in Nat /\ R1(j0) \in Nat
      BY <2>1, <2>4, RankBounds
    <3>2. ~(j1 < j0)
      <4> SUFFICES ASSUME j1 < j0 PROVE FALSE
        OBVIOUS
      <4> QED
        BY <2>1, <2>4, <3>1, RankMono
    <3>3. ~(j0 < j1)
      <4> SUFFICES ASSUME j0 < j1 PROVE FALSE
        OBVIOUS
      <4> QED
        BY <2>1, <2>4, <3>1, RankMono
    <3> QED
      BY <1>2, <2>1, <2>4, <3>2, <3>3
  <2> QED
    BY <2>5
<1>8. F0 \in Seq(Entry) /\ F1 \in Seq(Entry)
  BY ForwardedFromType
<1>9. Len(F0) = n1 + 1 /\ Len(F1) = n1
  BY <1>2, <1>3, <1>8 DEF ForwardedFrom
<1>10. F0[1] = s[i]
  BY <1>2, <1>3, <1>6 DEF ForwardedFrom
<1>11. ASSUME NEW k \in 1..n1 PROVE F0[k + 1] = F1[k]
  <2>1. F0[k + 1] = s[CHOOSE j \in T0 : R0(j) = k + 1]
    BY <1>2, <1>3 DEF ForwardedFrom
  <2>2. F1[k] = s[CHOOSE j \in T1 : R1(j) = k]
    BY DEF ForwardedFrom
  <2> QED
    BY <2>1, <2>2, <1>7
<1>12. Tail(F0) = F1
  <2>1. Tail(F0) \in Seq(Entry) /\ Len(Tail(F0)) = n1
    BY <1>8, <1>9
  <2>2. \A k \in 1..n1 : Tail(F0)[k] = F1[k]
    BY <1>8, <1>9, <1>11
  <2> QED
    BY <1>8, <1>9, <2>1, <2>2, SeqEqual
<1> QED
  BY <1>8, <1>9, <1>10, <1>12

-----------------------------------------------------------------------------
(* The refinement mapping, step by step.                                   *)

\* The stream starts with nothing pending, nothing sent, nothing failed.
LEMMA InitRefines == Init => Forwarding!Init
BY DEF Init, Pending, Forwarding!Init

\* What is pending while the handler waits in srv.Recv() or has returned.
LEMMA NothingPendingOutsideEntries ==
  ASSUME hpc # "entries"
  PROVE  Pending = << >>
BY DEF Pending

\* Receiving an HTTP message takes its forwardable entries as the next
\* batch; receiving a TCP message changes nothing analytics sees.
LEMMA RecvMessageRefines ==
  ASSUME TypeOK, RecvMessage
  PROVE  [Forwarding!Next]_Forwarding!vars
<1>1. Head(inbox) \in Messages
  BY DEF TypeOK, RecvMessage
<1>2. Pending = << >>
  BY NothingPendingOutsideEntries DEF RecvMessage
<1>3. CASE Head(inbox).kind = "http"
  <2> DEFINE b == ForwardedFrom(Head(inbox).entries, 1)
  <2>1. Pending' = b
    BY <1>3 DEF RecvMessage, Pending
  <2>2. Forwarding!Take(b)
    BY <1>2, <2>1 DEF RecvMessage, Forwarding!Take
  <2>3. b \in {ForwardedFrom(m.entries, 1) : m \in Messages}
    BY <1>1
  <2> QED
    BY <2>2, <2>3 DEF Forwarding!Next
<1>4. CASE Head(inbox).kind # "http"
  <2>1. Pending' = << >>
    BY <1>4 DEF RecvMessage, Pending
  <2> QED
    BY <1>2, <2>1 DEF RecvMessage, Forwarding!vars
<1> QED
  BY <1>3, <1>4

\* Skipping an entry without a known target leaves what is pending alone.
LEMMA SkipEntryRefines ==
  ASSUME TypeOK, SkipEntry
  PROVE  UNCHANGED Forwarding!vars
<1>1. msg.entries \in Seq(Entry) /\ ei \in 1..Len(msg.entries)
  BY MsgEntries DEF TypeOK, SkipEntry
<1>2. ForwardedFrom(msg.entries, ei) = ForwardedFrom(msg.entries, ei + 1)
  BY <1>1, ForwardedFromSkip DEF SkipEntry
<1>3. Pending' = Pending
  BY <1>2 DEF SkipEntry, Pending
<1> QED
  BY <1>3 DEF SkipEntry, Forwarding!vars

\* Sending an entry with a known target is forwarding the next one pending.
LEMMA SendEntryRefines ==
  ASSUME TypeOK, SendEntry
  PROVE  Forwarding!Forward
<1>1. msg.entries \in Seq(Entry) /\ ei \in 1..Len(msg.entries)
  BY MsgEntries DEF TypeOK, SendEntry
<1>2. /\ Pending # << >>
      /\ Head(Pending) = msg.entries[ei]
      /\ Tail(Pending) = ForwardedFrom(msg.entries, ei + 1)
  BY <1>1, ForwardedFromCons DEF SendEntry, Pending
<1>3. Pending' = ForwardedFrom(msg.entries, ei + 1)
  BY DEF SendEntry, Pending
<1> QED
  BY <1>2, <1>3 DEF SendEntry, Forwarding!Forward

\* A failed SendRecords abandons what is left of the message and is counted.
LEMMA SendEntryFailsRefines ==
  ASSUME TypeOK, SendEntryFails
  PROVE  Forwarding!Abandon
<1>1. msg.entries \in Seq(Entry) /\ ei \in 1..Len(msg.entries)
  BY MsgEntries DEF TypeOK, SendEntryFails
<1>2. Pending # << >>
  BY <1>1, ForwardedFromCons DEF SendEntryFails, Pending
<1>3. Pending' = << >>
  BY DEF SendEntryFails, Pending
<1>4. metrics'.error = metrics.error + 1
  BY DEF TypeOK, SendEntryFails
<1> QED
  BY <1>2, <1>3, <1>4 DEF SendEntryFails, Forwarding!Abandon

\* Once every entry is handled nothing is pending, and counting the request
\* "ok" changes nothing analytics sees.
LEMMA EntriesDoneRefines ==
  ASSUME TypeOK, FwdInv, EntriesDone
  PROVE  UNCHANGED Forwarding!vars
<1>1. msg.entries \in Seq(Entry) /\ ei = Len(msg.entries) + 1
  BY MsgEntries DEF TypeOK, FwdInv, EntriesDone
<1>2. Pending = << >>
  BY <1>1, ForwardedFromEnd DEF EntriesDone, Pending
<1>3. Pending' = << >>
  BY DEF EntriesDone, Pending
<1>4. metrics'.error = metrics.error
  BY DEF TypeOK, EntriesDone
<1> QED
  BY <1>2, <1>3, <1>4 DEF EntriesDone, Forwarding!vars

\* The handler returns from srv.Recv() only between messages.
LEMMA ReturnRefines ==
  ASSUME RecvEOF \/ RecvError
  PROVE  Forwarding!End
<1>1. hpc = "recv" /\ hpc' = "returned"
      /\ UNCHANGED <<records, metrics>>
  BY DEF RecvEOF, RecvError
<1>2. Pending = << >> /\ Pending' = << >>
  BY <1>1 DEF Pending
<1> QED
  BY <1>1, <1>2 DEF Forwarding!End

\* The watcher and Envoy leave the handler's state alone.
LEMMA OthersRefine ==
  ASSUME Watcher \/ Environment \/ UNCHANGED vars
  PROVE  UNCHANGED Forwarding!vars
<1>1. UNCHANGED handlerVars
  BY DEF Watcher, WatchStreamDone, WatchCloseStream, Environment, ClientSend,
         ClientClose, ClientFail, ServerShutdown, TimerFires, vars, handlerVars
<1> QED
  BY <1>1 DEF handlerVars, Pending, Forwarding!vars

\* Every step of the stream is a step of AnalyticsForwarding or leaves its
\* state alone.
LEMMA NextRefines ==
  TypeOK /\ FwdInv /\ [Next]_vars => [Forwarding!Next]_Forwarding!vars
<1> SUFFICES ASSUME TypeOK, FwdInv, [Next]_vars
             PROVE  [Forwarding!Next]_Forwarding!vars
  OBVIOUS
<1>1. CASE RecvMessage
  BY <1>1, RecvMessageRefines
<1>2. CASE SkipEntry
  BY <1>2, SkipEntryRefines
<1>3. CASE SendEntry
  BY <1>3, SendEntryRefines DEF Forwarding!Next
<1>4. CASE SendEntryFails
  BY <1>4, SendEntryFailsRefines DEF Forwarding!Next
<1>5. CASE EntriesDone
  BY <1>5, EntriesDoneRefines
<1>6. CASE RecvEOF \/ RecvError
  BY <1>6, ReturnRefines DEF Forwarding!Next
<1>7. CASE Watcher \/ Environment \/ UNCHANGED vars
  BY <1>7, OthersRefine
<1> QED
  BY <1>1, <1>2, <1>3, <1>4, <1>5, <1>6, <1>7 DEF Next, Handler

\* StreamAccessLogs implements the safety part of what it promises
\* analytics (AnalyticsForwarding under the mapping ForwardingSpec checks):
\* handleHTTPLogs takes a message's forwardable entries only once the
\* previous message is finished, sends them to SendRecords in order and
\* once each, abandons the rest only on a failed send that it counts in
\* analytics_requests_count{error}, and the stream returns only between
\* messages, under every interleaving with the watcher and Envoy.
THEOREM ForwardingSafety == Spec => Forwarding!SafetySpec
<1>1. Init => TypeOK /\ FwdInv
  BY InitTypeOK, InitFwdInv
<1>2. TypeOK /\ FwdInv /\ [Next]_vars => TypeOK' /\ FwdInv'
  BY HandlerTypeOK, WatcherTypeOK, EnvironmentTypeOK, NextFwdInv
     DEF Next, vars, TypeOK, envVars, handlerVars
<1>3. Init => Forwarding!Init
  BY InitRefines
<1>4. TypeOK /\ FwdInv /\ [Next]_vars => [Forwarding!Next]_Forwarding!vars
  BY NextRefines
<1> QED
  BY <1>1, <1>2, <1>3, <1>4, PTL DEF Spec, Forwarding!SafetySpec

=============================================================================
