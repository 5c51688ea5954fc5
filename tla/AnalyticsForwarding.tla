------------------------- MODULE AnalyticsForwarding -------------------------
(***************************************************************************)
(* What one access-log stream promises analytics, whatever the goroutines  *)
(* and Envoy do: the stream takes batches of entries to forward, one at a  *)
(* time; it sends the entries of a batch as records, in order, each once;  *)
(* a batch is abandoned only when a send fails, which is counted; the      *)
(* stream ends only between batches; and a batch taken is eventually       *)
(* finished, forwarded or abandoned.                                       *)
(***************************************************************************)
EXTENDS Naturals, Sequences

CONSTANT Batches   \* the sequences of entries a message may ask to forward

VARIABLES
  backlog,    \* entries of the current batch not yet sent or abandoned
  records,    \* the records sent, in order
  failures,   \* the failed sends
  ended       \* the stream has ended

vars == <<backlog, records, failures, ended>>

Init ==
  /\ backlog = << >>
  /\ records = << >>
  /\ failures = 0
  /\ ended = FALSE

\* A new batch is taken once the previous one is finished.
Take(b) ==
  /\ ~ended
  /\ backlog = << >>
  /\ backlog' = b
  /\ UNCHANGED <<records, failures, ended>>

\* The next entry of the batch is sent.
Forward ==
  /\ backlog # << >>
  /\ records' = Append(records, Head(backlog))
  /\ backlog' = Tail(backlog)
  /\ UNCHANGED <<failures, ended>>

\* A send fails: the rest of the batch is abandoned and the failure counted.
Abandon ==
  /\ backlog # << >>
  /\ backlog' = << >>
  /\ failures' = failures + 1
  /\ UNCHANGED <<records, ended>>

End ==
  /\ ~ended
  /\ backlog = << >>
  /\ ended' = TRUE
  /\ UNCHANGED <<backlog, records, failures>>

Next == (\E b \in Batches : Take(b)) \/ Forward \/ Abandon \/ End

\* What the stream may do, without the promise that a batch is finished.
SafetySpec == Init /\ [][Next]_vars

Spec == Init /\ [][Next]_vars /\ WF_vars(Forward \/ Abandon)

=============================================================================
