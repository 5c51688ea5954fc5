----------------------------- MODULE ApigeeTime -----------------------------
(***************************************************************************)
(* The timestamps of an analytics record (src/server/accesslog.go, lines   *)
(* 174-182 and 207-240): pbTimestampToApigee and                           *)
(* pbTimestampAddDurationApigee turn the protobuf start time of an entry,  *)
(* and the start time plus one of its durations, into milliseconds since   *)
(* the epoch through time.Time.UnixNano, in int64 arithmetic.              *)
(*                                                                         *)
(* The units are parameters so that a small instance keeps the shape of    *)
(* the real one: nanoseconds per millisecond and milliseconds per second   *)
(* (10^6 and 10^3 in Go), half the values of Go's int64 (2^63), the range *)
(* of seconds timestamppb.CheckValid accepts (years 1 to 9999) and the    *)
(* bound durationpb.CheckValid puts on seconds (10000 years).  In Go the   *)
(* valid timestamps reach far past what int64 nanoseconds can hold; the   *)
(* small instance keeps that.                                             *)
(***************************************************************************)
EXTENDS Integers

CONSTANTS
  NsPerMs,       \* int64(time.Millisecond) / int64(time.Nanosecond)
  MsPerSec,      \* milliseconds per second
  IntHalf,       \* 2^63: an int64 is in -IntHalf..IntHalf-1
  MinValidSec,   \* minValidSeconds of timestamppb (inclusive)
  MaxValidSec,   \* maxValidSeconds of timestamppb (exclusive)
  MaxDurSec,     \* absDurationSeconds of durationpb
  Timestamps,    \* the *timestamppb.Timestamp values an entry may carry
  Durations,     \* the *durationpb.Duration values an entry may carry
  Nil            \* a nil message pointer

ASSUME ApigeeTimeAssumption ==
  /\ NsPerMs \in Nat \ {0} /\ MsPerSec \in Nat \ {0} /\ IntHalf \in Nat \ {0}
  /\ MinValidSec \in Int /\ MaxValidSec \in Int /\ MaxDurSec \in Nat
  \* the int64 seconds and int32 nanos fields of the two messages
  /\ Timestamps \subseteq [seconds : Int, nanos : Int] \cup {Nil}
  /\ Durations \subseteq [seconds : Int, nanos : Int] \cup {Nil}

NsPerSec == NsPerMs * MsPerSec

MaxInt == IntHalf - 1
MinInt == -IntHalf

\* Two's-complement wrap-around of an int64 result.
Wrap(x) == ((x - MinInt) % (2 * IntHalf)) + MinInt

\* Go's integer division by a positive divisor, truncating toward zero.
Quo(a, b) == IF a >= 0 THEN a \div b ELSE -((-a) \div b)

\* timestamppb.Timestamp.CheckValid.
TimestampValid(ts) ==
  /\ ts # Nil
  /\ MinValidSec <= ts.seconds /\ ts.seconds < MaxValidSec
  /\ 0 <= ts.nanos /\ ts.nanos < NsPerSec

\* durationpb.Duration.CheckValid.
DurationValid(d) ==
  /\ d # Nil
  /\ -MaxDurSec <= d.seconds /\ d.seconds <= MaxDurSec
  /\ -NsPerSec < d.nanos /\ d.nanos < NsPerSec
  /\ ~(d.seconds > 0 /\ d.nanos < 0) /\ ~(d.seconds < 0 /\ d.nanos > 0)

\* durationpb.Duration.AsDuration: seconds times time.Second and the nanos
\* added in int64, saturated at the bounds of time.Duration on overflow.
\* A nil duration reads as zero.
AsDuration(d) ==
  LET secs == IF d = Nil THEN 0 ELSE d.seconds
      nanos == IF d = Nil THEN 0 ELSE d.nanos
      prod == Wrap(secs * NsPerSec)
      sum == Wrap(prod + nanos)
      overflow == \/ Quo(prod, NsPerSec) # secs
                  \/ secs < 0 /\ nanos < 0 /\ sum > 0
                  \/ secs > 0 /\ nanos > 0 /\ sum < 0
  IN  IF overflow /\ secs < 0 THEN MinInt
      ELSE IF overflow /\ secs > 0 THEN MaxInt
      ELSE sum

\* Mutant of AsTime: the nanos of the timestamp left out.
AsTimeSecondsOnly(ts) == ts.seconds * NsPerSec

\* A time.Time, as its exact nanoseconds since the epoch: AsTime, then
\* Time.Add, whose seconds are wide enough not to overflow here.
AsTime(ts) == ts.seconds * NsPerSec + ts.nanos

\* timeToApigeeInt (lines 238-240): t.UnixNano() in int64, divided by the
\* nanoseconds of a millisecond.
TimeToApigeeInt(t) == Quo(Wrap(t), NsPerMs)

\* pbTimestampToApigee (lines 208-214).
PbTimestampToApigee(ts) ==
  IF ~TimestampValid(ts) THEN 0 ELSE TimeToApigeeInt(AsTime(ts))

\* pbTimestampAddDurationApigee (lines 217-227): an invalid duration adds 0.
PbTimestampAddDurationApigee(ts, d) ==
  IF ~TimestampValid(ts) THEN 0
  ELSE LET du == IF DurationValid(d) THEN AsDuration(d) ELSE 0
       IN  TimeToApigeeInt(AsTime(ts) + du)

VARIABLES
  startTime,   \* cp.StartTime of the entry
  duration,    \* one of the cp.TimeTo... durations of the entry
  stamps,      \* the record's ClientReceivedStartTimestamp and one other
  built        \* the record has been built

vars == <<startTime, duration, stamps, built>>

Init ==
  /\ startTime = Nil
  /\ duration = Nil
  /\ stamps = [start |-> 0, end |-> 0]
  /\ built = FALSE

\* Lines 174-182: the record of one entry gets its timestamps.
RecordTimestamps ==
  /\ ~built
  /\ built' = TRUE
  /\ \E ts \in Timestamps, d \in Durations :
    /\ startTime' = ts
    /\ duration' = d
    /\ stamps' = [start |-> PbTimestampToApigee(ts),
                  end |-> PbTimestampAddDurationApigee(ts, d)]

Next == RecordTimestamps

Spec == Init /\ [][Next]_vars

-----------------------------------------------------------------------------

\* The reference, on unbounded integers: the nanoseconds since the epoch
\* a timestamp, or a duration, stands for, and the milliseconds of a number
\* of nanoseconds, truncated toward zero as Go's division does.
EpochNanos(ts) == ts.seconds * NsPerSec + ts.nanos
DurationNanos(d) == d.seconds * NsPerSec + d.nanos
ExactMillis(ns) == Quo(ns, NsPerMs)

Int64(x) == MinInt <= x /\ x <= MaxInt

\* The record's timestamps are the milliseconds since the epoch of the
\* entry's start time, and of the start time plus the duration, whenever
\* the start time is valid and those instants, and the duration, are within
\* the range of int64 nanoseconds.
StampsExact ==
  TimestampValid(startTime) =>
    /\ Int64(EpochNanos(startTime)) => stamps.start = ExactMillis(EpochNanos(startTime))
    /\ DurationValid(duration)
       /\ Int64(DurationNanos(duration))
       /\ Int64(EpochNanos(startTime) + DurationNanos(duration))
       => stamps.end = ExactMillis(EpochNanos(startTime) + DurationNanos(duration))

\* "returns ms since epoch" (lines 207 and 216): for every start time
\* timestamppb accepts and every duration durationpb accepts, the record
\* carries the milliseconds since the epoch of the start time and of the
\* start time plus the duration.
StampsAreMillis ==
  TimestampValid(startTime) =>
    /\ stamps.start = ExactMillis(EpochNanos(startTime))
    /\ DurationValid(duration) =>
         stamps.end = ExactMillis(EpochNanos(startTime) + DurationNanos(duration))

=============================================================================
