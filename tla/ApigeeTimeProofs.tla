--------------------------- MODULE ApigeeTimeProofs ---------------------------
(***************************************************************************)
(* Proofs about the timestamps of an analytics record (ApigeeTime): the    *)
(* int64 arithmetic of pbTimestampToApigee and                            *)
(* pbTimestampAddDurationApigee (src/server/accesslog.go, lines 207-240)   *)
(* gives the exact milliseconds whenever the instants and the duration are *)
(* within int64 nanoseconds, for every choice of the units and ranges.     *)
(***************************************************************************)
EXTENDS ApigeeTime, TLAPS

TypeInv ==
  /\ startTime \in Timestamps \cup {Nil}
  /\ duration \in Durations \cup {Nil}
  /\ built \in BOOLEAN

\* The inductive invariant: before the record is built the start time is
\* still nil; once it is, its stamps are the two conversions of the entry's
\* start time and duration.
StampsInv ==
  /\ ~built => startTime = Nil
  /\ built => stamps = [start |-> PbTimestampToApigee(startTime),
                        end |-> PbTimestampAddDurationApigee(startTime, duration)]

-----------------------------------------------------------------------------
(* The int64 arithmetic.                                                   *)

\* A product of the two units is a positive number of nanoseconds.
LEMMA NsPerSecPositive == NsPerSec \in Nat \ {0}
BY ApigeeTimeAssumption DEF NsPerSec

\* The two's-complement wrap of timeToApigeeInt and AsDuration leaves a
\* value within int64 as it is.
LEMMA WrapId ==
  ASSUME NEW x \in Int, Int64(x)
  PROVE  Wrap(x) = x
BY ApigeeTimeAssumption DEF Wrap, Int64, MinInt, MaxInt

\* Go's truncating division undoes a multiplication by the divisor, for
\* seconds of either sign: the check "d/Second != secs" of AsDuration.
LEMMA QuoMul ==
  ASSUME NEW s \in Int, NEW n \in Nat \ {0}
  PROVE  Quo(s * n, n) = s
<1>1. CASE s >= 0
  BY <1>1 DEF Quo
<1>2. CASE s < 0
  <2>1. -(s * n) = (-s) * n
    OBVIOUS
  <2>2. ((-s) * n) \div n = -s
    BY <1>2
  <2>3. s * n < 0
    BY <1>2
  <2> QED
    BY <2>1, <2>2, <2>3 DEF Quo
<1> QED
  BY <1>1, <1>2

\* durationpb.Duration.AsDuration of a valid duration whose nanoseconds fit
\* in int64 neither overflows nor saturates: it is those nanoseconds.
LEMMA AsDurationExact ==
  ASSUME NEW d \in Durations, DurationValid(d), Int64(DurationNanos(d))
  PROVE  AsDuration(d) = DurationNanos(d)
<1>1. d \in [seconds : Int, nanos : Int]
  BY ApigeeTimeAssumption DEF DurationValid
<1> DEFINE secs == d.seconds
           nanos == d.nanos
           prod == secs * NsPerSec
<1>2. secs \in Int /\ nanos \in Int /\ NsPerSec \in Nat \ {0}
  BY <1>1, NsPerSecPositive
<1>3. /\ secs > 0 => nanos >= 0
      /\ secs < 0 => nanos <= 0
      /\ MinInt <= prod + nanos /\ prod + nanos <= MaxInt
  BY <1>2 DEF DurationValid, Int64, DurationNanos
<1>4. Int64(prod)
  <2>1. MinInt <= 0 /\ 0 <= MaxInt
    BY ApigeeTimeAssumption DEF MinInt, MaxInt
  <2>2. CASE secs > 0
    <3>1. prod > 0
      BY <1>2, <2>2
    <3> QED
      BY <1>2, <1>3, <2>1, <2>2, <3>1, ApigeeTimeAssumption DEF Int64, MinInt, MaxInt
  <2>3. CASE secs < 0
    <3>1. prod < 0
      BY <1>2, <2>3
    <3> QED
      BY <1>2, <1>3, <2>1, <2>3, <3>1, ApigeeTimeAssumption DEF Int64, MinInt, MaxInt
  <2>4. CASE secs = 0
    BY <1>2, <2>1, <2>4 DEF Int64
  <2> QED
    BY <1>2, <2>2, <2>3, <2>4
<1>5. Wrap(prod) = prod
  BY <1>2, <1>4, WrapId
<1>6. Quo(prod, NsPerSec) = secs
  BY <1>2, QuoMul
<1>7. Wrap(prod + nanos) = prod + nanos
  BY <1>2, <1>3, WrapId DEF Int64
<1>8. /\ ~(secs < 0 /\ nanos < 0 /\ prod + nanos > 0)
      /\ ~(secs > 0 /\ nanos > 0 /\ prod + nanos < 0)
  <2>1. secs < 0 => prod < 0
    BY <1>2
  <2>2. secs > 0 => prod > 0
    BY <1>2
  <2> QED
    BY <1>2, <2>1, <2>2
<1>9. d # Nil
  BY DEF DurationValid
<1> QED
  BY <1>5, <1>6, <1>7, <1>8, <1>9 DEF AsDuration, DurationNanos

-----------------------------------------------------------------------------
(* The two conversions.                                                    *)

\* pbTimestampToApigee of a valid timestamp whose UnixNano fits in int64 is
\* its milliseconds since the epoch.
LEMMA StartExact ==
  ASSUME NEW ts \in Timestamps, TimestampValid(ts), Int64(EpochNanos(ts))
  PROVE  PbTimestampToApigee(ts) = ExactMillis(EpochNanos(ts))
<1>1. ts \in [seconds : Int, nanos : Int]
  BY ApigeeTimeAssumption DEF TimestampValid
<1>2. EpochNanos(ts) \in Int
  BY <1>1, NsPerSecPositive DEF EpochNanos
<1>3. Wrap(AsTime(ts)) = EpochNanos(ts)
  BY <1>2, WrapId DEF AsTime, EpochNanos
<1> QED
  BY <1>3 DEF PbTimestampToApigee, TimeToApigeeInt, ExactMillis

\* pbTimestampAddDurationApigee of a valid timestamp and a valid duration,
\* when the duration and the sum fit in int64, is the milliseconds since
\* the epoch of the start time plus the duration.
LEMMA EndExact ==
  ASSUME NEW ts \in Timestamps, NEW d \in Durations,
         TimestampValid(ts), DurationValid(d), Int64(DurationNanos(d)),
         Int64(EpochNanos(ts) + DurationNanos(d))
  PROVE  PbTimestampAddDurationApigee(ts, d)
           = ExactMillis(EpochNanos(ts) + DurationNanos(d))
<1>1. ts \in [seconds : Int, nanos : Int] /\ d \in [seconds : Int, nanos : Int]
  BY ApigeeTimeAssumption DEF TimestampValid, DurationValid
<1>2. EpochNanos(ts) + DurationNanos(d) \in Int
  BY <1>1, NsPerSecPositive DEF EpochNanos, DurationNanos
<1>3. AsTime(ts) + AsDuration(d) = EpochNanos(ts) + DurationNanos(d)
  BY AsDurationExact DEF AsTime, EpochNanos
<1>4. Wrap(AsTime(ts) + AsDuration(d)) = EpochNanos(ts) + DurationNanos(d)
  BY <1>2, <1>3, WrapId
<1> QED
  BY <1>4 DEF PbTimestampAddDurationApigee, TimeToApigeeInt, ExactMillis

-----------------------------------------------------------------------------
(* Invariance.                                                             *)

LEMMA InitInv == Init => TypeInv /\ StampsInv
BY DEF Init, TypeInv, StampsInv

LEMMA NextInv == TypeInv /\ StampsInv /\ [Next]_vars => TypeInv' /\ StampsInv'
<1> SUFFICES ASSUME TypeInv, StampsInv, [Next]_vars
             PROVE  TypeInv' /\ StampsInv'
  OBVIOUS
<1>1. CASE RecordTimestamps
  BY <1>1 DEF RecordTimestamps, TypeInv, StampsInv
<1>2. CASE UNCHANGED vars
  BY <1>2 DEF vars, TypeInv, StampsInv
<1> QED
  BY <1>1, <1>2 DEF Next

\* The invariant gives StampsExact: a valid start time means the record is
\* built, and then its stamps are the exact conversions.
LEMMA InvExact == TypeInv /\ StampsInv => StampsExact
<1> SUFFICES ASSUME TypeInv, StampsInv, TimestampValid(startTime)
             PROVE  StampsExact
  BY DEF StampsExact
<1>1. built /\ startTime \in Timestamps
  BY DEF TypeInv, StampsInv, TimestampValid
<1>2. stamps.start = PbTimestampToApigee(startTime)
      /\ stamps.end = PbTimestampAddDurationApigee(startTime, duration)
  BY <1>1 DEF StampsInv
<1>3. Int64(EpochNanos(startTime))
        => stamps.start = ExactMillis(EpochNanos(startTime))
  BY <1>1, <1>2, StartExact
<1>4. DurationValid(duration) /\ Int64(DurationNanos(duration))
        /\ Int64(EpochNanos(startTime) + DurationNanos(duration))
        => stamps.end = ExactMillis(EpochNanos(startTime) + DurationNanos(duration))
  <2> SUFFICES ASSUME DurationValid(duration), Int64(DurationNanos(duration)),
                      Int64(EpochNanos(startTime) + DurationNanos(duration))
               PROVE  stamps.end = ExactMillis(EpochNanos(startTime) + DurationNanos(duration))
    OBVIOUS
  <2>1. duration \in Durations
    BY DEF TypeInv, DurationValid
  <2> QED
    BY <1>1, <1>2, <2>1, EndExact
<1> QED
  BY <1>3, <1>4 DEF StampsExact

\* The stamps pbTimestampToApigee and pbTimestampAddDurationApigee put on
\* an analytics record (accesslog.go lines 174-182) are the exact
\* milliseconds since the epoch of the entry's start time and of the start
\* time plus the duration, whenever those and the duration fit in int64
\* nanoseconds: the int64 wrap-around and the saturation of AsDuration are
\* never reached there, whatever the units and the ranges.
THEOREM StampsExactness == Spec => []StampsExact
<1>1. Init => TypeInv /\ StampsInv
  BY InitInv
<1>2. TypeInv /\ StampsInv /\ [Next]_vars => TypeInv' /\ StampsInv'
  BY NextInv
<1>3. TypeInv /\ StampsInv => StampsExact
  BY InvExact
<1> QED
  BY <1>1, <1>2, <1>3, PTL DEF Spec


=============================================================================
