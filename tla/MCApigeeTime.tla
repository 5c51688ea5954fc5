----------------------------- MODULE MCApigeeTime -----------------------------
(***************************************************************************)
(* A scaled clock: 2 nanoseconds per millisecond, 2 milliseconds per       *)
(* second and an int64 of 64 values (IntHalf = 32, a 6-bit integer), so    *)
(* that int64 nanoseconds cover 8 seconds either side of the epoch while   *)
(* timestamppb accepts 10: as in Go, valid timestamps reach past the range *)
(* of UnixNano, and durations past that of time.Duration.  Nanos and       *)
(* seconds include values just outside the valid ranges, of both signs,    *)
(* and nil messages.                                                       *)
(***************************************************************************)
EXTENDS ApigeeTime

MCMinValidSec == -10

MCTimestamps == {Nil} \cup [seconds : -11..10, nanos : {-1, 0, 1, 3, 4}]

MCDurations ==
  {Nil} \cup [seconds : {-13, -12, -9, -8, -1, 0, 1, 7, 8, 12, 13},
              nanos : {-4, -1, 0, 1, 3, 4}]
=============================================================================
