---------------------------- MODULE TimeWindows ----------------------------
(***************************************************************************)
(* youtube-topk-videos, time_windows.py: the tumbling windows.  Times are  *)
(* natural numbers; the calendar is the set of the times at which a month  *)
(* begins.                                                                 *)
(***************************************************************************)
EXTENDS Naturals

CONSTANTS
    HourLength,
    DayLength,
    Months             \* times at which a month begins

ASSUME TimeAssumption ==
    /\ HourLength \in Nat \ {0}
    /\ DayLength \in Nat \ {0}
    /\ DayLength % HourLength = 0
    /\ Months \subseteq Nat
    /\ 0 \in Months
    /\ \A m \in Months : m % DayLength = 0

Windows == {"1hour", "1day", "1month", "all_time"}

(* The month of t begins no later than t, and no other begins in between. *)
IsMonthOf(m, t) == m \in Months /\ m <= t /\ ~\E n \in Months : m < n /\ n <= t

BucketStart(w, t) ==
    CASE w = "1hour" -> t - (t % HourLength)
      [] w = "1day" -> t - (t % DayLength)
      [] w = "1month" -> CHOOSE m \in Months : IsMonthOf(m, t)
      [] w = "all_time" -> 0

(* start <= t < bucket_end(w, start); all time has no end. *)
(* Mutant: the first hour after the bucket is in it. *)
BeforeEndInclusive(w, start, t) ==
    CASE w = "1hour" -> t <= start + HourLength
      [] w = "1day" -> t <= start + DayLength
      [] w = "1month" -> ~\E n \in Months : start < n /\ n < t
      [] w = "all_time" -> TRUE

BeforeEnd(w, start, t) ==
    CASE w = "1hour" -> t < start + HourLength
      [] w = "1day" -> t < start + DayLength
      [] w = "1month" -> ~\E n \in Months : start < n /\ n <= t
      [] w = "all_time" -> TRUE
=============================================================================
