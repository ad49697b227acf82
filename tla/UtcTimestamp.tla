---------------------------- MODULE UtcTimestamp ----------------------------
(***************************************************************************)
(* The calendar in valid_utc_timestamp of policy/src/contract.rs, which    *)
(* decides whether a manifest's generated_at is an instant, against a      *)
(* calendar that counts days.  The layout of the text (where the digits    *)
(* and the separators are) is left out: a timestamp is its six numbers, as *)
(* decimal() has read them.                                                *)
(***************************************************************************)
EXTENDS Integers

CONSTANT Year           \* the years to be checked

ASSUME YearAssumption == Year \subseteq 0 .. 9999

-----------------------------------------------------------------------------

leap_year_Julian(year) == year % 4 = 0

leap_year(year) == year % 4 = 0 /\ (year % 100 # 0 \/ year % 400 = 0)

days_in_month(year, month) ==
    CASE month \in {1, 3, 5, 7, 8, 10, 12} -> 31
      [] month \in {4, 6, 9, 11} -> 30
      [] month = 2 -> IF leap_year(year) THEN 29 ELSE 28

valid_utc_timestamp(t) ==
    /\ t.month \in 1 .. 12
    /\ t.year > 0
    /\ t.day \in 1 .. days_in_month(t.year, t.month)
    /\ t.hour <= 23 /\ t.minute <= 59 /\ t.second <= 59

-----------------------------------------------------------------------------
(* The reference: days are counted from 1 March of year 0, in years that   *)
(* end with February, so that the leap day comes last.  A date exists if   *)
(* the day it counts to is that date's.                                    *)

(* The number of days before 1 March of the year y. *)
DaysBefore(y) == 365 * y + y \div 4 - y \div 100 + y \div 400

(* The number of days between 1 March and the first of the month m after it. *)
DaysToMonth(m) == (153 * m + 2) \div 5

DayNumber(year, month, day) ==
    LET y == IF month <= 2 THEN year - 1 ELSE year
        m == IF month <= 2 THEN month + 9 ELSE month - 3
    IN  DaysBefore(y) + DaysToMonth(m) + day - 1

IsDateOf(n, year, month, day) ==
    \E y \in {year - 1, year, year + 1} :
        /\ DaysBefore(y) <= n /\ n < DaysBefore(y + 1)
        /\ \E m \in 0 .. 11 :
              LET rest == n - DaysBefore(y) IN
              /\ DaysToMonth(m) <= rest
              /\ m < 11 => rest < DaysToMonth(m + 1)
              /\ day = rest - DaysToMonth(m) + 1
              /\ month = IF m < 10 THEN m + 3 ELSE m - 9
              /\ year = IF m < 10 THEN y ELSE y + 1

IsInstant(t) ==
    /\ t.year >= 1
    /\ IsDateOf(DayNumber(t.year, t.month, t.day), t.year, t.month, t.day)
    /\ 3600 * t.hour + 60 * t.minute + t.second < 86400
    /\ t.minute < 60 /\ t.second < 60

(* Months and days have two digits; the times are those next to the limits. *)
Timestamps ==
    [year : Year, month : 0 .. 13, day : 0 .. 32,
     hour : {23, 24}, minute : {59, 60}, second : {59, 60}]

=============================================================================
