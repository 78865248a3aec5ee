------------------------------ MODULE Calendar ------------------------------
(***************************************************************************)
(* The calendar of src/src/s3/mod.rs, with which `format_timestamp` dates  *)
(* the requests `s3_copy` signs by itself, and an independent reference:   *)
(* the day of the epoch on which a month begins, by counting leap days.    *)
(***************************************************************************)
EXTENDS Integers

(* Slip: every century would be a leap year.                               *)
is_leap_year_julian(year) == year % 4 = 0

is_leap_year(year) == year % 4 = 0 /\ (year % 100 # 0 \/ year % 400 = 0)

days_in_year(year) == IF is_leap_year(year) THEN 366 ELSE 365

month_lengths(year) ==
  <<31, IF is_leap_year(year) THEN 29 ELSE 28,
    31, 30, 31, 30, 31, 31, 30, 31, 30, 31>>

----------------------------------------------------------------------------
(* The reference.                                                          *)

(* The leap days of the years before this one, in the Gregorian calendar.  *)
LeapDaysBefore(year) ==
  (year - 1) \div 4 - (year - 1) \div 100 + (year - 1) \div 400

(* New Year's Day, in days since 1970-01-01.                               *)
NewYear(year) ==
  365 * (year - 1970) + LeapDaysBefore(year) - LeapDaysBefore(1970)

(* The days of a common year before each month, and before the next year.  *)
CommonDays == <<0, 31, 59, 90, 120, 151, 181, 212, 243, 273, 304, 334, 365>>

FirstDay(year, month) ==
  NewYear(year) + CommonDays[month] +
    (IF month > 2 THEN LeapDaysBefore(year + 1) - LeapDaysBefore(year) ELSE 0)

(* Day n of the epoch has that date.                                       *)
DateOf(n, year, month, day) ==
  /\ month \in 1 .. 12
  /\ FirstDay(year, month) <= n /\ n < FirstDay(year, month + 1)
  /\ day = n - FirstDay(year, month) + 1
============================================================================
