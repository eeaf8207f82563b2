----------------------------- MODULE CivilDate ------------------------------
(***************************************************************************)
(* The date of a signature: run_git_shim in main.rs turns the timestamp's  *)
(* days since 1970-01-01 into a civil date with integer divisions.  A      *)
(* reference calendar walks from day to day beside it.                     *)
(***************************************************************************)
EXTENDS Integers

CONSTANT LAST_DAY        \* u32::MAX \div 86400 = 49710

VARIABLES days,          \* timestamp / 86400
          today          \* the same day on the calendar

-----------------------------------------------------------------------------
(* The code.                                                               *)

\* doy below zero: a release build wraps the u32 around and prints numbers that
\* are no date, a debug build panics.
NotADate == [y |-> 0, m |-> 0, d |-> 0]

YearOfEra(doe) == (doe - doe \div 1024 + doe \div 1461 - doe \div 142401) \div 365

civil_date(n) ==
    LET z == n + 719468
        era == z \div 146097
        doe == z - era * 146097
        yoe == YearOfEra(doe)
        doy == doe - (365 * yoe + yoe \div 4 - yoe \div 100)
        mp == (5 * doy + 2) \div 153
        m == IF mp < 10 THEN mp + 3 ELSE mp - 9
    IN  IF doy < 0 THEN NotADate
        ELSE [y |-> yoe + era * 400 + (IF m <= 2 THEN 1 ELSE 0),
              m |-> m,
              d |-> doy - (153 * mp + 2) \div 5 + 1]

-----------------------------------------------------------------------------
(* The calendar.                                                           *)

Leap(y) == y % 4 = 0 /\ (y % 100 # 0 \/ y % 400 = 0)

MonthDays(y, m) == IF m = 2 THEN (IF Leap(y) THEN 29 ELSE 28)
                   ELSE IF m \in {4, 6, 9, 11} THEN 30 ELSE 31

DateInit == days = 0 /\ today = [y |-> 1970, m |-> 1, d |-> 1]

NextDay ==
    /\ days < LAST_DAY
    /\ days' = days + 1
    /\ today' = IF today.d < MonthDays(today.y, today.m)
                THEN [today EXCEPT !.d = @ + 1]
                ELSE IF today.m < 12 THEN [today EXCEPT !.m = @ + 1, !.d = 1]
                ELSE [y |-> today.y + 1, m |-> 1, d |-> 1]

DateSpec == DateInit /\ [][NextDay]_<<days, today>>

-----------------------------------------------------------------------------

\* SPECIFICATION.md: the date string is the ISO date of the timestamp.
DateIsCivil == civil_date(days) = today
=============================================================================
