------------------------------ MODULE Calendar ------------------------------
(***************************************************************************)
(* The trading sessions of an exchange                                     *)
(* (src/server/src/calendar/sessionCalendar.ts, sessions/*.ts): whether    *)
(* the market is open at an instant, in which kind of hours, to which      *)
(* day's session the instant belongs, and when that session began.         *)
(*                                                                         *)
(* An instant is a weekday and a minute of the local clock of the          *)
(* exchange; the days of daylight saving, on which the code's "approximate"*)
(* start of a session is an hour off, are left out.                        *)
(***************************************************************************)
EXTENDS Integers, Sequences

CONSTANTS Step            \* minutes the clock moves at a time

VARIABLES zone,           \* "central" (CME, CBOT) or "eastern" (NYMEX, COMEX, anything else)
          day,            \* days since a Sunday
          minute          \* minute of the local day

calendarVars == <<zone, day, minute>>

Days == <<"Sun", "Mon", "Tue", "Wed", "Thu", "Fri", "Sat">>
Weekday(d) == Days[(d % 7) + 1]
At(hhmm) == (hhmm \div 100) * 60 + (hhmm % 100)

Hours == [central |-> [halt |-> At(1600), open |-> At(1700), rth |-> At(830), end |-> At(1515)],
          eastern |-> [halt |-> At(1700), open |-> At(1800), rth |-> At(900), end |-> At(1430)]]

\* Sunday from the open on, Friday until the halt, Monday to Thursday all but the hour of the halt.
isOpen(z, d, m) ==
    \/ Weekday(d) = "Sun" /\ m >= Hours[z].open
    \/ Weekday(d) = "Fri" /\ m < Hours[z].halt
    \/ Weekday(d) \notin {"Sun", "Fri", "Sat"} /\ (m < Hours[z].halt \/ m >= Hours[z].open)

isRth(z, d, m) == isOpen(z, d, m) /\ Weekday(d) # "Sun" /\ m >= Hours[z].rth /\ m < Hours[z].end
isEth(z, d, m) == isOpen(z, d, m) /\ ~isRth(z, d, m)

rolloverHour(z) == Hours[z].open

\* From the roll on an instant belongs to the next day's session, whatever that day is.
sessionDate(z, d, m) == IF m >= rolloverHour(z) THEN d + 1 ELSE d

\* The start of the session, as an absolute minute.
sessionStart(z, d, m) ==
    IF m >= rolloverHour(z) THEN d * 1440 + rolloverHour(z) ELSE (d - 1) * 1440 + rolloverHour(z)
sessionEnd(z, d, m) == sessionStart(z, d, m) + 23 * 60

\* Two instants are of different sessions; a clock that went back never rolls.
isNewSession(z, d1, m1, d2, m2) ==
    d1 * 1440 + m1 < d2 * 1440 + m2 /\ sessionDate(z, d1, m1) # sessionDate(z, d2, m2)

\* The trading-hours route answers for a date's midnight in UTC, always with the same two hours.
getTradingHours(z, d) == [open |-> At(930), close |-> At(1600), isOpen |-> isOpen(z, d, 0)]

CalendarInit == zone \in {"central", "eastern"} /\ day = 7 /\ minute = 0

\* The clock moves through two weeks.
ClockMoves ==
    /\ day < 21
    /\ IF minute + Step < 1440 THEN minute' = minute + Step /\ day' = day
       ELSE minute' = 0 /\ day' = day + 1
    /\ UNCHANGED zone

CalendarSpec == CalendarInit /\ [][ClockMoves]_calendarVars

\* The clock does not jump over the hour of the halt.
CalendarAssumption == Step \in 1..60

\* A session is one stretch: while the market stays open the session neither rolls nor restarts, so no
\* profile, VWAP or footprint is cut in two; every open instant lies between its session's start and end
\* and belongs to a weekday's session; and an open market that was closed a moment ago is in a new one.
SessionIsOneStretch ==
    [][LET was == isOpen(zone, day, minute)
           is  == isOpen(zone, day', minute')
           new == isNewSession(zone, day, minute, day', minute')
       IN  /\ was /\ is => ~new /\ sessionStart(zone, day', minute') = sessionStart(zone, day, minute)
           /\ is => /\ sessionStart(zone, day', minute') <= day' * 1440 + minute'
                    /\ day' * 1440 + minute' < sessionEnd(zone, day', minute')
                    /\ Weekday(sessionDate(zone, day', minute')) \notin {"Sat", "Sun"}
           /\ ~was /\ is => new]_calendarVars
=============================================================================
