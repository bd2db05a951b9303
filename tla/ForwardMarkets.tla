--------------------------- MODULE ForwardMarkets ---------------------------
(***************************************************************************)
(* The calendar of the five forward markets: which delivery slots are open *)
(* at a time, when a slot closes, when closed slots are removed and when a *)
(* market clears.  A time is a number of ticks since the midnight that     *)
(* starts a year, a month and a week at once; the lengths of the calendar  *)
(* units are constants, so that TLC can check a calendar with short ones.  *)
(***************************************************************************)
EXTENDS Integers, FiniteSetsExt, SequencesExt

CONSTANTS Quarter, Hour, Day, Week, Month, Year,   \* lengths, in ticks
          MaxYears,       \* constants.FORWARD_MARKET_MAX_DURATION_YEARS
          SimulationEnd   \* config.end_date

CalendarAssumption ==
  /\ {Quarter, Hour, Day, Week, Month, Year, MaxYears, SimulationEnd} \subseteq Nat \ {0}
  /\ Hour % Quarter = 0 /\ Day % Hour = 0 /\ Week % Day = 0 /\ Month % Day = 0
  /\ Year % (2 * Month) = 0

\* The order in which an area creates, rotates and hands out its markets.
MarketTypes == <<"day", "week", "month", "year", "intraday">>

\* The last multiple of unit that is not after t (DateTime.set, start_of).
StartOf(t, unit) == (t \div unit) * unit

\* The first and the last slot a market opens at time t.
StartTime(type, t) ==
  CASE type = "intraday" -> t + 2 * Quarter
    [] type = "day"      -> StartOf(t, Day) + Day
    [] type = "week"     -> StartOf(t, Week) + 2 * Week
    [] type = "month"    -> StartOf(t, Month) + 2 * Month
    [] type = "year"     -> StartOf(t, Year) + 2 * Year

EndTime(type, t) ==
  CASE type = "intraday" -> t + Day
    [] type = "day"      -> StartOf(t, Day) + Week + Day - Hour
    [] type = "week"     -> StartOf(t, Day) + Year
    [] type = "month"    -> StartOf(t, Month) + 2 * Year
    [] type = "year"     -> StartOf(t, Year) + MaxYears * Year

SlotDuration(type) ==
  CASE type = "intraday" -> Quarter
    [] type = "day"      -> Hour
    [] type = "week"     -> Week
    [] type = "month"    -> Month
    [] type = "year"     -> Year

\* When trading for the delivery slot stops.
ClosingTime(type, slot) ==
  CASE type = "intraday" -> slot - Quarter
    [] type = "day"      -> slot - Day
    [] type = "week"     -> StartOf(slot, Day) - Week
    [] type = "month"    -> StartOf(slot, Month) - Month
    [] type = "year"     -> StartOf(slot, Year) - Year

InSimulation(slot) == slot < SimulationEnd

\* The slots a market opens at time t, besides those that are open already.
NewSlots(type, t, open) ==
  {slot \in StartTime(type, t)..EndTime(type, t) :
     /\ (slot - StartTime(type, t)) % SlotDuration(type) = 0
     /\ slot \notin open
     /\ InSimulation(slot)
     /\ ClosingTime(type, slot) > t}

(***************************************************************************)
(* Closed slots are removed, and markets are cleared, at calendar times of *)
(* their own.                                                              *)
(***************************************************************************)
TimeToRotate(type, t) ==
  CASE type = "intraday" -> t % Quarter = 0
    [] type = "day"      -> t % Hour = 0
    [] type = "week"     -> t % Week = 0
    [] type = "month"    -> t % Month = 0
    [] type = "year"     -> t % Year = 0

\* The slots left by a rotation at time t: removing a closed slot removes
\* every slot that is delivered before it too.
SlotsKept(type, t, open) ==
  IF TimeToRotate(type, t)
    THEN {slot \in open : ~ \E closed \in open : slot <= closed /\ ClosingTime(type, closed) <= t}
    ELSE open

\* The week is cleared on its second day, the year in its first and seventh
\* month, the intraday market at every tick.
TimeToClear(type, t) ==
  CASE type = "intraday" -> TRUE
    [] type = "day"      -> t % Hour = 0
    [] type = "week"     -> t % Week = Day
    [] type = "month"    -> t % Month = 0
    [] type = "year"     -> t % (Year \div 2) = 0

InOrder(S) == SetToSortSeq(S, <)
=============================================================================
