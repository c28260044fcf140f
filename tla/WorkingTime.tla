------------------------------ MODULE WorkingTime ------------------------------
(***************************************************************************)
(* The due dates of the service level plans (sla.service.ts): from a start *)
(* and a target the day-by-day walk of addWorkingSeconds, slot by slot,    *)
(* over the working hours of a week and its holidays.                      *)
(*                                                                         *)
(* Time is a number of units since midnight of day 0, DayLength units a    *)
(* day and WeekLength days a week; all of it is UTC in the code, which has *)
(* no other zone.  Units stand for seconds, and for the minutes that slots *)
(* are given in.                                                           *)
(***************************************************************************)
EXTENDS Integers, Sequences, FiniteSets

CONSTANTS
    DayLength, WeekLength,
    DayCap,     \* the 60 days after which the walk gives up
    Hours,      \* the lists of slots that a weekday may have; nothing orders them
    MaxTarget,  \* bound on the target of a plan
    None

VARIABLES
    week,       \* SlaSchedule.workHours, or None for a plan without a schedule
    holidays,   \* days, one at most
    start, target,
    day, slot, left,    \* the loop: day walked, next slot of it, time to consume
    due

vars == <<week, holidays, start, target, day, slot, left, due>>

First == start \div DayLength

\* The slots of a day, none on a holiday.
SlotsOf(d) == IF d \in holidays THEN << >> ELSE week[d % WeekLength]

Init ==
    /\ week \in [0 .. WeekLength - 1 -> Hours] \cup {None}
    /\ holidays \in {{}} \cup {{d} : d \in 0 .. WeekLength}
    /\ start \in 0 .. DayLength * WeekLength - 1
    /\ target \in 1 .. MaxTarget
    /\ day = First /\ slot = 1 /\ left = target
    /\ due = None

\* computeDueDates without a schedule.
WallClock ==
    /\ due = None /\ week = None
    /\ due' = start + target
    /\ UNCHANGED <<week, holidays, start, target, day, slot, left>>

Midnight == day * DayLength

\* Mutant: the hours before the start count on the first day.
WindowOfDay(s) == [from |-> Midnight + s[1], to |-> Midnight + s[2]]

\* What a slot has to give: on the first day nothing before the start.
Window(s) ==
    LET opens == Midnight + s[1]
    IN [from |-> IF day = First /\ start > opens THEN start ELSE opens, to |-> Midnight + s[2]]

Walks == due = None /\ week # None /\ day - First < DayCap

UseSlot ==
    /\ Walks /\ slot <= Len(SlotsOf(day))
    /\ slot' = slot + 1
    /\ LET s == SlotsOf(day)[slot]
           w == Window(s)
       IN  IF s[2] <= s[1] \/ w.from >= w.to THEN UNCHANGED <<left, due>>
           ELSE IF left <= w.to - w.from THEN due' = w.from + left /\ UNCHANGED left
           ELSE left' = left - (w.to - w.from) /\ UNCHANGED due
    /\ UNCHANGED <<week, holidays, start, target, day>>

NextDay ==
    /\ Walks /\ slot > Len(SlotsOf(day))
    /\ day' = day + 1
    /\ slot' = 1
    /\ UNCHANGED <<week, holidays, start, target, left, due>>

\* The cap is returned for a due date.
GivesUp ==
    /\ due = None /\ week # None /\ day - First = DayCap
    /\ due' = Midnight
    /\ UNCHANGED <<week, holidays, start, target, day, slot, left>>

Next == WallClock \/ UseSlot \/ NextDay \/ GivesUp

Spec == Init /\ [][Next]_vars
--------------------------------------------------------------------------------
\* Slots in order that do not overlap, void ones left out.
Orderly(slots) == \A i, j \in 1 .. Len(slots) :
    i < j /\ slots[i][1] < slots[i][2] /\ slots[j][1] < slots[j][2] => slots[i][2] <= slots[j][1]

\* A unit of time is worked in, by the schedule alone.
Working(u) ==
    LET slots == SlotsOf(u \div DayLength)
    IN \E i \in 1 .. Len(slots) : u % DayLength \in slots[i][1] .. slots[i][2] - 1

Worked(a, b) == Cardinality({u \in a .. b - 1 : Working(u)})

LastDay == (First + DayCap) * DayLength

\* sla.service.ts:56-63, what addWorkingSeconds promises: for a week in order
\* the due date is the earliest instant at which exactly the target has been
\* worked since the start, or the cap when so much is not worked before it.
DueIsEarliest ==
    due # None /\ week # None /\ (\A d \in 0 .. WeekLength - 1 : Orderly(week[d])) =>
        IF Worked(start, LastDay) < target THEN due = LastDay
        ELSE Worked(start, due) = target /\ Working(due - 1)
================================================================================
