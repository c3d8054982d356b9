-------------------------------- MODULE DueDates -------------------------------
(* The business-day adjustment of a due date: CalendarService.isWorkingDay   *)
(* and the loop of POST /tasks that moves the requested date forward until   *)
(* every assignee works, or gives up after Cap days.                         *)
(*                                                                           *)
(* Days are numbered from a Sunday; the code's week of 7 and cap of 60 are   *)
(* constants.  All dates are dates without a time (@db.Date).                *)
EXTENDS Integers, FiniteSets

CONSTANTS WeekLength, Cap

ASSUME WeekAssumption == WeekLength \in Nat \ {0}
ASSUME CapAssumption == Cap \in Nat

Weekdays == 0..(WeekLength - 1)
DayOfWeek(day) == day % WeekLength

(* What the handler loads: the working days of the company and those of the  *)
(* branch where it overrides them (a sequence of one set, else empty), the   *)
(* holidays, and the leave windows of the assignees, as a function of them.  *)
NoLeave == [from |-> 1, to |-> 0]
IsCalendar(cal) ==
  /\ cal.holidays \in SUBSET [day : Int, scope : {"company", "branch", "elsewhere"}]
  /\ \A u \in DOMAIN cal.leave : cal.leave[u] \in [from : Int, to : Int]

WorkingWeek(cal) == IF cal.branch = <<>> THEN cal.company ELSE cal.branch[1]

IsWeekend(cal, day) == DayOfWeek(day) \notin WorkingWeek(cal)
IsHoliday(holidays, day) == \E h \in holidays : h.day = day /\ h.scope # "elsewhere"
OnLeave(cal, u, day) == cal.leave[u].from <= day /\ day <= cal.leave[u].to

IsWorkingDay(cal, holidays, u, day) ==
  /\ ~IsWeekend(cal, day)
  /\ ~IsHoliday(holidays, day)
  /\ ~OnLeave(cal, u, day)

\* Mutant: the window of holidays ends a day before the last day probed.
ShortWindow(cal, requested) ==
  {h \in cal.holidays : /\ requested <= h.day
                        /\ h.day < requested + Cap
                        /\ h.scope # "elsewhere"}

(* The one query for the holidays the loop may meet.                         *)
Window(cal, requested) ==
  {h \in cal.holidays : /\ requested <= h.day
                        /\ h.day <= requested + Cap
                        /\ h.scope # "elsewhere"}

AllCanWork(cal, requested, day) ==
  \A u \in DOMAIN cal.leave : IsWorkingDay(cal, Window(cal, requested), u, day)

(* The loop: by how many days the date is moved; 0 where it is not, and      *)
(* where there is no working day for everybody within the cap.               *)
MovedDays(cal, requested) ==
  LET probe[n \in 0..Cap] ==
        IF AllCanWork(cal, requested, requested + n) THEN n
        ELSE IF n + 1 > Cap THEN 0
        ELSE probe[n + 1]
  IN  probe[0]

(* Why, recorded for the requested day only.                                 *)
BlockedBy(cal, requested) ==
  (IF IsWeekend(cal, requested) THEN {"weekend"} ELSE {})
  \cup (IF IsHoliday(Window(cal, requested), requested) THEN {"holiday"} ELSE {})
  \cup (IF \E u \in DOMAIN cal.leave : OnLeave(cal, u, requested)
          THEN {"assignee_on_leave"} ELSE {})

(* The columns due_date, original_due_date and due_date_adjustment_reason.   *)
Adjusted(cal, requested) ==
  LET moved == MovedDays(cal, requested) IN
  IF moved = 0
    THEN [due |-> requested, moved |-> FALSE, reason |-> {}]
    ELSE [due |-> requested + moved, moved |-> TRUE,
          reason |-> IF BlockedBy(cal, requested) = {} THEN {"non_working_day"}
                     ELSE BlockedBy(cal, requested)]

-----------------------------------------------------------------------------
(* The same, said without the loop, the window and the order of the checks.  *)
Works(cal, u, day) ==
  /\ day % WeekLength \in WorkingWeek(cal)
  /\ [day |-> day, scope |-> "company"] \notin cal.holidays
  /\ [day |-> day, scope |-> "branch"] \notin cal.holidays
  /\ day \notin cal.leave[u].from..cal.leave[u].to

CommonDays(cal, requested) ==
  {day \in requested..(requested + Cap) : \A u \in DOMAIN cal.leave : Works(cal, u, day)}

IsAdjustment(result, cal, requested) ==
  LET days == CommonDays(cal, requested) IN
  IF days = {} \/ requested \in days
    THEN result = [due |-> requested, moved |-> FALSE, reason |-> {}]
    ELSE /\ result.moved
         /\ result.due \in days
         /\ \A day \in days : result.due <= day
         /\ result.reason \in (SUBSET {"weekend", "holiday", "assignee_on_leave"}) \ {{}}
=============================================================================
