--------------------------- MODULE TaskPlanningProofs ---------------------------
(* Proofs about DueDates and TaskPlanning, for any week, cap, calendars,     *)
(* tasks, tags and number of edits in flight: the due date of a new task is  *)
(* right, the usage counters of the tags are exact, and a started task is    *)
(* not edited by requests that do not overlap.                               *)
EXTENDS TaskPlanning, FiniteSetTheorems, WellFoundedInduction, TLAPS

-----------------------------------------------------------------------------
(* The loop of POST /tasks.  MovedDays is defined by recursion.  That a      *)
(* function satisfies the recursion is shown by naming one, which finds the  *)
(* first free day from any day of the window; that every such function finds *)
(* it, by looking at the last day where one would be wrong.  Both rest on    *)
(* the least element of a set of numbers.                                    *)
LEMMA LeastElement ==
  ASSUME NEW S \in SUBSET Nat, S # {}
  PROVE  \E x \in S : \A y \in S : x <= y
<1> DEFINE Less == {ss \in Nat \X Nat : ss[1] < ss[2]}
<1>1. IsWellFoundedOn(Less, Nat)
  BY NatLessThanWellFounded DEF OpToRel
<1>2. \A x, y \in Nat : <<y, x>> \in Less <=> y < x
  OBVIOUS
<1> HIDE DEF Less
<1>3. PICK x \in S : \A y \in S : ~(<<y, x>> \in Less)
  BY <1>1, WFMin
<1>4. \A y \in S : x \in Nat /\ y \in Nat /\ ~(<<y, x>> \in Less)
  BY <1>3
<1>5. \A y \in S : ~(y < x)
  BY <1>2, <1>4
<1>6. \A y \in S : x <= y
  BY <1>4, <1>5
<1> QED
  BY <1>6

(* A function that satisfies the recursion of MovedDays.                     *)
IsProbe(f, cal, requested) ==
  f = [n \in 0..Cap |-> IF AllCanWork(cal, requested, requested + n) THEN n
                        ELSE IF n + 1 > Cap THEN 0
                        ELSE f[n + 1]]

LEMMA MovedByProbe ==
  ASSUME NEW cal, NEW requested, \E f : IsProbe(f, cal, requested)
  PROVE  \E f : IsProbe(f, cal, requested) /\ MovedDays(cal, requested) = f[0]
BY Zenon DEF MovedDays, IsProbe

FreeFrom(n, cal, requested) == {m \in n..Cap : AllCanWork(cal, requested, requested + m)}

LEMMA ProbeExists ==
  ASSUME NEW cal, NEW requested
  PROVE  \E f : IsProbe(f, cal, requested)
<1> DEFINE Free(n) == FreeFrom(n, cal, requested)
           Least(n) == CHOOSE m \in Free(n) : \A k \in Free(n) : m <= k
           g == [n \in 0..Cap |-> IF Free(n) = {} THEN 0 ELSE Least(n)]
<1>1. ASSUME NEW n \in 0..Cap, Free(n) # {}
      PROVE  Least(n) \in Free(n) /\ \A k \in Free(n) : Least(n) <= k
  <2>1. Free(n) \in SUBSET Nat
    BY CapAssumption DEF FreeFrom
  <2>2. \E m \in Free(n) : \A k \in Free(n) : m <= k
    BY <1>1, <2>1, LeastElement
  <2> QED
    BY <2>2
<1> HIDE DEF Least
<1>2. ASSUME NEW n \in 0..Cap
      PROVE  g[n] = IF AllCanWork(cal, requested, requested + n) THEN n
                    ELSE IF n + 1 > Cap THEN 0
                    ELSE g[n + 1]
  <2>1. CASE AllCanWork(cal, requested, requested + n)
    <3>1. n \in Free(n) /\ \A k \in Free(n) : k \in Int /\ n <= k
      BY <2>1, CapAssumption DEF FreeFrom
    <3>2. Least(n) = n
      BY <1>1, <3>1
    <3> QED
      BY <2>1, <3>1, <3>2
  <2>2. CASE ~AllCanWork(cal, requested, requested + n) /\ n + 1 > Cap
    <3>1. Free(n) = {}
      BY <2>2, CapAssumption DEF FreeFrom
    <3> QED
      BY <2>2, <3>1
  <2>3. CASE ~AllCanWork(cal, requested, requested + n) /\ ~(n + 1 > Cap)
    <3>1. Free(n) = Free(n + 1) /\ n + 1 \in 0..Cap
      BY <2>3, CapAssumption DEF FreeFrom
    <3>2. Least(n) = Least(n + 1)
      BY <3>1 DEF Least
    <3> HIDE DEF Free
    <3> QED
      BY <2>3, <3>1, <3>2
  <2> QED
    BY <2>1, <2>2, <2>3
<1>3. IsProbe(g, cal, requested)
  BY <1>2 DEF IsProbe
<1> QED
  BY <1>3

(* Every such function finds, at every day, the first free day from there.   *)
LEMMA ProbeFindsFirst ==
  ASSUME NEW cal, NEW requested, NEW f, IsProbe(f, cal, requested)
  PROVE  \A n \in 0..Cap :
           /\ FreeFrom(n, cal, requested) = {} => f[n] = 0
           /\ FreeFrom(n, cal, requested) # {} =>
                /\ f[n] \in FreeFrom(n, cal, requested)
                /\ \A m \in FreeFrom(n, cal, requested) : f[n] <= m
<1> DEFINE Free(n) == FreeFrom(n, cal, requested)
           Right(n) == /\ Free(n) = {} => f[n] = 0
                       /\ Free(n) # {} => f[n] \in Free(n) /\ \A m \in Free(n) : f[n] <= m
           Wrong == {k \in 0..Cap : ~Right(Cap - k)}
<1>1. \A n \in 0..Cap : f[n] = IF AllCanWork(cal, requested, requested + n) THEN n
                               ELSE IF n + 1 > Cap THEN 0
                               ELSE f[n + 1]
  BY DEF IsProbe
<1>2. \A n \in 0..Cap : Free(n) \subseteq n..Cap
  BY DEF FreeFrom
<1>3. ASSUME NEW n \in 0..Cap, n = Cap \/ (n + 1 \in 0..Cap /\ Right(n + 1)) PROVE Right(n)
  <2>1. CASE AllCanWork(cal, requested, requested + n)
    <3>1. n \in Free(n) /\ \A m \in Free(n) : n <= m
      BY <2>1, CapAssumption DEF FreeFrom
    <3>2. f[n] = n
      BY <1>1, <2>1
    <3> QED
      BY <3>1, <3>2
  <2>2. CASE ~AllCanWork(cal, requested, requested + n) /\ n = Cap
    <3>1. Free(n) = {}
      BY <2>2, CapAssumption DEF FreeFrom
    <3>2. f[n] = 0
      BY <1>1, <2>2, CapAssumption
    <3> QED
      BY <3>1, <3>2
  <2>3. CASE ~AllCanWork(cal, requested, requested + n) /\ n # Cap
    <3>1. Free(n) = Free(n + 1)
      BY <2>3, CapAssumption DEF FreeFrom
    <3>2. f[n] = f[n + 1]
      BY <1>1, <1>3, <2>3, CapAssumption
    <3>3. Right(n + 1)
      BY <1>3, <2>3
    <3> HIDE DEF Free
    <3> QED
      BY <3>1, <3>2, <3>3
  <2> QED
    BY <2>1, <2>2, <2>3
<1> HIDE DEF Right
<1>4. Wrong = {}
  <2> SUFFICES ASSUME Wrong # {} PROVE FALSE
    OBVIOUS
  <2>1. Wrong \in SUBSET Nat
    BY CapAssumption
  <2>2. PICK k \in Wrong : \A j \in Wrong : k <= j
    BY <2>1, LeastElement
  <2>3. k \in 0..Cap /\ Cap - k \in 0..Cap /\ ~Right(Cap - k)
    BY CapAssumption
  <2>4. CASE k = 0
    BY <1>3, <2>3, <2>4, CapAssumption
  <2>5. CASE k # 0
    <3>1. k - 1 \in 0..Cap /\ k - 1 \notin Wrong
      BY <2>2, <2>3, <2>5, CapAssumption
    <3>2. Right(Cap - (k - 1))
      BY <3>1
    <3>3. Cap - (k - 1) = (Cap - k) + 1 /\ (Cap - k) + 1 \in 0..Cap
      BY <2>3, <2>5, <3>1, CapAssumption
    <3> QED
      BY <1>3, <2>3, <3>2, <3>3
  <2> QED
    BY <2>4, <2>5
<1>5. ASSUME NEW n \in 0..Cap PROVE Right(n)
  <2>1. Cap - n \in 0..Cap /\ Cap - (Cap - n) = n
    BY CapAssumption
  <2> QED
    BY <1>4, <2>1
<1> QED
  BY <1>5 DEF Right

LEMMA MovedIsFirst ==
  ASSUME NEW cal, NEW requested
  PROVE  LET moved == MovedDays(cal, requested)
             free == FreeFrom(0, cal, requested)
         IN  /\ free = {} => moved = 0
             /\ free # {} => moved \in free /\ \A m \in free : moved <= m
<1>1. PICK f : IsProbe(f, cal, requested) /\ MovedDays(cal, requested) = f[0]
  BY ProbeExists, MovedByProbe
<1>2. 0 \in 0..Cap
  BY CapAssumption
<1> QED
  BY <1>1, <1>2, ProbeFindsFirst

(* The checks of the loop, one by one, are those of the definition.          *)
LEMMA HolidayTests ==
  ASSUME NEW cal, IsCalendar(cal), NEW requested \in Nat, NEW n \in 0..Cap
  PROVE  LET day == requested + n IN
         IsHoliday(Window(cal, requested), day) <=>
           \/ [day |-> day, scope |-> "company"] \in cal.holidays
           \/ [day |-> day, scope |-> "branch"] \in cal.holidays
<1> DEFINE day == requested + n
<1>1. day \in Int /\ requested <= day /\ day <= requested + Cap
  BY CapAssumption
<1> HIDE DEF day
<1>2. \A h \in cal.holidays : h = [day |-> h.day, scope |-> h.scope]
                              /\ h.scope \in {"company", "branch", "elsewhere"}
  BY DEF IsCalendar
<1>3. IsHoliday(Window(cal, requested), day) <=>
        \E h \in cal.holidays : h.day = day /\ h.scope # "elsewhere"
  BY <1>1 DEF IsHoliday, Window
<1>4. ASSUME NEW h \in cal.holidays, h.day = day, h.scope # "elsewhere"
      PROVE  h = [day |-> day, scope |-> "company"] \/ h = [day |-> day, scope |-> "branch"]
  BY <1>2, <1>4
<1> QED
  BY <1>3, <1>4 DEF day

LEMMA DayTests ==
  ASSUME NEW cal, IsCalendar(cal), NEW requested \in Nat, NEW n \in 0..Cap,
         NEW u \in DOMAIN cal.leave
  PROVE  IsWorkingDay(cal, Window(cal, requested), u, requested + n)
           <=> Works(cal, u, requested + n)
<1> DEFINE day == requested + n
<1>1. day \in Int /\ cal.leave[u].from \in Int /\ cal.leave[u].to \in Int
  BY CapAssumption DEF IsCalendar
<1>2. IsHoliday(Window(cal, requested), day) <=>
           \/ [day |-> day, scope |-> "company"] \in cal.holidays
           \/ [day |-> day, scope |-> "branch"] \in cal.holidays
  BY HolidayTests
<1> HIDE DEF day
<1>3. OnLeave(cal, u, day) <=> day \in cal.leave[u].from..cal.leave[u].to
  BY <1>1 DEF OnLeave
<1>4. IsWorkingDay(cal, Window(cal, requested), u, day) <=> Works(cal, u, day)
  BY <1>2, <1>3 DEF IsWorkingDay, Works, IsWeekend, DayOfWeek
<1> QED
  BY <1>4 DEF day

LEMMA AdjustmentIsRight ==
  ASSUME NEW cal, IsCalendar(cal), NEW requested \in Nat
  PROVE  IsAdjustment(Adjusted(cal, requested), cal, requested)
<1> DEFINE moved == MovedDays(cal, requested)
           free == FreeFrom(0, cal, requested)
           days == CommonDays(cal, requested)
<1>1. free = {n \in 0..Cap : \A u \in DOMAIN cal.leave : Works(cal, u, requested + n)}
  BY DayTests DEF FreeFrom, AllCanWork
<1>2. /\ \A n \in free : n \in 0..Cap /\ requested + n \in days
      /\ \A d \in days : d - requested \in free /\ d \in Nat
  <2>1. ASSUME NEW n \in free PROVE n \in 0..Cap /\ requested + n \in days
    <3>1. n \in 0..Cap /\ \A u \in DOMAIN cal.leave : Works(cal, u, requested + n)
      BY <1>1
    <3>2. requested + n \in requested..(requested + Cap)
      BY <3>1, CapAssumption
    <3> QED
      BY <3>1, <3>2 DEF CommonDays
  <2>2. ASSUME NEW d \in days PROVE d - requested \in free /\ d \in Nat
    <3>1. d \in requested..(requested + Cap) /\ \A u \in DOMAIN cal.leave : Works(cal, u, d)
      BY DEF CommonDays
    <3>2. d \in Nat /\ d - requested \in 0..Cap /\ requested + (d - requested) = d
      BY <3>1, CapAssumption
    <3> QED
      BY <1>1, <3>1, <3>2
  <2> QED
    BY <2>1, <2>2
<1>3. /\ free = {} => moved = 0
      /\ free # {} => moved \in free /\ \A m \in free : moved <= m
  BY MovedIsFirst
<1> HIDE DEF moved, free, days
<1>4. Adjusted(cal, requested) =
        IF moved = 0
          THEN [due |-> requested, moved |-> FALSE, reason |-> {}]
          ELSE [due |-> requested + moved, moved |-> TRUE,
                reason |-> IF BlockedBy(cal, requested) = {} THEN {"non_working_day"}
                           ELSE BlockedBy(cal, requested)]
  BY DEF Adjusted, moved
<1>5. CASE days = {} \/ requested \in days
  <2>1. moved = 0
    <3>1. CASE days = {}
      BY <1>2, <1>3, <3>1
    <3>2. CASE requested \in days
      <4>1. 0 \in free
        BY <1>2, <3>2
      <4>2. moved \in 0..Cap /\ moved <= 0
        BY <1>2, <1>3, <4>1
      <4> QED
        BY <4>2, CapAssumption
    <3> QED
      BY <1>5, <3>1, <3>2
  <2> QED
    BY <1>4, <1>5, <2>1 DEF IsAdjustment, days
<1>6. CASE days # {} /\ requested \notin days
  <2>1. free # {} /\ 0 \notin free
    BY <1>2, <1>6
  <2>2. moved \in free /\ moved \in 0..Cap /\ moved # 0 /\ \A m \in free : moved <= m
    BY <1>2, <1>3, <2>1
  <2>3. requested + moved \in days
    BY <1>2, <2>2
  <2>4. \A d \in days : requested + moved <= d
    BY <1>2, <2>2, CapAssumption
  <2>5. BlockedBy(cal, requested) # {}
    <3>1. ~AllCanWork(cal, requested, requested)
      BY <2>1, CapAssumption, requested + 0 = requested DEF free, FreeFrom
    <3>2. PICK u \in DOMAIN cal.leave : ~IsWorkingDay(cal, Window(cal, requested), u, requested)
      BY <3>1 DEF AllCanWork
    <3> QED
      BY <3>2 DEF IsWorkingDay, BlockedBy
  <2>6. BlockedBy(cal, requested) \in (SUBSET {"weekend", "holiday", "assignee_on_leave"}) \ {{}}
    BY <2>5 DEF BlockedBy
  <2>7. Adjusted(cal, requested) = [due |-> requested + moved, moved |-> TRUE,
                                    reason |-> BlockedBy(cal, requested)]
    BY <1>4, <2>2, <2>5
  <2> QED
    BY <1>6, <2>3, <2>4, <2>6, <2>7 DEF IsAdjustment, days
<1> QED
  BY <1>5, <1>6

(* Every new task is due on the first day all its assignees work, for the    *)
(* week of seven days and the cap of sixty as for any other.                 *)
THEOREM DueDatesAreRight == Spec => []DueDateIsFirstWorkingDay
<1>1. DueDateIsFirstWorkingDay
  BY AdjustmentIsRight, CalendarsAssumption, DaysAssumption DEF DueDateIsFirstWorkingDay
<1> QED
  BY <1>1, PTL

-----------------------------------------------------------------------------
(* Type correctness, and the counters.                                       *)
Grounded ==
  /\ \A row \in tagged : tasks[row[1]] # Absent
  /\ \A call \in calls : tasks[call.task] # Absent

Typed == TypeOK /\ Grounded /\ UsageIsExact

Holders(t) == {k \in Tasks : <<k, t>> \in tagged}

\* A day a new task can be due on.
LEMMA PlansAreDays ==
  ASSUME NEW requested \in Days, NEW due \in Plans[requested]
  PROVE  due \in Nat
<1>1. PICK cal \in Calendars : due = Adjusted(cal, requested).due
  BY DEF Plans
<1>2. IsAdjustment(Adjusted(cal, requested), cal, requested)
  BY AdjustmentIsRight, CalendarsAssumption, DaysAssumption
<1>3. requested \in Nat /\ \A day \in CommonDays(cal, requested) : day \in Nat
  BY DaysAssumption, CapAssumption DEF CommonDays
<1> QED
  BY <1>1, <1>2, <1>3 DEF IsAdjustment

LEMMA HoldersFinite ==
  ASSUME NEW t
  PROVE  IsFiniteSet(Holders(t)) /\ Cardinality(Holders(t)) \in Nat
<1>1. Holders(t) \in SUBSET Tasks
  BY DEF Holders
<1>2. IsFiniteSet(Holders(t))
  BY <1>1, TasksAssumption, FS_Subset
<1> QED
  BY <1>2, FS_CardinalityType

(* Rows of one task are inserted that were not there, and rows deleted that  *)
(* were: the trigger counts exactly.                                         *)
LEMMA UsageStep ==
  ASSUME TypeOK, UsageIsExact, NEW k \in Tasks, NEW add \in SUBSET Tags, NEW remove \in SUBSET Tags,
         NEW inserted, inserted = {<<k, t>> : t \in add}, inserted \cap tagged = {},
         NEW deleted, deleted = {<<k, t>> : t \in remove} \cap tagged,
         tagged' = (tagged \ deleted) \cup inserted,
         usage' = Counted(inserted, deleted)
  PROVE  UsageIsExact' /\ usage' \in [Tags -> Nat]
<1> SUFFICES ASSUME NEW t \in Tags
             PROVE  usage'[t] = Cardinality(Holders(t)') /\ usage'[t] \in Nat
  BY DEF UsageIsExact, Holders, Counted
<1> DEFINE D == {r \in deleted : r[2] = t}
           I == {r \in inserted : r[2] = t}
           n == usage[t] - Cardinality(D)
<1>1. usage'[t] = (IF n < 0 THEN 0 ELSE n) + Cardinality(I)
  BY DEF Counted
<1>2. usage[t] = Cardinality(Holders(t)) /\ usage[t] \in Nat
  BY HoldersFinite DEF UsageIsExact, Holders
<1>3. IsFiniteSet(Holders(t))
  BY HoldersFinite
<1>4. /\ <<k, t>> \in deleted => D = {<<k, t>>}
      /\ <<k, t>> \notin deleted => D = {}
      /\ <<k, t>> \in inserted => I = {<<k, t>>}
      /\ <<k, t>> \notin inserted => I = {}
  OBVIOUS
<1>5. /\ <<k, t>> \in deleted => Cardinality(D) = 1
      /\ <<k, t>> \notin deleted => Cardinality(D) = 0
      /\ <<k, t>> \in inserted => Cardinality(I) = 1
      /\ <<k, t>> \notin inserted => Cardinality(I) = 0
  BY <1>4, FS_Singleton, FS_EmptySet
<1>6. \A j \in Tasks : j # k => (<<j, t>> \in tagged' <=> <<j, t>> \in tagged)
  OBVIOUS
<1>7. <<k, t>> \in tagged' <=> \/ <<k, t>> \in inserted
                               \/ <<k, t>> \in tagged /\ <<k, t>> \notin deleted
  OBVIOUS
<1> HIDE DEF D, I
<1>8. CASE <<k, t>> \in deleted
  <2>1. k \in Holders(t) /\ <<k, t>> \notin inserted
    BY <1>8 DEF Holders
  <2>2. Holders(t)' = Holders(t) \ {k}
    BY <1>6, <1>7, <1>8, <2>1 DEF Holders
  <2>3. Cardinality(Holders(t)') = Cardinality(Holders(t)) - 1
    BY <1>3, <2>1, <2>2, FS_RemoveElement
  <2>4. Cardinality(Holders(t)) # 0
    BY <1>3, <2>1, FS_EmptySet
  <2> QED
    BY <1>1, <1>2, <1>5, <1>8, <2>1, <2>3, <2>4
<1>9. CASE <<k, t>> \in inserted
  <2>1. k \notin Holders(t) /\ <<k, t>> \notin deleted
    BY <1>9 DEF Holders
  <2>2. Holders(t)' = Holders(t) \cup {k}
    BY <1>6, <1>7, <1>9, <2>1 DEF Holders
  <2>3. Cardinality(Holders(t)') = Cardinality(Holders(t)) + 1
    BY <1>3, <2>1, <2>2, FS_AddElement
  <2> QED
    BY <1>1, <1>2, <1>5, <1>9, <2>1, <2>3
<1>10. CASE <<k, t>> \notin deleted /\ <<k, t>> \notin inserted
  <2>1. Holders(t)' = Holders(t)
    BY <1>6, <1>7, <1>10 DEF Holders
  <2> QED
    BY <1>1, <1>2, <1>5, <1>10, <2>1
<1> QED
  BY <1>8, <1>9, <1>10

LEMMA TypedInit == Init => Typed
<1> SUFFICES ASSUME Init PROVE Typed
  OBVIOUS
<1>1. \A t \in Tags : {k \in Tasks : <<k, t>> \in tagged} = {}
  BY DEF Init
<1>2. UsageIsExact
  BY <1>1, FS_EmptySet DEF Init, UsageIsExact
<1> QED
  BY <1>2 DEF Init, Typed, TypeOK, Grounded, Row

LEMMA BeginStep ==
  ASSUME Typed, NEW call \in Call, tasks[call.task] # Absent, Begin(call)
  PROVE  Typed'
BY DEF Begin, Typed, TypeOK, Grounded, UsageIsExact

LEMMA TypedStep == Typed /\ [Next]_vars => Typed'
<1> SUFFICES ASSUME Typed, [Next]_vars PROVE Typed'
  OBVIOUS
<1>0. TypeOK /\ UsageIsExact /\ Grounded
  BY DEF Typed
<1>1. ASSUME NEW k \in Tasks, NEW status \in {"draft", "assigned"},
             NEW requested \in Days \cup {None}, NEW tags \in SUBSET Tags, NEW due,
             Create(k, status, requested, due, tags)
      PROVE  Typed'
  <2> DEFINE rows == {<<k, t>> : t \in tags}
             row == [status |-> status, text |-> "original", due |-> due]
  <2>1. /\ tasks[k] = Absent /\ tasks' = [tasks EXCEPT ![k] = row]
        /\ tagged' = tagged \cup rows /\ usage' = Counted(rows, {})
        /\ UNCHANGED <<calls, begun, slots>>
    BY <1>1 DEF Create
  <2>2. due \in Nat \cup {None}
    <3>1. CASE status = "assigned" /\ requested # None
      <4>1. requested \in Days /\ due \in Plans[requested]
        BY <1>1, <3>1 DEF Create
      <4> QED
        BY <4>1, PlansAreDays
    <3>2. CASE ~(status = "assigned" /\ requested # None)
      BY <1>1, <3>2, DaysAssumption DEF Create
    <3> QED
      BY <3>1, <3>2
  <2>3. row \in Row /\ row # Absent
    BY <2>2 DEF Row, Absent
  <2> HIDE DEF row
  <2>4. rows \cap tagged = {}
    BY <1>0, <2>1 DEF Grounded
  <2>5. {} = {<<k, t>> : t \in {}} \cap tagged /\ tagged' = (tagged \ {}) \cup rows
    BY <2>1
  <2>6. UsageIsExact' /\ usage' \in [Tags -> Nat]
    <3> HIDE DEF rows
    <3>1. PICK none \in SUBSET Tags, deleted \in SUBSET (Tasks \X Tags) : none = {} /\ deleted = {}
      OBVIOUS
    <3>2. deleted = {<<k, t>> : t \in none} \cap tagged /\ tagged' = (tagged \ deleted) \cup rows
          /\ usage' = Counted(rows, deleted)
      BY <2>1, <2>5, <3>1
    <3>3. rows = {<<k, t>> : t \in tags}
      BY DEF rows
    <3> QED
      BY <1>0, <2>4, <3>2, <3>3, UsageStep
  <2>7. tasks' \in [Tasks -> Row \cup {Absent}] /\ tagged' \subseteq Tasks \X Tags
    BY <1>0, <2>1, <2>3 DEF TypeOK
  <2>8. Grounded'
    <3>1. tasks'[k] # Absent /\ \A j \in Tasks : j # k => tasks'[j] = tasks[j]
      BY <1>0, <2>1, <2>3 DEF TypeOK
    <3>2. \A r \in tagged' : r[1] \in Tasks /\ (r[1] = k \/ tasks[r[1]] # Absent)
      BY <1>0, <2>1 DEF TypeOK, Grounded
    <3>3. \A call \in calls : call.task \in Tasks
      BY <1>0 DEF TypeOK, Call
    <3> QED
      BY <1>0, <2>1, <3>1, <3>2, <3>3 DEF Grounded
  <2> QED
    BY <1>0, <2>1, <2>6, <2>7, <2>8 DEF Typed, TypeOK
<1>2. ASSUME NEW k \in Tasks, NEW due \in Days \cup {None, Unset}, LoadPatch(k, due) PROVE Typed'
  <2>1. [op |-> "patch", task |-> k, due |-> due] \in Call
    BY DEF Call
  <2>2. tasks[k] # Absent
    BY <1>2 DEF LoadPatch, Editable, Absent
  <2> QED
    BY <1>2, <2>1, <2>2, BeginStep DEF LoadPatch
<1>3. ASSUME NEW k \in Tasks, NEW tags \in SUBSET Tags, LoadTags(k, tags) PROVE Typed'
  <2>1. [op |-> "tags", task |-> k, add |-> tags \ TagsOf(k), remove |-> TagsOf(k) \ tags] \in Call
    BY DEF Call, TagsOf
  <2>2. tasks[k] # Absent
    BY <1>3 DEF LoadTags, Editable, Absent
  <2> QED
    BY <1>3, <2>1, <2>2, BeginStep DEF LoadTags
(* A row keeps being one where only its fields change.                       *)
<1>4. ASSUME NEW k \in Tasks, tasks[k] # Absent, NEW row \in Row,
             tasks' = [tasks EXCEPT ![k] = row], calls' \subseteq calls,
             UNCHANGED <<tagged, usage, begun, slots>>
      PROVE  Typed'
  <2>1. row # Absent
    BY DEF Row, Absent
  <2>2. \A j \in Tasks : tasks[j] # Absent => tasks'[j] # Absent
    BY <1>0, <1>4, <2>1 DEF TypeOK
  <2>3. Grounded'
    BY <1>0, <1>4, <2>2 DEF Grounded, TypeOK, Call
  <2> QED
    BY <1>0, <1>4, <2>3 DEF Typed, TypeOK, UsageIsExact
<1>5. ASSUME NEW call \in calls, WritePatch(call) PROVE Typed'
  <2> DEFINE k == call.task
             row == [tasks[k] EXCEPT !.text = "edited",
                                     !.due = IF call.due = Unset THEN @ ELSE call.due]
  <2>1. k \in Tasks /\ call.due \in Days \cup {None, Unset} /\ tasks[k] \in Row
        /\ tasks[k] # Absent
    BY <1>0, <1>5 DEF WritePatch, TypeOK, Call, Grounded
  <2>2. row \in Row
    BY <2>1, DaysAssumption DEF Row
  <2>3. tasks' = [tasks EXCEPT ![k] = row] /\ calls' = calls \ {call}
        /\ UNCHANGED <<tagged, usage, begun, slots>>
    BY <1>0, <1>5, <2>1 DEF WritePatch, TypeOK
  <2> HIDE DEF row, k
  <2> QED
    BY <1>4, <2>1, <2>2, <2>3
<1>6. ASSUME NEW call \in calls, WriteTags(call) PROVE Typed'
  <2>1. call.task \in Tasks /\ call.add \in SUBSET Tags /\ call.remove \in SUBSET Tags
        /\ tasks[call.task] # Absent
    BY <1>0, <1>6 DEF WriteTags, TypeOK, Call, Grounded
  <2> DEFINE inserted == {<<call.task, t>> : t \in call.add}
  <2>2. /\ inserted \cap tagged = {} /\ Deleted(call) = {<<call.task, t>> : t \in call.remove} \cap tagged
        /\ tagged' = (tagged \ Deleted(call)) \cup inserted
        /\ usage' = Counted(inserted, Deleted(call)) /\ calls' = calls \ {call}
        /\ UNCHANGED <<tasks, begun, slots>>
    BY <1>6 DEF WriteTags, Deleted
  <2>3. UsageIsExact' /\ usage' \in [Tags -> Nat]
    BY <1>0, <2>1, <2>2, UsageStep
  <2>4. tagged' \subseteq Tasks \X Tags
    BY <1>0, <2>1, <2>2 DEF TypeOK
  <2>5. Grounded'
    BY <1>0, <2>1, <2>2 DEF Grounded
  <2> QED
    BY <1>0, <2>2, <2>3, <2>4, <2>5 DEF Typed, TypeOK
<1>7. ASSUME NEW call \in calls, Rollback(call) PROVE Typed'
  BY <1>0, <1>7 DEF Rollback, Typed, TypeOK, Grounded, UsageIsExact
<1>8. ASSUME NEW k \in Tasks, Accept(k) \/ Reopen(k) PROVE Typed'
  <2>1. PICK to \in {"draft", "started"} : /\ tasks[k].status \in {"assigned", "started"}
                                           /\ tasks' = [tasks EXCEPT ![k].status = to]
                                           /\ UNCHANGED <<tagged, usage, calls, begun, slots>>
    BY <1>8 DEF Accept, Reopen, Moves
  <2>2. tasks[k] # Absent /\ tasks[k] \in Row
    BY <1>0, <2>1 DEF TypeOK, Absent
  <2>3. [tasks[k] EXCEPT !.status = to] \in Row
    BY <2>2 DEF Row
  <2>4. tasks' = [tasks EXCEPT ![k] = [tasks[k] EXCEPT !.status = to]]
    BY <1>0, <2>1 DEF TypeOK
  <2> QED
    BY <1>4, <2>1, <2>2, <2>3, <2>4
<1>9. CASE UNCHANGED vars
  BY <1>0, <1>9 DEF vars, Typed, TypeOK, Grounded, UsageIsExact
<1> QED
  BY <1>1, <1>2, <1>3, <1>5, <1>6, <1>7, <1>8, <1>9 DEF Next

LEMMA TypedAlways == Spec => []Typed
<1> QED
  BY TypedInit, TypedStep, PTL DEF Spec

\* Rows, counters and edits keep their shape; no counter is negative.
THEOREM TypeCorrect == Spec => []TypeOK
<1>1. Typed => TypeOK
  BY DEF Typed
<1> QED
  BY <1>1, TypedAlways, PTL

(* tags.usage_count is exact, however many replacements of the tags of one   *)
(* task overlap.                                                             *)
THEOREM UsageStaysExact == Spec => []UsageIsExact
<1>1. Typed => UsageIsExact
  BY DEF Typed
<1> QED
  BY <1>1, TypedAlways, PTL

-----------------------------------------------------------------------------
(* Requests that do not overlap: what the open edit has read still holds.    *)
Serial ==
  slots = 1 => /\ \A c1, c2 \in calls : c1 = c2
               /\ \A call \in calls : Editable(call.task)

LEMMA NothingOpen ==
  ASSUME Serial, slots = 1, Cardinality(calls) < slots
  PROVE  calls = {}
<1>1. ASSUME NEW call \in calls PROVE FALSE
  <2>1. calls = {call}
    BY <1>1 DEF Serial
  <2>2. Cardinality(calls) = 1
    BY <2>1, FS_Singleton
  <2> QED
    BY <2>2
<1> QED
  BY <1>1

LEMMA SerialStep == Typed /\ Serial /\ [Next]_vars => Serial'
<1> SUFFICES ASSUME Typed, Serial, [Next]_vars, slots' = 1
             PROVE  /\ \A c1, c2 \in calls' : c1 = c2
                    /\ \A call \in calls' : tasks'[call.task].status \in {"draft", "assigned"}
  BY DEF Serial, Editable
<1>0. TypeOK /\ slots = 1
  BY DEF Typed, Next, Create, LoadPatch, LoadTags, Begin, WritePatch, WriteTags, Rollback, Accept,
         Reopen, Moves, vars
<1>1. \A c1, c2 \in calls : c1 = c2
  BY <1>0 DEF Serial
<1>2. \A call \in calls : call.task \in Tasks /\ Editable(call.task)
  BY <1>0 DEF Serial, TypeOK, Call
<1>3. ASSUME NEW k \in Tasks, NEW status \in {"draft", "assigned"}, NEW requested, NEW due,
             NEW tags, Create(k, status, requested, due, tags)
      PROVE  calls' = calls /\ \A j \in Tasks : Editable(j) => tasks'[j] = tasks[j]
  BY <1>0, <1>3 DEF Create, TypeOK, Editable, Absent
<1>4. ASSUME NEW call, Editable(call.task), Begin(call)
      PROVE  tasks' = tasks /\ calls' = {call}
  BY <1>0, <1>4, NothingOpen DEF Begin
<1>5. ASSUME NEW call \in calls, WritePatch(call)
      PROVE  /\ calls' \subseteq calls
             /\ \A j \in Tasks : Editable(j) => tasks'[j].status = tasks[j].status
  <2>1. call.task \in Tasks /\ tasks[call.task] \in Row
    BY <1>0, <1>2, <1>5 DEF TypeOK, Editable, Absent
  <2> QED
    BY <1>0, <1>5, <2>1 DEF WritePatch, TypeOK, Row
<1>6. ASSUME NEW k \in Tasks, Accept(k) \/ Reopen(k) PROVE calls' = {}
  BY <1>0, <1>6, NothingOpen DEF Accept, Reopen, Moves
<1>7. CASE calls' \subseteq calls /\ \A j \in Tasks : Editable(j) => tasks'[j].status = tasks[j].status
  BY <1>1, <1>2, <1>7 DEF Editable
<1>8. CASE \E call : tasks' = tasks /\ calls' = {call} /\ Editable(call.task)
  BY <1>8 DEF Editable
<1>9. ASSUME NEW k \in Tasks, NEW due \in Days \cup {None, Unset}, LoadPatch(k, due)
      PROVE  \E call : tasks' = tasks /\ calls' = {call} /\ Editable(call.task)
  <2> DEFINE call == [op |-> "patch", task |-> k, due |-> due]
  <2>1. Editable(call.task) /\ Begin(call)
    BY <1>9 DEF LoadPatch
  <2> QED
    BY <1>4, <2>1
<1>10. ASSUME NEW k \in Tasks, NEW tags \in SUBSET Tags, LoadTags(k, tags)
       PROVE  \E call : tasks' = tasks /\ calls' = {call} /\ Editable(call.task)
  <2> DEFINE call == [op |-> "tags", task |-> k, add |-> tags \ TagsOf(k),
                      remove |-> TagsOf(k) \ tags]
  <2>1. Editable(call.task) /\ Begin(call)
    BY <1>10 DEF LoadTags
  <2> QED
    BY <1>4, <2>1
<1>11. ASSUME NEW call \in calls, WriteTags(call) \/ Rollback(call)
       PROVE  calls' \subseteq calls /\ tasks' = tasks
  BY <1>11 DEF WriteTags, Rollback
<1> QED
  BY <1>3, <1>5, <1>6, <1>7, <1>8, <1>9, <1>10, <1>11 DEF Next, vars

LEMMA FrozenStep ==
  ASSUME Typed, Serial, [Next]_vars, slots = 1, NEW k \in Tasks, tasks[k].status = "started"
  PROVE  /\ TagsOf(k)' = TagsOf(k)
         /\ [tasks[k] EXCEPT !.status = "draft"]' = [tasks[k] EXCEPT !.status = "draft"]
<1>0. TypeOK /\ tasks[k] # Absent /\ tasks[k] \in Row
  BY DEF Typed, TypeOK, Absent
<1>1. \A call \in calls : call.task \in Tasks /\ call.task # k
  BY <1>0 DEF Serial, Editable, TypeOK, Call
<1>2. ASSUME NEW j \in Tasks, NEW status, NEW requested, NEW due, NEW tags,
             Create(j, status, requested, due, tags)
      PROVE  tasks'[k] = tasks[k] /\ TagsOf(k)' = TagsOf(k)
  <2>1. j # k /\ tagged' = tagged \cup {<<j, t>> : t \in tags}
    BY <1>0, <1>2 DEF Create
  <2>2. TagsOf(k)' = TagsOf(k)
    BY <2>1 DEF TagsOf
  <2> QED
    BY <1>0, <1>2, <2>1, <2>2 DEF Create, TypeOK
<1>3. ASSUME NEW call \in calls, WritePatch(call)
      PROVE  tasks'[k] = tasks[k] /\ TagsOf(k)' = TagsOf(k)
  BY <1>0, <1>1, <1>3 DEF WritePatch, TypeOK, TagsOf
<1>4. ASSUME NEW call \in calls, WriteTags(call)
      PROVE  tasks'[k] = tasks[k] /\ TagsOf(k)' = TagsOf(k)
  <2>1. \A t \in Tags : <<k, t>> \in tagged' <=> <<k, t>> \in tagged
    BY <1>1, <1>4 DEF WriteTags, Deleted
  <2> QED
    BY <1>4, <2>1 DEF WriteTags, TagsOf
<1>5. ASSUME NEW j \in Tasks, Accept(j) \/ Reopen(j)
      PROVE  /\ TagsOf(k)' = TagsOf(k)
             /\ [tasks[k] EXCEPT !.status = "draft"]' = [tasks[k] EXCEPT !.status = "draft"]
  <2>1. PICK to \in {"draft", "started"} : /\ tasks' = [tasks EXCEPT ![j].status = to]
                                           /\ UNCHANGED tagged
    BY <1>5 DEF Accept, Reopen, Moves
  <2>2. tasks'[k] = tasks[k] \/ tasks'[k] = [tasks[k] EXCEPT !.status = to]
    BY <1>0, <2>1 DEF TypeOK
  <2>3. [[tasks[k] EXCEPT !.status = to] EXCEPT !.status = "draft"]
          = [tasks[k] EXCEPT !.status = "draft"]
    BY <1>0 DEF Row
  <2> QED
    BY <2>1, <2>2, <2>3 DEF TagsOf
<1>6. CASE tasks'[k] = tasks[k] /\ TagsOf(k)' = TagsOf(k)
  BY <1>6
<1>7. CASE UNCHANGED <<tasks, tagged>>
  BY <1>7 DEF TagsOf
<1> QED
  BY <1>2, <1>3, <1>4, <1>5, <1>6, <1>7
     DEF Next, LoadPatch, LoadTags, Begin, Rollback, vars

(* Requests that do not overlap change neither the content nor the tags of a *)
(* task while work on it is under way.                                       *)
THEOREM StartedIsFrozen == Spec => FrozenOnceStarted
<1>1. Init => Serial
  BY DEF Init, Serial
<1>2. Typed /\ Serial /\ [Next]_vars =>
        [slots = 1 =>
           \A k \in Tasks : tasks[k].status = "started" =>
             /\ TagsOf(k)' = TagsOf(k)
             /\ [tasks[k] EXCEPT !.status = "draft"]' = [tasks[k] EXCEPT !.status = "draft"]]_vars
  BY FrozenStep
<1> QED
  BY <1>1, <1>2, SerialStep, TypedAlways, PTL DEF Spec, FrozenOnceStarted
=============================================================================
