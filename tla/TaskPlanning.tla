------------------------------ MODULE TaskPlanning -----------------------------
(* Tasks in their planning stage: POST /tasks, PATCH /tasks/:id and          *)
(* PUT /tasks/:id/tags, while the state machine of TaskLifecycle may start   *)
(* the work at any moment.                                                   *)
(*                                                                           *)
(* PATCH and PUT read the row, decide that it may still be edited, and write *)
(* by id later in the same READ COMMITTED transaction.  Title, description,  *)
(* priority, department, team and branch are one value, the text; what is    *)
(* refused because of a department, a team or a permission is not a step.    *)
EXTENDS DueDates

CONSTANTS Tasks,       \* ids of tasks rows
          Tags,
          Category,    \* the category of each tag
          Mandatory,   \* categories every new task must have a tag of
          Calendars,   \* what a creation with assignees may find
          Days,        \* dates a request may name
          None,        \* SQL NULL
          Unset,       \* a field the request leaves out
          MaxOpen,     \* edits open at the same time, at most
          MaxEdits     \* bound: edits begun in a behaviour

ASSUME CategoryAssumption == IsFiniteSet(Tags) /\ Tags = DOMAIN Category
ASSUME TasksAssumption == IsFiniteSet(Tasks)
ASSUME DaysAssumption == Days \subseteq Nat /\ {None, Unset} \cap Nat = {}
ASSUME CalendarsAssumption == \A cal \in Calendars : IsCalendar(cal)
ASSUME MaxEditsAssumption == MaxEdits \in Nat

VARIABLES tasks,     \* tasks rows
          tagged,    \* task_tags rows: pairs of task and tag
          usage,     \* tags.usage_count, kept by a trigger on task_tags
          calls,     \* edits between their reads and their writes
          begun,     \* edits begun so far
          slots      \* how many edits may be open in this behaviour

vars == <<tasks, tagged, usage, calls, begun, slots>>

-----------------------------------------------------------------------------
Absent == [status |-> "absent"]
Row == [status : {"draft", "assigned", "started"}, text : {"original", "edited"},
        due : Nat \cup {None}]
Call == [op : {"patch"}, task : Tasks, due : Days \cup {None, Unset}]
        \cup [op : {"tags"}, task : Tasks, add : SUBSET Tags, remove : SUBSET Tags]

TypeOK ==
  /\ tasks \in [Tasks -> Row \cup {Absent}]
  /\ tagged \subseteq Tasks \X Tags
  /\ usage \in [Tags -> Nat]
  /\ calls \subseteq Call
  /\ begun \in Nat
  /\ slots \in 1..MaxOpen

Init ==
  /\ tasks = [k \in Tasks |-> Absent]
  /\ tagged = {}
  /\ usage = [t \in Tags |-> 0]
  /\ calls = {}
  /\ begun = 0
  /\ slots \in 1..MaxOpen

TagsOf(k) == {t \in Tags : <<k, t>> \in tagged}
Editable(k) == tasks[k].status \in {"draft", "assigned"}

(* trg_task_tags_usage_count, once per row really inserted or deleted.       *)
Counted(inserted, deleted) ==
  [t \in Tags |-> LET n == usage[t] - Cardinality({r \in deleted : r[2] = t}) IN
                  (IF n < 0 THEN 0 ELSE n) + Cardinality({r \in inserted : r[2] = t})]

-----------------------------------------------------------------------------
(* The due dates a task with assignees can get for a requested date.         *)
Plans == [requested \in Days |-> {Adjusted(cal, requested).due : cal \in Calendars}]

(* POST /tasks.  Nobody sees the row before the commit.  The date is kept as *)
(* typed where nobody is assigned.                                           *)
Create(k, status, requested, due, tags) ==
  LET rows == {<<k, t>> : t \in tags} IN
  /\ tasks[k] = Absent
  /\ IF status = "assigned" /\ requested # None THEN due \in Plans[requested]
                                                ELSE due = requested
  /\ Mandatory \subseteq {Category[t] : t \in tags}
  /\ tasks' = [tasks EXCEPT ![k] = [status |-> status, text |-> "original", due |-> due]]
  /\ tagged' = tagged \cup rows
  /\ usage' = Counted(rows, {})
  /\ UNCHANGED <<calls, begun, slots>>

Begin(call) ==
  /\ begun < MaxEdits
  /\ Cardinality(calls) < slots
  /\ call \notin calls
  /\ calls' = calls \cup {call}
  /\ begun' = begun + 1
  /\ UNCHANGED <<tasks, tagged, usage, slots>>

\* Mutant: PATCH refuses completed and cancelled tasks only.
PatchesStarted(k, due) ==
  /\ tasks[k] # Absent
  /\ Begin([op |-> "patch", task |-> k, due |-> due])

(* PATCH /tasks/:id.  A date that is given replaces the due date as it is.   *)
LoadPatch(k, due) ==
  /\ Editable(k)
  /\ Begin([op |-> "patch", task |-> k, due |-> due])

WritePatch(call) ==
  /\ call.op = "patch"
  /\ tasks' = [tasks EXCEPT ![call.task].text = "edited",
                            ![call.task].due = IF call.due = Unset THEN @ ELSE call.due]
  /\ calls' = calls \ {call}
  /\ UNCHANGED <<tagged, usage, begun, slots>>

(* PUT /tasks/:id/tags: the difference to the rows read at the start.        *)
LoadTags(k, tags) ==
  /\ Editable(k)
  /\ Begin([op |-> "tags", task |-> k, add |-> tags \ TagsOf(k),
            remove |-> TagsOf(k) \ tags])

\* Mutant: the rows the handler meant to delete are counted, not those deleted.
MeantToDelete(call) == {<<call.task, t>> : t \in call.remove}

(* deleteMany deletes, and counts, the rows that are still there.            *)
Deleted(call) == {<<call.task, t>> : t \in call.remove} \cap tagged

(* An insert of a row that is there by now fails the request.                *)
WriteTags(call) ==
  LET inserted == {<<call.task, t>> : t \in call.add} IN
  /\ call.op = "tags"
  /\ inserted \cap tagged = {}
  /\ tagged' = (tagged \ Deleted(call)) \cup inserted
  /\ usage' = Counted(inserted, Deleted(call))
  /\ calls' = calls \ {call}
  /\ UNCHANGED <<tasks, begun, slots>>

Rollback(call) ==
  /\ calls' = calls \ {call}
  /\ UNCHANGED <<tasks, tagged, usage, begun, slots>>

-----------------------------------------------------------------------------
(* What the other handlers do to the row: an assignee accepts the task, an   *)
(* approved reassignment reopens it.  They are requests of their own and     *)
(* take a slot.                                                              *)
Moves(k, from, to) ==
  /\ Cardinality(calls) < slots
  /\ tasks[k].status = from
  /\ tasks' = [tasks EXCEPT ![k].status = to]
  /\ UNCHANGED <<tagged, usage, calls, begun, slots>>

Accept(k) == Moves(k, "assigned", "started")
Reopen(k) == Moves(k, "started", "draft")

Next ==
  \/ \E k \in Tasks, status \in {"draft", "assigned"}, requested \in Days \cup {None},
        tags \in SUBSET Tags :
       \E due \in {requested} \cup UNION {Plans[d] : d \in Days} :
         Create(k, status, requested, due, tags)
  \/ \E k \in Tasks, due \in Days \cup {None, Unset} : LoadPatch(k, due)
  \/ \E k \in Tasks, tags \in SUBSET Tags : LoadTags(k, tags)
  \/ \E call \in calls : WritePatch(call) \/ WriteTags(call) \/ Rollback(call)
  \/ \E k \in Tasks : Accept(k) \/ Reopen(k)

Spec == Init /\ [][Next]_vars

-----------------------------------------------------------------------------
\* A new task is due on the first day from the requested one that everybody
\* assigned works, with a reason that names what was wrong with the requested
\* day; on the requested day itself where the cap leaves no such day.
DueDateIsFirstWorkingDay ==
  (\A k \in Tasks : tasks[k] = Absent) =>
    \A cal \in Calendars, requested \in Days :
      IsAdjustment(Adjusted(cal, requested), cal, requested)

\* tags.usage_count is the number of tasks with the tag, however replacements
\* of the same task's tags overlap.
UsageIsExact ==
  \A t \in Tags : usage[t] = Cardinality({k \in Tasks : <<k, t>> \in tagged})

\* As long as requests to a task do not overlap, neither its content nor its
\* tags change while work on it is under way.
FrozenOnceStarted ==
  [][slots = 1 =>
       \A k \in Tasks : tasks[k].status = "started" =>
         /\ TagsOf(k)' = TagsOf(k)
         /\ [tasks[k] EXCEPT !.status = "draft"]' = [tasks[k] EXCEPT !.status = "draft"]]_vars
=============================================================================
