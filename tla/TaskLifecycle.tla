----------------------------- MODULE TaskLifecycle -----------------------------
(* One task and the HTTP requests that act on it.                            *)
(*                                                                           *)
(* TenantContextInterceptor runs every handler inside one interactive        *)
(* transaction at PostgreSQL's default isolation, READ COMMITTED.  A handler *)
(* first reads the task row and decides whether the call is legal, and later *)
(* updates the row by id only, without repeating the condition it checked.   *)
(* Two requests may therefore both pass their checks before either commits.  *)
(* Each request is modelled by a Load (its reads and its early returns) and  *)
(* a Write (its updates and the commit, one step because the row lock taken  *)
(* by the first update is held until the commit).                            *)
(*                                                                           *)
(* A handler reads the task row and then the assignee rows (or the pending   *)
(* request) in two statements.  One Load stands for both: assignees are      *)
(* never added and a pending request is committed together with the status   *)
(* it needs, so the two-statement read admits no write that a Load at the    *)
(* earlier, respectively the later, of the two instants does not.            *)
(*                                                                           *)
(* A call that is refused (403, 404, 409) changes nothing and is not a step. *)
EXTENDS Naturals, Sequences

CONSTANTS Users,     \* users of the tenant
          Nobody,    \* SQL NULL in tasks.assigned_to_user_id
          Holders,   \* which users hold each permission
          Workers,   \* transactions that may be open at the same time
          MaxCalls   \* bound: transition and reassignment calls in a behaviour

Permissions == {"task.create", "task.approve", "task.cancel", "task.assign"}

ASSUME NobodyAssumption == Nobody \notin Users
ASSUME HoldersAssumption == Holders \in [Permissions -> SUBSET Users]
ASSUME MaxCallsAssumption == MaxCalls \in Nat

VARIABLES task,      \* the tasks row and its task_assignees rows
          requests,  \* task_reassignment_requests rows in creation order
          activity,  \* activity_log entries of the task in commit order
          inbox,     \* notification rows: who was told of which entry
          calls,     \* per worker, the call in flight and what it has read
          started    \* calls begun so far

vars == <<task, requests, activity, inbox, calls, started>>

-----------------------------------------------------------------------------
Status == {"draft", "assigned", "in_progress", "submitted",
           "reassignment_requested", "completed", "cancelled"}
Terminal == {"completed", "cancelled"}

TransitionOps == {"start", "submit", "approve", "revise", "cancel"}
Decisions == {"approved", "rejected"}
Ops == TransitionOps \cup {"request"} \cup Decisions

Target == [start |-> "in_progress", submit |-> "submitted", approve |-> "completed",
           revise |-> "in_progress", cancel |-> "cancelled"]

TaskRow == [status : Status \cup {"absent"}, creator : Users \cup {Nobody},
            legacy : Users \cup {Nobody}, assignees : SUBSET Users,
            requestCount : Nat]

RequestRow == [by : Users, previous : Status, status : {"pending"} \cup Decisions]

Call == [op : Ops, user : Users, seen : Status, request : Nat]
NoCall == [op |-> "idle"]

\* Activity types: "created", the name of a transition, "requested" or "decided".
Entry == [type : {"created", "requested", "decided"} \cup TransitionOps,
          actor : Users, from : Status \cup {"absent"}, to : Status, request : Nat]

Pending == {i \in DOMAIN requests : requests[i].status = "pending"}

IsAssignee(u) == u \in task.assignees \/ u = task.legacy
CreatorOrHolder(u, permission) == u = task.creator \/ u \in Holders[permission]

TypeOK ==
  /\ task \in TaskRow
  /\ requests \in Seq(RequestRow)
  /\ activity \in Seq(Entry)
  /\ inbox \subseteq [to : Users, entry : Nat]
  /\ calls \in [Workers -> Call \cup {NoCall}]
  /\ started \in Nat

Init ==
  /\ task = [status |-> "absent", creator |-> Nobody, legacy |-> Nobody,
             assignees |-> {}, requestCount |-> 0]
  /\ requests = <<>>
  /\ activity = <<>>
  /\ inbox = {}
  /\ calls = [w \in Workers |-> NoCall]
  /\ started = 0

-----------------------------------------------------------------------------
(* An activity_log row and the notifications of a write.  The actor is never *)
(* notified of an own action.                                                *)
Record(type, actor, from, to, request, recipients) ==
  /\ activity' = Append(activity, [type |-> type, actor |-> actor, from |-> from,
                                   to |-> to, request |-> request])
  /\ inbox' = inbox \cup {[to |-> v, entry |-> Len(activity) + 1] :
                           v \in recipients \ {actor}}

(* POST /tasks.  The row is invisible to other requests until its commit, so *)
(* the whole handler is one step.  The first listed assignee also fills the  *)
(* legacy single-assignee column.                                            *)
Create(u, chosen, first) ==
  LET status == IF chosen = {} THEN "draft" ELSE "assigned" IN
  /\ task.status = "absent"
  /\ u \in Holders["task.create"]
  /\ first \in (IF chosen = {} THEN {Nobody} ELSE chosen)
  /\ task' = [status |-> status, creator |-> u, legacy |-> first,
              assignees |-> chosen, requestCount |-> 0]
  /\ Record("created", u, "absent", status, 0, chosen)
  /\ UNCHANGED <<requests, calls, started>>

-----------------------------------------------------------------------------
(* The reading half of each handler: its guards, in the order of the code.   *)
Begin(w, u, op, request) ==
  /\ started < MaxCalls
  /\ calls[w] = NoCall
  /\ task.status # "absent"
  /\ calls' = [calls EXCEPT ![w] = [op |-> op, user |-> u, seen |-> task.status,
                                    request |-> request]]
  /\ started' = started + 1
  /\ UNCHANGED <<task, requests, activity, inbox>>

LoadStart(w, u) == /\ IsAssignee(u)
                   /\ task.status = "assigned"
                   /\ Begin(w, u, "start", 0)

\* Mutant: submit does not check that the task was accepted.
SubmitUnaccepted(w, u) == /\ IsAssignee(u)
                          /\ task.status \notin Terminal
                          /\ Begin(w, u, "submit", 0)

LoadSubmit(w, u) == /\ IsAssignee(u)
                    /\ task.status = "in_progress"
                    /\ Begin(w, u, "submit", 0)

\* Mutant: approve checks the permission and not the status.
ApproveUnsubmitted(w, u) == /\ CreatorOrHolder(u, "task.approve")
                            /\ task.status \notin Terminal
                            /\ Begin(w, u, "approve", 0)

LoadApprove(w, u) == /\ CreatorOrHolder(u, "task.approve")
                     /\ task.status = "submitted"
                     /\ Begin(w, u, "approve", 0)

LoadRequestRevision(w, u) == /\ CreatorOrHolder(u, "task.approve")
                             /\ task.status = "submitted"
                             /\ Begin(w, u, "revise", 0)

\* Mutant: cancel without its check for a terminal status.
CancelTerminal(w, u) == /\ CreatorOrHolder(u, "task.cancel")
                        /\ Begin(w, u, "cancel", 0)

LoadCancel(w, u) == /\ CreatorOrHolder(u, "task.cancel")
                    /\ task.status \notin Terminal
                    /\ Begin(w, u, "cancel", 0)

LoadRequest(w, u) == /\ IsAssignee(u)
                     /\ task.status \in {"assigned", "in_progress"}
                     /\ Begin(w, u, "request", 0)

\* Mutant: the request is looked up by task alone, not by task and status.
DecideAny(w, u, decision) ==
  /\ CreatorOrHolder(u, "task.assign")
  /\ task.status = "reassignment_requested"
  /\ \E r \in DOMAIN requests : Begin(w, u, decision, r)

LoadDecide(w, u, decision) ==
  /\ CreatorOrHolder(u, "task.assign")
  /\ task.status = "reassignment_requested"
  /\ \E r \in Pending : Begin(w, u, decision, r)

-----------------------------------------------------------------------------
(* The writing half of each handler.                                         *)
Finish(w) == /\ calls' = [calls EXCEPT ![w] = NoCall]
             /\ UNCHANGED started

\* Mutant: a cancellation is not told to the assignees.
RecipientsCreatorOnly(op) ==
  (IF op \in {"submit", "cancel"} THEN {task.creator} ELSE {})
    \cup (IF op \in {"approve", "revise"} THEN task.assignees ELSE {})

(* A submission is told to the creator, a verdict to the assignees, a         *)
(* cancellation to both; accepting a task is told to nobody.                  *)
Recipients(op) ==
  (IF op \in {"submit", "cancel"} THEN {task.creator} ELSE {})
    \cup (IF op \in {"approve", "revise", "cancel"} THEN task.assignees ELSE {})

(* transition(): UPDATE tasks SET status WHERE id; the status is not a guard. *)
Transition(w, op) ==
  /\ calls[w].op = op
  /\ task' = [task EXCEPT !.status = Target[op]]
  /\ Record(op, calls[w].user, calls[w].seen, Target[op], 0, Recipients(op))
  /\ Finish(w)
  /\ UNCHANGED requests

WriteStart(w) == Transition(w, "start")
WriteSubmit(w) == Transition(w, "submit")
WriteApprove(w) == Transition(w, "approve")
WriteRequestRevision(w) == Transition(w, "revise")
WriteCancel(w) == Transition(w, "cancel")

(* The partial unique index lets a task have one pending request.            *)
IndexAdmitsRequest == Pending = {}

WriteRequest(w) ==
  LET c == calls[w] IN
  /\ c.op = "request"
  /\ IndexAdmitsRequest
  /\ requests' = Append(requests, [by |-> c.user, previous |-> c.seen,
                                   status |-> "pending"])
  /\ task' = [task EXCEPT !.status = "reassignment_requested",
                          !.requestCount = @ + 1]
  /\ Record("requested", c.user, c.seen, "reassignment_requested",
            Len(requests) + 1, {task.creator})
  /\ Finish(w)

\* Mutant: the conflict is swallowed after the counter was incremented.
ConflictCounted(w) ==
  /\ calls[w].op = "request"
  /\ ~IndexAdmitsRequest
  /\ Finish(w)
  /\ task' = [task EXCEPT !.requestCount = @ + 1]
  /\ UNCHANGED <<requests, activity, inbox>>

(* P2002 on the insert: the handler answers 409 and its transaction rolls    *)
(* back.                                                                     *)
RequestConflict(w) ==
  /\ calls[w].op = "request"
  /\ ~IndexAdmitsRequest
  /\ Finish(w)
  /\ UNCHANGED <<task, requests, activity, inbox>>

\* Mutant: an approval restores the status of the task instead of reopening it.
DecidedKeepsStatus(row, decision) ==
  [task EXCEPT !.status = row.previous,
               !.assignees = IF decision = "approved" THEN @ \ {row.by} ELSE @,
               !.legacy = IF decision = "approved" /\ @ = row.by THEN Nobody ELSE @]

\* Mutant: a rejection leaves the task waiting.
DecidedKeepsWaiting(row, decision) ==
  IF decision = "approved"
    THEN [task EXCEPT !.status = "draft",
                      !.assignees = @ \ {row.by},
                      !.legacy = IF @ = row.by THEN Nobody ELSE @]
    ELSE task

(* The task after a decision on the request row: an approval takes the       *)
(* requester off the task, a rejection restores the status it had.           *)
Decided(row, decision) ==
  IF decision = "approved"
    THEN [task EXCEPT !.status = "draft",
                      !.assignees = @ \ {row.by},
                      !.legacy = IF @ = row.by THEN Nobody ELSE @]
    ELSE [task EXCEPT !.status = row.previous]

\* Mutant: the audit entry always names the status before the request.
DecisionMisreported(w) ==
  LET c == calls[w]
      row == requests[c.request]
  IN
  /\ c.op \in Decisions
  /\ task' = Decided(row, c.op)
  /\ requests' = [requests EXCEPT ![c.request].status = c.op]
  /\ Record("decided", c.user, c.seen, row.previous, c.request, {})
  /\ Finish(w)

WriteDecision(w) ==
  LET c == calls[w]
      row == requests[c.request]
  IN
  /\ c.op \in Decisions
  /\ task' = Decided(row, c.op)
  /\ requests' = [requests EXCEPT ![c.request].status = c.op]
  /\ Record("decided", c.user, c.seen, task'.status, c.request, {})
  /\ Finish(w)

\* Mutant: the handler outside a transaction: the failure comes between the
\* update of the task and its audit entry.
PartialCommit(w) ==
  /\ calls[w].op \in TransitionOps
  /\ task' = [task EXCEPT !.status = Target[calls[w].op]]
  /\ Finish(w)
  /\ UNCHANGED <<requests, activity, inbox>>

(* The transaction fails after its reads (lost connection, the interactive   *)
(* transaction's time limit): nothing of it is committed.                    *)
Rollback(w) == /\ calls[w] # NoCall
               /\ Finish(w)
               /\ UNCHANGED <<task, requests, activity, inbox>>

Load(w, u) == \/ LoadStart(w, u)
              \/ LoadSubmit(w, u)
              \/ LoadApprove(w, u)
              \/ LoadRequestRevision(w, u)
              \/ LoadCancel(w, u)
              \/ LoadRequest(w, u)
              \/ \E d \in Decisions : LoadDecide(w, u, d)

Write(w) == \/ WriteStart(w)
            \/ WriteSubmit(w)
            \/ WriteApprove(w)
            \/ WriteRequestRevision(w)
            \/ WriteCancel(w)
            \/ WriteRequest(w)
            \/ RequestConflict(w)
            \/ WriteDecision(w)
            \/ Rollback(w)

Next == \/ \E u \in Users, chosen \in SUBSET Users, first \in Users \cup {Nobody} :
             Create(u, chosen, first)
        \/ \E w \in Workers, u \in Users : Load(w, u)
        \/ \E w \in Workers : Write(w)

Spec == Init /\ [][Next]_vars

-----------------------------------------------------------------------------
(* What holds however requests interleave.                                   *)

\* A task never has two open reassignment requests: of any number of
\* assignees asking at once, the index lets one through.
OnePending == \A i, j \in Pending : i = j

\* A task waiting for a reassignment decision has a request to decide, so
\* reassignment-decision never answers 404 on it and the task is not stuck.
WaitingTaskHasRequest ==
  task.status = "reassignment_requested" => Pending # {}

\* So whatever overlaps, a waiting task waits for exactly one decision.
OneDecisionAwaited == OnePending /\ WaitingTaskHasRequest

\* The audit trail ends at the status the task has: no update commits without
\* its activity entry, and the entry names the status really written.
AuditEndsAtStatus ==
  activity # <<>> => activity[Len(activity)].to = task.status

\* No task completes without an assignee having submitted it first, even when
\* the approval read the row long before it wrote.
CompletedWasSubmitted ==
  task.status = "completed" =>
    \E i, j \in DOMAIN activity :
      i < j /\ activity[i].type = "submit" /\ activity[j].type = "approve"

\* tasks.reassignment_request_count counts the request rows: a call refused by
\* the index leaves no trace in it.
CountMatchesRequests == task.requestCount = Len(requests)

\* The two representations of "assigned" agree: the user in the legacy column
\* always has a task_assignees row, so notifications (sent to the rows only)
\* reach everybody who may act.
LegacyIsAssignee == task.legacy # Nobody => task.legacy \in task.assignees

\* What the task row repeats of the other tables is what they say.
RepeatedDataAgrees == CountMatchesRequests /\ LegacyIsAssignee

\* Whoever still owns a cancelled task, and its creator, was told of a
\* cancellation, except the one who cancelled.
CancellationIsAnnounced ==
  task.status = "cancelled" =>
    \E i \in DOMAIN activity :
      /\ activity[i].type = "cancel"
      /\ \A u \in (task.assignees \cup {task.creator}) \ {activity[i].actor} :
           [to |-> u, entry |-> i] \in inbox

-----------------------------------------------------------------------------
(* What holds as long as requests to the task do not overlap (one worker).   *)

\* A completed or cancelled task keeps its status for ever.
TerminalIsFinal ==
  [][task.status \in Terminal => task'.status = task.status]_vars

\* The activity entries form a path: each starts at the status where the one
\* before it ended, so the history panel can be replayed.
AuditIsAPath ==
  \A i \in DOMAIN activity :
    i > 1 => activity[i].from = activity[i - 1].to

\* A task under way, in review or done has somebody assigned to it.
WorkHasAnOwner ==
  task.status \in {"assigned", "in_progress", "submitted",
                   "reassignment_requested", "completed"} => task.assignees # {}

\* A reassignment request is decided at most once.
DecidedOnce ==
  \A i, j \in DOMAIN activity :
    /\ activity[i].type = "decided"
    /\ activity[j].type = "decided"
    /\ activity[i].request = activity[j].request
    => i = j

\* The requests, taken one at a time, implement the documented state machine:
\* the status to come back to is the one kept in the request row.
Machine == INSTANCE TaskStateMachine
             WITH status <- task.status,
                  origin <- IF task.status = "reassignment_requested"
                              THEN requests[Len(requests)].previous
                              ELSE "none"

ImplementsStateMachine == Machine!Spec

=============================================================================
