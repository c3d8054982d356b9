-------------------------- MODULE TaskLifecycleProofs --------------------------
(* Theorems about TaskLifecycle for any users, permissions, number of        *)
(* requests in flight and number of calls; those of the last part, which say *)
(* so, for requests to the task that never overlap.                          *)
EXTENDS TaskLifecycle, TLAPS

(* A call in flight works on a task that exists, and a decision on a request *)
(* row that exists.                                                          *)
CallsGrounded ==
  /\ task.status # "absent" => task.creator \in Users
  /\ \A w \in Workers :
       /\ calls[w] # NoCall => task.status # "absent"
       /\ calls[w].op \in Decisions => calls[w].request \in DOMAIN requests

Typed == TypeOK /\ CallsGrounded

-----------------------------------------------------------------------------
(* The targets of the transitions are statuses of an existing task.          *)
LEMMA TargetType == \A op \in TransitionOps : Target[op] \in Status
BY DEF Target, TransitionOps, Status

(* Only users of the tenant are notified of a transition.                    *)
LEMMA RecipientsType ==
  ASSUME TypeOK, task.creator \in Users, NEW op
  PROVE  Recipients(op) \subseteq Users
BY DEF Recipients, TypeOK, TaskRow

(* A worker whose call has an op is busy with a well-typed call.             *)
LEMMA BusyCall ==
  ASSUME TypeOK, NEW w \in Workers, calls[w].op # "idle"
  PROVE  calls[w] \in Call /\ calls[w] # NoCall
BY DEF TypeOK, NoCall

(* Writing the log and the inbox keeps their types.                          *)
LEMMA RecordType ==
  ASSUME TypeOK, NEW type \in {"created", "requested", "decided"} \cup TransitionOps,
         NEW actor \in Users, NEW from \in Status \cup {"absent"}, NEW to \in Status,
         NEW request \in Nat, NEW recipients, recipients \subseteq Users,
         Record(type, actor, from, to, request, recipients)
  PROVE  /\ activity' \in Seq(Entry)
         /\ inbox' \subseteq [to : Users, entry : Nat]
BY DEF Record, TypeOK, Entry

(* Ending a call keeps the calls well typed and grounded.                    *)
LEMMA FinishType ==
  ASSUME Typed, NEW w \in Workers, Finish(w)
  PROVE  /\ calls' \in [Workers -> Call \cup {NoCall}]
         /\ started' \in Nat
         /\ \A v \in Workers : calls'[v] = calls[v] \/ calls'[v] = NoCall
BY DEF Typed, TypeOK, Finish

-----------------------------------------------------------------------------
LEMMA TypedInit == Init => Typed
BY DEF Init, Typed, TypeOK, TaskRow, CallsGrounded, NoCall, Decisions

LEMMA TypedCreate ==
  ASSUME Typed, NEW u \in Users, NEW chosen \in SUBSET Users,
         NEW first \in Users \cup {Nobody}, Create(u, chosen, first)
  PROVE  Typed'
<1> DEFINE status == IF chosen = {} THEN "draft" ELSE "assigned"
<1>1. status \in Status
  BY DEF Status
<1>2. Record("created", u, "absent", status, 0, chosen)
  BY DEF Create
<1>3. activity' \in Seq(Entry) /\ inbox' \subseteq [to : Users, entry : Nat]
  BY <1>1, <1>2, RecordType DEF Typed
<1>4. task' = [status |-> status, creator |-> u, legacy |-> first,
               assignees |-> chosen, requestCount |-> 0]
  BY DEF Create
<1>5. UNCHANGED <<requests, calls, started>>
  BY DEF Create
<1> QED
  BY <1>1, <1>3, <1>4, <1>5 DEF Typed, TypeOK, TaskRow, CallsGrounded, Status

LEMMA TypedBegin ==
  ASSUME Typed, NEW w \in Workers, NEW u \in Users, NEW op \in Ops, NEW r \in Nat,
         Begin(w, u, op, r), op \in Decisions => r \in DOMAIN requests
  PROVE  Typed'
<1>1. [op |-> op, user |-> u, seen |-> task.status, request |-> r] \in Call
  BY DEF Begin, Typed, TypeOK, TaskRow, Call
<1>2. calls' \in [Workers -> Call \cup {NoCall}]
  BY <1>1 DEF Begin, Typed, TypeOK
<1>3. started' \in Nat
  BY DEF Begin, Typed, TypeOK
<1> QED
  BY <1>2, <1>3 DEF Begin, Typed, TypeOK, CallsGrounded

LEMMA TypedLoad ==
  ASSUME Typed, NEW w \in Workers, NEW u \in Users, Load(w, u)
  PROVE  Typed'
<1>1. \A op \in Ops : op \notin Decisions /\ Begin(w, u, op, 0) => Typed'
  BY TypedBegin
<1>2. ASSUME NEW d \in Decisions, LoadDecide(w, u, d) PROVE Typed'
  <2>1. PICK r \in Pending : Begin(w, u, d, r)
    BY <1>2 DEF LoadDecide
  <2>2. r \in DOMAIN requests /\ r \in Nat
    BY <2>1 DEF Pending, Typed, TypeOK
  <2> QED
    BY <2>1, <2>2, TypedBegin DEF Ops
<1> QED
  BY <1>1, <1>2 DEF Load, LoadStart, LoadSubmit, LoadApprove, LoadRequestRevision,
                    LoadCancel, LoadRequest, Ops, TransitionOps, Decisions

LEMMA TypedTransition ==
  ASSUME Typed, NEW w \in Workers, NEW op \in TransitionOps, Transition(w, op)
  PROVE  Typed'
<1>1. calls[w] \in Call /\ calls[w] # NoCall
  BY BusyCall DEF Typed, Transition, TransitionOps
<1>2. Target[op] \in Status
  BY TargetType
<1>3. task.creator \in Users
  BY <1>1 DEF Typed, CallsGrounded
<1>4. Recipients(op) \subseteq Users
  BY <1>3, RecipientsType DEF Typed
<1>5. Record(op, calls[w].user, calls[w].seen, Target[op], 0, Recipients(op))
  BY DEF Transition
<1>6. activity' \in Seq(Entry) /\ inbox' \subseteq [to : Users, entry : Nat]
  BY <1>1, <1>2, <1>4, <1>5, RecordType DEF Typed, Call
<1>7. /\ calls' \in [Workers -> Call \cup {NoCall}]
      /\ started' \in Nat
      /\ \A v \in Workers : calls'[v] = calls[v] \/ calls'[v] = NoCall
  BY FinishType DEF Transition
<1>8. requests' = requests /\ task' = [task EXCEPT !.status = Target[op]]
  BY DEF Transition
<1>9. TypeOK'
  BY <1>2, <1>6, <1>7, <1>8 DEF Typed, TypeOK, TaskRow
<1>10. task'.status # "absent" /\ task'.creator = task.creator
  BY <1>2, <1>8 DEF Typed, TypeOK, TaskRow, Status
<1>11. \A v \in Workers : calls'[v].op \in Decisions => calls'[v] = calls[v]
  BY <1>7 DEF NoCall, Decisions
<1> QED
  BY <1>3, <1>8, <1>9, <1>10, <1>11 DEF Typed, CallsGrounded

LEMMA TypedWriteRequest ==
  ASSUME Typed, NEW w \in Workers, WriteRequest(w)
  PROVE  Typed'
<1> DEFINE c == calls[w]
<1>1. c \in Call /\ c # NoCall
  BY BusyCall DEF Typed, WriteRequest
<1>2. task.creator \in Users
  BY <1>1 DEF Typed, CallsGrounded
<1>3. requests' = Append(requests, [by |-> c.user, previous |-> c.seen,
                                    status |-> "pending"])
  BY DEF WriteRequest
<1>4. /\ requests' \in Seq(RequestRow)
      /\ Len(requests) + 1 \in Nat
      /\ DOMAIN requests \subseteq DOMAIN requests'
  BY <1>1, <1>3 DEF Typed, TypeOK, Call, RequestRow
<1>5. /\ task' = [task EXCEPT !.status = "reassignment_requested",
                              !.requestCount = @ + 1]
      /\ Record("requested", c.user, c.seen, "reassignment_requested",
                Len(requests) + 1, {task.creator})
      /\ Finish(w)
  BY DEF WriteRequest
<1>6. activity' \in Seq(Entry) /\ inbox' \subseteq [to : Users, entry : Nat]
  <2>1. c.user \in Users /\ c.seen \in Status /\ {task.creator} \subseteq Users
    BY <1>1, <1>2 DEF Call
  <2>2. "reassignment_requested" \in Status
    BY DEF Status
  <2> HIDE DEF c
  <2> QED
    BY <1>4, <1>5, <2>1, <2>2, RecordType DEF Typed
<1>7. /\ calls' \in [Workers -> Call \cup {NoCall}]
      /\ started' \in Nat
      /\ \A v \in Workers : calls'[v] = calls[v] \/ calls'[v] = NoCall
  BY <1>5, FinishType
<1>8. TypeOK'
  <2>1. task.requestCount + 1 \in Nat /\ task \in TaskRow
    BY DEF Typed, TypeOK, TaskRow
  <2>2. "reassignment_requested" \in Status
    BY DEF Status
  <2>3. task' \in TaskRow
    BY <1>5, <2>1, <2>2 DEF TaskRow
  <2> QED
    BY <1>4, <1>6, <1>7, <2>3 DEF TypeOK
<1>9. task'.status # "absent" /\ task'.creator = task.creator
  BY <1>5 DEF Typed, TypeOK, TaskRow
<1>10. \A v \in Workers : calls'[v].op \in Decisions => calls'[v] = calls[v]
  BY <1>7 DEF NoCall, Decisions
<1> QED
  BY <1>2, <1>4, <1>8, <1>9, <1>10 DEF Typed, CallsGrounded

(* Replacing a row of a table keeps the table's type and length.             *)
LEMMA RowReplaced ==
  ASSUME NEW S, NEW s \in Seq(S), NEW i \in DOMAIN s, NEW row \in S
  PROVE  /\ [s EXCEPT ![i] = row] \in Seq(S)
         /\ DOMAIN [s EXCEPT ![i] = row] = DOMAIN s
  OBVIOUS

LEMMA TypedWriteDecision ==
  ASSUME Typed, NEW w \in Workers, WriteDecision(w)
  PROVE  Typed'
<1> DEFINE c == calls[w]
           row == requests[c.request]
<1>1. c \in Call /\ c # NoCall
  BY BusyCall DEF Typed, WriteDecision, Decisions
<1>2. task.creator \in Users /\ task.status \in Status
  BY <1>1 DEF Typed, TypeOK, TaskRow, CallsGrounded
<1>3. c.op \in Decisions /\ c.request \in DOMAIN requests
  BY DEF WriteDecision, Typed, CallsGrounded
<1>4. row \in RequestRow
  <2>1. requests \in Seq(RequestRow)
    BY DEF Typed, TypeOK
  <2> QED
    BY <1>3, <2>1
<1>5. /\ requests' = [requests EXCEPT ![c.request].status = c.op]
      /\ task' = Decided(row, c.op)
      /\ Record("decided", c.user, c.seen, task'.status, c.request, {})
      /\ Finish(w)
  BY DEF WriteDecision
<1>6. requests' \in Seq(RequestRow) /\ DOMAIN requests' = DOMAIN requests
  <2>1. requests \in Seq(RequestRow)
    BY DEF Typed, TypeOK
  <2>2. [row EXCEPT !.status = c.op] \in RequestRow
    BY <1>3, <1>4 DEF RequestRow
  <2>3. requests' = [requests EXCEPT ![c.request] = [row EXCEPT !.status = c.op]]
    BY <1>5
  <2> HIDE DEF c, row
  <2> QED
    BY <1>3, <2>1, <2>2, <2>3, RowReplaced
<1>7. /\ task' \in TaskRow
      /\ task'.status \in Status
      /\ task'.creator = task.creator
  BY <1>2, <1>4, <1>5 DEF Decided, Typed, TypeOK, TaskRow, RequestRow, Status
<1>8. activity' \in Seq(Entry) /\ inbox' \subseteq [to : Users, entry : Nat]
  <2>1. c.user \in Users /\ c.seen \in Status /\ c.request \in Nat
    BY <1>1 DEF Call
  <2> DEFINE to == task'.status
  <2>2. TypeOK /\ to \in Status
    BY <1>7 DEF Typed
  <2>3. Record("decided", c.user, c.seen, to, c.request, {})
    BY <1>5
  <2> HIDE DEF c, to
  <2> QED
    BY <2>1, <2>2, <2>3, RecordType
<1>9. /\ calls' \in [Workers -> Call \cup {NoCall}]
      /\ started' \in Nat
      /\ \A v \in Workers : calls'[v] = calls[v] \/ calls'[v] = NoCall
  BY <1>5, FinishType
<1>10. TypeOK'
  BY <1>6, <1>7, <1>8, <1>9 DEF Typed, TypeOK, RequestRow
<1>11. task'.status # "absent"
  BY <1>7 DEF Status
<1>12. \A v \in Workers : calls'[v].op \in Decisions => calls'[v] = calls[v]
  BY <1>9 DEF NoCall, Decisions
<1> QED
  BY <1>2, <1>6, <1>7, <1>10, <1>11, <1>12 DEF Typed, CallsGrounded

(* A call that ends without a write leaves everything but the calls alone.   *)
LEMMA TypedGiveUp ==
  ASSUME Typed, NEW w \in Workers, Finish(w),
         UNCHANGED <<task, requests, activity, inbox>>
  PROVE  Typed'
<1>1. /\ calls' \in [Workers -> Call \cup {NoCall}]
      /\ started' \in Nat
      /\ \A v \in Workers : calls'[v] = calls[v] \/ calls'[v] = NoCall
  BY FinishType
<1>2. \A v \in Workers : calls'[v].op \in Decisions => calls'[v] = calls[v]
  BY <1>1 DEF NoCall, Decisions
<1> QED
  BY <1>1, <1>2 DEF Typed, TypeOK, CallsGrounded

LEMMA TypedWrite ==
  ASSUME Typed, NEW w \in Workers, Write(w)
  PROVE  Typed'
<1>1. \A op \in TransitionOps : Transition(w, op) => Typed'
  BY TypedTransition
<1>2. CASE WriteRequest(w)
  BY <1>2, TypedWriteRequest
<1>3. CASE WriteDecision(w)
  BY <1>3, TypedWriteDecision
<1>4. CASE RequestConflict(w)
  BY <1>4, TypedGiveUp DEF RequestConflict
<1>5. CASE Rollback(w)
  BY <1>5, TypedGiveUp DEF Rollback
<1> QED
  BY <1>1, <1>2, <1>3, <1>4, <1>5
     DEF Write, WriteStart, WriteSubmit, WriteApprove, WriteRequestRevision,
         WriteCancel, TransitionOps

LEMMA TypedNext == Typed /\ [Next]_vars => Typed'
<1> SUFFICES ASSUME Typed, [Next]_vars PROVE Typed'
  OBVIOUS
<1>1. ASSUME NEW u \in Users, NEW chosen \in SUBSET Users,
             NEW first \in Users \cup {Nobody}, Create(u, chosen, first)
      PROVE  Typed'
  BY <1>1, TypedCreate
<1>2. ASSUME NEW w \in Workers, NEW u \in Users, Load(w, u) PROVE Typed'
  BY <1>2, TypedLoad
<1>3. ASSUME NEW w \in Workers, Write(w) PROVE Typed'
  BY <1>3, TypedWrite
<1>4. CASE UNCHANGED vars
  BY <1>4 DEF vars, Typed, TypeOK, CallsGrounded
<1> QED
  BY <1>1, <1>2, <1>3, <1>4 DEF Next

(* The rows keep their types, and every call in flight refers to a task and  *)
(* a request row that exist, whatever runs concurrently.                     *)
LEMMA TypedAlways == Spec => []Typed
<1> QED
  BY TypedInit, TypedNext, PTL DEF Spec

(* The rows, the audit trail and the calls in flight keep their types,       *)
(* whatever runs concurrently.                                               *)
THEOREM TypeCorrect == Spec => []TypeOK
<1>1. Typed => TypeOK
  BY DEF Typed
<1> QED
  BY <1>1, TypedAlways, PTL

-----------------------------------------------------------------------------
(* The rest of the inductive invariant.  A rejection restores the status a   *)
(* request captured: it can neither reopen a request nor bring back a status *)
(* that only a submission or an approval reaches.                            *)
Resumable ==
  /\ task.status = "absent" => requests = <<>>
  /\ \A i \in DOMAIN requests : requests[i].previous \in {"assigned", "in_progress"}
  /\ \A w \in Workers :
       calls[w].op = "request" => calls[w].seen \in {"assigned", "in_progress"}

(* An approval in flight, or one that may yet begin, rests on a submission   *)
(* that is already in the audit trail.                                       *)
SubmissionLogged ==
  task.status = "submitted" \/ (\E w \in Workers : calls[w].op = "approve") =>
    \E i \in DOMAIN activity : activity[i].type = "submit"

AuditStarts == activity = <<>> <=> task.status = "absent"

RequestInv == /\ Resumable
              /\ OnePending
              /\ WaitingTaskHasRequest
              /\ CountMatchesRequests
              /\ LegacyIsAssignee

AuditInv == /\ AuditStarts
            /\ AuditEndsAtStatus
            /\ SubmissionLogged
            /\ CompletedWasSubmitted
            /\ CancellationIsAnnounced

(* What a step that writes no table does to the calls: it starts one that    *)
(* has just passed its checks, or ends one.                                  *)
QuietCalls ==
  \A w \in Workers :
    \/ calls'[w] = calls[w]
    \/ calls'[w] = NoCall
    \/ /\ calls'[w].op = "request" =>
            calls'[w].seen \in {"assigned", "in_progress"}
       /\ calls'[w].op = "approve" => task.status = "submitted"

LEMMA LoadIsQuiet ==
  ASSUME Typed, NEW w \in Workers, NEW u \in Users, Load(w, u)
  PROVE  QuietCalls /\ UNCHANGED <<task, requests, activity, inbox>>
<1>1. ASSUME NEW op, NEW r, Begin(w, u, op, r),
             op = "request" => task.status \in {"assigned", "in_progress"},
             op = "approve" => task.status = "submitted"
      PROVE  QuietCalls /\ UNCHANGED <<task, requests, activity, inbox>>
  BY <1>1 DEF Begin, QuietCalls, Typed, TypeOK
<1> QED
  BY <1>1 DEF Load, LoadStart, LoadSubmit, LoadApprove, LoadRequestRevision,
              LoadCancel, LoadRequest, LoadDecide, Decisions

LEMMA FinishIsQuiet ==
  ASSUME Typed, NEW w \in Workers, Finish(w)
  PROVE  QuietCalls
BY DEF Finish, QuietCalls, Typed, TypeOK

(* The shapes of a step: every proof below has one case for each.            *)
LEMMA StepShapes ==
  ASSUME Typed, [Next]_vars
  PROVE  \/ QuietCalls /\ UNCHANGED <<task, requests, activity, inbox>>
         \/ \E u \in Users, chosen \in SUBSET Users, first \in Users \cup {Nobody} :
              Create(u, chosen, first)
         \/ \E w \in Workers : \/ \E op \in TransitionOps : Transition(w, op)
                               \/ WriteRequest(w)
                               \/ WriteDecision(w)
<1>1. ASSUME NEW w \in Workers, NEW u \in Users, Load(w, u)
      PROVE  QuietCalls /\ UNCHANGED <<task, requests, activity, inbox>>
  BY <1>1, LoadIsQuiet
<1>2. ASSUME NEW w \in Workers, RequestConflict(w) \/ Rollback(w)
      PROVE  QuietCalls /\ UNCHANGED <<task, requests, activity, inbox>>
  BY <1>2, FinishIsQuiet DEF RequestConflict, Rollback
<1>3. CASE UNCHANGED vars
  BY <1>3 DEF vars, QuietCalls
<1> QED
  BY <1>1, <1>2, <1>3
     DEF Next, Write, WriteStart, WriteSubmit, WriteApprove, WriteRequestRevision,
         WriteCancel, TransitionOps

LEMMA RequestInvInit == Init => RequestInv
BY DEF Init, RequestInv, Resumable, OnePending, WaitingTaskHasRequest,
       CountMatchesRequests, LegacyIsAssignee, Pending, NoCall

LEMMA RequestInvNext == Typed /\ Typed' /\ RequestInv /\ [Next]_vars => RequestInv'
<1> SUFFICES ASSUME Typed, Typed', RequestInv, [Next]_vars PROVE RequestInv'
  OBVIOUS
<1> USE DEF RequestInv
<1>1. CASE QuietCalls /\ UNCHANGED <<task, requests, activity, inbox>>
  BY <1>1 DEF QuietCalls, Resumable, OnePending, WaitingTaskHasRequest,
              CountMatchesRequests, LegacyIsAssignee, Pending, NoCall
<1>2. ASSUME NEW u \in Users, NEW chosen \in SUBSET Users,
             NEW first \in Users \cup {Nobody}, Create(u, chosen, first)
      PROVE  RequestInv'
  <2>1. /\ task'.status \in {"draft", "assigned"}
        /\ task'.requestCount = 0
        /\ task'.legacy # Nobody => task'.legacy \in task'.assignees
        /\ task.status = "absent"
        /\ UNCHANGED <<requests, calls>>
    BY <1>2 DEF Create
  <2>2. requests' = <<>> /\ Pending' = {} /\ Len(requests') = 0
    BY <2>1 DEF Resumable, Pending
  <2> QED
    BY <2>1, <2>2 DEF Resumable, OnePending, WaitingTaskHasRequest,
                      CountMatchesRequests, LegacyIsAssignee
<1>3. ASSUME NEW w \in Workers, NEW op \in TransitionOps, Transition(w, op)
      PROVE  RequestInv'
  <2>1. /\ task' = [task EXCEPT !.status = Target[op]]
        /\ calls' = [calls EXCEPT ![w] = NoCall]
        /\ requests' = requests
    BY <1>3 DEF Transition, Finish
  <2>2. Target[op] \notin {"absent", "reassignment_requested"}
    BY DEF Target, TransitionOps
  <2>3. /\ task'.status = Target[op]
        /\ task'.requestCount = task.requestCount
        /\ task'.legacy = task.legacy
        /\ task'.assignees = task.assignees
    BY <2>1 DEF Typed, TypeOK, TaskRow
  <2>4. \A v \in Workers : calls'[v] = calls[v] \/ calls'[v] = NoCall
    BY <2>1 DEF Typed, TypeOK
  <2>5. Resumable'
    BY <2>1, <2>2, <2>3, <2>4 DEF Resumable, NoCall
  <2> QED
    BY <2>1, <2>2, <2>3, <2>5
       DEF OnePending, WaitingTaskHasRequest, CountMatchesRequests,
           LegacyIsAssignee, Pending
<1>4. ASSUME NEW w \in Workers, WriteRequest(w) PROVE RequestInv'
  <2> DEFINE row == [by |-> calls[w].user, previous |-> calls[w].seen,
                     status |-> "pending"]
  <2>1. /\ task' = [task EXCEPT !.status = "reassignment_requested",
                                !.requestCount = @ + 1]
        /\ calls' = [calls EXCEPT ![w] = NoCall]
        /\ requests' = Append(requests, row)
        /\ Pending = {}
        /\ row.previous \in {"assigned", "in_progress"}
    BY <1>4 DEF WriteRequest, IndexAdmitsRequest, Finish, Resumable
  <2>2. /\ task'.status = "reassignment_requested"
        /\ task'.requestCount = task.requestCount + 1
        /\ task'.legacy = task.legacy
        /\ task'.assignees = task.assignees
    BY <2>1 DEF Typed, TypeOK, TaskRow
  <2>3. \A v \in Workers : calls'[v] = calls[v] \/ calls'[v] = NoCall
    BY <2>1 DEF Typed, TypeOK
  <2>4. /\ requests \in Seq(RequestRow)
        /\ DOMAIN requests = 1 .. Len(requests)
        /\ DOMAIN requests' = 1 .. Len(requests) + 1
        /\ Len(requests') = Len(requests) + 1
        /\ Len(requests) \in Nat
        /\ requests'[Len(requests) + 1] = row
        /\ \A i \in 1 .. Len(requests) : requests'[i] = requests[i]
    BY <2>1 DEF Typed, TypeOK
  <2>5. Resumable'
    BY <2>1, <2>2, <2>3, <2>4 DEF Resumable, NoCall
  <2>6. Pending' = {Len(requests) + 1}
    BY <2>1, <2>4 DEF Pending
  <2> QED
    BY <2>2, <2>4, <2>5, <2>6
       DEF OnePending, WaitingTaskHasRequest, CountMatchesRequests, LegacyIsAssignee
<1>5. ASSUME NEW w \in Workers, WriteDecision(w) PROVE RequestInv'
  <2> DEFINE r == calls[w].request
             d == calls[w].op
  <2>1. /\ d \in Decisions
        /\ task' = Decided(requests[r], d)
        /\ calls' = [calls EXCEPT ![w] = NoCall]
        /\ requests' = [requests EXCEPT ![r].status = d]
        /\ r \in DOMAIN requests
    BY <1>5 DEF WriteDecision, Finish, Typed, CallsGrounded
  <2>2. /\ task'.status \in {"draft", "assigned", "in_progress"}
        /\ task'.requestCount = task.requestCount
        /\ task'.legacy # Nobody => task'.legacy \in task'.assignees
    BY <2>1 DEF Decided, Resumable, LegacyIsAssignee, Typed, TypeOK, TaskRow
  <2>3. \A v \in Workers : calls'[v] = calls[v] \/ calls'[v] = NoCall
    BY <2>1 DEF Typed, TypeOK
  <2>4. /\ DOMAIN requests' = DOMAIN requests
        /\ Len(requests') = Len(requests)
        /\ requests'[r].status = d
        /\ \A i \in DOMAIN requests : requests'[i].previous = requests[i].previous
        /\ \A i \in DOMAIN requests : i # r => requests'[i] = requests[i]
    BY <2>1 DEF Typed, TypeOK, RequestRow
  <2>5. Pending' \subseteq Pending
    BY <2>1, <2>4 DEF Pending, Decisions
  <2>6. Resumable'
    BY <2>2, <2>3, <2>4 DEF Resumable, NoCall
  <2> QED
    BY <2>2, <2>4, <2>5, <2>6
       DEF OnePending, WaitingTaskHasRequest, CountMatchesRequests, LegacyIsAssignee
<1> QED
  BY <1>1, <1>2, <1>3, <1>4, <1>5, StepShapes

LEMMA RequestInvAlways == Spec => []RequestInv
<1> QED
  BY TypedAlways, RequestInvInit, RequestInvNext, PTL DEF Spec

(* Whatever number of handlers run at once: a task has at most one open      *)
(* request, and waits for a decision only while it has one.                  *)
THEOREM DecisionsAreAwaited == Spec => []OneDecisionAwaited
<1>1. RequestInv => OneDecisionAwaited
  BY DEF RequestInv, OneDecisionAwaited
<1> QED
  BY <1>1, RequestInvAlways, PTL

(* It counts its requests exactly, and its two records of the assignee       *)
(* agree.                                                                    *)
THEOREM DataAgrees == Spec => []RepeatedDataAgrees
<1>1. RequestInv => RepeatedDataAgrees
  BY DEF RequestInv, RepeatedDataAgrees
<1> QED
  BY <1>1, RequestInvAlways, PTL

-----------------------------------------------------------------------------
(* An entry of the audit trail stays where it is, and a write adds one.      *)
LEMMA RecordAppends ==
  ASSUME Typed, Typed', NEW type, NEW actor, NEW from, NEW to, NEW request, NEW recipients,
         Record(type, actor, from, to, request, recipients)
  PROVE  LET n == Len(activity) + 1 IN
         /\ DOMAIN activity' = DOMAIN activity \cup {n}
         /\ Len(activity') = n
         /\ DOMAIN activity = 1 .. Len(activity)
         /\ activity' # <<>>
         /\ activity'[n].type = type
         /\ activity'[n].actor = actor
         /\ activity'[n].to = to
         /\ \A i \in DOMAIN activity : i < n /\ activity'[i] = activity[i]
         /\ inbox \subseteq inbox'
         /\ \A v \in recipients \ {actor} : [to |-> v, entry |-> n] \in inbox'
<1>1. activity \in Seq(Entry) /\ Len(activity) \in Nat
  BY DEF Typed, TypeOK
<1> QED
  BY <1>1 DEF Record

LEMMA AuditInvInit == Init => AuditInv
BY DEF Init, AuditInv, AuditStarts, AuditEndsAtStatus, SubmissionLogged,
       CompletedWasSubmitted, CancellationIsAnnounced, NoCall

(* A recorded write keeps the audit invariant if it enters a status with the *)
(* evidence that status needs.                                               *)
LEMMA AuditInvWrite ==
  ASSUME Typed, Typed', AuditInv,
         NEW type, NEW actor, NEW from, NEW to \in Status, NEW request, NEW recipients,
         Record(type, actor, from, to, request, recipients),
         task'.status = to,
         \A w \in Workers : calls'[w].op = "approve" => calls[w].op = "approve",
         task'.assignees \cup {task'.creator} \subseteq Users,
         to = "submitted" => type = "submit",
         to = "completed" => /\ type = "approve"
                             /\ \E w \in Workers : calls[w].op = "approve",
         to = "cancelled" => /\ type = "cancel"
                             /\ task'.assignees \cup {task'.creator} \subseteq recipients
  PROVE  AuditInv'
<1> DEFINE n == Len(activity) + 1
<1>1. /\ DOMAIN activity' = DOMAIN activity \cup {n}
      /\ Len(activity') = n
      /\ activity' # <<>>
      /\ activity'[n].type = type
      /\ activity'[n].actor = actor
      /\ activity'[n].to = to
      /\ \A i \in DOMAIN activity : i < n /\ activity'[i] = activity[i]
      /\ \A v \in recipients \ {actor} : [to |-> v, entry |-> n] \in inbox'
  BY RecordAppends, Zenon
<1> HIDE DEF n
<1>2. AuditStarts' /\ AuditEndsAtStatus'
  BY <1>1 DEF AuditStarts, AuditEndsAtStatus, Status
<1>3. SubmissionLogged'
  <2> SUFFICES ASSUME to = "submitted" \/ \E w \in Workers : calls'[w].op = "approve"
               PROVE  \E i \in DOMAIN activity' : activity'[i].type = "submit"
    BY DEF SubmissionLogged
  <2>1. CASE to = "submitted"
    BY <1>1, <2>1
  <2>2. CASE \E w \in Workers : calls'[w].op = "approve"
    <3>1. PICK i \in DOMAIN activity : activity[i].type = "submit"
      BY <2>2 DEF AuditInv, SubmissionLogged
    <3> QED
      BY <1>1, <3>1
  <2> QED
    BY <2>1, <2>2
<1>4. CompletedWasSubmitted'
  <2> SUFFICES ASSUME to = "completed"
               PROVE  \E i, j \in DOMAIN activity' :
                        i < j /\ activity'[i].type = "submit" /\ activity'[j].type = "approve"
    BY DEF CompletedWasSubmitted
  <2>1. PICK i \in DOMAIN activity : activity[i].type = "submit"
    BY DEF AuditInv, SubmissionLogged
  <2> QED
    BY <1>1, <2>1
<1>5. CancellationIsAnnounced'
  BY <1>1 DEF CancellationIsAnnounced
<1> QED
  BY <1>2, <1>3, <1>4, <1>5 DEF AuditInv

LEMMA AuditInvNext ==
  Typed /\ Typed' /\ RequestInv /\ AuditInv /\ [Next]_vars => AuditInv'
<1> SUFFICES ASSUME Typed, Typed', RequestInv, AuditInv, [Next]_vars PROVE AuditInv'
  OBVIOUS
<1>1. CASE QuietCalls /\ UNCHANGED <<task, requests, activity, inbox>>
  <2>1. SubmissionLogged'
    BY <1>1 DEF QuietCalls, AuditInv, SubmissionLogged, NoCall
  <2> QED
    BY <1>1, <2>1 DEF AuditInv, AuditStarts, AuditEndsAtStatus,
                      CompletedWasSubmitted, CancellationIsAnnounced
<1>2. ASSUME NEW u \in Users, NEW chosen \in SUBSET Users,
             NEW first \in Users \cup {Nobody}, Create(u, chosen, first)
      PROVE  AuditInv'
  <2> DEFINE status == IF chosen = {} THEN "draft" ELSE "assigned"
  <2>1. /\ Record("created", u, "absent", status, 0, chosen)
        /\ task'.status = status
        /\ task'.assignees \cup {task'.creator} \subseteq Users
        /\ calls' = calls
    BY <1>2 DEF Create
  <2>2. status \in Status /\ status \notin {"submitted", "completed", "cancelled"}
    BY DEF Status
  <2> HIDE DEF status
  <2> QED
    BY <2>1, <2>2, AuditInvWrite
<1>3. ASSUME NEW w \in Workers, NEW op \in TransitionOps, Transition(w, op)
      PROVE  AuditInv'
  <2>1. /\ task' = [task EXCEPT !.status = Target[op]]
        /\ calls[w].op = op
        /\ Record(op, calls[w].user, calls[w].seen, Target[op], 0, Recipients(op))
        /\ calls' = [calls EXCEPT ![w] = NoCall]
    BY <1>3 DEF Transition, Finish
  <2>2. /\ Target[op] \in Status
        /\ Target[op] = "submitted" => op = "submit"
        /\ Target[op] = "completed" => op = "approve"
        /\ Target[op] = "cancelled" => op = "cancel"
    BY DEF Target, TransitionOps, Status
  <2>3. /\ task'.status = Target[op]
        /\ task'.assignees = task.assignees
        /\ task'.creator = task.creator
    BY <2>1 DEF Typed, TypeOK, TaskRow
  <2>4. calls[w] # NoCall
    BY <2>1 DEF NoCall, TransitionOps
  <2>5. task'.assignees \cup {task'.creator} \subseteq Users
    BY <2>3, <2>4 DEF Typed, TypeOK, TaskRow, CallsGrounded
  <2>6. \A v \in Workers : calls'[v].op = "approve" => calls[v].op = "approve"
    BY <2>1 DEF Typed, TypeOK, NoCall
  <2>7. op = "cancel" => Recipients(op) = task.assignees \cup {task.creator}
    BY DEF Recipients
  <2> QED
    BY <2>1, <2>2, <2>3, <2>5, <2>6, <2>7, AuditInvWrite
<1>4. ASSUME NEW w \in Workers, WriteRequest(w) PROVE AuditInv'
  <2>1. /\ task' = [task EXCEPT !.status = "reassignment_requested",
                                !.requestCount = @ + 1]
        /\ calls[w].op = "request"
        /\ Record("requested", calls[w].user, calls[w].seen, "reassignment_requested",
                  Len(requests) + 1, {task.creator})
        /\ calls' = [calls EXCEPT ![w] = NoCall]
    BY <1>4 DEF WriteRequest, Finish
  <2>2. "reassignment_requested" \in Status
    BY DEF Status
  <2>3. /\ task'.status = "reassignment_requested"
        /\ task'.assignees = task.assignees
        /\ task'.creator = task.creator
    BY <2>1 DEF Typed, TypeOK, TaskRow
  <2>4. task'.assignees \cup {task'.creator} \subseteq Users
    BY <2>1, <2>3 DEF Typed, TypeOK, TaskRow, CallsGrounded, NoCall
  <2>5. \A v \in Workers : calls'[v].op = "approve" => calls[v].op = "approve"
    BY <2>1 DEF Typed, TypeOK, NoCall
  <2> QED
    BY <2>1, <2>2, <2>3, <2>4, <2>5, AuditInvWrite
<1>5. ASSUME NEW w \in Workers, WriteDecision(w) PROVE AuditInv'
  <2> DEFINE r == calls[w].request
             d == calls[w].op
  <2>1. /\ d \in Decisions
        /\ task' = Decided(requests[r], d)
        /\ Record("decided", calls[w].user, calls[w].seen, task'.status, r, {})
        /\ calls' = [calls EXCEPT ![w] = NoCall]
        /\ r \in DOMAIN requests
    BY <1>5 DEF WriteDecision, Finish, Typed, CallsGrounded
  <2>2. /\ task'.status \in {"draft", "assigned", "in_progress"}
        /\ task'.assignees \subseteq task.assignees
        /\ task'.creator = task.creator
    BY <2>1 DEF Decided, RequestInv, Resumable, Typed, TypeOK, TaskRow
  <2>3. task'.status \in Status
    BY <2>2 DEF Status
  <2>4. task'.assignees \cup {task'.creator} \subseteq Users
    BY <2>1, <2>2 DEF Typed, TypeOK, TaskRow, CallsGrounded, NoCall, Decisions
  <2>5. \A v \in Workers : calls'[v].op = "approve" => calls[v].op = "approve"
    BY <2>1 DEF Typed, TypeOK, NoCall
  <2> HIDE DEF r, d
  <2> QED
    BY <2>1, <2>2, <2>3, <2>4, <2>5, AuditInvWrite
<1> QED
  BY <1>1, <1>2, <1>3, <1>4, <1>5, StepShapes

LEMMA AuditInvAlways == Spec => []AuditInv
<1> QED
  BY RequestInvAlways, TypedAlways, AuditInvInit, AuditInvNext, PTL DEF Spec

(* Whatever number of handlers run at once: the audit trail ends at the      *)
(* status of the task.                                                       *)
THEOREM AuditIsCurrent == Spec => []AuditEndsAtStatus
<1>1. AuditInv => AuditEndsAtStatus
  BY DEF AuditInv
<1> QED
  BY <1>1, AuditInvAlways, PTL

(* No task completes unless it was submitted.                                *)
THEOREM CompletionsWereSubmitted == Spec => []CompletedWasSubmitted
<1>1. AuditInv => CompletedWasSubmitted
  BY DEF AuditInv
<1> QED
  BY <1>1, AuditInvAlways, PTL

(* A cancellation reaches everybody who still owns the task.                 *)
THEOREM CancellationsAreAnnounced == Spec => []CancellationIsAnnounced
<1>1. AuditInv => CancellationIsAnnounced
  BY DEF AuditInv
<1> QED
  BY <1>1, AuditInvAlways, PTL

-----------------------------------------------------------------------------
(* What holds when requests to the task never overlap: one worker.           *)
OneWorker == \A v, w \in Workers : v = w

(* With nobody else writing, what a handler checked still holds when it      *)
(* writes, and the request a decision found is the last one filed.           *)
StillValid(c) ==
  /\ c.seen = task.status
  /\ c.op = "start" => task.status = "assigned"
  /\ c.op = "submit" => task.status = "in_progress"
  /\ c.op \in {"approve", "revise"} => task.status = "submitted"
  /\ c.op = "cancel" => task.status \notin Terminal
  /\ c.op = "request" => task.status \in {"assigned", "in_progress"}
  /\ c.op \in Decisions => /\ task.status = "reassignment_requested"
                           /\ c.request = Len(requests)
                           /\ requests[Len(requests)].status = "pending"

LastIsOpen ==
  task.status = "reassignment_requested" =>
    /\ requests # <<>>
    /\ requests[Len(requests)].status = "pending"

DecidedRows ==
  \A i \in DOMAIN activity :
    activity[i].type = "decided" =>
      /\ activity[i].request \in DOMAIN requests
      /\ requests[activity[i].request].status # "pending"

SerialInv == /\ \A w \in Workers : calls[w] # NoCall => StillValid(calls[w])
             /\ LastIsOpen
             /\ WorkHasAnOwner
             /\ AuditIsAPath
             /\ DecidedRows
             /\ DecidedOnce

Safe == Typed /\ RequestInv /\ AuditInv /\ SerialInv

-----------------------------------------------------------------------------
LEMMA SerialInvInit == Init => SerialInv
BY DEF Init, SerialInv, LastIsOpen, WorkHasAnOwner, AuditIsAPath, DecidedRows, DecidedOnce

(* A read starts a call that is valid.                                       *)
LEMMA BeginIsValid ==
  ASSUME Safe, NEW w \in Workers, NEW u \in Users, NEW op \in Ops, NEW r \in Nat,
         Begin(w, u, op, r),
         StillValid([op |-> op, user |-> u, seen |-> task.status, request |-> r])
  PROVE  SerialInv'
<1> DEFINE c == [op |-> op, user |-> u, seen |-> task.status, request |-> r]
<1>1. /\ UNCHANGED <<task, requests, activity, inbox>>
      /\ \A v \in Workers : calls'[v] = calls[v] \/ calls'[v] = c
  BY DEF Begin, Safe, Typed, TypeOK
<1> QED
  BY <1>1 DEF Safe, SerialInv, StillValid, LastIsOpen, WorkHasAnOwner, AuditIsAPath,
              DecidedRows, DecidedOnce

LEMMA LoadIsValid ==
  ASSUME Safe, NEW w \in Workers, NEW u \in Users, Load(w, u)
  PROVE  SerialInv'
<1>1. ASSUME NEW op \in Ops, Begin(w, u, op, 0), op \notin Decisions,
             StillValid([op |-> op, user |-> u, seen |-> task.status, request |-> 0])
      PROVE  SerialInv'
  BY <1>1, BeginIsValid
<1>2. ASSUME NEW d \in Decisions, LoadDecide(w, u, d) PROVE SerialInv'
  <2>1. PICK r \in Pending : Begin(w, u, d, r)
    BY <1>2 DEF LoadDecide
  <2>2. task.status = "reassignment_requested"
    BY <1>2 DEF LoadDecide
  <2>3. requests \in Seq(RequestRow)
    BY DEF Safe, Typed, TypeOK
  <2>4. Len(requests) \in Pending /\ r \in Nat
    BY <2>1, <2>2, <2>3 DEF Safe, SerialInv, LastIsOpen, Pending
  <2>5. r = Len(requests)
    BY <2>1, <2>4 DEF Safe, RequestInv, OnePending
  <2>6. StillValid([op |-> d, user |-> u, seen |-> task.status, request |-> r])
    BY <2>2, <2>4, <2>5 DEF StillValid, Decisions, Pending
  <2> QED
    BY <2>1, <2>4, <2>6, BeginIsValid DEF Ops
<1> QED
  BY <1>1, <1>2 DEF Load, LoadStart, LoadSubmit, LoadApprove, LoadRequestRevision,
                    LoadCancel, LoadRequest, StillValid, Ops, TransitionOps, Decisions

(* The only call ends, so none is left to be invalidated.                    *)
LEMMA FinishLeavesNone ==
  ASSUME Safe, OneWorker, NEW w \in Workers, Finish(w)
  PROVE  \A v \in Workers : calls'[v] = NoCall
BY DEF Safe, Typed, TypeOK, OneWorker, Finish

(* A recorded write keeps the history a path if it starts where the task is, *)
(* and, unless it decides a request, leaves the decisions as they were.      *)
LEMMA HistoryExtends ==
  ASSUME Safe, Typed', NEW type, NEW actor, NEW to, NEW request, NEW recipients,
         Record(type, actor, task.status, to, request, recipients),
         task.status # "absent", type # "decided",
         \A i \in DOMAIN requests : i \in DOMAIN requests' /\ requests'[i] = requests[i]
  PROVE  AuditIsAPath' /\ DecidedRows' /\ DecidedOnce'
<1> DEFINE n == Len(activity) + 1
<1>1. activity' = Append(activity, [type |-> type, actor |-> actor,
                                    from |-> task.status, to |-> to, request |-> request])
  BY DEF Record
<1>2. activity \in Seq(Entry) /\ Len(activity) \in Nat
  BY DEF Safe, Typed, TypeOK
<1>3. /\ DOMAIN activity' = 1 .. n
      /\ DOMAIN activity = 1 .. Len(activity)
      /\ activity'[n].type = type
      /\ activity'[n].from = task.status
      /\ \A i \in DOMAIN activity : activity'[i] = activity[i]
  BY <1>1, <1>2
<1>4. Len(activity) # 0 /\ activity[Len(activity)].to = task.status
  BY <1>2 DEF Safe, AuditInv, AuditStarts, AuditEndsAtStatus
<1>5. AuditIsAPath'
  <2> SUFFICES ASSUME NEW i \in 1 .. n, i > 1
               PROVE  activity'[i].from = activity'[i - 1].to
    BY <1>3 DEF AuditIsAPath
  <2>1. CASE i = n
    BY <1>2, <1>3, <1>4, <2>1
  <2>2. CASE i # n
    <3>1. i \in DOMAIN activity /\ i - 1 \in DOMAIN activity
      BY <1>2, <1>3, <2>2
    <3> QED
      BY <1>3, <3>1 DEF Safe, SerialInv, AuditIsAPath
  <2> QED
    BY <2>1, <2>2
<1>6. \A i \in DOMAIN activity' : activity'[i].type = "decided" =>
        i \in DOMAIN activity /\ activity'[i] = activity[i]
  BY <1>2, <1>3
<1> QED
  BY <1>5, <1>6 DEF Safe, SerialInv, DecidedRows, DecidedOnce

LEMMA SerialCreate ==
  ASSUME Safe, Typed', NEW u \in Users, NEW chosen \in SUBSET Users,
         NEW first \in Users \cup {Nobody}, Create(u, chosen, first)
  PROVE  SerialInv'
<1> DEFINE status == IF chosen = {} THEN "draft" ELSE "assigned"
<1>1. /\ task.status = "absent"
      /\ task'.status = status
      /\ task'.assignees = chosen
      /\ activity' = Append(activity, [type |-> "created", actor |-> u, from |-> "absent",
                                       to |-> status, request |-> 0])
      /\ UNCHANGED <<requests, calls>>
  BY DEF Create, Record
<1>2. activity = <<>>
  BY <1>1 DEF Safe, AuditInv, AuditStarts
<1>3. DOMAIN activity' = {1} /\ activity'[1].type = "created"
  BY <1>1, <1>2
<1>4. \A v \in Workers : calls'[v] = NoCall
  BY <1>1 DEF Safe, Typed, CallsGrounded
<1> QED
  BY <1>1, <1>3, <1>4 DEF SerialInv, LastIsOpen, WorkHasAnOwner, AuditIsAPath,
                          DecidedRows, DecidedOnce

LEMMA SerialTransition ==
  ASSUME Safe, Typed', OneWorker, NEW w \in Workers, NEW op \in TransitionOps,
         Transition(w, op)
  PROVE  SerialInv'
<1>1. /\ task' = [task EXCEPT !.status = Target[op]]
      /\ calls[w].op = op
      /\ Record(op, calls[w].user, calls[w].seen, Target[op], 0, Recipients(op))
      /\ Finish(w)
      /\ requests' = requests
  BY DEF Transition
<1>2. calls[w] # NoCall /\ op # "decided"
  BY <1>1 DEF NoCall, TransitionOps
<1>3. StillValid(calls[w]) /\ task.status # "absent"
  BY <1>2 DEF Safe, SerialInv, Typed, CallsGrounded
<1>4. task'.status = Target[op] /\ task'.assignees = task.assignees
  BY <1>1 DEF Safe, Typed, TypeOK, TaskRow
<1>5. \A v \in Workers : calls'[v] = NoCall
  BY <1>1, FinishLeavesNone
<1>6. AuditIsAPath' /\ DecidedRows' /\ DecidedOnce'
  <2>1. calls[w].seen = task.status
    BY <1>3 DEF StillValid
  <2>2. Record(op, calls[w].user, task.status, Target[op], 0, Recipients(op))
    BY <1>1, <2>1
  <2> QED
    BY <1>1, <1>2, <1>3, <2>2, HistoryExtends
<1>7. Target[op] # "reassignment_requested"
  BY DEF Target, TransitionOps
<1>8. WorkHasAnOwner'
  <2>1. Target[op] = "cancelled"
          \/ task.status \in {"assigned", "in_progress", "submitted"}
    BY <1>1, <1>3 DEF Target, TransitionOps, StillValid
  <2> QED
    BY <1>4, <2>1 DEF Safe, SerialInv, WorkHasAnOwner
<1> QED
  BY <1>4, <1>5, <1>6, <1>7, <1>8 DEF SerialInv, LastIsOpen

LEMMA SerialRequest ==
  ASSUME Safe, Typed', OneWorker, NEW w \in Workers, WriteRequest(w)
  PROVE  SerialInv'
<1> DEFINE row == [by |-> calls[w].user, previous |-> calls[w].seen, status |-> "pending"]
<1>1. /\ task' = [task EXCEPT !.status = "reassignment_requested", !.requestCount = @ + 1]
      /\ calls[w].op = "request"
      /\ requests' = Append(requests, row)
      /\ Record("requested", calls[w].user, calls[w].seen, "reassignment_requested",
                Len(requests) + 1, {task.creator})
      /\ Finish(w)
  BY DEF WriteRequest
<1>2. calls[w] # NoCall
  BY <1>1 DEF NoCall
<1>3. StillValid(calls[w]) /\ task.status # "absent"
  BY <1>2 DEF Safe, SerialInv, Typed, CallsGrounded
<1>4. task'.status = "reassignment_requested" /\ task'.assignees = task.assignees
  BY <1>1 DEF Safe, Typed, TypeOK, TaskRow
<1>5. \A v \in Workers : calls'[v] = NoCall
  BY <1>1, FinishLeavesNone
<1>6. /\ Len(requests') = Len(requests) + 1
      /\ requests' # <<>>
      /\ requests'[Len(requests')] = row
      /\ \A i \in DOMAIN requests : i \in DOMAIN requests' /\ requests'[i] = requests[i]
  <2>1. requests \in Seq(RequestRow) /\ Len(requests) \in Nat
    BY DEF Safe, Typed, TypeOK
  <2> HIDE DEF row
  <2> QED
    BY <1>1, <2>1
<1>7. AuditIsAPath' /\ DecidedRows' /\ DecidedOnce'
  <2>1. calls[w].seen = task.status
    BY <1>3 DEF StillValid
  <2>2. Record("requested", calls[w].user, task.status, "reassignment_requested",
               Len(requests) + 1, {task.creator})
    BY <1>1, <2>1
  <2> QED
    BY <1>3, <1>6, <2>2, HistoryExtends
<1>8. WorkHasAnOwner'
  BY <1>1, <1>3, <1>4 DEF StillValid, Safe, SerialInv, WorkHasAnOwner
<1>9. LastIsOpen'
  BY <1>6 DEF LastIsOpen
<1> QED
  BY <1>5, <1>7, <1>8, <1>9 DEF SerialInv

LEMMA SerialDecision ==
  ASSUME Safe, Typed', OneWorker, NEW w \in Workers, WriteDecision(w)
  PROVE  SerialInv'
<1> DEFINE r == calls[w].request
           d == calls[w].op
           n == Len(activity) + 1
<1>1. /\ d \in Decisions
      /\ task' = Decided(requests[r], d)
      /\ requests' = [requests EXCEPT ![r].status = d]
      /\ Record("decided", calls[w].user, calls[w].seen, task'.status, r, {})
      /\ Finish(w)
      /\ r \in DOMAIN requests
  BY DEF WriteDecision, Safe, Typed, CallsGrounded
<1>2. calls[w] # NoCall
  BY <1>1 DEF NoCall, Decisions
<1>3. /\ task.status = "reassignment_requested"
      /\ calls[w].seen = task.status
      /\ requests[r].status = "pending"
  BY <1>1, <1>2 DEF Safe, SerialInv, StillValid
<1>4. /\ task'.status \in {"draft", "assigned", "in_progress"}
      /\ task'.status # "draft" => task'.assignees = task.assignees
  BY <1>1 DEF Decided, Safe, RequestInv, Resumable, Typed, TypeOK, TaskRow, Decisions
<1>5. \A v \in Workers : calls'[v] = NoCall
  BY <1>1, FinishLeavesNone
<1>6. /\ DOMAIN requests' = DOMAIN requests
      /\ requests'[r].status # "pending"
      /\ \A i \in DOMAIN requests : i # r => requests'[i] = requests[i]
  <2>1. requests \in Seq(RequestRow) /\ requests[r] \in RequestRow
    BY <1>1 DEF Safe, Typed, TypeOK
  <2> QED
    BY <1>1, <2>1 DEF RequestRow, Decisions
<1>7. activity' = Append(activity, [type |-> "decided", actor |-> calls[w].user,
                                    from |-> calls[w].seen, to |-> task'.status,
                                    request |-> r])
  BY <1>1 DEF Record
<1>8. activity \in Seq(Entry) /\ Len(activity) \in Nat
  BY DEF Safe, Typed, TypeOK
<1> HIDE DEF r, d
<1>9. /\ DOMAIN activity' = 1 .. n
      /\ DOMAIN activity = 1 .. Len(activity)
      /\ activity'[n].type = "decided"
      /\ activity'[n].from = task.status
      /\ activity'[n].request = r
      /\ \A i \in DOMAIN activity : activity'[i] = activity[i]
  BY <1>3, <1>7, <1>8
<1>10. Len(activity) # 0 /\ activity[Len(activity)].to = task.status
  BY <1>3, <1>8 DEF Safe, AuditInv, AuditStarts, AuditEndsAtStatus
<1>11. AuditIsAPath'
  <2> SUFFICES ASSUME NEW i \in 1 .. n, i > 1
               PROVE  activity'[i].from = activity'[i - 1].to
    BY <1>9 DEF AuditIsAPath
  <2>1. CASE i = n
    BY <1>8, <1>9, <1>10, <2>1
  <2>2. CASE i # n
    <3>1. i \in DOMAIN activity /\ i - 1 \in DOMAIN activity
      BY <1>8, <1>9, <2>2
    <3> QED
      BY <1>9, <3>1 DEF Safe, SerialInv, AuditIsAPath
  <2> QED
    BY <2>1, <2>2
<1>12. \A i \in DOMAIN activity :
         activity[i].type = "decided" => /\ activity[i].request # r
                                         /\ activity[i].request \in DOMAIN requests
                                         /\ requests[activity[i].request].status # "pending"
  BY <1>3 DEF Safe, SerialInv, DecidedRows
<1>13. \A i \in DOMAIN activity' : i = n \/ (i \in DOMAIN activity /\ activity'[i] = activity[i])
  BY <1>8, <1>9
<1>14. DecidedRows'
  <2>1. r \in DOMAIN requests
    BY <1>1
  <2> SUFFICES ASSUME NEW i \in DOMAIN activity', activity'[i].type = "decided"
               PROVE  /\ activity'[i].request \in DOMAIN requests'
                      /\ requests'[activity'[i].request].status # "pending"
    BY DEF DecidedRows
  <2>2. CASE i = n
    BY <1>6, <1>9, <2>1, <2>2
  <2>3. CASE i # n
    BY <1>6, <1>12, <1>13, <2>3
  <2> QED
    BY <2>2, <2>3
<1>15. DecidedOnce'
  BY <1>9, <1>12, <1>13 DEF Safe, SerialInv, DecidedOnce
<1>16. WorkHasAnOwner' /\ LastIsOpen'
  BY <1>3, <1>4 DEF Safe, SerialInv, WorkHasAnOwner, LastIsOpen
<1> QED
  BY <1>5, <1>11, <1>14, <1>15, <1>16 DEF SerialInv

LEMMA SerialGiveUp ==
  ASSUME Safe, OneWorker, NEW w \in Workers, RequestConflict(w) \/ Rollback(w)
  PROVE  SerialInv'
<1>1. \A v \in Workers : calls'[v] = NoCall
  BY FinishLeavesNone DEF RequestConflict, Rollback
<1>2. UNCHANGED <<task, requests, activity, inbox>>
  BY DEF RequestConflict, Rollback
<1> QED
  BY <1>1, <1>2 DEF Safe, SerialInv, LastIsOpen, WorkHasAnOwner, AuditIsAPath,
                    DecidedRows, DecidedOnce

LEMMA SerialInvNext ==
  ASSUME OneWorker, Safe, Typed', [Next]_vars
  PROVE  SerialInv'
<1>1. ASSUME NEW u \in Users, NEW chosen \in SUBSET Users,
             NEW first \in Users \cup {Nobody}, Create(u, chosen, first)
      PROVE  SerialInv'
  BY <1>1, SerialCreate
<1>2. ASSUME NEW w \in Workers, NEW u \in Users, Load(w, u) PROVE SerialInv'
  BY <1>2, LoadIsValid
<1>3. ASSUME NEW w \in Workers, NEW op \in TransitionOps, Transition(w, op)
      PROVE  SerialInv'
  BY <1>3, SerialTransition
<1>4. ASSUME NEW w \in Workers,
             WriteRequest(w) \/ WriteDecision(w) \/ RequestConflict(w) \/ Rollback(w)
      PROVE  SerialInv'
  BY <1>4, SerialRequest, SerialDecision, SerialGiveUp
<1>5. CASE UNCHANGED vars
  BY <1>5 DEF vars, Safe, SerialInv, StillValid, LastIsOpen, WorkHasAnOwner,
              AuditIsAPath, DecidedRows, DecidedOnce
<1> QED
  BY <1>1, <1>2, <1>3, <1>4, <1>5
     DEF Next, Write, WriteStart, WriteSubmit, WriteApprove, WriteRequestRevision,
         WriteCancel, TransitionOps

LEMMA SafeAlways == ASSUME OneWorker PROVE Spec => []Safe
<1>1. Init => Safe
  BY TypedInit, RequestInvInit, AuditInvInit, SerialInvInit DEF Safe
<1>2. Safe /\ [Next]_vars => Safe'
  BY TypedNext, RequestInvNext, AuditInvNext, SerialInvNext DEF Safe
<1> QED
  BY <1>1, <1>2, PTL DEF Spec

(* One request at a time: work always has an owner.                          *)
THEOREM SerialWorkIsOwned == ASSUME OneWorker PROVE Spec => []WorkHasAnOwner
<1>1. Safe => WorkHasAnOwner
  BY DEF Safe, SerialInv
<1> QED
  BY <1>1, SafeAlways, PTL

(* The audit trail replays step by step.                                     *)
THEOREM SerialAuditReplays == ASSUME OneWorker PROVE Spec => []AuditIsAPath
<1>1. Safe => AuditIsAPath
  BY DEF Safe, SerialInv
<1> QED
  BY <1>1, SafeAlways, PTL

(* No reassignment request is decided twice.                                 *)
THEOREM SerialDecisionsAreOnce == ASSUME OneWorker PROVE Spec => []DecidedOnce
<1>1. Safe => DecidedOnce
  BY DEF Safe, SerialInv
<1> QED
  BY <1>1, SafeAlways, PTL

(* One request at a time: the status of a completed or cancelled task never  *)
(* changes again.                                                            *)
LEMMA TerminalStep ==
  ASSUME OneWorker, Safe, [Next]_vars, task.status \in Terminal
  PROVE  task'.status = task.status
<1>1. ASSUME NEW w \in Workers, NEW op \in TransitionOps, Transition(w, op) PROVE FALSE
  <2>1. calls[w].op = op /\ calls[w] # NoCall
    BY <1>1 DEF Transition, NoCall, TransitionOps
  <2>2. StillValid(calls[w])
    BY <2>1 DEF Safe, SerialInv
  <2> QED
    BY <2>1, <2>2 DEF StillValid, Terminal, TransitionOps
<1>2. ASSUME NEW w \in Workers, WriteRequest(w) \/ WriteDecision(w) PROVE FALSE
  <2>1. calls[w].op \in {"request"} \cup Decisions /\ calls[w] # NoCall
    BY <1>2 DEF WriteRequest, WriteDecision, NoCall, Decisions
  <2>2. StillValid(calls[w])
    BY <2>1 DEF Safe, SerialInv
  <2> QED
    BY <2>1, <2>2 DEF StillValid, Terminal
<1>3. ASSUME NEW u \in Users, NEW chosen \in SUBSET Users,
             NEW first \in Users \cup {Nobody}, Create(u, chosen, first)
      PROVE  FALSE
  BY <1>3 DEF Create, Terminal
<1> QED
  BY <1>1, <1>2, <1>3, StepShapes DEF Safe

THEOREM SerialTerminal == ASSUME OneWorker PROVE Spec => TerminalIsFinal
<1>1. Safe /\ [Next]_vars => [task.status \in Terminal => task'.status = task.status]_vars
  BY TerminalStep
<1> QED
  BY <1>1, SafeAlways, PTL DEF Spec, TerminalIsFinal

-----------------------------------------------------------------------------
(* Refinement: what each step does to the documented machine.                *)
LEMMA MachineInit == Init => Machine!Init
BY DEF Init, Machine!Init

LEMMA MachineStep ==
  ASSUME OneWorker, Safe, Safe', [Next]_vars
  PROVE  [Machine!Next]_(Machine!vars)
<1>1. CASE QuietCalls /\ UNCHANGED <<task, requests, activity, inbox>>
  BY <1>1 DEF Machine!vars
<1>2. ASSUME NEW u \in Users, NEW chosen \in SUBSET Users,
             NEW first \in Users \cup {Nobody}, Create(u, chosen, first)
      PROVE  Machine!Create
  BY <1>2 DEF Create, Machine!Create, Machine!Move
<1>3. ASSUME NEW w \in Workers, NEW op \in TransitionOps, Transition(w, op)
      PROVE  Machine!Next
  <2>1. /\ calls[w].op = op
        /\ task' = [task EXCEPT !.status = Target[op]]
        /\ calls[w] # NoCall
    BY <1>3 DEF Transition, NoCall, TransitionOps
  <2>2. StillValid(calls[w]) /\ task.status \in Status
    BY <2>1 DEF Safe, SerialInv, Typed, TypeOK, TaskRow, CallsGrounded
  <2>3. task'.status = Target[op]
    BY <2>1 DEF Safe, Typed, TypeOK, TaskRow
  <2>4. CASE op = "start"
    BY <2>1, <2>2, <2>3, <2>4 DEF StillValid, Target, Machine!Next, Machine!Start, Machine!Move
  <2>5. CASE op = "submit"
    BY <2>1, <2>2, <2>3, <2>5 DEF StillValid, Target, Machine!Next, Machine!Submit, Machine!Move
  <2>6. CASE op = "approve"
    BY <2>1, <2>2, <2>3, <2>6 DEF StillValid, Target, Machine!Next, Machine!Approve, Machine!Move
  <2>7. CASE op = "revise"
    BY <2>1, <2>2, <2>3, <2>7
       DEF StillValid, Target, Machine!Next, Machine!RequestRevision, Machine!Move
  <2>8. CASE op = "cancel"
    BY <2>1, <2>2, <2>3, <2>8
       DEF StillValid, Target, Terminal, Status, Machine!Next, Machine!Cancel, Machine!Move
  <2> QED
    BY <2>4, <2>5, <2>6, <2>7, <2>8 DEF TransitionOps
<1>4. ASSUME NEW w \in Workers, WriteRequest(w) PROVE Machine!RequestReassignment
  <2> DEFINE row == [by |-> calls[w].user, previous |-> calls[w].seen, status |-> "pending"]
  <2>1. /\ calls[w].op = "request"
        /\ task' = [task EXCEPT !.status = "reassignment_requested", !.requestCount = @ + 1]
        /\ requests' = Append(requests, row)
        /\ calls[w] # NoCall
    BY <1>4 DEF WriteRequest, NoCall
  <2>2. StillValid(calls[w])
    BY <2>1 DEF Safe, SerialInv
  <2>3. task'.status = "reassignment_requested"
    BY <2>1 DEF Safe, Typed, TypeOK, TaskRow
  <2>4. requests'[Len(requests')] = row
    <3>1. requests \in Seq(RequestRow) /\ Len(requests) \in Nat
      BY DEF Safe, Typed, TypeOK
    <3> HIDE DEF row
    <3> QED
      BY <2>1, <3>1
  <2> QED
    BY <2>1, <2>2, <2>3, <2>4 DEF StillValid, Machine!RequestReassignment
<1>5. ASSUME NEW w \in Workers, WriteDecision(w)
      PROVE  Machine!GrantReassignment \/ Machine!RefuseReassignment
  <2> DEFINE r == calls[w].request
             d == calls[w].op
  <2>1. /\ d \in Decisions
        /\ task' = Decided(requests[r], d)
        /\ r \in DOMAIN requests
        /\ calls[w] # NoCall
    BY <1>5 DEF WriteDecision, Safe, Typed, CallsGrounded, NoCall, Decisions
  <2>2. task.status = "reassignment_requested" /\ r = Len(requests)
    BY <2>1 DEF Safe, SerialInv, StillValid
  <2>3. requests[r].previous \in {"assigned", "in_progress"}
    BY <2>1 DEF Safe, RequestInv, Resumable
  <2>4. \/ task'.status = "draft"
        \/ task'.status = requests[Len(requests)].previous
    BY <2>1, <2>2 DEF Decided, Safe, Typed, TypeOK, TaskRow
  <2>5. task'.status # "reassignment_requested"
    BY <2>2, <2>3, <2>4
  <2> QED
    BY <2>2, <2>4, <2>5
       DEF Machine!GrantReassignment, Machine!RefuseReassignment, Machine!Move
<1> QED
  BY <1>1, <1>2, <1>3, <1>4, <1>5, StepShapes DEF Safe, Machine!Next

(* One request at a time, the handlers implement the state machine their     *)
(* comments document, for every tenant, permission assignment and history.   *)
THEOREM SerialImplementsStateMachine ==
  ASSUME OneWorker
  PROVE  Spec => ImplementsStateMachine
<1> QED
  BY MachineInit, MachineStep, SafeAlways, PTL
     DEF Spec, ImplementsStateMachine, Machine!Spec
=============================================================================
