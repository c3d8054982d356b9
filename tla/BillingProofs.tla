----------------------------- MODULE BillingProofs -----------------------------
(* Theorems about Billing for any bands, bounds and handlers.  The first     *)
(* parts are about any degree of overlap: they show that no tenant is        *)
(* restricted or deleted without a warning that is old enough, although the  *)
(* ladder acts on snapshots and webhooks write back what they read.  The last*)
(* is about handlers and jobs that do not overlap.                           *)
EXTENDS Billing, FiniteSetTheorems, TLAPS

Calls == {Idle} \cup Delivery \cup Hook \cup Confirmation \cup Order \cup PlanChange

-----------------------------------------------------------------------------
(* What the steps have in common.                                            *)

(* Beginning a call with a well-typed record keeps the handlers well typed.  *)
LEMMA BeginType ==
  ASSUME TypeOK, NEW h \in Handlers, NEW call \in Calls, Begin(h, call)
  PROVE  handlers' \in [Handlers -> Calls]
BY DEF Begin, TypeOK, RequestsOK, Calls

LEMMA FinishType ==
  ASSUME TypeOK, NEW h \in Handlers, Finish(h)
  PROVE  /\ handlers' \in [Handlers -> Calls]
         /\ handlers'[h] = Idle
         /\ \A g \in Handlers \ {h} : handlers'[g] = handlers[g]
BY DEF Finish, TypeOK, RequestsOK, Calls

(* The op of a call tells its type.                                          *)
LEMMA CallType ==
  ASSUME TypeOK, NEW h \in Handlers
  PROVE  /\ handlers[h] = Idle \/ handlers[h].op # "idle"
         /\ handlers[h].op = "arrived" => handlers[h] \in Delivery
         /\ handlers[h].op = "hook" => handlers[h] \in Hook
         /\ handlers[h].op = "confirm" => handlers[h] \in Confirmation
         /\ handlers[h].op = "plan" => handlers[h] \in PlanChange
BY DEF TypeOK, RequestsOK, Idle, Delivery, Hook, Confirmation, Order, PlanChange

LEMMA ReadType ==
  ASSUME TypeOK, NEW kind \in Kinds, NEW e \in Nat
  PROVE  Read(e, kind) \in Hook
BY DEF Read, Hook, TypeOK, RowsOK, SubscriptionRow

(* Incrementing a count, or replacing an entry, keeps the container's type   *)
(* whether or not the index is in its domain.                                *)
LEMMA CountType ==
  ASSUME NEW S, NEW f \in [S -> Nat], NEW e
  PROVE  [f EXCEPT ![e] = f[e] + 1] \in [S -> Nat]
<1>1. CASE e \in S
  <2>1. f[e] + 1 \in Nat
    BY <1>1
  <2> QED
    BY <2>1
<1>2. CASE e \notin S
  <2>1. [f EXCEPT ![e] = f[e] + 1] = f
    BY <1>2
  <2> QED
    BY <2>1
<1> QED
  BY <1>1, <1>2

LEMMA ReplaceType ==
  ASSUME NEW S, NEW s \in Seq(S), NEW i, NEW x \in S
  PROVE  [s EXCEPT ![i] = x] \in Seq(S)
<1>1. CASE i \in DOMAIN s
  BY <1>1
<1>2. CASE i \notin DOMAIN s
  <2>1. [s EXCEPT ![i] = x] = s
    BY <1>2
  <2> QED
    BY <2>1
<1> QED
  BY <1>1, <1>2
(* A status may be written to both rows.                                     *)
LEMMA SetStatusType ==
  ASSUME TypeOK, NEW status \in Statuses, SetStatus(status)
  PROVE  /\ sub' \in SubscriptionRow
         /\ company' \in CompanyRow
BY DEF SetStatus, TypeOK, RowsOK, SubscriptionRow, CompanyRow

(* The plan of a subscription that becomes active is a plan.                 *)
LEMMA RaisedType == \A plan \in Plans : Raised(plan) \in Plans
BY DEF Raised, Plans

LEMMA AnchorType ==
  ASSUME TypeOK, NEW read \in Hook
  PROVE  Anchor(read) \in Nat
BY DEF Anchor, Hook, TypeOK, RowsOK

LEMMA EffectType ==
  ASSUME TypeOK, NEW read \in Hook, Effect(read)
  PROVE  /\ sub' \in SubscriptionRow
         /\ company' \in CompanyRow
<1>1. read.plan \in Plans /\ Raised(read.plan) \in Plans /\ Anchor(read) \in Nat
  BY RaisedType, AnchorType DEF Hook
<1>2. ASSUME read.kind \in Reported, Upsert(read)
      PROVE  sub' \in SubscriptionRow /\ company' \in CompanyRow
  <2> DEFINE plan == IF read.kind = "active" THEN Raised(read.plan) ELSE read.plan
             failing == read.kind = "past_due"
             since == IF failing THEN Anchor(read) ELSE Never
  <2>1. plan \in Plans /\ since \in Nat \cup {Never} /\ read.kind \in Statuses
    BY <1>1, <1>2 DEF Reported, Statuses
  <2>2. /\ KeepsWarning(failing) \in BOOLEAN
        /\ KeepsReadOnly(failing) \in BOOLEAN
        /\ (failing /\ sub.enqueued) \in BOOLEAN
    BY DEF KeepsWarning, KeepsReadOnly
  <2>3. /\ sub' = [status |-> read.kind, plan |-> plan, linked |-> TRUE,
                   pastDueAt |-> since, warned |-> KeepsWarning(failing),
                   enqueued |-> failing /\ sub.enqueued]
        /\ company' = [company EXCEPT !.status = read.kind, !.plan = plan,
                                      !.readOnly = KeepsReadOnly(failing)]
    BY <1>2 DEF Upsert
  <2> HIDE DEF plan, failing, since
  <2>4. sub' \in SubscriptionRow
    BY <2>1, <2>2, <2>3 DEF SubscriptionRow
  <2>5. company' \in CompanyRow
    BY <2>1, <2>2, <2>3 DEF CompanyRow, TypeOK, RowsOK
  <2> QED
    BY <2>4, <2>5
<1>3. ASSUME End
      PROVE  sub' \in SubscriptionRow /\ company' \in CompanyRow
  BY <1>3, SetStatusType DEF End, Statuses
<1>4. ASSUME PaymentFailed(read)
      PROVE  sub' \in SubscriptionRow /\ company' \in CompanyRow
  BY <1>1, <1>4 DEF PaymentFailed, TypeOK, RowsOK, SubscriptionRow, CompanyRow, Statuses
<1>5. ASSUME Checkout
      PROVE  sub' \in SubscriptionRow /\ company' \in CompanyRow
  BY <1>5 DEF Checkout, TypeOK, RowsOK, SubscriptionRow
<1> QED
  BY <1>2, <1>3, <1>4, <1>5 DEF Effect

-----------------------------------------------------------------------------
(* Type correctness.                                                         *)
LEMMA TypeInit == Init => TypeOK
<1> SUFFICES ASSUME Init PROVE TypeOK
  OBVIOUS
<1>1. RowsOK
  BY DEF Init, RowsInit, RowsOK, SubscriptionRow, CompanyRow, Statuses, Plans
<1>2. RequestsOK
  BY DEF Init, RequestsInit, RequestsOK
<1>3. JobsOK
  BY DEF Init, JobsInit, JobsOK, LadderRun, NoRun
<1> QED
  BY <1>1, <1>2, <1>3 DEF TypeOK

LEMMA TypeLoad ==
  ASSUME TypeOK, NEW h \in Handlers, Load(h)
  PROVE  RowsOK' /\ RequestsOK'
<1>1. \A call : Begin(h, call) => UNCHANGED <<day, sub, company, faults>>
  BY DEF Begin
<1>2. ASSUME NEW call \in Calls, Begin(h, call)
      PROVE  RowsOK' /\ handlers' \in [Handlers -> Calls]
  BY <1>2, BeginType DEF Begin, TypeOK, RowsOK
<1>3. ASSUME Deliver(h) PROVE RowsOK' /\ RequestsOK'
  <2>1. [op |-> "arrived", event |-> Len(events) + 1] \in Calls
    BY DEF Calls, Delivery, TypeOK, RequestsOK
  <2>2. events' \in Seq({Unrecorded, Recorded})
    BY <1>3 DEF Deliver, TypeOK, RequestsOK
  <2> QED
    BY <1>2, <1>3, <2>1, <2>2 DEF Deliver, TypeOK, RequestsOK, Calls
<1>7. ASSUME Redeliver(h) PROVE RowsOK' /\ RequestsOK'
  <2>1. PICK e \in DOMAIN events : Begin(h, [op |-> "arrived", event |-> e])
    BY <1>7 DEF Redeliver
  <2>2. [op |-> "arrived", event |-> e] \in Calls
    BY <2>1 DEF Calls, Delivery, TypeOK, RequestsOK
  <2> QED
    BY <1>2, <1>7, <2>1, <2>2 DEF Redeliver, TypeOK, RequestsOK, Calls
<1>4. ASSUME RequestInvoice(h) PROVE RowsOK' /\ RequestsOK'
  <2>1. [op |-> "order"] \in Calls
    BY DEF Calls, Order
  <2> QED
    BY <1>2, <1>4, <2>1 DEF RequestInvoice, TypeOK, RequestsOK, Calls
<1>5. ASSUME ConfirmInvoice(h) PROVE RowsOK' /\ RequestsOK'
  <2>1. PICK i \in Open : Begin(h, [op |-> "confirm", invoice |-> i])
    BY <1>5 DEF ConfirmInvoice
  <2>2. [op |-> "confirm", invoice |-> i] \in Calls
    BY <2>1 DEF Calls, Confirmation, Open, TypeOK, RequestsOK
  <2> QED
    BY <1>2, <1>5, <2>1, <2>2 DEF ConfirmInvoice, TypeOK, RequestsOK, Calls
<1>6. ASSUME NEW plan \in Plans, RequestPlan(h, plan) PROVE RowsOK' /\ RequestsOK'
  <2>1. [op |-> "plan", plan |-> plan] \in Calls
    BY DEF Calls, PlanChange
  <2> QED
    BY <1>2, <1>6, <2>1 DEF RequestPlan, TypeOK, RequestsOK, Calls
<1> QED
  BY <1>3, <1>4, <1>5, <1>6, <1>7 DEF Load

LEMMA TypeReceive ==
  ASSUME TypeOK, NEW h \in Handlers, Receive(h)
  PROVE  RowsOK' /\ RequestsOK'
<1>1. ASSUME NEW kind \in Kinds, Record(h, kind) PROVE RowsOK' /\ RequestsOK'
  <2> DEFINE e == handlers[h].event
  <2>1. e \in Nat
    BY <1>1, CallType DEF Record, Delivery
  <2>2. Read(e, kind) \in Calls
    BY <2>1, ReadType DEF Calls
  <2>3. handlers' \in [Handlers -> Calls]
    BY <1>1, <2>2 DEF Record, TypeOK, RequestsOK, Calls
  <2>4. events' \in Seq({Unrecorded, Recorded})
    <3>1. events \in Seq({Unrecorded, Recorded}) /\ events' = [events EXCEPT ![e] = Recorded]
      BY <1>1 DEF Record, TypeOK, RequestsOK
    <3> HIDE DEF e
    <3> QED
      BY <3>1, ReplaceType
  <2> QED
    BY <1>1, <2>3, <2>4 DEF Record, TypeOK, RowsOK, RequestsOK, Calls
<1>2. ASSUME Duplicate(h) PROVE RowsOK' /\ RequestsOK'
  <2>1. handlers' \in [Handlers -> Calls]
    BY <1>2, FinishType DEF Duplicate
  <2> QED
    BY <1>2, <2>1 DEF Duplicate, TypeOK, RowsOK, RequestsOK, Calls
<1> QED
  BY <1>1, <1>2 DEF Receive

LEMMA TypeWrite ==
  ASSUME TypeOK, NEW h \in Handlers, Write(h)
  PROVE  RowsOK' /\ RequestsOK'
<1>1. ASSUME Apply(h) PROVE RowsOK' /\ RequestsOK'
  <2>1. handlers[h] \in Hook
    BY <1>1, CallType DEF Apply
  <2>2. sub' \in SubscriptionRow /\ company' \in CompanyRow
    BY <1>1, <2>1, EffectType DEF Apply
  <2>3. handlers' \in [Handlers -> Calls]
    BY <1>1, FinishType DEF Apply
  <2>4. applied' \in [1..MaxEvents -> Nat]
    <3> DEFINE e == handlers[h].event
    <3>1. applied \in [1..MaxEvents -> Nat]
      BY DEF TypeOK, RequestsOK
    <3>2. applied' = [applied EXCEPT ![e] = applied[e] + 1]
      BY <1>1 DEF Apply
    <3> HIDE DEF e
    <3> QED
      BY <3>1, <3>2, CountType
  <2> QED
    BY <1>1, <2>2, <2>3, <2>4 DEF Apply, TypeOK, RowsOK, RequestsOK, Calls
<1>2. ASSUME IssueInvoice(h) PROVE RowsOK' /\ RequestsOK'
  <2>1. handlers' \in [Handlers -> Calls]
    BY <1>2, FinishType DEF IssueInvoice
  <2>2. invoices' \in Seq({"open", "paid"})
    BY <1>2 DEF IssueInvoice, TypeOK, RequestsOK
  <2> QED
    BY <1>2, <2>1, <2>2 DEF IssueInvoice, TypeOK, RowsOK, RequestsOK, Calls
<1>3. ASSUME MarkPaid(h) PROVE RowsOK' /\ RequestsOK'
  <2>1. handlers' \in [Handlers -> Calls]
    BY <1>3, FinishType DEF MarkPaid
  <2>2. invoices' \in Seq({"open", "paid"})
    <3> DEFINE i == handlers[h].invoice
    <3>1. invoices \in Seq({"open", "paid"})
      BY DEF TypeOK, RequestsOK
    <3>2. invoices' = [invoices EXCEPT ![i] = "paid"]
      BY <1>3 DEF MarkPaid
    <3> HIDE DEF i
    <3> QED
      BY <3>1, <3>2, ReplaceType
  <2>3. sub' \in SubscriptionRow /\ company' \in CompanyRow
    BY <1>3 DEF MarkPaid, TypeOK, RowsOK, SubscriptionRow, CompanyRow, Statuses, Plans
  <2> QED
    BY <1>3, <2>1, <2>2, <2>3 DEF MarkPaid, TypeOK, RowsOK, RequestsOK, Calls
<1>4. ASSUME ChangePlan(h) PROVE RowsOK' /\ RequestsOK'
  <2>1. handlers[h].plan \in Plans
    BY <1>4, CallType DEF ChangePlan, PlanChange
  <2>2. handlers' \in [Handlers -> Calls]
    BY <1>4, FinishType DEF ChangePlan
  <2>3. sub' \in SubscriptionRow /\ company' \in CompanyRow
    BY <1>4, <2>1 DEF ChangePlan, TypeOK, RowsOK, SubscriptionRow, CompanyRow
  <2> QED
    BY <1>4, <2>2, <2>3 DEF ChangePlan, TypeOK, RowsOK, RequestsOK, Calls
<1> QED
  BY <1>1, <1>2, <1>3, <1>4 DEF Write

LEMMA TypeFail ==
  ASSUME TypeOK, NEW h \in Handlers, Fail(h)
  PROVE  RowsOK' /\ RequestsOK'
<1>1. handlers' \in [Handlers -> Calls]
  BY FinishType DEF Fail
<1> QED
  BY <1>1 DEF Fail, Fault, TypeOK, RowsOK, RequestsOK, Calls

(* A step of a job leaves the rest of the run well typed.                    *)
LEMMA TakeType ==
  ASSUME TypeOK, NEW step \in Steps, Take(step)
  PROVE  /\ ladder' \in LadderRun \cup {NoRun}
         /\ ladder.since \in Nat
         /\ day' \in Nat
         /\ faults' \in Nat
         /\ expiring' \in BOOLEAN
         /\ deleting' \in BOOLEAN
BY DEF Take, TypeOK, RowsOK, JobsOK, LadderRun, NoRun

LEMMA TypeJobStart ==
  ASSUME TypeOK, JobStart
  PROVE  RowsOK' /\ JobsOK'
<1>1. ASSUME Scan PROVE RowsOK' /\ JobsOK'
  <2>1. Due(sub, day - sub.pastDueAt) \subseteq Steps
    BY DEF Due
  <2>2. ladder' \in LadderRun \cup {NoRun}
    BY <1>1, <2>1 DEF Scan, LadderRun, TypeOK, RowsOK, SubscriptionRow
  <2> QED
    BY <1>1, <2>2 DEF Scan, TypeOK, RowsOK, JobsOK
<1>2. ASSUME FindEndedTrial PROVE RowsOK' /\ JobsOK'
  BY <1>2 DEF FindEndedTrial, TypeOK, RowsOK, JobsOK
<1>3. ASSUME CheckDeletion PROVE RowsOK' /\ JobsOK'
  <2>1. jobs' \in Nat
    BY <1>3 DEF CheckDeletion, TypeOK, JobsOK
  <2>2. deleting' \in BOOLEAN
    BY <1>3 DEF CheckDeletion
  <2> QED
    BY <1>3, <2>1, <2>2 DEF CheckDeletion, TypeOK, RowsOK, JobsOK
<1> QED
  BY <1>1, <1>2, <1>3 DEF JobStart

LEMMA TypeJobStep ==
  ASSUME TypeOK, JobStep
  PROVE  RowsOK' /\ JobsOK'
<1> USE DEF Steps
<1>1. ASSUME Warn PROVE RowsOK' /\ JobsOK'
  BY <1>1, TakeType DEF Warn, TypeOK, RowsOK, JobsOK
<1>2. ASSUME Stamp PROVE RowsOK' /\ JobsOK'
  BY <1>2, TakeType DEF Stamp, TypeOK, RowsOK, JobsOK, SubscriptionRow
<1>3. ASSUME MakeReadOnly PROVE RowsOK' /\ JobsOK'
  BY <1>3, TakeType DEF MakeReadOnly, TypeOK, RowsOK, JobsOK, CompanyRow
<1>4. ASSUME Pause PROVE RowsOK' /\ JobsOK'
  BY <1>4, TakeType, SetStatusType DEF Pause, TypeOK, RowsOK, JobsOK, Statuses
<1>5. ASSUME Lock PROVE RowsOK' /\ JobsOK'
  BY <1>5, TakeType, SetStatusType DEF Lock, TypeOK, RowsOK, JobsOK, Statuses
<1>6. ASSUME Enqueue PROVE RowsOK' /\ JobsOK'
  BY <1>6, TakeType DEF Enqueue, TypeOK, RowsOK, JobsOK
<1>7. ASSUME Mark PROVE RowsOK' /\ JobsOK'
  BY <1>7, TakeType DEF Mark, TypeOK, RowsOK, JobsOK, SubscriptionRow
<1>8. ASSUME ExpireTrial PROVE RowsOK' /\ JobsOK'
  BY <1>8, SetStatusType DEF ExpireTrial, TypeOK, RowsOK, JobsOK, Statuses
<1>9. ASSUME Delete PROVE RowsOK' /\ JobsOK'
  BY <1>9 DEF Delete, TypeOK, RowsOK, JobsOK, CompanyRow
<1> QED
  BY <1>1, <1>2, <1>3, <1>4, <1>5, <1>6, <1>7, <1>8, <1>9 DEF JobStep

LEMMA TypeJobCrash ==
  ASSUME TypeOK, JobCrash
  PROVE  RowsOK' /\ JobsOK'
<1>1. ASSUME LadderCrash PROVE RowsOK' /\ JobsOK'
  BY <1>1 DEF LadderCrash, Fault, TypeOK, RowsOK, JobsOK
<1>2. ASSUME TrialCrash PROVE RowsOK' /\ JobsOK'
  <2>1. RowsOK'
    BY <1>2 DEF TrialCrash, Fault, TypeOK, RowsOK
  <2>2. JobsOK'
    BY <1>2 DEF TrialCrash, TypeOK, JobsOK
  <2> QED
    BY <2>1, <2>2
<1>3. ASSUME DeletionCrash PROVE RowsOK' /\ JobsOK'
  <2>1. RowsOK'
    BY <1>3 DEF DeletionCrash, Fault, TypeOK, RowsOK
  <2>2. JobsOK'
    BY <1>3 DEF DeletionCrash, TypeOK, JobsOK
  <2> QED
    BY <2>1, <2>2
<1> QED
  BY <1>1, <1>2, <1>3 DEF JobCrash

LEMMA TypeNext == TypeOK /\ [Next]_vars => TypeOK'
<1> SUFFICES ASSUME TypeOK, [Next]_vars PROVE TypeOK'
  OBVIOUS
<1>1. UNCHANGED jobVars => JobsOK'
  BY DEF jobVars, TypeOK, JobsOK
<1>2. UNCHANGED requestVars => RequestsOK'
  BY DEF requestVars, TypeOK, RequestsOK
<1>3. ASSUME NEW h \in Handlers, ApiStep(h) PROVE TypeOK'
  BY <1>1, <1>3, TypeLoad, TypeReceive, TypeWrite, TypeFail DEF ApiStep, TypeOK
<1>4. CASE WorkerStart
  BY <1>2, <1>4, TypeJobStart DEF WorkerStart, TypeOK
<1>5. CASE WorkerStep
  BY <1>2, <1>5, TypeJobStep DEF WorkerStep, TypeOK
<1>6. CASE WorkerCrash
  BY <1>2, <1>6, TypeJobCrash DEF WorkerCrash, TypeOK
<1>7. CASE Tomorrow
  <2>1. RowsOK'
    BY <1>7 DEF Tomorrow, DayPasses, TypeOK, RowsOK
  <2> QED
    BY <1>1, <1>2, <1>7, <2>1 DEF Tomorrow, TypeOK
<1>8. CASE UNCHANGED vars
  <2>1. RowsOK'
    BY <1>8 DEF vars, TypeOK, RowsOK
  <2> QED
    BY <1>1, <1>2, <1>8, <2>1 DEF vars, TypeOK
<1> QED
  BY <1>3, <1>4, <1>5, <1>6, <1>7, <1>8 DEF Next

\* The rows, the calls in flight and the state of the jobs keep their types.
THEOREM TypeCorrect == Spec => []TypeOK
BY TypeInit, TypeNext, PTL DEF Spec

-----------------------------------------------------------------------------
(* The two rows stay in step.                                                *)

(* A handler writes the rows at its end only.                                *)
LEMMA LoadsChangeNoRow ==
  ASSUME NEW h \in Handlers, Load(h) \/ Receive(h)
  PROVE  UNCHANGED <<day, sub, company>>
BY DEF Load, Deliver, Redeliver, RequestInvoice, ConfirmInvoice, RequestPlan, Begin,
       Receive, Record, Duplicate

LEMMA SyncInit == Init => RowsInSync
BY DEF Init, RowsInit, RowsInSync

LEMMA SyncSetStatus ==
  ASSUME TypeOK, RowsInSync, NEW status, SetStatus(status)
  PROVE  RowsInSync'
BY DEF SetStatus, RowsInSync, TypeOK, RowsOK, SubscriptionRow, CompanyRow

LEMMA SyncEffect ==
  ASSUME TypeOK, RowsInSync, NEW read \in Hook, Effect(read)
  PROVE  RowsInSync'
<1> USE DEF TypeOK, RowsOK, SubscriptionRow, CompanyRow
<1>1. ASSUME Upsert(read) PROVE RowsInSync'
  BY <1>1 DEF Upsert, RowsInSync
<1>2. ASSUME End PROVE RowsInSync'
  BY <1>2, SyncSetStatus DEF End
<1>3. ASSUME PaymentFailed(read) PROVE RowsInSync'
  BY <1>3 DEF PaymentFailed, RowsInSync
<1>4. ASSUME Checkout PROVE RowsInSync'
  BY <1>4 DEF Checkout, RowsInSync
<1> QED
  BY <1>1, <1>2, <1>3, <1>4 DEF Effect

LEMMA SyncApi ==
  ASSUME TypeOK, RowsInSync, NEW h \in Handlers, ApiStep(h)
  PROVE  RowsInSync'
<1> USE DEF TypeOK, RowsOK, SubscriptionRow, CompanyRow
<1>1. UNCHANGED <<sub, company>> => RowsInSync'
  BY DEF RowsInSync
<1>2. ASSUME Load(h) \/ Receive(h) PROVE UNCHANGED <<sub, company>>
  BY <1>2, LoadsChangeNoRow
<1>3. ASSUME Fail(h) PROVE UNCHANGED <<sub, company>>
  BY <1>3 DEF Fail
<1>4. ASSUME Apply(h) PROVE RowsInSync'
  <2>1. handlers[h] \in Hook
    BY <1>4, CallType DEF Apply
  <2> QED
    BY <1>4, <2>1, SyncEffect DEF Apply
<1>5. ASSUME IssueInvoice(h) PROVE UNCHANGED <<sub, company>>
  BY <1>5 DEF IssueInvoice
<1>6. ASSUME MarkPaid(h) PROVE RowsInSync'
  BY <1>6 DEF MarkPaid, RowsInSync
<1>7. ASSUME ChangePlan(h) PROVE RowsInSync'
  BY <1>7 DEF ChangePlan, RowsInSync
<1> QED
  BY <1>1, <1>2, <1>3, <1>4, <1>5, <1>6, <1>7 DEF ApiStep, Write

LEMMA SyncJob ==
  ASSUME TypeOK, RowsInSync, JobStep
  PROVE  RowsInSync'
<1> USE DEF TypeOK, RowsOK, SubscriptionRow, CompanyRow, RowsInSync
<1>1. ASSUME Warn \/ Enqueue PROVE RowsInSync'
  BY <1>1 DEF Warn, Enqueue
<1>2. ASSUME Stamp \/ Mark PROVE RowsInSync'
  BY <1>2 DEF Stamp, Mark
<1>3. ASSUME MakeReadOnly \/ Delete PROVE RowsInSync'
  BY <1>3 DEF MakeReadOnly, Delete
<1>4. ASSUME Pause \/ Lock \/ ExpireTrial PROVE RowsInSync'
  BY <1>4, SyncSetStatus DEF Pause, Lock, ExpireTrial
<1> QED
  BY <1>1, <1>2, <1>3, <1>4 DEF JobStep

LEMMA SyncNext == TypeOK /\ RowsInSync /\ [Next]_vars => RowsInSync'
<1> SUFFICES ASSUME TypeOK, RowsInSync, [Next]_vars PROVE RowsInSync'
  OBVIOUS
<1>1. UNCHANGED <<sub, company>> => RowsInSync'
  BY DEF RowsInSync
<1>2. ASSUME WorkerStart \/ WorkerCrash \/ Tomorrow \/ UNCHANGED vars
      PROVE  UNCHANGED <<sub, company>>
  BY <1>2 DEF WorkerStart, JobStart, Scan, FindEndedTrial, CheckDeletion, WorkerCrash,
              JobCrash, LadderCrash, TrialCrash, DeletionCrash, Tomorrow, DayPasses, vars
<1>3. ASSUME WorkerStep PROVE RowsInSync'
  BY <1>3, SyncJob DEF WorkerStep
<1> QED
  BY <1>1, <1>2, <1>3, SyncApi DEF Next

\* No interleaving of webhooks, requests and jobs lets the companies row drift
\* from the subscriptions row it repeats.
THEOREM RowsStayInSync == Spec => []RowsInSync
BY SyncInit, SyncNext, TypeCorrect, PTL DEF Spec

-----------------------------------------------------------------------------
(* Idempotency of the webhooks.                                              *)
IsHook(h) == handlers[h].op = "hook"
IsDelivery(h) == handlers[h].op = "arrived"

(* A webhook past its insert has an event of its own, recorded and not yet   *)
(* applied; deliveries before it may be of any event that was sent.          *)
HooksAreFresh ==
  /\ Len(events) <= MaxEvents
  /\ \A e \in 1..MaxEvents : e > Len(events) => applied[e] = 0
  /\ \A e \in 1..Len(events) : events[e] = Unrecorded => applied[e] = 0
  /\ \A h \in Handlers : IsDelivery(h) => handlers[h].event \in 1..Len(events)
  /\ \A h \in Handlers : IsHook(h) => /\ handlers[h].event \in 1..Len(events)
                                      /\ events[handlers[h].event] # Unrecorded
                                      /\ applied[handlers[h].event] = 0
  /\ \A h, g \in Handlers :
       h # g /\ IsHook(h) /\ IsHook(g) => handlers[h].event # handlers[g].event

OnceInv == AppliedAtMostOnce /\ HooksAreFresh

LEMMA OnceInit == Init => OnceInv
<1> SUFFICES ASSUME Init PROVE OnceInv
  OBVIOUS
<1>1. /\ events = <<>> /\ Len(events) = 0
      /\ applied = [e \in 1..MaxEvents |-> 0]
      /\ \A h \in Handlers : ~IsHook(h) /\ ~IsDelivery(h)
  BY DEF Init, RequestsInit, IsHook, IsDelivery, Idle
<1>2. MaxEvents \in Nat
  BY RequestBoundsAssumption
<1> QED
  BY <1>1, <1>2 DEF OnceInv, AppliedAtMostOnce, HooksAreFresh

(* Beginning or ending a call without touching the tables; a delivery is of  *)
(* an event that was sent.                                                   *)
LEMMA OnceOther ==
  ASSUME TypeOK, OnceInv, NEW h \in Handlers, NEW call, call.op # "hook",
         call.op = "arrived" => call.event \in 1..Len(events),
         handlers' = [handlers EXCEPT ![h] = call], UNCHANGED <<events, applied>>
  PROVE  OnceInv'
<1>1. \A g \in Handlers : IsHook(g)' => IsHook(g) /\ handlers'[g] = handlers[g]
  BY DEF TypeOK, RequestsOK, IsHook
<1>2. \A g \in Handlers : IsDelivery(g)' => handlers'[g].event \in 1..Len(events)
  BY DEF TypeOK, RequestsOK, IsDelivery, OnceInv, HooksAreFresh
<1> QED
  BY <1>1, <1>2 DEF OnceInv, AppliedAtMostOnce, HooksAreFresh

LEMMA OnceDeliver ==
  ASSUME TypeOK, OnceInv, NEW h \in Handlers, Deliver(h)
  PROVE  OnceInv'
<1> DEFINE e == Len(events) + 1
<1>1. /\ events \in Seq({Unrecorded, Recorded}) /\ events' = Append(events, Unrecorded)
      /\ Len(events) \in Nat /\ Len(events') = e /\ e \in 1..MaxEvents
      /\ events'[e] = Unrecorded /\ \A n \in 1..Len(events) : events'[n] = events[n]
      /\ UNCHANGED applied
  BY RequestBoundsAssumption DEF Deliver, TypeOK, RequestsOK
<1>2. applied[e] = 0
  BY <1>1 DEF OnceInv, HooksAreFresh
<1>3. handlers' = [handlers EXCEPT ![h] = [op |-> "arrived", event |-> e]]
  BY DEF Deliver, Begin
<1>4. IsDelivery(h)' /\ ~IsHook(h)' /\ handlers'[h].event = e
  BY <1>3 DEF TypeOK, RequestsOK, IsHook, IsDelivery
<1>5. \A g \in Handlers \ {h} : /\ handlers'[g] = handlers[g]
                                /\ IsHook(g)' <=> IsHook(g)
                                /\ IsDelivery(g)' <=> IsDelivery(g)
  BY <1>3 DEF TypeOK, RequestsOK, IsHook, IsDelivery
<1>6. \A g \in Handlers : IsDelivery(g)' => handlers'[g].event \in 1..e
  BY <1>1, <1>4, <1>5 DEF OnceInv, HooksAreFresh
<1>7. \A g \in Handlers : IsHook(g)' => /\ handlers'[g].event \in 1..e
                                        /\ events'[handlers'[g].event] # Unrecorded
                                        /\ applied[handlers'[g].event] = 0
  BY <1>1, <1>4, <1>5 DEF OnceInv, HooksAreFresh
<1>8. \A f, g \in Handlers :
        f # g /\ IsHook(f)' /\ IsHook(g)' => handlers'[f].event # handlers'[g].event
  BY <1>4, <1>5 DEF OnceInv, HooksAreFresh
<1>9. /\ \A n \in 1..MaxEvents : n > e => applied[n] = 0
      /\ \A n \in 1..e : events'[n] = Unrecorded => applied[n] = 0
  BY <1>1, <1>2 DEF OnceInv, HooksAreFresh
<1> QED
  BY <1>1, <1>6, <1>7, <1>8, <1>9 DEF OnceInv, AppliedAtMostOnce, HooksAreFresh

(* The unique constraint: of the deliveries of one event, one becomes a      *)
(* webhook with something to do.                                             *)
LEMMA OnceRecord ==
  ASSUME TypeOK, OnceInv, NEW h \in Handlers, NEW kind \in Kinds, Record(h, kind)
  PROVE  OnceInv'
<1> DEFINE e == handlers[h].event
<1>1. /\ IsDelivery(h) /\ events[e] = Unrecorded /\ UNCHANGED applied
      /\ events \in Seq({Unrecorded, Recorded}) /\ Len(events) \in Nat
      /\ e \in 1..Len(events)
      /\ events' = [events EXCEPT ![e] = Recorded]
      /\ handlers' = [handlers EXCEPT ![h] = Read(e, kind)]
  BY DEF Record, IsDelivery, TypeOK, RequestsOK, OnceInv, HooksAreFresh
<1>2. Recorded # Unrecorded
  BY DEF Recorded, Unrecorded
<1>3. handlers'[h].op = "hook" /\ handlers'[h].event = e
  BY <1>1 DEF Read, TypeOK, RequestsOK
<1> HIDE DEF e
<1>4. /\ Len(events') = Len(events) /\ events'[e] = Recorded
      /\ \A n \in 1..Len(events) : n # e => events'[n] = events[n]
  BY <1>1
<1>5. \A g \in Handlers \ {h} : /\ handlers'[g] = handlers[g]
                                /\ IsHook(g)' <=> IsHook(g)
                                /\ IsDelivery(g)' <=> IsDelivery(g)
  BY <1>1 DEF TypeOK, RequestsOK, IsHook, IsDelivery
<1>6. applied[e] = 0
  BY <1>1 DEF OnceInv, HooksAreFresh
<1>7. \A g \in Handlers \ {h} : IsHook(g) => handlers[g].event # e
  BY <1>1 DEF OnceInv, HooksAreFresh
<1>8. \A g \in Handlers : IsDelivery(g)' => handlers'[g].event \in 1..Len(events)
  BY <1>1, <1>3, <1>5 DEF OnceInv, HooksAreFresh
<1>9. \A g \in Handlers : IsHook(g)' => /\ handlers'[g].event \in 1..Len(events)
                                        /\ events'[handlers'[g].event] # Unrecorded
                                        /\ applied[handlers'[g].event] = 0
  BY <1>1, <1>2, <1>3, <1>4, <1>5, <1>6, <1>7 DEF OnceInv, HooksAreFresh
<1>10. \A f, g \in Handlers :
         f # g /\ IsHook(f)' /\ IsHook(g)' => handlers'[f].event # handlers'[g].event
  BY <1>3, <1>5, <1>7 DEF OnceInv, HooksAreFresh
<1>11. /\ \A n \in 1..MaxEvents : n > Len(events) => applied[n] = 0
       /\ \A n \in 1..Len(events) : events'[n] = Unrecorded => applied[n] = 0
  BY <1>2, <1>4, <1>6 DEF OnceInv, HooksAreFresh
<1> QED
  BY <1>1, <1>4, <1>8, <1>9, <1>10, <1>11 DEF OnceInv, AppliedAtMostOnce, HooksAreFresh

LEMMA OnceApply ==
  ASSUME TypeOK, OnceInv, NEW h \in Handlers, Apply(h)
  PROVE  OnceInv'
<1> DEFINE e == handlers[h].event
<1>1. /\ IsHook(h) /\ events' = events
      /\ applied' = [applied EXCEPT ![e] = applied[e] + 1]
      /\ applied \in [1..MaxEvents -> Nat]
  BY DEF Apply, IsHook, TypeOK, RequestsOK
<1>2. e \in 1..Len(events) /\ applied[e] = 0 /\ Len(events) <= MaxEvents
      /\ events[e] # Unrecorded
      /\ Len(events) \in Nat /\ MaxEvents \in Nat
  BY <1>1, RequestBoundsAssumption DEF OnceInv, HooksAreFresh, TypeOK, RequestsOK
<1>3. e \in 1..MaxEvents
  BY <1>2
<1> HIDE DEF e
<1>4. applied'[e] = 1 /\ \A n \in 1..MaxEvents \ {e} : applied'[n] = applied[n]
  BY <1>1, <1>2, <1>3
<1>5. handlers' = [handlers EXCEPT ![h] = Idle]
  BY DEF Apply, Finish
<1>12. \A g \in Handlers : IsDelivery(g)' => handlers'[g].event \in 1..Len(events)
  BY <1>5 DEF IsDelivery, Idle, TypeOK, RequestsOK, OnceInv, HooksAreFresh
<1>6. \A g \in Handlers : IsHook(g)' =>
        g # h /\ IsHook(g) /\ handlers'[g] = handlers[g] /\ handlers[g].event # e
  BY <1>1, <1>5 DEF e, IsHook, Idle, TypeOK, RequestsOK, OnceInv, HooksAreFresh
<1>7. DOMAIN applied' = 1..MaxEvents /\ DOMAIN applied = 1..MaxEvents
  BY <1>1
<1>8. AppliedAtMostOnce'
  BY <1>4, <1>7 DEF OnceInv, AppliedAtMostOnce
<1>9. /\ \A n \in 1..MaxEvents : n > Len(events) => applied'[n] = 0
      /\ \A n \in 1..Len(events) : events[n] = Unrecorded => applied'[n] = 0
  BY <1>2, <1>4 DEF OnceInv, HooksAreFresh
<1>10. \A g \in Handlers : IsHook(g)' => /\ handlers'[g].event \in 1..Len(events)
                                         /\ events[handlers'[g].event] # Unrecorded
                                         /\ applied'[handlers'[g].event] = 0
  BY <1>2, <1>4, <1>6 DEF OnceInv, HooksAreFresh
<1>11. \A f, g \in Handlers :
        f # g /\ IsHook(f)' /\ IsHook(g)' => handlers'[f].event # handlers'[g].event
  BY <1>6 DEF OnceInv, HooksAreFresh
<1> QED
  BY <1>1, <1>2, <1>8, <1>9, <1>10, <1>11, <1>12 DEF OnceInv, HooksAreFresh

LEMMA OnceNext == TypeOK /\ OnceInv /\ [Next]_vars => OnceInv'
<1> SUFFICES ASSUME TypeOK, OnceInv, [Next]_vars PROVE OnceInv'
  OBVIOUS
<1>1. UNCHANGED <<handlers, events, applied>> => OnceInv'
  BY DEF OnceInv, AppliedAtMostOnce, HooksAreFresh, IsHook, IsDelivery
<1>2. ASSUME WorkerStart \/ WorkerStep \/ WorkerCrash \/ Tomorrow \/ UNCHANGED vars
      PROVE  UNCHANGED <<handlers, events, applied>>
  BY <1>2 DEF WorkerStart, WorkerStep, WorkerCrash, Tomorrow, vars, requestVars
<1>3. ASSUME NEW h \in Handlers, Load(h) PROVE OnceInv'
  <2>1. ASSUME RequestInvoice(h) PROVE OnceInv'
    BY <2>1, OnceOther DEF RequestInvoice, Begin
  <2>2. ASSUME ConfirmInvoice(h) PROVE OnceInv'
    <3>1. PICK i \in Open : Begin(h, [op |-> "confirm", invoice |-> i])
      BY <2>2 DEF ConfirmInvoice
    <3> QED
      BY <2>2, <3>1, OnceOther DEF ConfirmInvoice, Begin
  <2>3. ASSUME NEW plan \in Plans, RequestPlan(h, plan) PROVE OnceInv'
    BY <2>3, OnceOther DEF RequestPlan, Begin
  <2>4. ASSUME Redeliver(h) PROVE OnceInv'
    <3>1. PICK e \in DOMAIN events : Begin(h, [op |-> "arrived", event |-> e])
      BY <2>4 DEF Redeliver
    <3>2. e \in 1..Len(events)
      BY DEF TypeOK, RequestsOK
    <3> QED
      BY <2>4, <3>1, <3>2, OnceOther DEF Redeliver, Begin
  <2> QED
    BY <1>3, <2>1, <2>2, <2>3, <2>4, OnceDeliver DEF Load
<1>4. ASSUME NEW h \in Handlers,
             Duplicate(h) \/ IssueInvoice(h) \/ MarkPaid(h) \/ ChangePlan(h) \/ Fail(h)
      PROVE  OnceInv'
  <2>1. Finish(h) /\ UNCHANGED <<events, applied>>
    BY <1>4 DEF Duplicate, IssueInvoice, MarkPaid, ChangePlan, Fail
  <2>2. Idle.op \notin {"hook", "arrived"}
    BY DEF Idle
  <2> QED
    BY <2>1, <2>2, OnceOther DEF Finish
<1> QED
  BY <1>1, <1>2, <1>3, <1>4, OnceRecord, OnceApply DEF Next, ApiStep, Receive, Write

\* However often an event is delivered, by handlers that interleave or fail in
\* any way, its effect is committed at most once.
THEOREM EventsApplyOnce == Spec => []AppliedAtMostOnce
<1>1. OnceInv => AppliedAtMostOnce
  BY DEF OnceInv
<1> QED
  BY <1>1, OnceInit, OnceNext, TypeCorrect, PTL DEF Spec

-----------------------------------------------------------------------------
(* Warnings come first.  The argument is about the days a dunning cycle may  *)
(* be counted from: the one in the row and the ones webhooks in flight have  *)
(* read.  Requests do not last overnight, so at most one of these days lies  *)
(* before today.                                                             *)
Anchors == ({sub.pastDueAt} \cup
              {handlers[h].pastDueAt : h \in {g \in Handlers : IsHook(g)}}) \ {Never}

AnchorsAgree == /\ \A x \in Anchors : x <= day
                /\ \A x, y \in Anchors : x < day /\ y < day => x = y

(* A ladder run is about a cycle no later than any that can still be counted *)
(* from, and carries the age its steps need; past its first step, a warning  *)
(* about its cycle, or one before it, has been sent.                         *)
RunIsDue ==
  ladder # NoRun =>
    /\ ladder.since + WarnDay <= day
    /\ \A x \in Anchors : ladder.since <= x
    /\ "warn" \notin ladder.todo => \E w \in warnings : w <= ladder.since
    /\ "stamp" \in ladder.todo /\ "warn" \notin ladder.todo => ladder.since \in warnings
    /\ "restrict" \in ladder.todo => ladder.since + ReadOnlyDay <= day
    /\ "enqueue" \in ladder.todo => ladder.since + DeleteDay <= day

StampIsBacked ==
  sub.warned => \E w \in warnings : w <= day /\ \A x \in Anchors : w <= x

WarnInv == AnchorsAgree /\ RunIsDue /\ StampIsBacked
             /\ ReadOnlyWasWarned /\ DeletionWasWarned

-----------------------------------------------------------------------------
LEMMA AnchorsType == TypeOK => Anchors \subseteq Nat /\ warnings \subseteq Nat /\ day \in Nat
<1> SUFFICES ASSUME TypeOK
             PROVE  Anchors \subseteq Nat /\ warnings \subseteq Nat /\ day \in Nat
  OBVIOUS
<1>1. sub.pastDueAt \in Nat \cup {Never}
  BY DEF TypeOK, RowsOK, SubscriptionRow
<1>2. \A h \in Handlers : IsHook(h) => handlers[h].pastDueAt \in Nat \cup {Never}
  BY CallType DEF IsHook, Hook
<1> QED
  BY <1>1, <1>2 DEF Anchors, TypeOK, RowsOK, JobsOK

LEMMA WarnInit == Init => WarnInv
<1> SUFFICES ASSUME Init PROVE WarnInv
  OBVIOUS
<1>1. Anchors = {}
  BY DEF Init, RowsInit, RequestsInit, Anchors, IsHook, Idle
<1>2. /\ ladder = NoRun /\ jobs = 0 /\ ~deleting /\ ~sub.warned
      /\ ~company.readOnly /\ ~company.deleted
  BY DEF Init, RowsInit, JobsInit
<1> QED
  BY <1>1, <1>2 DEF WarnInv, AnchorsAgree, RunIsDue, StampIsBacked, ReadOnlyWasWarned,
                    DeletionWasWarned

(* A step within a day that neither continues nor starts a ladder run, and   *)
(* starts no cycle but today's, no stamp, no restriction and no deletion.    *)
LEMMA WarnKept ==
  ASSUME TypeOK, WarnInv, Anchors' \subseteq Anchors \cup {day},
         UNCHANGED <<day, warnings>>, ladder' = ladder \/ ladder' = NoRun,
         sub'.warned => sub.warned, company'.readOnly => company.readOnly,
         jobs' > 0 \/ deleting' \/ company'.deleted
           => jobs > 0 \/ deleting \/ company.deleted
  PROVE  WarnInv'
<1> USE BandsAssumption
<1>1. /\ Anchors \subseteq Nat /\ Anchors' \subseteq Nat /\ day \in Nat
      /\ warnings \subseteq Nat
  BY AnchorsType
<1>2. AnchorsAgree'
  BY <1>1 DEF WarnInv, AnchorsAgree
<1>3. RunIsDue'
  <2>1. ladder # NoRun => ladder.since \in Nat /\ ladder.since <= day
    BY <1>1 DEF WarnInv, RunIsDue, TypeOK, JobsOK, LadderRun
  <2> QED
    BY <1>1, <2>1 DEF WarnInv, RunIsDue
<1>4. StampIsBacked'
  BY <1>1 DEF WarnInv, StampIsBacked
<1>5. ReadOnlyWasWarned' /\ DeletionWasWarned'
  BY DEF WarnInv, ReadOnlyWasWarned, DeletionWasWarned
<1> QED
  BY <1>2, <1>3, <1>4, <1>5 DEF WarnInv

(* A call that begins has read today's row; a call that ends is forgotten.   *)
LEMMA AnchorsBegin ==
  ASSUME TypeOK, NEW h \in Handlers, NEW call, Begin(h, call),
         call.op = "hook" => call.pastDueAt = sub.pastDueAt
  PROVE  Anchors' \subseteq Anchors
<1>1. /\ handlers' = [handlers EXCEPT ![h] = call] /\ sub' = sub
      /\ handlers \in [Handlers -> Calls]
  BY DEF Begin, TypeOK, RequestsOK, Calls
<1>2. \A g \in Handlers : IsHook(g)' =>
        \/ IsHook(g) /\ handlers'[g].pastDueAt = handlers[g].pastDueAt
        \/ handlers'[g].pastDueAt = sub.pastDueAt
  BY <1>1 DEF IsHook
<1> QED
  BY <1>1, <1>2 DEF Anchors

LEMMA AnchorsRecord ==
  ASSUME TypeOK, NEW h \in Handlers, NEW kind \in Kinds, Record(h, kind)
  PROVE  Anchors' \subseteq Anchors
<1>1. /\ handlers' = [handlers EXCEPT ![h] = Read(handlers[h].event, kind)] /\ sub' = sub
      /\ handlers \in [Handlers -> Calls]
  BY DEF Record, TypeOK, RequestsOK, Calls
<1>2. \A g \in Handlers : IsHook(g)' =>
        \/ IsHook(g) /\ handlers'[g].pastDueAt = handlers[g].pastDueAt
        \/ handlers'[g].pastDueAt = sub.pastDueAt
  BY <1>1 DEF IsHook, Read
<1> QED
  BY <1>1, <1>2 DEF Anchors

LEMMA AnchorsFinish ==
  ASSUME TypeOK, NEW h \in Handlers, Finish(h)
  PROVE  Anchors' \subseteq Anchors \cup {sub'.pastDueAt}
<1>1. /\ handlers' = [handlers EXCEPT ![h] = Idle]
      /\ handlers \in [Handlers -> Calls]
  BY DEF Finish, TypeOK, RequestsOK, Calls
<1>2. \A g \in Handlers : IsHook(g)' => IsHook(g) /\ handlers'[g] = handlers[g]
  BY <1>1 DEF IsHook, Idle
<1> QED
  BY <1>2 DEF Anchors

LEMMA WarnApply ==
  ASSUME TypeOK, WarnInv, NEW h \in Handlers, Apply(h), UNCHANGED jobVars
  PROVE  WarnInv'
<1> DEFINE read == handlers[h]
<1>1. read \in Hook /\ IsHook(h) /\ Effect(read) /\ Finish(h)
  BY CallType DEF Apply, IsHook
<1>2. /\ sub'.warned => sub.warned
      /\ company'.readOnly => company.readOnly
      /\ company'.deleted => company.deleted
  <2> HIDE DEF read
  <2> USE DEF TypeOK, RowsOK, SubscriptionRow, CompanyRow
  <2>1. ASSUME Upsert(read)
        PROVE  /\ sub'.warned => sub.warned
               /\ company'.readOnly => company.readOnly
               /\ company'.deleted = company.deleted
    <3> DEFINE failing == read.kind = "past_due"
    <3>1. /\ sub'.warned = KeepsWarning(failing)
          /\ company'.readOnly = KeepsReadOnly(failing)
          /\ company'.deleted = company.deleted
      BY <2>1 DEF Upsert
    <3> QED
      BY <3>1 DEF KeepsWarning, KeepsReadOnly
  <2>2. ASSUME End \/ PaymentFailed(read) \/ Checkout
        PROVE  /\ sub'.warned = sub.warned
               /\ company'.readOnly = company.readOnly
               /\ company'.deleted = company.deleted
    BY <2>2 DEF End, SetStatus, PaymentFailed, Checkout
  <2> QED
    BY <1>1, <2>1, <2>2 DEF Effect
<1>3. read.pastDueAt \in Anchors \cup {Never} /\ sub.pastDueAt \in Anchors \cup {Never}
  BY <1>1 DEF Anchors
<1>4. Anchor(read) \in Anchors \cup {day}
  BY <1>3 DEF Anchor
<1>5. sub'.pastDueAt \in Anchors \cup {day, Never}
  <2> HIDE DEF read
  <2>1. ASSUME Upsert(read) PROVE sub'.pastDueAt \in {Anchor(read), Never}
    BY <2>1 DEF Upsert
  <2>2. ASSUME End PROVE sub'.pastDueAt = sub.pastDueAt
    BY <2>2 DEF End, SetStatus, TypeOK, RowsOK, SubscriptionRow
  <2>3. ASSUME PaymentFailed(read) PROVE sub'.pastDueAt = Anchor(read)
    BY <2>3 DEF PaymentFailed, TypeOK, RowsOK, SubscriptionRow
  <2>4. ASSUME Checkout PROVE sub'.pastDueAt = sub.pastDueAt
    BY <2>4 DEF Checkout, TypeOK, RowsOK, SubscriptionRow
  <2> QED
    BY <1>1, <1>3, <1>4, <2>1, <2>2, <2>3, <2>4 DEF Effect
<1>6. Never \notin Anchors'
  BY DEF Anchors
<1>7. Anchors' \subseteq Anchors \cup {day}
  BY <1>1, <1>5, <1>6, AnchorsFinish
<1>8. UNCHANGED <<day, ladder, jobs, deleting, warnings>>
  BY DEF Apply, jobVars
<1> QED
  BY <1>2, <1>7, <1>8, WarnKept

LEMMA WarnApi ==
  ASSUME TypeOK, WarnInv, NEW h \in Handlers, ApiStep(h)
  PROVE  WarnInv'
<1>1. UNCHANGED jobVars /\ UNCHANGED <<ladder, jobs, deleting, warnings>>
  BY DEF ApiStep, jobVars
<1>2. ASSUME Load(h) PROVE WarnInv'
  <2>1. UNCHANGED <<day, sub, company>>
    BY <1>2, LoadsChangeNoRow
  <2>2. Anchors' \subseteq Anchors
    <3>1. ASSUME Deliver(h) \/ Redeliver(h) PROVE Anchors' \subseteq Anchors
      BY <3>1, AnchorsBegin DEF Deliver, Redeliver
    <3>2. ASSUME RequestInvoice(h) PROVE Anchors' \subseteq Anchors
      BY <3>2, AnchorsBegin DEF RequestInvoice
    <3>3. ASSUME ConfirmInvoice(h) PROVE Anchors' \subseteq Anchors
      BY <3>3, AnchorsBegin DEF ConfirmInvoice
    <3>4. ASSUME NEW plan \in Plans, RequestPlan(h, plan) PROVE Anchors' \subseteq Anchors
      BY <3>4, AnchorsBegin DEF RequestPlan
    <3> QED
      BY <1>2, <3>1, <3>2, <3>3, <3>4 DEF Load
  <2> QED
    BY <1>1, <2>1, <2>2, WarnKept
<1>4. ASSUME NEW kind \in Kinds, Record(h, kind) PROVE WarnInv'
  <2>1. UNCHANGED <<day, sub, company>>
    BY <1>4 DEF Record
  <2>2. Anchors' \subseteq Anchors
    BY <1>4, AnchorsRecord
  <2> QED
    BY <1>1, <2>1, <2>2, WarnKept
<1>3. ASSUME Duplicate(h) \/ IssueInvoice(h) \/ MarkPaid(h) \/ ChangePlan(h) \/ Fail(h)
      PROVE  WarnInv'
  <2>1. /\ Finish(h) /\ day' = day
        /\ sub'.pastDueAt = sub.pastDueAt /\ sub'.warned = sub.warned
        /\ company'.readOnly = company.readOnly /\ company'.deleted = company.deleted
    BY <1>3 DEF Duplicate, IssueInvoice, MarkPaid, ChangePlan, Fail, TypeOK, RowsOK,
                SubscriptionRow, CompanyRow
  <2>2. Anchors' \subseteq Anchors
    <3>1. Anchors' \subseteq Anchors \cup {sub.pastDueAt}
      BY <2>1, AnchorsFinish
    <3> QED
      BY <3>1 DEF Anchors
  <2> QED
    BY <1>1, <2>1, <2>2, WarnKept
<1> QED
  BY <1>1, <1>2, <1>3, <1>4, WarnApply DEF ApiStep, Receive, Write

-----------------------------------------------------------------------------
(* The worker process.                                                       *)

(* The steps of a job leave the calls alone; the days that can be counted    *)
(* from depend on the row only through past_due_at.                          *)
LEMMA AnchorsSame ==
  ASSUME UNCHANGED handlers, sub'.pastDueAt = sub.pastDueAt
  PROVE  Anchors' = Anchors
BY DEF Anchors, IsHook

LEMMA WarnScan ==
  ASSUME TypeOK, WarnInv, Scan, UNCHANGED requestVars
  PROVE  WarnInv'
<1> DEFINE p == sub.pastDueAt
<1> USE BandsAssumption
<1>1. /\ UNCHANGED <<day, sub, company, jobs, deleting, warnings, handlers>>
      /\ ladder' = [todo |-> Due(sub, day - p), since |-> p]
      /\ Due(sub, day - p) # {}
      /\ p \in Anchors /\ p \in Nat
  BY DEF Scan, requestVars, Anchors, TypeOK, RowsOK, SubscriptionRow
<1>2. Anchors' = Anchors /\ Anchors \subseteq Nat /\ warnings \subseteq Nat /\ day \in Nat
  BY <1>1, AnchorsSame, AnchorsType
<1>3. /\ p + WarnDay <= day
      /\ "restrict" \in ladder'.todo => p + ReadOnlyDay <= day
      /\ "enqueue" \in ladder'.todo => p + DeleteDay <= day
      /\ "stamp" \in ladder'.todo => "warn" \in ladder'.todo
      /\ "warn" \notin ladder'.todo => sub.warned
  <2>1. /\ day - p >= WarnDay
        /\ "restrict" \in ladder'.todo => day - p >= ReadOnlyDay
        /\ "enqueue" \in ladder'.todo => day - p >= DeleteDay
        /\ "stamp" \in ladder'.todo => "warn" \in ladder'.todo
        /\ day - p >= WarnDay /\ "warn" \notin ladder'.todo => sub.warned
    BY <1>1, <1>2 DEF Due, Warns, Restricts, Pauses, Locks, Deletes, Steps
  <2> QED
    BY <1>1, <1>2, <2>1
<1>4. \A x \in Anchors : p <= x
  <2> SUFFICES ASSUME NEW x \in Anchors PROVE p <= x
    OBVIOUS
  <2>1. p < day /\ x <= day /\ (x < day => x = p)
    BY <1>1, <1>2, <1>3 DEF WarnInv, AnchorsAgree
  <2> QED
    BY <1>1, <1>2, <2>1
<1>5. sub.warned => \E w \in warnings : w <= p
  BY <1>1 DEF WarnInv, StampIsBacked
<1>6. RunIsDue'
  BY <1>1, <1>2, <1>3, <1>4, <1>5 DEF RunIsDue
<1>7. AnchorsAgree' /\ StampIsBacked' /\ ReadOnlyWasWarned' /\ DeletionWasWarned'
  BY <1>1, <1>2 DEF WarnInv, AnchorsAgree, StampIsBacked, ReadOnlyWasWarned,
                    DeletionWasWarned
<1> QED
  BY <1>6, <1>7 DEF WarnInv

(* Past its first step a run goes on to be due.                              *)
LEMMA RunGoesOn ==
  ASSUME TypeOK, WarnInv, NEW step \in Steps, Take(step), Anchors' = Anchors,
         warnings' = IF step = "warn" THEN warnings \cup {ladder.since} ELSE warnings
  PROVE  /\ RunIsDue'
         /\ ladder # NoRun /\ ladder.since \in Nat /\ day' = day
         /\ step \in ladder.todo
         /\ step # "warn" => "warn" \notin ladder.todo
<1>1. /\ step \in ladder.todo /\ ladder # NoRun /\ ladder.since \in Nat
      /\ ladder' = NoRun \/ ladder' = [ladder EXCEPT !.todo = @ \ {step}]
      /\ ladder' # NoRun => /\ ladder'.since = ladder.since
                            /\ ladder'.todo = ladder.todo \ {step}
      /\ day' = day
  BY DEF Take, TypeOK, JobsOK, LadderRun, NoRun
<1>2. step # "warn" => "warn" \notin ladder.todo
  BY DEF Take, Rank, Steps
<1>3. RunIsDue
  BY DEF WarnInv
<1>4. CASE step = "warn"
  <2>1. ladder.since \in warnings' /\ ladder.since <= ladder.since
    BY <1>1, <1>4
  <2> QED
    BY <1>1, <1>2, <1>3, <1>4, <2>1 DEF RunIsDue
<1>5. CASE step # "warn"
  BY <1>1, <1>2, <1>3, <1>5 DEF RunIsDue
<1> QED
  BY <1>1, <1>2, <1>4, <1>5

LEMMA WarnStep ==
  ASSUME TypeOK, WarnInv, JobStep, UNCHANGED requestVars
  PROVE  WarnInv'
<1> USE DEF TypeOK, RowsOK, SubscriptionRow, CompanyRow
<1>1. UNCHANGED handlers
  BY DEF requestVars
<1>2. ASSUME Warn PROVE WarnInv'
  <2>1. /\ Take("warn") /\ "warn" \in Steps /\ UNCHANGED <<sub, company, jobs, deleting>>
        /\ warnings' = warnings \cup {ladder.since}
    BY <1>2 DEF Warn, Take, Steps
  <2>2. Anchors' = Anchors
    BY <1>1, <2>1, AnchorsSame
  <2>3. RunIsDue' /\ day' = day
    BY <2>1, <2>2, RunGoesOn
  <2> QED
    BY <2>1, <2>2, <2>3 DEF WarnInv, AnchorsAgree, StampIsBacked, ReadOnlyWasWarned,
                            DeletionWasWarned
<1>3. ASSUME Stamp PROVE WarnInv'
  <2>1. /\ Take("stamp") /\ "stamp" \in Steps /\ UNCHANGED <<company, jobs, deleting, warnings>>
        /\ sub'.pastDueAt = sub.pastDueAt
    BY <1>3 DEF Stamp, Take, Steps
  <2>2. Anchors' = Anchors /\ Anchors \subseteq Nat /\ day \in Nat
    BY <1>1, <2>1, AnchorsSame, AnchorsType
  <2>3. /\ RunIsDue' /\ day' = day /\ ladder # NoRun /\ ladder.since \in Nat
        /\ "stamp" \in ladder.todo /\ "warn" \notin ladder.todo
    BY <2>1, <2>2, RunGoesOn
  <2>4. ladder.since \in warnings /\ ladder.since <= day
        /\ \A x \in Anchors : ladder.since <= x
    BY <2>2, <2>3, BandsAssumption DEF WarnInv, RunIsDue
  <2>5. StampIsBacked'
    BY <2>1, <2>2, <2>3, <2>4 DEF StampIsBacked
  <2> QED
    BY <2>1, <2>2, <2>3, <2>5 DEF WarnInv, AnchorsAgree, ReadOnlyWasWarned, DeletionWasWarned
<1>4. ASSUME MakeReadOnly PROVE WarnInv'
  <2>1. /\ Take("restrict") /\ "restrict" \in Steps
        /\ UNCHANGED <<sub, jobs, deleting, warnings>>
        /\ company'.deleted = company.deleted
    BY <1>4 DEF MakeReadOnly, Take, Steps
  <2>2. Anchors' = Anchors /\ warnings \subseteq Nat /\ day \in Nat
    BY <1>1, <2>1, AnchorsSame, AnchorsType
  <2>3. /\ RunIsDue' /\ day' = day /\ ladder # NoRun /\ ladder.since \in Nat
        /\ "restrict" \in ladder.todo /\ "warn" \notin ladder.todo
    BY <2>1, <2>2, RunGoesOn
  <2>4. PICK w \in warnings : w <= ladder.since
    BY <2>3 DEF WarnInv, RunIsDue
  <2>5. w + ReadOnlyDay <= day
    BY <2>2, <2>3, <2>4, BandsAssumption DEF WarnInv, RunIsDue
  <2>6. ReadOnlyWasWarned'
    BY <2>1, <2>3, <2>5 DEF ReadOnlyWasWarned
  <2> QED
    BY <2>1, <2>2, <2>3, <2>6 DEF WarnInv, AnchorsAgree, StampIsBacked, DeletionWasWarned
<1>5. ASSUME Enqueue PROVE WarnInv'
  <2>1. /\ Take("enqueue") /\ "enqueue" \in Steps
        /\ UNCHANGED <<sub, company, deleting, warnings>>
    BY <1>5 DEF Enqueue, Take, Steps
  <2>2. Anchors' = Anchors /\ warnings \subseteq Nat /\ day \in Nat
    BY <1>1, <2>1, AnchorsSame, AnchorsType
  <2>3. /\ RunIsDue' /\ day' = day /\ ladder # NoRun /\ ladder.since \in Nat
        /\ "enqueue" \in ladder.todo /\ "warn" \notin ladder.todo
    BY <2>1, <2>2, RunGoesOn
  <2>4. PICK w \in warnings : w <= ladder.since
    BY <2>3 DEF WarnInv, RunIsDue
  <2>5. w + DeleteDay <= day
    BY <2>2, <2>3, <2>4, BandsAssumption DEF WarnInv, RunIsDue
  <2>6. DeletionWasWarned'
    BY <2>1, <2>3, <2>5 DEF DeletionWasWarned
  <2> QED
    BY <2>1, <2>2, <2>3, <2>6 DEF WarnInv, AnchorsAgree, StampIsBacked, ReadOnlyWasWarned
<1>6. ASSUME NEW step \in {"pause", "lock", "mark"}, Take(step),
             UNCHANGED <<jobs, warnings>>,
             sub'.pastDueAt = sub.pastDueAt, sub'.warned = sub.warned,
             company'.readOnly = company.readOnly, company'.deleted = company.deleted
      PROVE  WarnInv'
  <2>1. step \in Steps /\ step # "warn" /\ UNCHANGED deleting
    BY <1>6 DEF Steps, Take
  <2>2. Anchors' = Anchors
    BY <1>1, <1>6, AnchorsSame
  <2>3. RunIsDue' /\ day' = day
    BY <1>6, <2>1, <2>2, RunGoesOn
  <2> QED
    BY <1>6, <2>1, <2>2, <2>3 DEF WarnInv, AnchorsAgree, StampIsBacked, ReadOnlyWasWarned,
                                  DeletionWasWarned
<1>7. ASSUME Pause \/ Lock \/ Mark PROVE WarnInv'
  BY <1>6, <1>7 DEF Pause, Lock, Mark, SetStatus
<1>8. ASSUME ExpireTrial \/ Delete PROVE WarnInv'
  <2>1. /\ UNCHANGED <<day, ladder, jobs, warnings>>
        /\ sub'.pastDueAt = sub.pastDueAt /\ sub'.warned = sub.warned
        /\ company'.readOnly = company.readOnly
        /\ deleting' => deleting
        /\ company'.deleted => deleting \/ company.deleted
    BY <1>8 DEF ExpireTrial, Delete, SetStatus
  <2>2. Anchors' = Anchors
    BY <1>1, <2>1, AnchorsSame
  <2> QED
    BY <2>1, <2>2, WarnKept
<1> QED
  BY <1>2, <1>3, <1>4, <1>5, <1>7, <1>8 DEF JobStep

LEMMA WarnNext == TypeOK /\ WarnInv /\ [Next]_vars => WarnInv'
<1> SUFFICES ASSUME TypeOK, WarnInv, [Next]_vars PROVE WarnInv'
  OBVIOUS
<1>1. ASSUME NEW h \in Handlers, ApiStep(h) PROVE WarnInv'
  BY <1>1, WarnApi
<1>2. CASE WorkerStart
  <2>1. UNCHANGED requestVars /\ UNCHANGED handlers
    BY <1>2 DEF WorkerStart, requestVars
  <2>2. ASSUME FindEndedTrial \/ CheckDeletion PROVE WarnInv'
    <3>1. ASSUME FindEndedTrial
          PROVE  UNCHANGED <<day, sub, company, ladder, warnings, jobs, deleting>>
      BY <3>1 DEF FindEndedTrial
    <3>2. ASSUME CheckDeletion
          PROVE  UNCHANGED <<day, sub, company, ladder, warnings>> /\ jobs > 0
      BY <3>2 DEF CheckDeletion
    <3>3. /\ UNCHANGED <<day, sub, company, ladder, warnings>>
          /\ jobs' > 0 \/ deleting' \/ company'.deleted
               => jobs > 0 \/ deleting \/ company.deleted
      BY <2>2, <3>1, <3>2
    <3>4. Anchors' = Anchors
      BY <2>1, <3>3, AnchorsSame
    <3> QED
      BY <3>3, <3>4, WarnKept
  <2> QED
    BY <1>2, <2>1, <2>2, WarnScan DEF WorkerStart, JobStart
<1>3. CASE WorkerStep
  BY <1>3, WarnStep DEF WorkerStep
<1>4. CASE WorkerCrash
  <2>1. /\ UNCHANGED <<day, sub, company, jobs, warnings, handlers>>
        /\ ladder' = ladder \/ ladder' = NoRun
        /\ deleting' => deleting
    BY <1>4 DEF WorkerCrash, JobCrash, LadderCrash, TrialCrash, DeletionCrash, requestVars
  <2>2. Anchors' = Anchors
    BY <2>1, AnchorsSame
  <2> QED
    BY <2>1, <2>2, WarnKept
<1>5. CASE Tomorrow
  <2>1. /\ day' = day + 1 /\ InFlight = {}
        /\ UNCHANGED <<sub, company, handlers, ladder, jobs, deleting, warnings>>
    BY <1>5 DEF Tomorrow, DayPasses, requestVars, jobVars
  <2>2. Anchors' = Anchors /\ Anchors \subseteq Nat /\ day \in Nat /\ warnings \subseteq Nat
    BY <2>1, AnchorsSame, AnchorsType
  <2>3. \A x \in Anchors : x = sub.pastDueAt
    BY <2>1 DEF Anchors, InFlight, IsHook, Idle
  <2>4. AnchorsAgree'
    BY <2>1, <2>2, <2>3 DEF WarnInv, AnchorsAgree
  <2>5. RunIsDue'
    <3>1. ladder # NoRun => ladder.since \in Nat
      BY DEF TypeOK, JobsOK, LadderRun
    <3> QED
      BY <2>1, <2>2, <3>1, BandsAssumption DEF WarnInv, RunIsDue
  <2>6. StampIsBacked'
    BY <2>1, <2>2 DEF WarnInv, StampIsBacked
  <2>7. ReadOnlyWasWarned' /\ DeletionWasWarned'
    BY <2>1, <2>2, BandsAssumption DEF WarnInv, ReadOnlyWasWarned, DeletionWasWarned
  <2> QED
    BY <2>4, <2>5, <2>6, <2>7 DEF WarnInv
<1>6. CASE UNCHANGED vars
  <2>1. UNCHANGED <<day, sub, company, handlers, ladder, jobs, deleting, warnings>>
    BY <1>6 DEF vars, requestVars, jobVars
  <2>2. Anchors' = Anchors
    BY <2>1, AnchorsSame
  <2> QED
    BY <2>1, <2>2, WarnKept
<1> QED
  BY <1>1, <1>2, <1>3, <1>4, <1>5, <1>6 DEF Next

(* Whatever webhooks, bank transfers, crashes and ladder runs overlap: a     *)
(* workspace is made read-only only ReadOnlyDay days, and its deletion is    *)
(* queued or carried out only DeleteDay days, after a failed charge the      *)
(* tenant was warned about.                                                  *)
THEOREM SanctionsComeAfterWarnings == Spec => []SanctionsWereWarned
<1>1. WarnInv => SanctionsWereWarned
  BY DEF WarnInv, SanctionsWereWarned
<1> QED
  BY <1>1, WarnInit, WarnNext, TypeCorrect, PTL DEF Spec

-----------------------------------------------------------------------------
(* One at a time.  With MaxActive = 1 a handler or job finds, when it writes,*)
(* what it read; that is what the properties below rest on, and why they fail*)
(* when two overlap.                                                         *)
AtMostOne(S) == \A x, y \in S : x = y

Alone == /\ AtMostOne(InFlight)
         /\ AtMostOne(Running)
         /\ InFlight = {} \/ Running = {}

(* A webhook has read the start of the cycle that is in the row; an order    *)
(* saw that no invoice is open, a confirmation one that exists.              *)
ReadsHold ==
  \A h \in Handlers : /\ IsHook(h) => handlers[h].pastDueAt = sub.pastDueAt
                      /\ handlers[h].op = "order" => Open = {}
                      /\ handlers[h].op = "confirm" => handlers[h].invoice \in DOMAIN invoices

(* A ladder run counts from the start of the cycle that is in the row, and   *)
(* warns before it stamps.                                                   *)
RunHolds ==
  ladder # NoRun =>
    /\ ladder.since = sub.pastDueAt
    /\ "stamp" \in ladder.todo /\ "warn" \notin ladder.todo => ladder.since \in warnings

ChecksHold == /\ expiring => sub.status = "trialing"
              /\ deleting => company.status \notin Recoverable

(* The marks of dunning need a cycle, and a cycle a subscription gone bad,   *)
(* unless the tenant has paid by bank transfer.                              *)
MarksNeedCycle == company.readOnly \/ sub.enqueued => sub.pastDueAt # Never

CycleIsBad == NoTransfer /\ sub.pastDueAt # Never => sub.status \notin Recoverable

SerialInv == /\ Alone
             /\ ReadsHold
             /\ RunHolds
             /\ ChecksHold
             /\ WarnedAboutThisCycle
             /\ MarksNeedCycle
             /\ CycleIsBad
             /\ AtMostOne(Open)

Serial == TypeOK /\ RowsInSync /\ MaxActive = 1 /\ SerialInv

LEMMA FewAreFinite ==
  ASSUME NEW S, AtMostOne(S)
  PROVE  IsFiniteSet(S) /\ Cardinality(S) \in {0, 1} /\ (Cardinality(S) = 0 => S = {})
<1>1. CASE S = {}
  BY <1>1, FS_EmptySet
<1>2. ASSUME NEW x \in S PROVE S = {x}
  BY <1>2 DEF AtMostOne
<1>3. ASSUME NEW x \in S
      PROVE  IsFiniteSet(S) /\ Cardinality(S) = 1
  BY <1>2, <1>3, FS_Singleton
<1> QED
  BY <1>1, <1>3

LEMMA NobodyAtWork ==
  ASSUME Serial, MayStart
  PROVE  InFlight = {} /\ ladder = NoRun /\ ~expiring /\ ~deleting
<1>1. /\ Cardinality(InFlight) \in {0, 1} /\ (Cardinality(InFlight) = 0 => InFlight = {})
      /\ Cardinality(Running) \in {0, 1} /\ (Cardinality(Running) = 0 => Running = {})
  BY FewAreFinite DEF Serial, SerialInv, Alone
<1>2. Cardinality(InFlight) + Cardinality(Running) < 1
  BY DEF Serial, MayStart
<1>3. InFlight = {} /\ Running = {}
  BY <1>1, <1>2
<1> QED
  BY <1>3 DEF Running

LEMMA SerialInit == Init => SerialInv
<1> SUFFICES ASSUME Init PROVE SerialInv
  OBVIOUS
<1>1. /\ InFlight = {} /\ Running = {} /\ Open = {}
      /\ ladder = NoRun /\ ~expiring /\ ~deleting /\ ~sub.warned /\ ~company.readOnly
      /\ ~sub.enqueued /\ sub.pastDueAt = Never
      /\ \A h \in Handlers : handlers[h].op = "idle"
  BY DEF Init, RowsInit, RequestsInit, JobsInit, InFlight, Running, Open, Idle
<1> QED
  BY <1>1 DEF SerialInv, Alone, AtMostOne, ReadsHold, IsHook, RunHolds, ChecksHold,
              WarnedAboutThisCycle, MarksNeedCycle, CycleIsBad

-----------------------------------------------------------------------------
(* The API process.                                                          *)
LEMMA SerialLoad ==
  ASSUME Serial, NEW h \in Handlers, MayStart, Load(h), UNCHANGED jobVars
  PROVE  SerialInv'
<1>1. /\ InFlight = {} /\ ladder = NoRun /\ ~expiring /\ ~deleting
      /\ UNCHANGED <<ladder, expiring, jobs, deleting, warnings>>
  BY NobodyAtWork DEF jobVars
<1>2. ASSUME NEW call, Begin(h, call), call.op \in {"arrived", "order", "confirm", "plan"},
             call.op = "order" => Open = {},
             call.op = "confirm" => call.invoice \in DOMAIN invoices, UNCHANGED invoices
      PROVE  SerialInv'
  <2>1. /\ handlers' = [handlers EXCEPT ![h] = call] /\ handlers \in [Handlers -> Calls]
        /\ UNCHANGED <<day, sub, company>>
    BY <1>2 DEF Begin, Serial, TypeOK, RequestsOK, Calls
  <2>2. /\ handlers'[h] = call
        /\ \A g \in Handlers \ {h} : handlers'[g] = Idle
    BY <1>1, <2>1 DEF InFlight
  <2>3. AtMostOne(InFlight') /\ Running' = {}
    BY <1>1, <2>2 DEF AtMostOne, InFlight, Running
  <2>4. Open' = Open
    BY <1>2 DEF Open
  <2>5. ReadsHold'
    BY <1>2, <2>1, <2>2, <2>4 DEF ReadsHold, IsHook, Idle
  <2> QED
    BY <1>1, <1>2, <2>1, <2>3, <2>4, <2>5
       DEF SerialInv, Serial, Alone, AtMostOne, RunHolds, ChecksHold, WarnedAboutThisCycle,
           MarksNeedCycle, CycleIsBad, NoTransfer
<1>3. ASSUME Deliver(h) \/ Redeliver(h) PROVE SerialInv'
  BY <1>2, <1>3 DEF Deliver, Redeliver
<1>4. ASSUME RequestInvoice(h) PROVE SerialInv'
  BY <1>2, <1>4 DEF RequestInvoice
<1>5. ASSUME ConfirmInvoice(h) PROVE SerialInv'
  BY <1>2, <1>5 DEF ConfirmInvoice, Open
<1>6. ASSUME NEW plan \in Plans, RequestPlan(h, plan) PROVE SerialInv'
  BY <1>2, <1>6 DEF RequestPlan
<1> QED
  BY <1>3, <1>4, <1>5, <1>6 DEF Load

(* A webhook reads the row that it will find when it writes.                 *)
LEMMA SerialRecord ==
  ASSUME Serial, NEW h \in Handlers, NEW kind \in Kinds, Record(h, kind), UNCHANGED jobVars
  PROVE  SerialInv'
<1>1. /\ handlers[h] # Idle /\ handlers \in [Handlers -> Calls]
      /\ handlers' = [handlers EXCEPT ![h] = Read(handlers[h].event, kind)]
      /\ UNCHANGED <<day, sub, company, invoices>>
  BY DEF Record, Idle, Serial, TypeOK, RequestsOK, Calls
<1>2. InFlight = {h} /\ Running = {}
  BY <1>1 DEF InFlight, Serial, SerialInv, Alone, AtMostOne
<1>3. /\ handlers'[h] = Read(handlers[h].event, kind)
      /\ \A g \in Handlers \ {h} : handlers'[g] = Idle
  BY <1>1, <1>2 DEF InFlight
<1>4. InFlight' \subseteq {h} /\ Running' = {} /\ Open' = Open
  BY <1>1, <1>2, <1>3 DEF InFlight, Running, Open, jobVars
<1>5. ReadsHold'
  BY <1>1, <1>3 DEF ReadsHold, IsHook, Idle, Read
<1> QED
  BY <1>1, <1>4, <1>5
     DEF jobVars, SerialInv, Serial, Alone, AtMostOne, RunHolds, ChecksHold,
         WarnedAboutThisCycle, MarksNeedCycle, CycleIsBad, NoTransfer

(* The handler that ends was the only one at work.                           *)
LEMMA LastOneEnds ==
  ASSUME Serial, NEW h \in Handlers, handlers[h] # Idle, Finish(h), UNCHANGED jobVars
  PROVE  /\ Alone' /\ ReadsHold' /\ RunHolds' /\ ChecksHold'
         /\ UNCHANGED <<ladder, expiring, jobs, deleting, warnings>>
<1>1. h \in InFlight
  BY DEF InFlight
<1>2. InFlight = {h} /\ Running = {}
  BY <1>1 DEF Serial, SerialInv, Alone, AtMostOne
<1>3. /\ ladder = NoRun /\ ~expiring /\ ~deleting
      /\ UNCHANGED <<ladder, expiring, jobs, deleting, warnings>>
  BY <1>2 DEF Running, jobVars
<1>4. \A g \in Handlers : handlers'[g] = Idle
  BY <1>2, FinishType DEF Serial, InFlight
<1>5. InFlight' = {} /\ Running' = {}
  BY <1>3, <1>4 DEF InFlight, Running
<1> QED
  BY <1>3, <1>4, <1>5 DEF Alone, AtMostOne, ReadsHold, IsHook, Idle, RunHolds, ChecksHold

(* What a webhook does to the dunning columns, given what it read is true: it*)
(* leaves the cycle, or starts one with no mark of another, or ends one.     *)
LEMMA EffectKeepsCycle ==
  ASSUME Serial, NEW read \in Hook, Effect(read), read.pastDueAt = sub.pastDueAt
  PROVE  /\ \/ sub'.pastDueAt = sub.pastDueAt
            \/ sub.pastDueAt = Never
            \/ sub'.pastDueAt = Never /\ ~sub'.warned /\ ~sub'.enqueued /\ ~company'.readOnly
         /\ sub'.warned => sub.warned
         /\ sub'.enqueued => sub.enqueued
         /\ company'.readOnly => company.readOnly
         /\ sub'.pastDueAt # Never => \/ sub'.status \notin Recoverable
                                     \/ (sub.pastDueAt # Never /\ sub'.status = sub.status)
<1> USE DEF Serial, TypeOK, RowsOK, SubscriptionRow, CompanyRow
<1>1. ASSUME read.kind \in Reported, Upsert(read)
      PROVE  /\ sub'.pastDueAt = (IF read.kind = "past_due" THEN Anchor(read) ELSE Never)
             /\ sub'.warned = KeepsWarning(read.kind = "past_due")
             /\ sub'.enqueued = (read.kind = "past_due" /\ sub.enqueued)
             /\ company'.readOnly = KeepsReadOnly(read.kind = "past_due")
             /\ sub'.status = read.kind
  BY <1>1 DEF Upsert
<1>2. ASSUME End \/ PaymentFailed(read) \/ Checkout
      PROVE  /\ sub'.warned = sub.warned /\ sub'.enqueued = sub.enqueued
             /\ company'.readOnly = company.readOnly
             /\ \/ sub'.pastDueAt = sub.pastDueAt
                \/ sub'.pastDueAt = Anchor(read) /\ sub'.status = "past_due"
             /\ sub'.status \in {"cancelled", "past_due", sub.status}
  BY <1>2 DEF End, SetStatus, PaymentFailed, Checkout
<1>3. sub.pastDueAt # Never => Anchor(read) = sub.pastDueAt
  BY DEF Anchor
<1>4. "past_due" \notin Recoverable /\ "cancelled" \notin Recoverable
  BY DEF Recoverable
<1>5. ASSUME read.kind \in Reported, Upsert(read)
      PROVE  /\ \/ sub'.pastDueAt = sub.pastDueAt
                \/ sub.pastDueAt = Never
                \/ sub'.pastDueAt = Never /\ ~sub'.warned /\ ~sub'.enqueued /\ ~company'.readOnly
             /\ sub'.warned => sub.warned
             /\ sub'.enqueued => sub.enqueued
             /\ company'.readOnly => company.readOnly
             /\ sub'.pastDueAt # Never => sub'.status \notin Recoverable
  BY <1>1, <1>3, <1>4, <1>5 DEF KeepsWarning, KeepsReadOnly
<1> QED
  BY <1>2, <1>3, <1>4, <1>5 DEF Effect

LEMMA SerialWrite ==
  ASSUME Serial, NEW h \in Handlers, Write(h) \/ Fail(h) \/ Duplicate(h), UNCHANGED jobVars
  PROVE  SerialInv'
<1> USE DEF Serial, TypeOK, RowsOK, SubscriptionRow, CompanyRow
<1>1. handlers[h] # Idle /\ Finish(h) /\ day' = day
  BY DEF Write, Apply, IssueInvoice, MarkPaid, ChangePlan, Fail, Duplicate, Idle
<1>2. /\ Alone' /\ ReadsHold' /\ RunHolds' /\ ChecksHold'
      /\ warnings' = warnings
  BY <1>1, LastOneEnds
<1>3. WarnedAboutThisCycle' /\ MarksNeedCycle' /\ CycleIsBad'
  <2>1. ASSUME Apply(h) PROVE WarnedAboutThisCycle' /\ MarksNeedCycle' /\ CycleIsBad'
    <3>1. /\ handlers[h] \in Hook /\ Effect(handlers[h])
          /\ handlers[h].pastDueAt = sub.pastDueAt /\ UNCHANGED invoices
      BY <2>1, CallType DEF Apply, SerialInv, ReadsHold, IsHook
    <3>2. Never \notin warnings
      BY NeverAssumption DEF JobsOK
    <3>3. WarnedAboutThisCycle /\ MarksNeedCycle /\ CycleIsBad
      BY DEF SerialInv
    <3>4. WarnedAboutThisCycle'
      BY <1>2, <3>1, <3>2, <3>3, EffectKeepsCycle DEF WarnedAboutThisCycle
    <3>5. MarksNeedCycle'
      BY <3>1, <3>3, EffectKeepsCycle DEF MarksNeedCycle
    <3>6. CycleIsBad'
      BY <3>1, <3>3, EffectKeepsCycle DEF CycleIsBad, NoTransfer
    <3> QED
      BY <3>4, <3>5, <3>6
  <2>2. ASSUME IssueInvoice(h) \/ MarkPaid(h) \/ ChangePlan(h) \/ Fail(h) \/ Duplicate(h)
        PROVE  WarnedAboutThisCycle' /\ MarksNeedCycle' /\ CycleIsBad'
    <3>1. /\ sub'.pastDueAt = sub.pastDueAt /\ sub'.warned = sub.warned
          /\ sub'.enqueued = sub.enqueued /\ company'.readOnly = company.readOnly
      BY <2>2 DEF IssueInvoice, MarkPaid, ChangePlan, Fail, Duplicate
    <3>2. ASSUME MarkPaid(h) PROVE ~NoTransfer'
      <4>1. /\ handlers[h].invoice \in DOMAIN invoices
            /\ invoices' = [invoices EXCEPT ![handlers[h].invoice] = "paid"]
        BY <3>2 DEF MarkPaid, SerialInv, ReadsHold
      <4> QED
        BY <4>1 DEF NoTransfer, RequestsOK
    <3>3. ASSUME IssueInvoice(h) PROVE sub'.status = sub.status /\ (NoTransfer' => NoTransfer)
      <4>1. /\ invoices' = Append(invoices, "open") /\ invoices \in Seq({"open", "paid"})
            /\ UNCHANGED sub
        BY <3>3 DEF IssueInvoice, RequestsOK
      <4>2. \A i \in DOMAIN invoices : i \in DOMAIN invoices' /\ invoices'[i] = invoices[i]
        BY <4>1
      <4> QED
        BY <4>1, <4>2 DEF NoTransfer
    <3>4. ASSUME ChangePlan(h) \/ Fail(h) \/ Duplicate(h)
          PROVE  sub'.status = sub.status /\ UNCHANGED invoices
      BY <3>4 DEF ChangePlan, Fail, Duplicate
    <3>5. CycleIsBad'
      BY <2>2, <3>1, <3>2, <3>3, <3>4 DEF SerialInv, CycleIsBad, NoTransfer
    <3> QED
      BY <1>2, <3>1, <3>5 DEF SerialInv, WarnedAboutThisCycle, MarksNeedCycle
  <2> QED
    BY <2>1, <2>2 DEF Write
<1>4. AtMostOne(Open')
  <2>1. ASSUME IssueInvoice(h) PROVE AtMostOne(Open')
    <3>1. /\ invoices' = Append(invoices, "open") /\ Open = {}
          /\ invoices \in Seq({"open", "paid"}) /\ Len(invoices) \in Nat
      BY <2>1 DEF IssueInvoice, SerialInv, ReadsHold, RequestsOK
    <3>2. \A i \in DOMAIN invoices' : i # Len(invoices) + 1 =>
            i \in DOMAIN invoices /\ invoices'[i] = invoices[i]
      BY <3>1
    <3>3. Open' \subseteq {Len(invoices) + 1}
      BY <3>1, <3>2 DEF Open
    <3> QED
      BY <3>3 DEF AtMostOne
  <2>2. ASSUME MarkPaid(h) PROVE AtMostOne(Open')
    <3>1. Open' \subseteq Open
      BY <2>2 DEF MarkPaid, Open, RequestsOK
    <3> QED
      BY <3>1 DEF SerialInv, AtMostOne
  <2>3. ASSUME Apply(h) \/ ChangePlan(h) \/ Fail(h) \/ Duplicate(h) PROVE Open' = Open
    BY <2>3 DEF Apply, ChangePlan, Fail, Duplicate, Open
  <2> QED
    BY <2>1, <2>2, <2>3 DEF Write, SerialInv, AtMostOne
<1> QED
  BY <1>2, <1>3, <1>4 DEF SerialInv

-----------------------------------------------------------------------------
(* The worker process.                                                       *)
LEMMA SerialStart ==
  ASSUME Serial, MayStart, JobStart, UNCHANGED requestVars
  PROVE  SerialInv'
<1> USE DEF Serial
<1>1. /\ InFlight = {} /\ ladder = NoRun /\ ~expiring /\ ~deleting
      /\ UNCHANGED <<handlers, invoices>> /\ InFlight' = InFlight /\ Open' = Open
  BY NobodyAtWork DEF requestVars, InFlight, Open
<1>2. UNCHANGED <<day, sub, company, warnings>>
  BY DEF JobStart, Scan, FindEndedTrial, CheckDeletion
<1>3. /\ ReadsHold' /\ WarnedAboutThisCycle' /\ MarksNeedCycle' /\ CycleIsBad'
      /\ AtMostOne(Open')
  BY <1>1, <1>2 DEF SerialInv, ReadsHold, IsHook, WarnedAboutThisCycle, MarksNeedCycle,
                    CycleIsBad, NoTransfer
<1>4. Alone'
  <2>1. Running' \in {{}, {"ladder"}, {"trial"}, {"deletion"}}
    <3>1. ASSUME Scan PROVE ~expiring' /\ ~deleting'
      BY <1>1, <3>1 DEF Scan
    <3>2. ASSUME FindEndedTrial PROVE ladder' = NoRun /\ ~deleting'
      BY <1>1, <3>2 DEF FindEndedTrial
    <3>3. ASSUME CheckDeletion PROVE ladder' = NoRun /\ ~expiring'
      BY <1>1, <3>3 DEF CheckDeletion
    <3> QED
      BY <3>1, <3>2, <3>3 DEF JobStart, Running
  <2> QED
    BY <1>1, <2>1 DEF Alone, AtMostOne
<1>5. RunHolds'
  <2>1. ASSUME Scan PROVE RunHolds'
    <3> DEFINE p == sub.pastDueAt
    <3>1. /\ ladder' = [todo |-> Due(sub, day - p), since |-> p]
      BY <2>1 DEF Scan
    <3>2. "stamp" \in Due(sub, day - p) => "warn" \in Due(sub, day - p)
      BY DEF Due, Steps
    <3> QED
      BY <1>2, <3>1, <3>2 DEF RunHolds
  <2>2. ASSUME FindEndedTrial \/ CheckDeletion PROVE ladder' = NoRun
    BY <1>1, <2>2 DEF FindEndedTrial, CheckDeletion
  <2> QED
    BY <2>1, <2>2 DEF JobStart, RunHolds
<1>6. ChecksHold'
  <2>1. ASSUME Scan PROVE ~expiring' /\ ~deleting'
    BY <1>1, <2>1 DEF Scan
  <2>2. ASSUME FindEndedTrial PROVE sub'.status = "trialing" /\ ~deleting'
    BY <1>1, <2>2 DEF FindEndedTrial
  <2>3. ASSUME CheckDeletion
        PROVE  ~expiring' /\ (deleting' => company'.status \notin Recoverable)
    BY <1>1, <1>2, <2>3 DEF CheckDeletion
  <2> QED
    BY <2>1, <2>2, <2>3 DEF JobStart, ChecksHold
<1> QED
  BY <1>3, <1>4, <1>5, <1>6 DEF SerialInv

(* The job that steps is the only one at work, and stays so or ends.         *)
LEMMA JobsAlone ==
  ASSUME Serial, Running # {}, Running' \subseteq Running, UNCHANGED requestVars
  PROVE  /\ InFlight = {} /\ Alone' /\ ReadsHold' /\ AtMostOne(Open')
<1>1. InFlight = {} /\ UNCHANGED <<handlers, invoices>>
  BY DEF Serial, SerialInv, Alone, requestVars
<1>2. InFlight' = {} /\ Open' = Open /\ \A h \in Handlers : handlers'[h] = Idle
  BY <1>1 DEF InFlight, Open
<1> QED
  BY <1>1, <1>2 DEF Serial, SerialInv, Alone, AtMostOne, ReadsHold, IsHook, Idle

(* A step of the ladder.  The run stays due for what is left of it.          *)
LEMMA SerialTake ==
  ASSUME Serial, NEW step \in Steps, Take(step), UNCHANGED requestVars,
         sub'.pastDueAt = sub.pastDueAt,
         warnings' = IF step = "warn" THEN warnings \cup {ladder.since} ELSE warnings
  PROVE  /\ ladder # NoRun /\ ladder.since = sub.pastDueAt /\ ladder.since \in Nat
         /\ step \in ladder.todo
         /\ step = "stamp" => ladder.since \in warnings
         /\ warnings \subseteq warnings' /\ day' = day
         /\ Alone' /\ ReadsHold' /\ RunHolds' /\ ChecksHold' /\ AtMostOne(Open')
<1> USE DEF Serial
<1>1. /\ step \in ladder.todo /\ ladder # NoRun /\ ladder.since \in Nat
      /\ ladder' = NoRun \/ ladder' = [ladder EXCEPT !.todo = @ \ {step}]
      /\ ladder' # NoRun => /\ ladder'.since = ladder.since
                            /\ ladder'.todo = ladder.todo \ {step}
      /\ UNCHANGED <<day, expiring, deleting>>
  BY DEF Take, TypeOK, JobsOK, LadderRun, NoRun
<1>2. step # "warn" => "warn" \notin ladder.todo
  BY DEF Take, Rank, Steps
<1>3. /\ ladder.since = sub.pastDueAt
      /\ "stamp" \in ladder.todo /\ "warn" \notin ladder.todo => ladder.since \in warnings
  BY <1>1 DEF SerialInv, RunHolds
<1>4. "ladder" \in Running /\ Running' \subseteq Running
  BY <1>1 DEF Running
<1>5. ~expiring /\ ~deleting
  BY <1>4 DEF SerialInv, Alone, AtMostOne, Running
<1>6. Alone' /\ ReadsHold' /\ AtMostOne(Open')
  BY <1>4, JobsAlone
<1>7. RunHolds'
  BY <1>1, <1>2, <1>3 DEF RunHolds
<1>8. ChecksHold'
  BY <1>1, <1>5 DEF ChecksHold
<1> QED
  BY <1>1, <1>2, <1>3, <1>6, <1>7, <1>8

LEMMA SerialJobStep ==
  ASSUME Serial, JobStep, UNCHANGED requestVars
  PROVE  SerialInv'
<1> USE DEF Serial, TypeOK, RowsOK, SubscriptionRow, CompanyRow
<1>7. UNCHANGED invoices /\ (NoTransfer' <=> NoTransfer)
  BY DEF requestVars, NoTransfer
<1>8. "paused" \notin Recoverable /\ "expired" \notin Recoverable
  BY DEF Recoverable
<1>1. ASSUME Warn PROVE SerialInv'
  <2>1. /\ Take("warn") /\ "warn" \in Steps /\ UNCHANGED <<sub, company>>
        /\ warnings' = warnings \cup {ladder.since}
    BY <1>1 DEF Warn, Steps
  <2> QED
    BY <1>7, <2>1, SerialTake DEF SerialInv, WarnedAboutThisCycle, MarksNeedCycle, CycleIsBad
<1>2. ASSUME NEW step \in Steps \ {"warn"}, Take(step), warnings' = warnings,
             sub'.pastDueAt = sub.pastDueAt,
             sub'.warned => sub.warned \/ step = "stamp",
             sub'.status = sub.status \/ sub'.status \notin Recoverable
      PROVE  SerialInv'
  <2>1. /\ sub.pastDueAt # Never
        /\ step = "stamp" => sub.pastDueAt \in warnings
        /\ Alone' /\ ReadsHold' /\ RunHolds' /\ ChecksHold' /\ AtMostOne(Open')
    BY <1>2, SerialTake, NeverAssumption
  <2>2. WarnedAboutThisCycle'
    BY <1>2, <2>1 DEF SerialInv, WarnedAboutThisCycle
  <2>3. MarksNeedCycle' /\ CycleIsBad'
    BY <1>2, <1>7, <2>1 DEF SerialInv, MarksNeedCycle, CycleIsBad
  <2> QED
    BY <2>1, <2>2, <2>3 DEF SerialInv
<1>3. ASSUME Stamp \/ MakeReadOnly \/ Pause \/ Lock \/ Enqueue \/ Mark PROVE SerialInv'
  <2>1. ASSUME Stamp PROVE SerialInv'
    <3>1. Take("stamp") /\ "stamp" \in Steps \ {"warn"} /\ warnings' = warnings
          /\ sub'.pastDueAt = sub.pastDueAt /\ sub'.status = sub.status
      BY <2>1 DEF Stamp, Steps
    <3> QED
      BY <1>2, <3>1
  <2>2. ASSUME MakeReadOnly \/ Enqueue PROVE SerialInv'
    <3>1. PICK step \in Steps \ {"warn"} : Take(step) /\ UNCHANGED <<sub, warnings>>
      BY <2>2 DEF MakeReadOnly, Enqueue, Steps
    <3> QED
      BY <1>2, <3>1
  <2>3. ASSUME Pause \/ Lock \/ Mark PROVE SerialInv'
    <3>1. PICK step \in Steps \ {"warn"} :
            /\ Take(step) /\ warnings' = warnings
            /\ sub'.pastDueAt = sub.pastDueAt /\ sub'.warned = sub.warned
            /\ sub'.status = sub.status \/ sub'.status \notin Recoverable
      BY <1>8, <2>3 DEF Pause, Lock, Mark, SetStatus, Steps
    <3> QED
      BY <1>2, <3>1
  <2> QED
    BY <1>3, <2>1, <2>2, <2>3
<1>6. ASSUME ExpireTrial \/ Delete PROVE SerialInv'
  <2>1. /\ UNCHANGED <<day, ladder, warnings>>
        /\ sub'.pastDueAt = sub.pastDueAt /\ sub'.warned = sub.warned
        /\ sub'.enqueued = sub.enqueued /\ company'.readOnly = company.readOnly
        /\ sub'.status = sub.status \/ sub'.status \notin Recoverable
        /\ \/ expiring /\ ~expiring' /\ deleting' = deleting
           \/ deleting /\ ~deleting' /\ expiring' = expiring
    <3>1. ASSUME ExpireTrial
          PROVE  /\ UNCHANGED <<day, ladder, warnings, deleting>>
                 /\ sub'.pastDueAt = sub.pastDueAt /\ sub'.warned = sub.warned
                 /\ sub'.enqueued = sub.enqueued /\ company'.readOnly = company.readOnly
                 /\ sub'.status \notin Recoverable
                 /\ expiring /\ ~expiring'
      BY <1>8, <3>1 DEF ExpireTrial, SetStatus
    <3>2. ASSUME Delete
          PROVE  /\ UNCHANGED <<day, ladder, warnings, expiring, sub>>
                 /\ company'.readOnly = company.readOnly
                 /\ deleting /\ ~deleting'
      BY <3>2 DEF Delete
    <3> QED
      BY <1>6, <3>1, <3>2
  <2>2. Running # {} /\ Running' \subseteq Running
    BY <2>1 DEF Running
  <2>3. ~expiring' /\ ~deleting'
    BY <2>1 DEF SerialInv, Alone, AtMostOne, Running
  <2> QED
    BY <1>7, <2>1, <2>2, <2>3, JobsAlone
       DEF SerialInv, RunHolds, ChecksHold, WarnedAboutThisCycle, MarksNeedCycle, CycleIsBad
<1> QED
  BY <1>1, <1>3, <1>6 DEF JobStep

LEMMA SerialQuiet ==
  ASSUME Serial, UNCHANGED <<sub, company, warnings, requestVars>>, day' \in {day, day + 1},
         \/ UNCHANGED <<ladder, expiring, deleting>>
         \/ ladder' = NoRun /\ UNCHANGED <<expiring, deleting>>
         \/ ~expiring' /\ UNCHANGED <<ladder, deleting>>
         \/ ~deleting' /\ UNCHANGED <<ladder, expiring>>
  PROVE  SerialInv'
<1> USE DEF Serial, TypeOK, RowsOK, SubscriptionRow
<1>1. /\ InFlight' = InFlight /\ Open' = Open /\ ReadsHold' /\ Running' \subseteq Running
  BY DEF requestVars, InFlight, Open, SerialInv, ReadsHold, IsHook, Running
<1>2. Alone'
  BY <1>1 DEF SerialInv, Alone, AtMostOne
<1>3. RunHolds' /\ ChecksHold' /\ WarnedAboutThisCycle' /\ MarksNeedCycle' /\ CycleIsBad'
  BY DEF requestVars, SerialInv, RunHolds, ChecksHold, WarnedAboutThisCycle, MarksNeedCycle,
         CycleIsBad, NoTransfer
<1> QED
  BY <1>1, <1>2, <1>3 DEF SerialInv

LEMMA SerialNext == Serial /\ [Next]_vars => SerialInv'
<1> SUFFICES ASSUME Serial, [Next]_vars PROVE SerialInv'
  OBVIOUS
<1>1. ASSUME NEW h \in Handlers, ApiStep(h) PROVE SerialInv'
  BY <1>1, SerialLoad, SerialRecord, SerialWrite DEF ApiStep, Receive
<1>2. CASE WorkerStart
  BY <1>2, SerialStart DEF WorkerStart
<1>3. CASE WorkerStep
  BY <1>3, SerialJobStep DEF WorkerStep
<1>4. CASE WorkerCrash
  BY <1>4, SerialQuiet DEF WorkerCrash, JobCrash, LadderCrash, TrialCrash, DeletionCrash
<1>5. CASE Tomorrow
  BY <1>5, SerialQuiet DEF Tomorrow, DayPasses, jobVars
<1>6. CASE UNCHANGED vars
  BY <1>6, SerialQuiet DEF vars, jobVars
<1> QED
  BY <1>1, <1>2, <1>3, <1>4, <1>5, <1>6 DEF Next

LEMMA SerialAlways == ASSUME MaxActive = 1 PROVE Spec => []Serial
<1>1. Init => SerialInv
  BY SerialInit
<1>2. TypeOK /\ RowsInSync /\ SerialInv /\ [Next]_vars => SerialInv'
  BY SerialNext DEF Serial
<1>3. TypeOK /\ RowsInSync /\ SerialInv => Serial
  BY DEF Serial
<1> QED
  BY <1>1, <1>2, <1>3, TypeCorrect, RowsStayInSync, PTL DEF Spec

(* With no overlap the stamp that keeps the ladder from warning belongs to   *)
(* the cycle that is open, for any bands and whatever webhooks and payments  *)
(* come when.                                                                *)
THEOREM EveryCycleIsWarned == ASSUME MaxActive = 1 PROVE Spec => []WarnedAboutThisCycle
<1>1. Serial => WarnedAboutThisCycle
  BY DEF Serial, SerialInv
<1> QED
  BY <1>1, SerialAlways, PTL

(* With no overlap a subscription that a provider reports as good again keeps*)
(* nothing of the dunning cycle: not its anchor, not its stamps, not the     *)
(* read-only flag.  The ladder may have been anywhere.                       *)
THEOREM RecoveryIsComplete == ASSUME MaxActive = 1 PROVE Spec => []WebhookRecoveryIsComplete
<1>1. Serial => WebhookRecoveryIsComplete
  <2> SUFFICES ASSUME Serial, NoTransfer, sub.status \in Recoverable
               PROVE  sub.pastDueAt = Never /\ ~sub.warned /\ ~sub.enqueued /\ ~company.readOnly
    BY DEF WebhookRecoveryIsComplete
  <2>1. sub.pastDueAt = Never
    BY DEF Serial, SerialInv, CycleIsBad
  <2>2. Never \notin warnings
    BY NeverAssumption DEF Serial, TypeOK, JobsOK
  <2> QED
    BY <2>1, <2>2 DEF Serial, SerialInv, MarksNeedCycle, WarnedAboutThisCycle
<1> QED
  BY <1>1, SerialAlways, PTL

(* With no overlap createPendingInvoice leaves one invoice open.             *)
THEOREM InvoicesAreSingle == ASSUME MaxActive = 1 PROVE Spec => []OneOpenInvoice
<1>1. Serial => OneOpenInvoice
  BY FewAreFinite DEF Serial, SerialInv, OneOpenInvoice
<1> QED
  BY <1>1, SerialAlways, PTL

(* With no overlap nothing moves the start of a dunning cycle.               *)
LEMMA StepKeepsAnchor ==
  ASSUME Serial, [Next]_vars, sub.pastDueAt # Never
  PROVE  sub'.pastDueAt \in {sub.pastDueAt, Never}
<1> USE DEF Serial, TypeOK, RowsOK, SubscriptionRow, CompanyRow
<1>1. ASSUME NEW h \in Handlers, Apply(h) PROVE sub'.pastDueAt \in {sub.pastDueAt, Never}
  <2>1. /\ handlers[h] \in Hook /\ Effect(handlers[h])
        /\ handlers[h].pastDueAt = sub.pastDueAt
    BY <1>1, CallType DEF Apply, SerialInv, ReadsHold, IsHook
  <2> QED
    BY <2>1, EffectKeepsCycle
<1>2. ASSUME NEW h \in Handlers, IssueInvoice(h) \/ MarkPaid(h) \/ ChangePlan(h) \/ Fail(h)
      PROVE  sub'.pastDueAt = sub.pastDueAt
  BY <1>2 DEF IssueInvoice, MarkPaid, ChangePlan, Fail
<1>3. ASSUME WorkerStart \/ WorkerCrash \/ Tomorrow \/ UNCHANGED vars
      PROVE  UNCHANGED sub
  BY <1>3 DEF WorkerStart, JobStart, Scan, FindEndedTrial, CheckDeletion, WorkerCrash,
              JobCrash, LadderCrash, TrialCrash, DeletionCrash, Tomorrow, DayPasses, vars
<1>4. ASSUME JobStep PROVE sub'.pastDueAt = sub.pastDueAt
  BY <1>4 DEF JobStep, Warn, Stamp, MakeReadOnly, Pause, Lock, Enqueue, Mark, ExpireTrial,
              Delete, SetStatus
<1> QED
  BY <1>1, <1>2, <1>3, <1>4, LoadsChangeNoRow DEF Next, ApiStep, Write, WorkerStep

\* The ladder counts from the first failed charge of a cycle, whatever retries
\* of the charge, jobs and other requests follow it, one after the other.
THEOREM AnchorStays == ASSUME MaxActive = 1 PROVE Spec => AnchorIsSetOnce
<1>1. Serial /\ [Next]_vars =>
        [sub.pastDueAt # Never => sub'.pastDueAt \in {sub.pastDueAt, Never}]_vars
  BY StepKeepsAnchor
<1> QED
  BY <1>1, SerialAlways, PTL DEF Spec, AnchorIsSetOnce

(* With no overlap no job touches a tenant that pays its provider: the ladder*)
(* is not running for it, its trial is not found ended, and the deletion     *)
(* queue refuses it.                                                         *)
LEMMA StepSparesPayers ==
  ASSUME Serial, [Next]_vars, NoTransfer, sub.status = "active", UNCHANGED handlers
  PROVE  UNCHANGED <<sub, company>>
<1> USE DEF Serial, TypeOK, RowsOK, SubscriptionRow, CompanyRow
<1>1. ASSUME NEW h \in Handlers, ApiStep(h) PROVE UNCHANGED <<sub, company>>
  <2>1. ASSUME Write(h) PROVE FALSE
    <3>1. handlers[h] # Idle /\ Finish(h)
      BY <2>1 DEF Write, Apply, IssueInvoice, MarkPaid, ChangePlan, Idle
    <3> QED
      BY <3>1, FinishType
  <2>2. ASSUME Fail(h) PROVE UNCHANGED <<sub, company>>
    BY <2>2 DEF Fail
  <2> QED
    BY <1>1, <2>1, <2>2, LoadsChangeNoRow DEF ApiStep
<1>2. ASSUME WorkerStart \/ WorkerCrash \/ Tomorrow \/ UNCHANGED vars
      PROVE  UNCHANGED <<sub, company>>
  BY <1>2 DEF WorkerStart, JobStart, Scan, FindEndedTrial, CheckDeletion, WorkerCrash,
              JobCrash, LadderCrash, TrialCrash, DeletionCrash, Tomorrow, DayPasses, vars
<1>3. sub.status \in Recoverable /\ company.status \in Recoverable
  BY DEF RowsInSync, Recoverable
<1>4. ASSUME JobStep PROVE FALSE
  <2>1. ASSUME NEW step, Take(step) PROVE FALSE
    <3>1. ladder # NoRun /\ ladder.since \in Nat
      BY <2>1 DEF Take, JobsOK, LadderRun, NoRun
    <3>2. sub.pastDueAt # Never
      BY <3>1, NeverAssumption DEF SerialInv, RunHolds
    <3> QED
      BY <1>3, <3>2 DEF SerialInv, CycleIsBad
  <2>2. ASSUME ExpireTrial PROVE FALSE
    BY <2>2 DEF ExpireTrial, SerialInv, ChecksHold
  <2>3. ASSUME Delete PROVE FALSE
    BY <1>3, <2>3 DEF Delete, SerialInv, ChecksHold
  <2> QED
    BY <1>4, <2>1, <2>2, <2>3 DEF JobStep, Warn, Stamp, MakeReadOnly, Pause, Lock, Enqueue, Mark
<1> QED
  BY <1>1, <1>2, <1>4 DEF Next, WorkerStep

\* No job changes the rows of a tenant whose subscription is active and that no
\* bank transfer was confirmed for, as long as handlers and jobs do not overlap.
THEOREM PayersStay == ASSUME MaxActive = 1 PROVE Spec => JobsSparePayers
<1>1. Serial /\ [Next]_vars =>
        [NoTransfer /\ sub.status = "active" /\ UNCHANGED handlers
           => UNCHANGED <<sub, company>>]_vars
  BY StepSparesPayers
<1> QED
  BY <1>1, SerialAlways, PTL DEF Spec, JobsSparePayers
=============================================================================
