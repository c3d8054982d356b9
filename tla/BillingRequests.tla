---------------------------- MODULE BillingRequests ----------------------------
(* What reaches the API process about one tenant's billing: the webhooks of  *)
(* Stripe and Paddle, and the requests of people (a bank-transfer invoice,   *)
(* its confirmation by a platform operator, a change of plan).               *)
(*                                                                           *)
(* A handler reads, decides, and writes in one transaction at the end; what  *)
(* it read may be out of date by then.  Load stands for its reads and early  *)
(* returns, Write for the final transaction, and Fail for everything that    *)
(* can prevent it.  A refused request changes nothing and is not a step.     *)
(*                                                                           *)
(* A provider delivers an event until it is answered with success, and may   *)
(* deliver it twice at the same time.  The handler first inserts the event   *)
(* id, outside any transaction: the row survives a failure, and a delivery   *)
(* that finds it there ends.                                                 *)
(*                                                                           *)
(* The two providers' handlers are written separately and do the same to the *)
(* columns modelled here: Paddle's subscription.activated is Stripe's        *)
(* subscription update to active, subscription.canceled is Stripe's deletion.*)
EXTENDS Subscription, Sequences

CONSTANTS Handlers,    \* requests the API serves at the same time
          MaxEvents,   \* bound: provider events, each delivered any number of times
          MaxInvoices  \* bound: bank-transfer invoices

ASSUME RequestBoundsAssumption == {MaxEvents, MaxInvoices} \subseteq Nat

VARIABLES handlers,  \* per handler, the call in flight and what it has read
          events,    \* the events sent, by number: Recorded once the event has
                     \* its row in the webhook event tables
          applied,   \* how often the effect of each event was committed
          invoices   \* statuses of the bank-transfer invoices

requestVars == <<handlers, events, applied, invoices>>

\* An update of the subscription carries the status the provider reports.
Reported == {"trialing", "active", "past_due", "paused", "cancelled"}
Kinds == Reported \cup {"ended", "payment_failed", "checkout"}
Unrecorded == "unrecorded"
Recorded == "recorded"

Idle == [op |-> "idle"]
Delivery == [op : {"arrived"}, event : Nat]
Hook == [op : {"hook"}, event : Nat, kind : Kinds, plan : Plans,
         pastDueAt : Nat \cup {Never}]
Confirmation == [op : {"confirm"}, invoice : Nat]
Order == [op : {"order"}]
PlanChange == [op : {"plan"}, plan : Plans]

InFlight == {h \in Handlers : handlers[h] # Idle}
Open == {i \in DOMAIN invoices : invoices[i] = "open"}

RequestsOK ==
  /\ handlers \in [Handlers -> {Idle} \cup Delivery \cup Hook \cup Confirmation
                                 \cup Order \cup PlanChange]
  /\ events \in Seq({Unrecorded, Recorded})
  /\ applied \in [1..MaxEvents -> Nat]
  /\ invoices \in Seq({"open", "paid"})

RequestsInit == /\ handlers = [h \in Handlers |-> Idle]
                /\ events = <<>>
                /\ applied = [e \in 1..MaxEvents |-> 0]
                /\ invoices = <<>>

Begin(h, call) == /\ handlers[h] = Idle
                  /\ handlers' = [handlers EXCEPT ![h] = call]
                  /\ UNCHANGED <<day, sub, company, faults>>

Finish(h) == handlers' = [handlers EXCEPT ![h] = Idle]

-----------------------------------------------------------------------------
(* Webhooks.                                                                 *)

(* The first delivery of an event, and any later one: after a failure, after *)
(* a success whose answer was lost, or at the same time.                     *)
Deliver(h) ==
  /\ Len(events) < MaxEvents
  /\ events' = Append(events, Unrecorded)
  /\ Begin(h, [op |-> "arrived", event |-> Len(events) + 1])
  /\ UNCHANGED <<applied, invoices>>

Redeliver(h) ==
  /\ \E e \in DOMAIN events : Begin(h, [op |-> "arrived", event |-> e])
  /\ UNCHANGED <<events, applied, invoices>>

Read(e, kind) == [op |-> "hook", event |-> e, kind |-> kind,
                  plan |-> sub.plan, pastDueAt |-> sub.pastDueAt]

\* Mutant: the event id is recorded without a unique constraint.
RecordAgain(h, kind) ==
  /\ handlers[h].op = "arrived"
  /\ events' = [events EXCEPT ![handlers[h].event] = Recorded]
  /\ handlers' = [handlers EXCEPT ![h] = Read(@.event, kind)]
  /\ UNCHANGED <<day, sub, company, faults, applied, invoices>>

(* The insert of an event id that is not there yet, and findSubscription.    *)
(* What the event says matters, and is chosen, from here on.                 *)
Record(h, kind) ==
  /\ handlers[h].op = "arrived"
  /\ events[handlers[h].event] = Unrecorded
  /\ events' = [events EXCEPT ![handlers[h].event] = Recorded]
  /\ handlers' = [handlers EXCEPT ![h] = Read(@.event, kind)]
  /\ UNCHANGED <<day, sub, company, faults, applied, invoices>>

(* The insert meets the unique constraint: already processed.                *)
Duplicate(h) ==
  /\ handlers[h].op = "arrived"
  /\ events[handlers[h].event] = Recorded
  /\ Finish(h)
  /\ UNCHANGED <<day, sub, company, faults, events, applied, invoices>>

Raised(plan) == IF plan = "enterprise" THEN plan ELSE "growth"

\* Mutant: each failed retry of a charge restarts the ladder.
AnchorToday(read) == day

(* past_due_at is set once per dunning cycle, by what the handler read.      *)
Anchor(read) == IF read.pastDueAt = Never THEN day ELSE read.pastDueAt

\* Mutant: recovery forgets past_due_warning_sent_at.
KeepsAnyWarning(failing) == sub.warned

\* Mutant: recovery forgets companies.read_only_at.
KeepsAnyReadOnly(failing) == company.readOnly

(* The marks of the dunning cycle outlive the update if the charge fails.    *)
KeepsWarning(failing) == failing /\ sub.warned
KeepsReadOnly(failing) == failing /\ company.readOnly

(* onSubscriptionUpserted, onSubscriptionActivated: any status but past_due  *)
(* ends the dunning cycle.  The plan written is the one read, raised if the  *)
(* subscription is active.                                                   *)
Upsert(read) ==
  LET status == read.kind
      plan == IF status = "active" THEN Raised(read.plan) ELSE read.plan
      failing == status = "past_due"
  IN
  /\ sub' = [status |-> status, plan |-> plan, linked |-> TRUE,
             pastDueAt |-> IF failing THEN Anchor(read) ELSE Never,
             warned |-> KeepsWarning(failing),
             enqueued |-> failing /\ sub.enqueued]
  /\ company' = [company EXCEPT !.status = status, !.plan = plan,
                                !.readOnly = KeepsReadOnly(failing)]

(* onSubscriptionDeleted, onSubscriptionCanceled.                            *)
End == SetStatus("cancelled")

(* onInvoicePaymentFailed, onTransactionPaymentFailed.                       *)
PaymentFailed(read) ==
  /\ sub' = [sub EXCEPT !.status = "past_due", !.pastDueAt = Anchor(read)]
  /\ company' = [company EXCEPT !.status = "past_due"]

(* onCheckoutSessionCompleted stamps the ids of an unlinked row.             *)
Checkout == /\ sub' = [sub EXCEPT !.linked = TRUE]
            /\ UNCHANGED company

Effect(read) == \/ read.kind \in Reported /\ Upsert(read)
                \/ read.kind = "ended" /\ End
                \/ read.kind = "payment_failed" /\ PaymentFailed(read)
                \/ read.kind = "checkout" /\ Checkout

Apply(h) ==
  /\ handlers[h].op = "hook"
  /\ Effect(handlers[h])
  /\ applied' = [applied EXCEPT ![handlers[h].event] = @ + 1]
  /\ Finish(h)
  /\ UNCHANGED <<day, faults, events, invoices>>

-----------------------------------------------------------------------------
(* Requests of people.                                                       *)

\* Mutant: no check for an invoice that is already pending.
RequestInvoiceAgain(h) ==
  /\ Len(invoices) < MaxInvoices
  /\ Begin(h, [op |-> "order"])
  /\ UNCHANGED <<events, applied, invoices>>

(* createPendingInvoice.                                                     *)
RequestInvoice(h) ==
  /\ Len(invoices) < MaxInvoices
  /\ Open = {}
  /\ Begin(h, [op |-> "order"])
  /\ UNCHANGED <<events, applied, invoices>>

IssueInvoice(h) ==
  /\ handlers[h].op = "order"
  /\ invoices' = Append(invoices, "open")
  /\ Finish(h)
  /\ UNCHANGED <<day, sub, company, faults, events, applied>>

(* markPaid.                                                                 *)
ConfirmInvoice(h) ==
  /\ \E i \in Open : Begin(h, [op |-> "confirm", invoice |-> i])
  /\ UNCHANGED <<events, applied, invoices>>

MarkPaid(h) ==
  /\ handlers[h].op = "confirm"
  /\ invoices' = [invoices EXCEPT ![handlers[h].invoice] = "paid"]
  /\ sub' = [sub EXCEPT !.status = "active", !.plan = "growth"]
  /\ company' = [company EXCEPT !.status = "active", !.plan = "growth"]
  /\ Finish(h)
  /\ UNCHANGED <<day, faults, events, applied>>

(* POST /billing/downgrade, for a tenant whose usage fits the target plan.   *)
RequestPlan(h, plan) ==
  /\ sub.plan # plan
  /\ ~sub.linked
  /\ Begin(h, [op |-> "plan", plan |-> plan])
  /\ UNCHANGED <<events, applied, invoices>>

ChangePlan(h) ==
  /\ handlers[h].op = "plan"
  /\ sub' = [sub EXCEPT !.plan = handlers[h].plan]
  /\ company' = [company EXCEPT !.plan = handlers[h].plan]
  /\ Finish(h)
  /\ UNCHANGED <<day, faults, events, applied, invoices>>

-----------------------------------------------------------------------------
(* The process dies or a statement fails before the final transaction.       *)
Fail(h) == /\ handlers[h] # Idle
           /\ Fault
           /\ Finish(h)
           /\ UNCHANGED <<day, sub, company, events, applied, invoices>>

Load(h) == \/ Deliver(h)
           \/ Redeliver(h)
           \/ RequestInvoice(h)
           \/ ConfirmInvoice(h)
           \/ \E plan \in Plans : RequestPlan(h, plan)

Receive(h) == \/ \E kind \in Kinds : Record(h, kind)
              \/ Duplicate(h)

Write(h) == \/ Apply(h)
            \/ IssueInvoice(h)
            \/ MarkPaid(h)
            \/ ChangePlan(h)
=============================================================================
