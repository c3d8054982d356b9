-------------------------------- MODULE Billing --------------------------------
(* One tenant's billing as a whole: webhooks and requests served by the API  *)
(* process, the daily jobs of the worker process, and the passing of days,   *)
(* all on the same two rows and with nothing but single statements and       *)
(* transactions to order them.                                               *)
EXTENDS BillingRequests, BillingJobs

CONSTANT MaxActive  \* handlers and jobs at work at the same time; 1: no overlap

ASSUME MaxActiveAssumption == MaxActive \in Nat

vars == <<day, sub, company, faults, requestVars, jobVars>>

TypeOK == RowsOK /\ RequestsOK /\ JobsOK

Init == RowsInit /\ RequestsInit /\ JobsInit

MayStart == Cardinality(InFlight) + Cardinality(Running) < MaxActive

ApiStep(h) == /\ \/ MayStart /\ Load(h)
                 \/ Receive(h)
                 \/ Write(h)
                 \/ Fail(h)
              /\ UNCHANGED jobVars

WorkerStart == MayStart /\ JobStart /\ UNCHANGED requestVars

WorkerStep == JobStep /\ UNCHANGED requestVars

WorkerCrash == JobCrash /\ UNCHANGED requestVars

(* A request lasts seconds (the transactions have a time limit); a job may   *)
(* go on past midnight.                                                      *)
Tomorrow == InFlight = {} /\ DayPasses /\ UNCHANGED <<requestVars, jobVars>>

Next == \/ \E h \in Handlers : ApiStep(h)
        \/ WorkerStart
        \/ WorkerStep
        \/ WorkerCrash
        \/ Tomorrow

Spec == Init /\ [][Next]_vars

(* Days pass, a handler ends one way or the other, and the ladder is run     *)
(* daily.  Neither time nor a job waits for requests to stop coming: that    *)
(* their guards do is the model's doing, so they are strongly fair.          *)
Fairness == /\ SF_vars(Tomorrow)
            /\ \A h \in Handlers : WF_vars((Receive(h) \/ Write(h) \/ Fail(h)) /\ UNCHANGED jobVars)
            /\ SF_vars(MayStart /\ Scan /\ UNCHANGED requestVars)
            /\ WF_vars(WorkerStep)

FairSpec == Spec /\ Fairness

-----------------------------------------------------------------------------
(* What holds however handlers, jobs and crashes interleave.                 *)

\* companies repeats the status and the plan of subscriptions: none of the
\* writers of either row lets the two drift apart.
RowsInSync == company.status = sub.status /\ company.plan = sub.plan

\* However often a provider delivers an event, also at the same time and after
\* a handler of it has failed, its effect is applied at most once: a retry that
\* arrives late does not undo what happened since.
AppliedAtMostOnce == \A e \in DOMAIN applied : applied[e] <= 1

\* A deletion job, and so a deletion, goes back to a charge that failed at
\* least DeleteDay days ago and that the tenant was warned about.
DeletionWasWarned ==
  jobs > 0 \/ deleting \/ company.deleted =>
    \E since \in warnings : since + DeleteDay <= day

\* A workspace is read-only only after a failed charge the tenant was warned
\* about, at least ReadOnlyDay days ago.
ReadOnlyWasWarned ==
  company.readOnly => \E since \in warnings : since + ReadOnlyDay <= day

\* Nothing the ladder does to a tenant comes unannounced.
SanctionsWereWarned == DeletionWasWarned /\ ReadOnlyWasWarned

-----------------------------------------------------------------------------
(* What holds as long as no two of them overlap.                             *)

\* The stamp that suppresses the warning belongs to the dunning cycle that is
\* open: no cycle goes without a warning because of an earlier one.  (A payment
\* by bank transfer does not end a cycle, see NoTransfer.)
WarnedAboutThisCycle == sub.warned => sub.pastDueAt \in warnings

\* markPaid makes a tenant active and leaves the columns of dunning as they are,
\* although the ladder's code expects recovery to clear past_due_at: the next
\* two properties are about tenants that no bank transfer was confirmed for.
NoTransfer == \A i \in DOMAIN invoices : invoices[i] # "paid"

\* Recovery reported by a provider is complete: nothing of the dunning cycle
\* is left on a tenant whose subscription is good again, however far down the
\* ladder it was and whichever jobs ran since.
WebhookRecoveryIsComplete ==
  NoTransfer /\ sub.status \in Recoverable =>
    sub.pastDueAt = Never /\ ~sub.warned /\ ~sub.enqueued /\ ~company.readOnly

\* No job touches a tenant that pays its provider: neither the ladder, nor the
\* end of its trial, nor a deletion queued before it recovered.
JobsSparePayers ==
  [][NoTransfer /\ sub.status = "active" /\ UNCHANGED handlers =>
       UNCHANGED <<sub, company>>]_vars

\* The ladder counts from the first failed charge of a cycle: failed retries do
\* not restart it and nothing moves its start.
AnchorIsSetOnce ==
  [][sub.pastDueAt # Never => sub'.pastDueAt \in {sub.pastDueAt, Never}]_vars

\* A tenant has one outstanding bank-transfer invoice at most.
OneOpenInvoice == Cardinality(Open) <= 1

-----------------------------------------------------------------------------
\* The ladder gets to its end: a charge that has been failing for DeleteDay
\* days is given up, with the tenant locked and its deletion queued, unless
\* the cycle ends first.  Crashes, missed runs and late webhooks delay it only.
LadderCompletes ==
  (sub.pastDueAt # Never /\ sub.pastDueAt + DeleteDay <= day)
    ~> (sub.pastDueAt = Never \/ (sub.status = "expired" /\ sub.enqueued))
=============================================================================
