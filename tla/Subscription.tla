----------------------------- MODULE Subscription -----------------------------
(* The two rows that hold the billing state of one tenant, and the clock.    *)
(* subscriptions is the record of the billing module; companies repeats its  *)
(* status and plan for the dashboards and carries the two consequences of    *)
(* dunning: read_only_at and deleted_at.  Webhooks, bank transfers and the   *)
(* daily jobs all write both rows.  Timestamps are days; a timestamp that    *)
(* only says "already done" is a Boolean.                                    *)
EXTENDS Integers, FiniteSets

CONSTANTS Never,       \* SQL NULL in past_due_at
          WarnDay, ReadOnlyDay, PauseDay, LockDay, DeleteDay,  \* 1 7 14 30 120
          TrialDays,   \* length of the free trial
          MaxDay,      \* bound: days in a behaviour
          MaxFaults    \* bound: crashes and failed transactions in a behaviour

ASSUME NeverAssumption == Never \notin Nat

\* The bands of the dunning ladder follow one another.
ASSUME BandsAssumption ==
  /\ {WarnDay, ReadOnlyDay, PauseDay, LockDay, DeleteDay} \subseteq Nat \ {0}
  /\ WarnDay < ReadOnlyDay
  /\ ReadOnlyDay < PauseDay
  /\ PauseDay < LockDay
  /\ LockDay < DeleteDay

ASSUME BoundsAssumption == {TrialDays, MaxDay, MaxFaults} \subseteq Nat

VARIABLES day,      \* today
          sub,      \* the subscriptions row
          company,  \* the companies row
          faults    \* crashes so far

rows == <<sub, company>>

Statuses == {"trialing", "active", "past_due", "paused", "cancelled", "expired"}
Plans == {"starter", "growth", "enterprise"}

SubscriptionRow ==
  [status : Statuses, plan : Plans,
   linked : BOOLEAN,             \* a Stripe or Paddle subscription id is set
   pastDueAt : Nat \cup {Never}, \* the day the ladder counts from
   warned : BOOLEAN,             \* past_due_warning_sent_at
   enqueued : BOOLEAN]           \* deletion_enqueued_at

CompanyRow == [status : Statuses, plan : Plans,
               readOnly : BOOLEAN, deleted : BOOLEAN]

RowsOK == /\ day \in Nat
          /\ sub \in SubscriptionRow
          /\ company \in CompanyRow
          /\ faults \in Nat

(* The first sign-up of a tenant: a trial on the starter plan.               *)
RowsInit == /\ day = 0
            /\ sub = [status |-> "trialing", plan |-> "starter", linked |-> FALSE,
                      pastDueAt |-> Never, warned |-> FALSE, enqueued |-> FALSE]
            /\ company = [status |-> "trialing", plan |-> "starter",
                          readOnly |-> FALSE, deleted |-> FALSE]
            /\ faults = 0

\* Mutant: the cache in companies is left to a later refresh.
SetStatusUnsynced(status) == /\ sub' = [sub EXCEPT !.status = status]
                             /\ UNCHANGED company

(* A $transaction that writes a status to both rows and nothing else.        *)
SetStatus(status) == /\ sub' = [sub EXCEPT !.status = status]
                     /\ company' = [company EXCEPT !.status = status]

Fault == /\ faults < MaxFaults
         /\ faults' = faults + 1

DayPasses == /\ day < MaxDay
             /\ day' = day + 1
             /\ UNCHANGED <<sub, company, faults>>
=============================================================================
