------------------------------ MODULE BillingJobs ------------------------------
(* The daily jobs of the worker process, for one tenant: the past-due ladder,*)
(* the end of the trial, and the deletion queue the ladder feeds.            *)
(*                                                                           *)
(* A job reads the subscription once and then acts on that snapshot, one     *)
(* autocommitted statement or transaction after the other, while webhooks go *)
(* on writing the same rows.  A ladder run is the set of steps its snapshot  *)
(* calls for, taken in order.  It may run at any time: a firing can be missed*)
(* and BullMQ starts a stalled run again.                                    *)
(*                                                                           *)
(* The warning of the first band is modelled because the ladder acts on its  *)
(* stamp; the notices of the later bands are sent after the fact, read by    *)
(* nobody, and left out, as is the trial's reminder.                         *)
EXTENDS Subscription

CONSTANT AllowHardDelete  \* ALLOW_HARD_DELETE on the worker process

ASSUME HardDeleteAssumption == AllowHardDelete \in BOOLEAN

VARIABLES ladder,    \* steps of the current ladder run still to take, and
                     \* the past_due_at they were decided on
          expiring,  \* the trial job has found the trial over
          jobs,      \* deletion jobs in the queue
          deleting,  \* a deletion job has passed its checks
          warnings   \* the values of past_due_at a warning was sent about

jobVars == <<ladder, expiring, jobs, deleting, warnings>>

Steps == {"warn", "stamp", "restrict", "pause", "lock", "enqueue", "mark"}

LadderRun == [todo : SUBSET Steps, since : Nat]
NoRun == [todo |-> {}, since |-> Never]

JobsOK == /\ ladder \in LadderRun \cup {NoRun}
          /\ expiring \in BOOLEAN
          /\ jobs \in Nat
          /\ deleting \in BOOLEAN
          /\ warnings \subseteq Nat

JobsInit == /\ ladder = NoRun
            /\ expiring = FALSE
            /\ jobs = 0
            /\ deleting = FALSE
            /\ warnings = {}

Running == (IF ladder # NoRun THEN {"ladder"} ELSE {})
             \cup (IF expiring THEN {"trial"} ELSE {})
             \cup (IF deleting THEN {"deletion"} ELSE {})

-----------------------------------------------------------------------------
(* The past-due ladder.                                                      *)

\* Mutant: the deletion band opens with the lock band.
DeletesEarly(row, age) == age >= LockDay /\ ~row.enqueued

(* The bands: what the age of the failed charge calls for, and has not been  *)
(* done already.                                                             *)
Warns(row, age) == age >= WarnDay /\ ~row.warned
Restricts(age) == age >= ReadOnlyDay
Pauses(row, age) == age >= PauseDay /\ row.status \notin {"paused", "expired"}
Locks(row, age) == age >= LockDay /\ row.status # "expired"
Deletes(row, age) == age >= DeleteDay /\ ~row.enqueued

Due(row, age) == {step \in Steps : \/ step \in {"warn", "stamp"} /\ Warns(row, age)
                                   \/ step = "restrict" /\ Restricts(age)
                                   \/ step = "pause" /\ Pauses(row, age)
                                   \/ step = "lock" /\ Locks(row, age)
                                   \/ step \in {"enqueue", "mark"} /\ Deletes(row, age)}

\* Mutant: the query asks for rows that are past due.
ScanPastDueOnly ==
  /\ ladder = NoRun
  /\ sub.pastDueAt # Never /\ sub.status = "past_due"
  /\ Due(sub, day - sub.pastDueAt) # {}
  /\ ladder' = [todo |-> Due(sub, day - sub.pastDueAt), since |-> sub.pastDueAt]
  /\ UNCHANGED <<day, sub, company, faults, expiring, jobs, deleting, warnings>>

(* Rows are picked by their past_due_at, whatever the ladder has made of     *)
(* their status.                                                             *)
Scan ==
  /\ ladder = NoRun
  /\ sub.pastDueAt # Never
  /\ Due(sub, day - sub.pastDueAt) # {}
  /\ ladder' = [todo |-> Due(sub, day - sub.pastDueAt), since |-> sub.pastDueAt]
  /\ UNCHANGED <<day, sub, company, faults, expiring, jobs, deleting, warnings>>

\* The order of the steps in a run.
Rank == [warn |-> 1, stamp |-> 2, restrict |-> 3, pause |-> 4, lock |-> 5,
         enqueue |-> 6, mark |-> 7]

(* The next step of the run.                                                 *)
Take(step) ==
  /\ step \in ladder.todo
  /\ \A other \in ladder.todo : Rank[step] <= Rank[other]
  /\ ladder' = IF ladder.todo = {step} THEN NoRun
                ELSE [ladder EXCEPT !.todo = @ \ {step}]
  /\ UNCHANGED <<day, faults, expiring, deleting>>

\* Every active CEO and Admin is notified; a company has one, it is assumed.
Warn == /\ Take("warn")
        /\ warnings' = warnings \cup {ladder.since}
        /\ UNCHANGED <<sub, company, jobs>>

Stamp == /\ Take("stamp")
         /\ sub' = [sub EXCEPT !.warned = TRUE]
         /\ UNCHANGED <<company, jobs, warnings>>

(* read_only_at is read again just before it is set.                         *)
MakeReadOnly == /\ Take("restrict")
            /\ company' = [company EXCEPT !.readOnly = TRUE]
            /\ UNCHANGED <<sub, jobs, warnings>>

Pause == /\ Take("pause")
         /\ SetStatus("paused")
         /\ UNCHANGED <<jobs, warnings>>

Lock == /\ Take("lock")
        /\ SetStatus("expired")
        /\ UNCHANGED <<jobs, warnings>>

Enqueue == /\ Take("enqueue")
           /\ jobs' = jobs + 1
           /\ UNCHANGED <<sub, company, warnings>>

Mark == /\ Take("mark")
        /\ sub' = [sub EXCEPT !.enqueued = TRUE]
        /\ UNCHANGED <<company, jobs, warnings>>

(* A run that dies is not resumed: the next run takes a snapshot of its own. *)
LadderCrash ==
  /\ ladder # NoRun
  /\ Fault
  /\ ladder' = NoRun
  /\ UNCHANGED <<day, sub, company, expiring, jobs, deleting, warnings>>

-----------------------------------------------------------------------------
(* The end of the trial: found first, written later.                         *)

FindEndedTrial ==
  /\ ~expiring
  /\ sub.status = "trialing"
  /\ day > TrialDays
  /\ expiring' = TRUE
  /\ UNCHANGED <<day, sub, company, faults, ladder, jobs, deleting, warnings>>

ExpireTrial ==
  /\ expiring
  /\ SetStatus("expired")
  /\ expiring' = FALSE
  /\ UNCHANGED <<day, faults, ladder, jobs, deleting, warnings>>

TrialCrash ==
  /\ expiring
  /\ Fault
  /\ expiring' = FALSE
  /\ UNCHANGED <<day, sub, company, ladder, jobs, deleting, warnings>>

-----------------------------------------------------------------------------
(* The deletion queue.                                                       *)
Recoverable == {"trialing", "active"}

\* Mutant: the job trusts its enqueuer.
CheckNothing ==
  /\ jobs > 0
  /\ ~deleting
  /\ jobs' = jobs - 1
  /\ deleting' = (AllowHardDelete /\ ~company.deleted)
  /\ UNCHANGED <<day, sub, company, faults, ladder, expiring, warnings>>

(* A job that finds the tenant deleted or recovered, or the flag off, ends.  *)
CheckDeletion ==
  /\ jobs > 0
  /\ ~deleting
  /\ jobs' = jobs - 1
  /\ deleting' = /\ AllowHardDelete
                 /\ ~company.deleted
                 /\ company.status \notin Recoverable
  /\ UNCHANGED <<day, sub, company, faults, ladder, expiring, warnings>>

Delete ==
  /\ deleting
  /\ company' = [company EXCEPT !.deleted = TRUE]
  /\ deleting' = FALSE
  /\ UNCHANGED <<day, sub, faults, ladder, expiring, jobs, warnings>>

(* The job is not retried.                                                   *)
DeletionCrash ==
  /\ deleting
  /\ Fault
  /\ deleting' = FALSE
  /\ UNCHANGED <<day, sub, company, ladder, expiring, jobs, warnings>>

-----------------------------------------------------------------------------
(* A job starts, goes on, dies.                                              *)
JobStart == Scan \/ FindEndedTrial \/ CheckDeletion

JobStep == \/ Warn \/ Stamp \/ MakeReadOnly \/ Pause \/ Lock \/ Enqueue \/ Mark
           \/ ExpireTrial
           \/ Delete

JobCrash == LadderCrash \/ TrialCrash \/ DeletionCrash
=============================================================================
