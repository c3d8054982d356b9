-------------------------------- MODULE Delivery -------------------------------
(* What becomes of a notification of one type: its row, its real-time push   *)
(* and the bell of the recipient's browser, and its e-mail.                  *)
(*                                                                           *)
(* NotificationsService.create runs inside the transaction of the request it *)
(* serves.  The row is committed or rolled back with it; the push and the    *)
(* e-mail job leave the process before the commit and are not taken back.    *)
(*                                                                           *)
(* Row level security shows a request only the preferences of its own user.  *)
EXTENDS Naturals, FiniteSets

CONSTANTS Users,
          Watchers,     \* users with a browser open
          Ids,          \* notification ids
          Mailable,     \* ids of a type that has an e-mail template
          Pushing,      \* how a push may be timed: "afterCommit", "anytime"
          Attempts,     \* attempts of an e-mail job
          MaxRequests,  \* bound: requests that users make
          MaxFaults     \* bound: failures of Resend, the worker and the network

ASSUME SetsAssumption == Watchers \subseteq Users /\ Mailable \subseteq Ids
ASSUME PushingAssumption == Pushing \subseteq {"afterCommit", "anytime"}
ASSUME BoundsAssumption == Attempts \in Nat \ {0} /\ {MaxRequests, MaxFaults} \subseteq Nat

VARIABLES prefs,      \* per user, the channels opted out of
          rows,       \* notifications rows
          calls,      \* requests that are writing notifications
          pushes,     \* pushes on their way to the browser
          jobs,       \* per notification, its e-mail job
          mails,      \* per notification, how often Resend has mailed it
          bell,       \* per watcher, the unread notifications it shows
          fetch,      \* per watcher, the list query in flight
          fresh,      \* watchers whose first list query is still in flight
          marks,      \* mark-read calls whose answer is on its way
          requests, faults,   \* what the bounds count
          push,       \* how pushes are timed in this behaviour
          lost        \* whether a push or an answer to the browser was lost, or a
                      \* push came when the first list had been read and not shown

mail == <<jobs, mails>>
browser == <<bell, fetch, fresh, marks>>
counters == <<requests, faults, push, lost>>
vars == <<prefs, rows, calls, pushes, mail, browser, counters>>

-----------------------------------------------------------------------------
Channels == {"in_app", "email"}
Absent == [state |-> "absent"]
Row == [state : {"open", "unread", "read", "deleted"}, to : Users, expired : BOOLEAN]
Call == [actor : Users, todo : SUBSET Users, wrote : SUBSET Ids]
Job == [state : {"none", "adding", "queued", "active", "done", "refused", "failed"},
        tried : 0..Attempts, stalls : 0..2]
Fetch == [phase : {"idle", "asked", "answered"}, items : SUBSET Ids]

TypeOK ==
  /\ prefs \in [Users -> SUBSET Channels]
  /\ rows \in [Ids -> Row \cup {Absent}]
  /\ calls \subseteq Call
  /\ pushes \subseteq Ids
  /\ jobs \in [Ids -> Job]
  /\ mails \in [Ids -> Nat]
  /\ bell \in [Watchers -> SUBSET Ids]
  /\ fetch \in [Watchers -> Fetch]
  /\ fresh \subseteq Watchers
  /\ marks \subseteq Watchers
  /\ requests \in Nat /\ faults \in Nat /\ push \in Pushing /\ lost \in BOOLEAN

Init ==
  /\ prefs = [u \in Users |-> {}]
  /\ rows = [n \in Ids |-> Absent]
  /\ calls = {}
  /\ pushes = {}
  /\ jobs = [n \in Ids |-> [state |-> "none", tried |-> 0, stalls |-> 0]]
  /\ mails = [n \in Ids |-> 0]
  /\ bell = [v \in Watchers |-> {}]
  /\ fresh \in SUBSET Watchers
  /\ fetch = [v \in Watchers |-> [phase |-> IF v \in fresh THEN "asked" ELSE "idle",
                                  items |-> {}]]
  /\ marks = {}
  /\ requests = 0 /\ faults = 0
  /\ push \in Pushing
  /\ lost = FALSE

Request == /\ requests < MaxRequests
           /\ requests' = requests + 1
           /\ UNCHANGED <<faults, push, lost>>

Fault == /\ faults < MaxFaults
         /\ faults' = faults + 1
         /\ UNCHANGED <<requests, push>>

-----------------------------------------------------------------------------
(* PATCH /me/notification-preferences.                                       *)
SetPreferences(u, off) ==
  /\ Request
  /\ prefs' = [prefs EXCEPT ![u] = off]
  /\ UNCHANGED <<rows, calls, pushes, mail, browser>>

(* A request with recipients: POST /broadcasts, whose audience may include   *)
(* the sender, or any of the task and comment handlers.                      *)
Announce(u, recipients) ==
  /\ Request
  /\ calls' = calls \cup {[actor |-> u, todo |-> recipients, wrote |-> {}]}
  /\ UNCHANGED <<prefs, rows, pushes, mail, browser>>

(* The preferences of a recipient as the request's transaction sees them.    *)
SeenBy(actor, v) == IF v = actor THEN prefs[v] ELSE {}

(* create: the next recipient.                                               *)
Notify(call, v, n) ==
  LET off == SeenBy(call.actor, v) IN
  /\ v \in call.todo
  /\ rows[n] = Absent
  /\ IF "in_app" \in off
       THEN /\ calls' = (calls \ {call}) \cup {[call EXCEPT !.todo = @ \ {v}]}
            /\ UNCHANGED <<rows, pushes, jobs>>
       ELSE /\ calls' = (calls \ {call}) \cup {[call EXCEPT !.todo = @ \ {v},
                                                            !.wrote = @ \cup {n}]}
            /\ rows' = [rows EXCEPT ![n] = [state |-> "open", to |-> v, expired |-> FALSE]]
            /\ pushes' = pushes \cup {n}
            /\ jobs' = IF n \in Mailable /\ "email" \notin off
                         THEN [jobs EXCEPT ![n].state = "adding"]
                         ELSE jobs
  /\ UNCHANGED <<prefs, mails, browser, counters>>

Commit(call) ==
  /\ call.todo = {}
  /\ rows' = [n \in Ids |-> IF n \in call.wrote THEN [rows[n] EXCEPT !.state = "unread"]
                                                 ELSE rows[n]]
  /\ calls' = calls \ {call}
  /\ UNCHANGED <<prefs, pushes, mail, browser, counters>>

(* The rows are gone; what was pushed and queued stays.                      *)
Rollback(call) ==
  /\ rows' = [n \in Ids |-> IF n \in call.wrote THEN [rows[n] EXCEPT !.state = "deleted"]
                                                 ELSE rows[n]]
  /\ calls' = calls \ {call}
  /\ UNCHANGED <<prefs, pushes, mail, browser, counters>>

-----------------------------------------------------------------------------
(* The bell.                                                                 *)
Unread(v) == {n \in Ids : rows[n].state = "unread" /\ rows[n].to = v}
Listed(v) == {n \in Unread(v) : ~rows[n].expired}

\* Mutant: the query in flight is kept, and its answer taken for a new one.
NoRefetch(v) == fetch' = [fetch EXCEPT ![v].phase = IF @ = "idle" THEN "asked" ELSE @]

\* invalidateQueries drops the list query in flight and asks again; but a query
\* that has no data yet it leaves in flight.
Refetch(v) == fetch' = IF v \in fresh THEN fetch
                       ELSE [fetch EXCEPT ![v] = [phase |-> "asked", items |-> {}]]

(* onNotification: the push reaches the browser, after the commit if the     *)
(* behaviour's pushes are that slow.  A recipient with no browser misses it, *)
(* and so does one whose first list has been read already but not shown.     *)
TooEarly(n) == rows[n].to \in fresh /\ fetch[rows[n].to].phase = "answered"

DeliverPush(n) ==
  /\ n \in pushes
  /\ push = "afterCommit" => rows[n].state # "open"
  /\ pushes' = pushes \ {n}
  /\ IF rows[n].to \in Watchers THEN Refetch(rows[n].to) ELSE UNCHANGED fetch
  /\ lost' = (lost \/ TooEarly(n))
  /\ UNCHANGED <<prefs, rows, calls, mail, bell, fresh, marks, requests, faults, push>>

\* safeTrigger swallows the error.
LosePush(n) ==
  /\ n \in pushes
  /\ Fault /\ lost' = TRUE
  /\ pushes' = pushes \ {n}
  /\ UNCHANGED <<prefs, rows, calls, mail, browser>>

\* GET /notifications reads committed rows that have not expired.
Answer(v) ==
  /\ fetch[v].phase = "asked"
  /\ fetch' = [fetch EXCEPT ![v] = [phase |-> "answered", items |-> Listed(v)]]
  /\ UNCHANGED <<prefs, rows, calls, pushes, mail, bell, fresh, marks, counters>>

Receive(v) ==
  /\ fetch[v].phase = "answered"
  /\ bell' = [bell EXCEPT ![v] = fetch[v].items]
  /\ fetch' = [fetch EXCEPT ![v] = [phase |-> "idle", items |-> {}]]
  /\ fresh' = fresh \ {v}
  /\ UNCHANGED <<prefs, rows, calls, pushes, mail, marks, counters>>

\* POST mark-read for an item shown, or mark-all-read.
MarkRead(v, ids) ==
  /\ bell[v] # {}
  /\ v \notin marks
  /\ Request
  /\ rows' = [n \in Ids |-> IF n \in ids \cap Unread(v) THEN [rows[n] EXCEPT !.state = "read"]
                                                       ELSE rows[n]]
  /\ marks' = marks \cup {v}
  /\ UNCHANGED <<prefs, calls, pushes, mail, bell, fetch, fresh>>

MarkAnswered(v) ==
  /\ v \in marks
  /\ marks' = marks \ {v}
  /\ Refetch(v)
  /\ UNCHANGED <<prefs, rows, calls, pushes, mail, bell, fresh, counters>>

LoseAnswer(v) ==
  /\ v \in marks
  /\ Fault /\ lost' = TRUE
  /\ marks' = marks \ {v}
  /\ UNCHANGED <<prefs, rows, calls, pushes, mail, bell, fetch, fresh>>

Expire(n) ==
  /\ rows[n].state \in {"unread", "read"} /\ ~rows[n].expired
  /\ rows' = [rows EXCEPT ![n].expired = TRUE]
  /\ UNCHANGED <<prefs, calls, pushes, mail, browser, counters>>

\* The daily sweep deletes what has both expired and been read.
Swept(n) == rows[n].state = "read" /\ rows[n].expired

Sweep ==
  /\ \E n \in Ids : Swept(n)
  /\ rows' = [n \in Ids |-> IF Swept(n) THEN [rows[n] EXCEPT !.state = "deleted"] ELSE rows[n]]
  /\ UNCHANGED <<prefs, calls, pushes, mail, browser, counters>>

-----------------------------------------------------------------------------
(* The e-mail job.                                                           *)
Becomes(n, job) == jobs' = [jobs EXCEPT ![n] = job]
MailOnly == UNCHANGED <<prefs, rows, calls, pushes, browser>>

Enqueued(n) ==
  /\ jobs[n].state = "adding"
  /\ Becomes(n, [jobs[n] EXCEPT !.state = "queued"])
  /\ UNCHANGED mails /\ MailOnly /\ UNCHANGED counters

\* Redis is down: the error is logged and the e-mail forgotten.
NotEnqueued(n) ==
  /\ jobs[n].state = "adding"
  /\ Fault /\ UNCHANGED lost
  /\ Becomes(n, [jobs[n] EXCEPT !.state = "none"])
  /\ UNCHANGED mails /\ MailOnly

\* The worker handles one job at a time.
Take(n) ==
  /\ jobs[n].state = "queued"
  /\ \A m \in Ids : jobs[m].state # "active"
  /\ Becomes(n, [jobs[n] EXCEPT !.state = "active"])
  /\ UNCHANGED mails /\ MailOnly /\ UNCHANGED counters

\* Mutant: no idempotency key.
MailedAgain(n) == [mails EXCEPT ![n] = @ + 1]

\* Resend mails once per idempotency key.  It remembers a key for 24 hours; the
\* attempts of a job are taken to fall within them (BullMQ makes the second two
\* seconds after the first and the third four seconds later).
Mailed(n) == IF mails[n] = 0 THEN [mails EXCEPT ![n] = 1] ELSE mails

Sent(n) ==
  /\ jobs[n].state = "active"
  /\ mails' = Mailed(n)
  /\ Becomes(n, [jobs[n] EXCEPT !.state = "done"])
  /\ MailOnly /\ UNCHANGED counters

\* Mutant: the processor gives up at the first failure.
NotRetried(job) == [job EXCEPT !.tried = @ + 1, !.state = "failed"]

\* What BullMQ does with a job that threw a transient error.
Retried(job) == [job EXCEPT !.tried = @ + 1,
                            !.state = IF job.tried + 1 < Attempts THEN "queued" ELSE "failed"]

\* An outage, or an answer that was lost after Resend took the e-mail.
TransientFailure(n) ==
  /\ jobs[n].state = "active"
  /\ Fault /\ UNCHANGED lost
  /\ mails' \in {mails, Mailed(n)}
  /\ Becomes(n, Retried(jobs[n]))
  /\ MailOnly

\* Any error but the transient ones counts as a 4xx and is not retried: also the
\* one that Resend has for a key it is busy with or has mailed already.
Refused(n) ==
  /\ jobs[n].state = "active"
  /\ Fault /\ UNCHANGED lost
  /\ Becomes(n, [jobs[n] EXCEPT !.state = "refused"])
  /\ UNCHANGED mails /\ MailOnly

\* The worker dies with the job; BullMQ gives a stalled job a second worker
\* and fails it when that one dies too.
Stall(n) ==
  /\ jobs[n].state = "active"
  /\ Fault /\ UNCHANGED lost
  /\ mails' \in {mails, Mailed(n)}
  /\ Becomes(n, [jobs[n] EXCEPT !.stalls = @ + 1,
                                !.state = IF jobs[n].stalls = 0 THEN "queued" ELSE "failed"])
  /\ MailOnly

-----------------------------------------------------------------------------
Asked ==
  \/ \E u \in Users, off \in SUBSET Channels : SetPreferences(u, off)
  \/ \E u \in Users, to \in SUBSET Users : to # {} /\ Announce(u, to)

Finish(call) ==
  \/ \E v \in Users, n \in Ids : Notify(call, v, n)
  \/ Commit(call)
  \/ Rollback(call)

Bell(v) ==
  \/ Answer(v) \/ Receive(v) \/ MarkAnswered(v)
  \/ \E n \in bell[v] : MarkRead(v, {n})
  \/ MarkRead(v, Ids)

MailStep(n) == Enqueued(n) \/ Take(n) \/ Sent(n) \/ TransientFailure(n) \/ Refused(n) \/ Stall(n)

Next ==
  \/ Asked
  \/ \E call \in calls : Finish(call)
  \/ \E v \in Watchers : Bell(v) \/ LoseAnswer(v)
  \/ \E n \in Ids : DeliverPush(n) \/ LosePush(n) \/ Expire(n) \/ MailStep(n) \/ NotEnqueued(n)
  \/ Sweep

Spec == Init /\ [][Next]_vars

(* Requests end, Pusher and the API answer, and the worker keeps taking and  *)
(* handling jobs: it always makes one of the steps open to it.               *)
Fairness ==
  /\ WF_vars(\E call \in calls : Finish(call))
  /\ \A n \in Ids : WF_vars(DeliverPush(n)) /\ WF_vars(MailStep(n))
  /\ \A v \in Watchers : WF_vars(Answer(v)) /\ WF_vars(Receive(v)) /\ WF_vars(MarkAnswered(v))

FairSpec == Spec /\ Fairness

-----------------------------------------------------------------------------
(* However often a job is retried, after outages, lost answers and dead      *)
(* workers, its recipient gets at most one e-mail for a notification; and a  *)
(* job ends only for a reason: it was sent, Resend refused it, or its        *)
(* attempts or its workers are used up.                                      *)
MailIsAccountedFor ==
  \A n \in Ids :
    /\ mails[n] <= 1
    /\ jobs[n].state = "done" => mails[n] = 1
    /\ jobs[n].state = "failed" => jobs[n].tried = Attempts \/ jobs[n].stalls = 2

(* A queued e-mail is sent, unless Resend refused it, every attempt failed   *)
(* or two workers died with it: no job is left behind.                       *)
QueuedIsMailed ==
  \A n \in Ids : jobs[n].state = "queued" ~>
                  (mails[n] = 1 \/ jobs[n].state = "refused" \/ jobs[n].tried = Attempts
                    \/ jobs[n].stalls = 2)

(* As long as no push and no answer to the browser is lost, none comes       *)
(* between the read of the first list and its arrival, and none overtakes    *)
(* the commit it belongs to, the bell ends up showing what is unread,        *)
(* whichever reads, marks and refetches overlapped on the way.               *)
BellShowsUnread == \A v \in Watchers : Listed(v) \subseteq bell[v] /\ bell[v] \subseteq Unread(v)

BellCatchesUp == (push = "afterCommit" /\ []~lost) => <>[]BellShowsUnread

(* The safety half: a browser that waits for no list, no answer to a mark    *)
(* and no push shows what is unread.                                         *)
AtRest(v) == /\ fetch[v].phase = "idle" /\ v \notin marks
             /\ \A n \in pushes : rows[n].to # v

BellIsCurrentAtRest ==
  push = "afterCommit" /\ ~lost =>
    \A v \in Watchers : AtRest(v) => Listed(v) \subseteq bell[v] /\ bell[v] \subseteq Unread(v)
=============================================================================
