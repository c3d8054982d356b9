# Q Task-Manager: specifications

TLA+ specifications of the Q Task-Manager API (`src/apps/api`) and of the parts
of its web client that keep state, their model checking with TLC, and proofs of
their main properties with TLAPS. Paths below are relative to
`src/apps/api/src/` unless they start with `src/`.

## 1. The system

A multi-tenant task manager: a NestJS API, a worker process running BullMQ jobs,
PostgreSQL (Prisma, row-level security), Redis, and a Next.js client. Clerk
signs users in; Stripe, Paddle or a bank transfer pays.

Four rules shape every behaviour:

* **One transaction per request.** `TenantContextInterceptor` runs a tenant
  handler in one interactive transaction at READ COMMITTED. Handlers read a row,
  check it, and later update it *by id only*. Two requests can both pass the
  check.
* **No transaction around webhooks and jobs.** These use the admin client. Each
  statement, or each `$transaction([...])` list, commits by itself.
* **Side effects leave before the commit.** Queue entries, e-mail, Pusher
  messages, cache invalidations and Clerk invitations happen inside the handler.
* **What two requests must not both do is often left to the database.** Partial
  unique indexes and triggers keep some properties under any overlap; where
  there is none, the property holds only for requests that do not overlap.

### Inventory

| Component | State | Operations | Interacts with | Hard behaviour | What makes it correct |
|---|---|---|---|---|---|
| Task lifecycle (`tasks/task-transitions`, `tasks/task-reassignment`) | task status, assignees (twice), request rows | accept/start, submit, approve, request revision, cancel, request and decide reassignment | activity log, notifications, permissions | overlapping requests on one task | legal transitions only; terminal is final; one pending request; history = state |
| Task creation and editing (`tasks/tasks.controller`) | task row, tags, due date | create, PATCH, PUT tags | calendar, department, notifications | stale check before PATCH; due-date loop with a cap | an edit never lands on started work; the due date is a working day; tag counters are exact |
| Calendar (`calendar`) | weekly hours, holidays, leave | isWorkingDay | task creation | calendars without working days, window of holidays | agrees with the definition of a working day |
| Provider webhooks (`webhooks/stripe*`, `webhooks/paddle*`) | event ids, subscription, company | one handler per event type | ladder, billing gate | retries, duplicates, reordering, crash after the event id is recorded | each event applied once; both rows agree |
| Bank transfer, plan changes (`billing`) | invoices, plan | order, confirm, downgrade | subscription | check-then-insert, stale columns | one open invoice; a payment that is confirmed ends dunning (it does not, section 5) |
| Past-due ladder (`queue/past-due-lifecycle`) | warning, read-only, paused, expired, deletion stamps | daily run | webhooks, deletion queue | snapshot acted on while webhooks write; crash between steps | warned before restricted, restricted before deleted; the ladder ends |
| Trial expiry, tenant deletion (`queue`) | status, deletion job, `deleted_at` | daily run; queued job | webhooks | days between check and effect | no job touches who pays a provider; nobody who recovered is deleted |
| Invitations (`users/users.service`, `users/invitations`) | invited user, approval chain | invite, approve, reject | Clerk, plan limits, sign-up | two approvers at once; invitation sent before the commit | every step of the chain is approved by its role |
| Sign-up (`webhooks/clerk*`) | user, company | user created | invitations | check-then-create | one tenant per founder; invited users join theirs |
| Users, teams, departments, roles | users, memberships, tree, grants | archive, unarchive, join, leave, move, grant, revoke | permission cache, plan limits | a walk up the tree while others move; demote-then-insert | an acyclic tree; a new primary team is never refused |
| Permission cache (`auth/permissions`) | cached sets | load, invalidate | every guard | load overlapping a change; invalidation before commit | a revoked permission stops being granted |
| Billing gate (`auth/billing-status.guard`) | 60 s snapshot | check | billing, other guards | order of the guards; stale status | a blocked tenant is stopped |
| Plan limits (`billing/plan-limits`) | none (counts) | add user, upload | users, files | count before write | limits hold |
| Files (`files`), comments (`comments`) | files, versions, storage counter, comments, mentions | intent, complete; create, edit, delete | object store, notifications, composer | two claims of one file, stale difference of mentions, counter by trigger | counter = stored files; who is mentioned was told |
| Comment composer, upload widget (web) | upload stages, queue, pending post | upload, post, edit | files, comments | answers lost; files queued while a post is in flight | what is queued can be posted |
| Broadcasts (`broadcasts`) | broadcast, recipients | create, list | audience, notifications | fan-out before the commit | nobody reaches beyond the own scope |
| Notifications, e-mail (`notifications`, `emails`), bell (web) | rows, preferences, jobs, bell | create, read, mark, sweep; send | all handlers | sent before the commit; retries; overlapping refetches | at most one e-mail; the bell catches up |
| Activity log (`activity-log`) | entries | append; list | all handlers | order of entries | entries match what happened |
| Data export, invoice PDF (`billing`) | export row | request; build | queue | queued before the commit | every export ends |
| Dashboards, reports, settings, other pages | - | queries, single-row updates | - | none | - |

`PROJECT.json` lists the same components with their status, and every hazard
with its line and the properties that cover it.

## 2. Modules

    TaskStateMachine        what the task API promises        (abstract)
    TaskLifecycle           one task, overlapping requests    implements it when serial
      MCTaskLifecycle       constants for TLC
      TaskLifecycleProofs

    DueDates                the calendar and the due-date loop, and what they should be
      TaskPlanning          creation, PATCH, tags             EXTENDS DueDates
        MCTaskPlanning      constants for TLC
        TaskPlanningProofs

    Subscription            the two billing rows and the clock
      BillingRequests       webhooks and requests of people   EXTENDS Subscription
      BillingJobs           ladder, trial, deletion           EXTENDS Subscription
        Billing             both, composed
          BillingProofs
    BillingGate             the guards in front of the handlers

    OnboardingApproval      what the approval of an invitation promises (abstract)
    Invitations             users, approvals, sign-up         implements it when serial
      MCInvitations         constants, and how many calls may overlap
      InvitationsProofs

    Access                  grants, roles, the permission cache
      MCAccess              constants for TLC
      AccessProofs
    Departments             the tree, teams, primary teams
      DepartmentsProofs

    Attachments             file and comment handlers
      Composer              the web client over them          EXTENDS Attachments
        MCComposer          constants for TLC
        ComposerProofs
    Delivery                rows, pushes, the bell, e-mail
      DeliveryProofs

Common to the request modules: an endpoint with a check that can go stale is a
*load* (reads, guards, early returns) and a *write* (updates and commit), with
the call's record in between; the write is one step because its first update
takes the row lock and keeps it until the commit. A call refused by its checks
changes nothing and is no step. `Rollback` is any transaction that fails after
its reads. Where a property needs requests that do not overlap, a variable
chosen once in `Init` (`slots`, `overlap`) says how many may be open,
so one run covers the serial and the overlapping behaviours. `TaskLifecycle` and
`Billing` have a constant for it (`Workers`, `MaxActive`) and a run for each.

### TaskLifecycle

| Variable | In the code |
|---|---|
| `task` | the `tasks` row with its `task_assignees`; `legacy` is `assigned_to_user_id` |
| `requests` | `task_reassignment_requests`, in creation order |
| `activity`, `inbox` | `activity_log` and `notifications` rows of the task |
| `calls` | open transactions: the call and what it has read |
| `started` | calls begun (bounded by `MaxCalls`) |

`RequestConflict` is the unique index answering 409. Permissions are a constant
`Holders`: the permission cache is a component of its own.

One `Load` stands for two SELECTs of a handler (the task, then the assignees or
the pending request). Assignees are only removed, and a pending request is
committed with the status it needs, so what the pair of reads admits, a single
read at one of the two instants admits too.

`TaskStateMachine` has a `status` and an `origin`, the status a refused
reassignment returns to. The refinement maps `origin` to `previous_status` of
the latest request row.

### Billing

| Variable | In the code |
|---|---|
| `sub`, `company` | the `subscriptions` and `companies` rows of one tenant |
| `day` | the clock; timestamps are days, or Booleans where only "done" matters |
| `handlers` | webhook deliveries and billing requests in flight, with what they read |
| `events`, `applied` | the webhook event tables: of each event sent, whether it has its row yet; how often each event took effect (auxiliary) |
| `invoices` | bank-transfer invoices |
| `ladder` | the steps the current run still has to take, from its snapshot |
| `expiring`, `jobs`, `deleting` | the trial job between find and update; the deletion queue; a job past its checks |
| `warnings` | the cycles the warning step ran for (auxiliary); a company is taken to have an active CEO or Admin, whom the step notifies |
| `faults` | crashes so far |

`Deliver` is the first delivery of an event, `Redeliver` every later one: a retry
after a failure, a second delivery at the same time, or one after success. The
insert of the event id commits on its own; it succeeds (`Record`, which also reads
the subscription) or finds the row there (`Duplicate`). `Apply` is the final
transaction. `Fail` is everything that can prevent it, so an event that failed
after `Record` is refused when it comes again. A ladder run (`Scan`) computes the set of steps due from
one read, then takes them in the order of the code (`Rank`), each with its own
commit; `LadderCrash` can come between any two. Stripe and Paddle have separate
handlers that do the same to these columns and are one action.

A day passes only while no request is in flight (`Tomorrow`): requests last
seconds. Jobs may go on past midnight.

### Invitations

| Variable | In the code |
|---|---|
| `rows` | `users` rows of invited people: status, `deleted_at` (`archived`), `clerk_user_id` (`linked`); a hard-deleted row is "gone" |
| `approvals` | `user_invitation_approvals` rows; the chain is a function of the inviter (`Path`) |
| `sent` | invitations Clerk has sent, and for which approval (auxiliary) |
| `agreed` | who agreed to which step (auxiliary) |
| `founded` | people who signed up without an invited row, and own a tenant |
| `calls` | requests and deliveries in flight, with what they read |
| `started`, `slots` | calls begun (bounded by `MaxCalls`); how many may be open (at most `MaxOpen`) |

An approval is read twice: `Judge` is `assertCanApprove`, `Reread` the
`findFirst` of `advanceApproval` and `rejectApproval`. Both are steps, since
another transaction may commit in between, and what the second one reads is what
counts. `Conclude` updates the row, sends the e-mail and holds the row's lock
(`Unlocked`) until `CommitConclusion`; `Rollback` there leaves the e-mail sent.
`SendDirect` and `CommitDirect` are the same for an invitation that needs no
approval. The delivery of Clerk's `user.created` runs outside a transaction: a
lookup (`Deliver`) and a write (`Link` or `Found`), which the unique index on
`clerk_user_id` may refuse (`Elsewhere`). An overlapping delivery that read the
same invited row links it once more and makes it active again.

`OnboardingApproval` is the approval the comments of `users.service.ts` promise,
every call one step: the step an approval stands at is decided by an outsider with
the step's role (or a bypassing one), the e-mail leaves with the last step, and only
an invitation that was sent is approved. The refinement (`Promise`) shows it each
approval with its inviter, the invited person of its row, its step and status, and
as `mailed` the approvals in `sent`. One of its steps is one write of the code:
`Advance`, `Conclude` (`Send`), `CommitConclusion` (`Approve`), `Remove`
(`Reject`); everything else stutters. `Send` and `Approve` are two steps since the
code's are: after a rollback in between an invitation was sent and is undecided.

Abstractions: an `org_role` does not change, nor does the chain of the company;
the seats of one plan; suspended and deactivated are one status; names, branches,
onboarding entries in the activity log and the rows a new tenant starts with
are left out. `MaxRows` and `MaxCalls` are bounds.

### TaskPlanning, DueDates

| Variable | In the code |
|---|---|
| `tasks` | `tasks` rows: `status`, `text` (title, description, priority, placement), `due` (`due_date`) |
| `tagged`, `usage` | `task_tags` rows; `tags.usage_count`, kept by a trigger (`Counted`) |
| `calls` | edits between their reads and their writes |
| `begun`, `slots` | edits begun; how many may be open |

`DueDates` is a pure algorithm: `MovedDays` is the loop of `POST /tasks`, a
recursive function over the days it probes, on the one query of holidays
(`Window`). Beside it stands the same rule without loop, window and order of
checks (`CommonDays`, `IsAdjustment`). Departments, permissions and the length of
texts only refuse requests and are left out.

### BillingGate

| Variable | In the code |
|---|---|
| `company` | `companies.status` and `read_only_at`: whether the tenant is to be stopped |
| `blockedFor` | ticks since it has been (auxiliary) |
| `snapshot`, `left` | the Redis entry of the guard and the ticks it has left |
| `requests` | requests, the guards behind each, whether `req.auth` is set |

### Access

| Variable | In the code |
|---|---|
| `direct`, `named` | `user_roles`, `user_system_roles` |
| `perms` | `roles.permissions` |
| `cache` | the `Map` of `PermissionsService`: set and ticks left |
| `loads` | loads between their two queries |
| `changes` | requests that change something, from the guard to the end of their transaction |
| `begun`, `overlap` | changes begun; whether loads and changes may overlap |

One API process. The guard lets a request pass on the cached set (`Clear`); the
request writes, invalidates, and commits later, even if the actor's entry has died
or been withdrawn in between. A role edit invalidates in two steps (`BustById`,
`BustByName`), each a query of the holders on another connection. A system role is
granted by name, and built-in roles keep theirs.

### Departments

| Variable | In the code |
|---|---|
| `depts` | `departments` rows: state, branch, parent |
| `members` | `user_teams` rows with `is_primary` |
| `calls` | open transactions; a move has a `cursor` and the set it has `seen` |
| `moves`, `begun`, `overlap` | calls begun; how many moves, and how many joins, may be open |

`Step` is one SELECT of the walk, and sees what is committed by then. A join
demotes the primary teams it found, then upserts (`Joined`); `IndexAdmits` is the
partial unique index, and a join it does not admit fails.

### Attachments, Composer

| Variable | In the code |
|---|---|
| `files`, `comments` | rows; a comment with its mention rows, the ids it was sent with (auxiliary) and whether it can still be edited |
| `used` | `companies.storage_used_bytes`, kept by a trigger (`UsedAfter`) |
| `told` | `comment_mention` notifications |
| `calls`, `slots` | transactions between read and write; how many may be open |
| `bucket` | object store |
| `stage`, `queue`, `sending` | the items of the upload widget; `attachmentIds` and the pending mutation of the composer |
| `faults`, `edits` | bounds |

`CompleteAgain` is a `complete` that is sent twice: both requests may have read the
file as pending when the first one writes. Files have one size. A body is the set of users it mentions: parsing finds
exactly those, and `validateMentions` drops none of this tenant's.

### Delivery

| Variable | In the code |
|---|---|
| `prefs` | `user_notification_preferences` of one type |
| `rows` | `notifications` rows; "open" is written and not committed |
| `calls` | requests with recipients still to be written to |
| `pushes` | Pusher messages under way |
| `jobs`, `mails` | the BullMQ job of a notification; what Resend has mailed |
| `bell`, `fetch`, `fresh`, `marks` | the query cache of the bell, its query in flight, whether that is the first one, mark-read calls unanswered |
| `requests`, `faults` | bounds |
| `push`, `lost` | how pushes are timed in this behaviour; whether the browser missed one |

A browser may still be loading its first list when a behaviour starts. A refetch
drops the query in flight and asks again, but not the first one, which it joins
(TanStack Query drops only a query that has data): a push between the read of the
first list and its arrival is missed like one that the network lost (`TooEarly`).
Resend remembers an idempotency key for 24 hours (`emails/email.service.ts:9-11`);
the attempts of a job are seconds apart (`notifications/notifications.service.ts:252`)
and taken to fall within them. An error of Resend that the code does not list as
transient ends the job (`Refused`), also after an attempt that Resend did accept: a
refused job may have been mailed.

The opt-out of another user is hidden from the request by row-level security
(`SeenBy`), and the model says so. One notification type; a notification either
has a template or not (`Mailable`).

## 3. Runs

| Run | Bounds | Question |
|---|---|---|
| `task_serial` | 3 users, 1 worker, 6 calls | one request at a time: does the API implement the state machine (in which terminal is final), is the history a path, does work have an owner, is every request decided once? |
| `task_concurrent` | 2 workers, 5 calls, symmetry of workers | what survives overlap: one request awaits a decision, history ends at the status, completion after submission, counters and the two assignment columns agree, cancellations are announced |
| `billing_serial` | 1 at a time, 6 days, 3 events, 2 invoices, 1 crash | is every dunning cycle warned about, does it keep its start, is a recovery reported by a provider complete, do jobs leave alone who pays a provider, is one invoice outstanding at most? |
| `billing_concurrent` | 2 at a time, 2 handlers, 6 days, 2 events, 1 crash, fairness | what survives overlap: the two rows agree, an event that is delivered again and again takes effect once, no sanction without its warning, and the ladder ends while webhooks and other jobs write the same rows |
| `invitations` | overlap of 1 or 2, 8 calls (6 if serial), 3 staff, 2 guests, 2 rows | with overlap: rows of rejected invitations are deleted and no others, one tenant for each person, an outsider agreed to every step. Without: the role agreed, invitations fit the plan, and the calls implement `OnboardingApproval` (in which steps go in order and a decision is final) |
| `comment_attachments` | 1 author, 1 colleague, 2 files, 2 comments, 2 open transactions, 2 edits, 1 lost answer or repeated request, symmetry of files and of comments | is storage counted exactly, is everybody told who is mentioned, does a comment stay whole without overlap, can the queue be posted? |
| `access_cache` | 2 users, 2 roles, entries of 2 ticks, 3 changes, fairness | do changes take effect, and do wrong entries die where loads overlap changes? |
| `departments` | 3 departments, 1 user, 2 teams, 3 moves, 3 other calls, fairness | does the tree stay acyclic, does a change of the primary team pass the index, does every walk end? |
| `task_planning` | 2 tasks, 2 tags, week of 2 days, cap of 2, 3 edits | is the due date right for every calendar, are the counters exact, is started work frozen? |
| `delivery` | 1 user with a browser, 2 notifications, 1 of them with an e-mail, 3 requests, 2 faults, 2 attempts, pushes after the commit, fairness | one e-mail at most, none forgotten, no job ends without a reason; is a bell that waits for nothing right, and does it catch up? |
| `task_terminal_race` | 2 workers | *violation*: a terminal task changes |
| `billing_gate` | 3 ticks, entries of 1 tick | *violation*: a blocked tenant writes |

**Why the bounds are enough.** Five calls with two workers hold a request, its
decision, a second request and two racing transitions; six serial calls hold a
path from creation to a terminal status with a reassignment and a revision. The
bands of the ladder are one day apart (1 to 5): only their order and distance
from the failed charge matter, and six days hold a full ladder, or a recovery
and a second failure. Three events are a failure, a recovery and a failure. Two
handlers suffice for every lost update here, since each involves one stale read
and one write. Two events, each delivered any number of times, are a failure and a
recovery, and two deliveries of one event that meet at the insert.
`billing_concurrent` has no invoices, for size: a bank-transfer payment that overlaps
other handlers is covered by the proofs of section 4, not by `LadderCompletes`. In `invitations` eight calls hold an invitation with a
chain of two steps, three approvals or a rejection and a new invitation, and a
sign-up twice delivered; six serial calls are an invitation, two approvals and
either a second invitation or an edit and a sign-up; four seats for three staff
make the second invitation one too many. Two files and two comments hold a
second version, a claim disputed by two posts, and a queue that grows while a
post is in flight. Three departments are the smallest tree in which two moves
can close a cycle that does not contain a third one. Three changes are a grant,
its revocation and a role edit; a tick more than one lets an entry outlive a
change. A week of two days, a cap of two and up to two holidays hold every case
of the loop: the requested day free, blocked for each reason, the last day of
the window, no day at all; the proof has the week, the cap and the calendar
open. Three requests are two
notifications and a mark, or a change of preferences, an announcement and a mark. Two
faults exhaust the attempts of a job or its workers, or lose a push and an answer.
Two notifications are a push that overtakes another one. Pushes that come before the
commit are left out of `delivery`: the properties of the bell do not speak of them,
and nothing of an e-mail depends on a push; the theorems have them. The proofs
of section 4 have none of these bounds.

**Deadlock** is checked in the billing runs, in which events can always come again. In
the others calls, rows and edits are bounded, so every behaviour ends, and it is
not.

**Fairness.** Nowhere is an event, a payment, a request or a person assumed to
come.

* `Billing!FairSpec`. Days pass. A started handler commits or fails
  (transactions have a time limit). The scheduler runs the ladder daily
  (`queue/queue.module.ts`). A run that has started takes its next step.
  `Tomorrow` and `Scan` are strongly fair, because they are disabled in the model
  whenever a request is in flight or the cap on overlap is reached; neither the
  calendar nor the scheduler waits for that.
* `Access!FairSpec`. Time passes, queries answer, transactions end.
* `Departments!FairSpec`. The SELECTs and the UPDATE of a move get their answer.
* `Delivery!FairSpec`. Requests end; Pusher and the API answer; the mail worker
  makes one of the steps open to it, which may be to fail.

`LadderCompletes`, `WrongEntriesDie`, `WalkEnds`, `QueuedIsMailed` and
`BellCatchesUp` are the properties that use it.

**Mutants.** Next to the definitions of a module are operators commented
"Mutant": each is a plausible mistake, and `PROJECT.json` names the property it
breaks under the property's own run. They take no part in the specifications.

## 4. Proofs

All for any number of users, workers, handlers, rows and calls, any bands that
are in order, any chain of approvers, any calendar, and without the other bounds.

| Theorem | Statement | From |
|---|---|---|
| `TaskLifecycleProofs!TypeCorrect` | `TypeOK` | `Typed`: types, and every call in flight refers to rows that exist (`CallsGrounded`) |
| `...!DecisionsAreAwaited`, `DataAgrees` | one pending request, which a waiting task has; counter and legacy column are right | `RequestInv`, which adds what rows and calls remember: a rejection never restores a terminal or a waiting status |
| `...!AuditIsCurrent`, `CompletionsWereSubmitted`, `CancellationsAreAnnounced` | history ends at the status; completed was submitted; cancelled was announced | `AuditInv`: an approval in flight implies a submission in the history, however stale its read |
| `...!SerialWorkIsOwned`, `SerialAuditReplays`, `SerialDecisionsAreOnce` | work has an owner; history is a path; one decision per request | `ASSUME OneWorker`; `SerialInv`: what the only call in flight read is still true |
| `...!SerialTerminal` | terminal is final | the same |
| `...!SerialImplementsStateMachine` | the handlers implement `TaskStateMachine` | the same; each write maps to one abstract step, all else to a stutter |
| `BillingProofs!TypeCorrect`, `RowsStayInSync` | `TypeOK`; the two rows agree | |
| `...!EventsApplyOnce` | no event takes effect twice, however often and to whomever it is delivered | `OnceInv`: an event that a handler is past the insert of has a row, has not been applied, and no other handler is past the insert of it |
| `...!SanctionsComeAfterWarnings` | read-only, and a deletion, goes back to a charge that failed long enough ago and was warned about | `WarnInv` |
| `...!EveryCycleIsWarned`, `RecoveryIsComplete`, `InvoicesAreSingle` | the stamp belongs to the open cycle; without a bank transfer a trialing or active tenant has nothing of a cycle left; one open invoice | `ASSUME MaxActive = 1`; `SerialInv`: who is at work is alone, and what it read is what the rows say |
| `...!AnchorStays`, `PayersStay` | a cycle keeps its start; without a bank transfer no job changes an active tenant | the same, for the steps |
| `InvitationsProofs!TypeCorrect` | `TypeOK` | `Typed`: types, calls refer to rows that exist, no two approvals share a row (`Grounded`) |
| `...!RejectionsAreRemovals` | a row is gone exactly if its approval was rejected | `Removed`: while an e-mail is being sent its row is there |
| `...!EveryoneHasOneHome` | one tenant for each person | `OneHome`, which is inductive with `Typed` |
| `...!SentInvitationsWereAgreed` | every step was agreed to by an outsider | `AgreedSoFar` |
| `...!InvitationsAreQualified`, `InvitationsFit` | if calls do not overlap: every step was agreed to by its role; the plan's seats suffice | `SerialInv`: the call that is open is the only one, and what it read is still so |
| `...!ApprovalsKeepTheirPromise` | if calls do not overlap they implement `OnboardingApproval` | the same, `AgreedSoFar`, and `InChain`: an approval stands at a step of its chain, and one about to be committed was sent |
| `AccessProofs!TypeCorrect`, `ChangesAreEffective` | outside a change the cache agrees with the tables, if no load overlaps one | `Exact`: loads hold what the tables say, and who a change concerns has no entry until it ends |
| `ComposerProofs!TypeCorrect`, `StorageExact` | storage counter = completed files, all of them in the bucket | `Typed` with `StagesGrounded`; `Counted` |
| `...!VersionsLinked`, `MentionsTold` | versions follow their predecessor; who is mentioned was told | what calls in flight remember of rows that never change back |
| `...!QueueClaimable` | the queue can be posted | `Queued` |
| `...!CommentsAreWhole` | if transactions do not overlap a comment has the files it was sent with | `Whole`: the files a post is to claim are still claimable, the mentions an edit has read still the row's |
| `DepartmentsProofs!TypeCorrect`, `PrimaryChangesSucceed` | the index admits every change of the primary team, if joins do not overlap | `JoinInv`: the demotion of an open join covers every primary row its user can still have |
| `...!TreeStaysAcyclic` | no cycle, if moves do not overlap | `Forest` |
| `TaskPlanningProofs!DueDatesAreRight` | the loop finds the first common working day, for every week, cap and calendar | the function's value is the least element of `CommonDays` |
| `...!TypeCorrect`, `UsageStaysExact` | tag counters are exact, however replacements overlap | `Typed`, which carries `UsageIsExact` |
| `...!StartedIsFrozen` | started tasks keep their content, if requests do not overlap | `Serial`: the task of a call in flight is still editable |
| `DeliveryProofs!TypeCorrect` | `TypeOK` | `Typed`: open rows belong to one request each, a job comes with its row and has attempts left while it may run |
| `...!MailsAreAccountedFor` | one e-mail at most; a job that is done has mailed, one that failed is used up | `JobSteps`, what a step of a job can make of it |
| `...!TheBellIsCurrent` | a browser that waits for nothing shows what is unread | `BellInv`, and `FirstLoads`: a bell that loads its first list has nothing to mark |

`WarnInv`. The obvious invariant, "a warning stamp belongs to the open cycle", is
false when handlers overlap: a stale webhook can put back an old `past_due_at`,
and recovery keeps stamps it did not read. What is invariant is weaker: requests
do not last overnight, so a cycle older than today is one whose start has been on
record since before today, and all old anchors in the system (the row's, the
ladder run's, those read by handlers) agree; if such an anchor is stamped as
warned then it is among `warnings`. Every band after the first is at least a day
older than the warning, so it is covered by this.

`AgreedSoFar` says of three things that every step below a number was agreed to by
somebody other than inviter and invited person: of the step an approval stands
at, of the step a call in flight has read, and of the whole chain of an invitation
that was sent. The second part is what makes it survive lost updates: a call that
writes `step + 1` over a newer value writes a number that was agreed up to when
it was read, and agreements are not taken back. That the agreeing person has the
*role* is invariant only without overlap.

`Forest`. Acyclicity is stated without paths: no non-empty set of departments
contains the parents of all its members. A move in flight adds that what it has
seen leads from the new parent to its cursor and does not contain the department
that moves. When the cursor reaches the root, a set closed after the write would
have to contain the whole walk, and the root has no parent. Other requests keep
the parents of existing rows, or add a row nothing points to, so the walk's past
stays true although nothing is locked; a second move is what breaks it.

`Queued`. A queue whose owner has no post pending holds unclaimed, completed
files of the owner. It is invariant only together with what posts in flight hold
and with the fact that, as long as no answer was lost, a post is under way only
while its composer waits for it.

`DueDatesAreRight` has the loop's recursive function in it. The proof does no
induction on its definition. It names a function that satisfies the recursion (the
first common working day from any day of the window), and shows that every
function that satisfies it agrees with that one: take the last day where one
would differ, and the next step of the loop differs too. Both rest on the least
element of a set of numbers.

Assumptions on constants are in the modules that declare them: `Nobody` is not a
user, `Holders` is a function of the permissions, `Never` is no day, the bands
are increasing and not zero, the bounds are numbers, what is left of the chain of
approvers is a sequence of roles, `None` is no department, file or date, the sets
that are counted are finite, and a calendar has dates in its holidays and leaves.

**Serial invariants.** Several properties need requests that do not overlap
(`MaxActive`, `slots`, one worker), and their invariants have one shape, called
`SerialInv` or `Whole`. First, whoever is at work is alone: the counts the models
guard with become a set with at most one member (`AtMostOne`), by the library's
theorems about cardinalities. Second, for each kind of call and each point it can
be at, what it has read is still so: a webhook's start of the dunning cycle
(`ReadsHold`), a ladder run's (`RunHolds`), the trial and the status a job has
checked (`ChecksHold`), the step an approver was let through for and a free seat
(`CallHolds`), files still unclaimed and mentions still the ones compared with.
Third, the property. None of the three is inductive without the others. In
`Billing` the day passes under a job but not under a request, so a ladder run holds
only that its bands *have* been reached. Of a run that has warned and not yet
stamped the invariant must say that the warning is on record. `InvitationsFit`
counts seats, for which the staff must be finite (`StaffAssumption`).

`BellInv`. It is not invariant that the bell shows what is unread: rows are
committed before their push arrives and marks before their answer. What is: rows
written and not committed are still to be pushed, and what a browser shows, or has
in an answer it has not read yet, lacks only rows whose push is on its way and
holds only unread rows unless a mark is on its way. A refetch drops the answer in
flight and so asserts nothing, which is why it must drop it. If a push or an answer
is lost, or a push comes before the commit it belongs to or while the first list is
on its way to the browser, this is false and so is the theorem's conclusion.

**Only model-checked**: `LadderCompletes`, `WrongEntriesDie`, `WalkEnds`,
`QueuedIsMailed` and `BellCatchesUp`. The prover does not do liveness under
fairness. The safety halves of the last two are proved: `MailsAreAccountedFor` and
`TheBellIsCurrent`.

## 5. What the runs show about the code

Two violations are runs of their own, with the lines that say otherwise in
`PROJECT.json`:

* `task_terminal_race`: transitions update by id, so of two overlapping ones the
  later takes a completed or cancelled task out of its status. TLC's trace is a
  start and a cancel; submit and approve against cancel go the same way.
* `billing_gate`: `BillingStatusGuard` is a global guard and NestJS runs those
  before a controller's. `req.auth`, which it asks for, is set by `ClerkAuthGuard`
  afterwards; so it lets every request pass (`auth/billing-status.guard.ts:83`),
  and the 60-second snapshot is never even read.

Met while modelling; each is a behaviour of the model named:

* *Overlap.* `AuditIsAPath`, `DecidedOnce` and `TerminalIsFinal` need serial
  requests; so do the properties of `billing_serial`, `SeriallyQualified` (a step
  counted that its role never agreed to), `SeriallyApproved` (a decision
  overwritten), `SeriallyFits`, `PrimaryChangesPass` (one of two joins refused),
  `CommentIsWhole` (two posts claim the same file), `TreeIsAcyclic` (two moves
  close a cycle) and `FrozenOnceStarted`. Each is repaired by repeating the
  checked condition in the `WHERE` of the update, by a lock or by a unique index,
  as `OneDecisionAwaited` and `AppliedAtMostOnce` show.
* *Tasks.* Cancelling a task that waits for a reassignment decision leaves the
  request pending for ever (`tasks/task-transitions.controller.ts:146`). An
  approved reassignment removes the requester and makes the task a draft;
  `tasks/task-reassignment.controller.ts:38-39` says it is then unowned, but with
  two assignees the other one stays on it. PATCH takes a due date as it is: only
  creation moves it to a working day. PUT tags may drop a mandatory category.
* *Billing.* A confirmed bank transfer (`billing/bank-transfer.service.ts:199`)
  makes the tenant active and leaves `past_due_at`, the stamps and `read_only_at`,
  although `queue/past-due-lifecycle.processor.ts:72-73` says recovery clears
  `past_due_at`, "which is what removes a row from this query". The tenant that has
  paid stays read-only, the ladder goes on to pause and lock it, and a deletion is
  refused only while it happens to be active. In the cycle that never ended the old
  stamp also suppresses a new warning: `WarnedAboutThisCycle` holds, since the anchor
  is the old one too. `WebhookRecoveryIsComplete` and `JobsSparePayers` are therefore
  about tenants no bank transfer was confirmed for (`NoTransfer`). The deletion job
  refuses trialing and active tenants only (`queue/tenant-deletion.processor.ts:59`),
  although its comment (15-16) says it deletes paused and expired ones only: one that
  a late webhook has set to past_due or cancelled is deleted. A ladder run that a recovery overlaps overwrites it: the run acts on its
  snapshot, and the tenant that has just paid is read-only, paused or locked
  (`queue/past-due-lifecycle.processor.ts:109`); what holds is that it had been warned
  (`SanctionsWereWarned`). An event whose handler fails after its id was recorded is never processed
  (`webhooks/stripe-webhook.service.ts:47`). A late `payment_failed` takes a paused
  or expired tenant back to past_due, although
  `queue/past-due-lifecycle.processor.ts:12-14` says the ladder never reverts.
  `subscription.deleted` (`webhooks/stripe-webhook.service.ts:151`) leaves
  `past_due_at`.
* *Invitations.* The approval chain guards Clerk's e-mail, not the account: who
  signs up with an address that has a pending invitation is linked and active at
  once (`webhooks/clerk-webhook.service.ts:63`), and a rejection after that deletes
  the active user. `users/users.service.ts:208-209` says a rejection leaves the row
  alone; line 233 deletes it. `unarchive` and a PATCH of the status make a user
  active without the seat check.
* *Permissions.* A load that overlaps a change can cache a set that was never
  anybody's, for up to five minutes. Archived users keep their grants.
* *Departments.* `unarchive` does not ask whether the parent is archived.
* *Files and comments.* The quota is checked against completed files only, so
  announced uploads may together exceed it. A version chain of comment files may
  cross from one comment to another. After an answer to a post that was lost, the
  composer keeps a queue that every later post is refused for; a file that
  completes while a post is in flight is dropped from the queue by its answer.
* *Notifications.* The opt-out of a recipient who is not the sender is never seen:
  the policy of the table shows a request its own user's row only
  (`notifications/notifications.service.ts:93-102` says the raw query bypasses it).
  Opting out in-app suppresses the e-mail too. Rolled-back requests have sent their
  pushes and e-mails. A push that is faster than the commit, or that comes while the first list is on its
  way, leaves the bell stale.
  Rows that expired unread are hidden but never swept.

## 6. Not modelled

* Row-level security and tenancy: each module is about one tenant.
* The wording of e-mails, PDF and exports (`billing/invoice-pdf.service.ts`, e-mail
  templates): formatting.
* The data export (`billing/data-export.service.ts`): one row and one job with one
  attempt, queued before the row is committed; a worker that is faster than the
  commit leaves it pending, and nothing deletes expired archives, although a
  comment expects a sweep.
* Who may address which audience with a broadcast: a rule on one request's rows;
  the fan-out is in `Delivery`.
* Whether anybody reads a warning: a company without an active CEO or Admin is sent
  none and its stamp is set all the same (`queue/past-due-lifecycle.processor.ts:96-104`).
* Provider invoices, trial reminders and the notices after the first band: rows
  and messages nothing reads back.
* Dashboards, reports, list queries, activity-log queries and partitions: read-only,
  or DDL.
* Branch, team, tag and settings CRUD: single statements.
* The web client's pages (about 13,000 of the implementation's 30,000 lines): they
  render what the API returns. Only upload, composer and bell keep state.
* Stripe, Paddle, Clerk, BullMQ, Redis, Pusher, Resend, the object store,
  PostgreSQL: external, modelled by what the code relies on.

So most of the implementation by lines is outside: what is left out is display,
formatting and queries. The modules cover the handlers, jobs and client code that
change shared state over several steps.

## 7. What could follow

1. The audience rule of broadcasts as a function, against "recipients are within
   the sender's scope".
2. The data export with its queue.
