------------------------------ MODULE Invitations ------------------------------
(* Invitations into one tenant: the seat check, the invited row, the chain   *)
(* of approvers, Clerk's invitation e-mail, and the sign-up that links the   *)
(* person to the row or, failing that, founds a tenant of their own.         *)
(*                                                                           *)
(* A request runs in one READ COMMITTED transaction; the sign-up webhook runs*)
(* outside of any.  Each SELECT a handler bases a decision on is a step, for *)
(* another transaction may commit between two of them; the writes are one    *)
(* step with the commit, except that Clerk's e-mail leaves in between: it is *)
(* not taken back if the transaction then fails.                             *)
(*                                                                           *)
(* A call that is refused changes nothing and is not a step.                 *)
EXTENDS Integers, Sequences, FiniteSets

CONSTANTS Staff,     \* users who were there before the invitations modelled
          Guests,    \* people, by e-mail address, who may be invited
          Role,      \* org_role of each user and invited person
          Inviters,  \* who holds the permission user.create
          Chain,     \* company_settings.onboarding_approval_chain
          MaxUsers,  \* seats of the plan
          Workers,   \* who serves the calls, each one at a time
          MaxOpen,   \* calls that may be in flight at the same time
          MaxRows,   \* bound: users rows created
          MaxCalls   \* bound: calls in a behaviour

People == Staff \cup Guests
Bypass == {"ceo", "admin"}

ASSUME PeopleAssumption == Staff \cap Guests = {} /\ Inviters \subseteq People
ASSUME StaffAssumption == IsFiniteSet(Staff)
ASSUME BoundsAssumption == {MaxUsers, MaxOpen, MaxRows, MaxCalls} \subseteq Nat

VARIABLES rows,       \* users rows of guests, by id
          approvals,  \* user_invitation_approvals rows, by id
          sent,       \* Clerk invitations: to whom, and concluding which approval
          agreed,     \* who agreed to which step of which approval (history)
          founded,    \* guests with a tenant of their own
          calls,      \* per worker, the call in flight and what it has read
          started,    \* calls begun so far
          slots       \* how many may be in flight in this behaviour

vars == <<rows, approvals, sent, agreed, founded, calls, started, slots>>

-----------------------------------------------------------------------------
\* "inactive" stands for suspended and deactivated, which differ in nothing here.
Assignable == {"active", "inactive"}
Statuses == {"invited", "gone"} \cup Assignable

\* A hard-deleted row is "gone"; archived is deleted_at, linked clerk_user_id.
UserRow == [guest : Guests, status : Statuses, archived : BOOLEAN, linked : BOOLEAN]
Approval == [row : Nat, by : People, step : Nat,
             status : {"pending", "approved", "rejected"}]

Idle == [op |-> "idle"]
Invitation == [op : {"invite", "inviting"}, by : People, guest : Guests]
Verdict == [op : {"approve", "reject", "advance", "concluding", "remove"},
            by : People, approval : Nat, step : Nat]
SignUp == [op : {"signup"}, guest : Guests, row : Nat]

TypeOK ==
  /\ rows \in Seq(UserRow)
  /\ approvals \in Seq(Approval)
  /\ sent \subseteq [to : Guests, approval : Nat]
  /\ agreed \subseteq [approval : Nat, step : Nat, by : People]
  /\ founded \subseteq Guests
  /\ calls \in [Workers -> {Idle} \cup Invitation \cup Verdict \cup SignUp]
  /\ started \in Nat
  /\ slots \in Nat

Init ==
  /\ rows = <<>>
  /\ approvals = <<>>
  /\ sent = {}
  /\ agreed = {}
  /\ founded = {}
  /\ calls = [w \in Workers |-> Idle]
  /\ started = 0
  /\ slots \in 1..MaxOpen

-----------------------------------------------------------------------------
(* The approvers of an invitation: the chain without the inviter's own role. *)
Path(inviter) == SelectSeq(Chain, LAMBDA role : role # Role[inviter])

\* The setting is a list of role names, and so is what is left of it.
ASSUME PathAssumption == \A inviter \in People : Path(inviter) \in Seq(STRING)

Direct(inviter) == Role[inviter] \in Bypass \/ Path(inviter) = <<>>

Steps(a) == 0 .. Len(Path(approvals[a].by)) - 1

\* Mutant: the last step is taken to be the one before.
IsLastEarly(a, step) == step + 1 >= Len(Path(approvals[a].by)) - 1

IsLast(a, step) == step >= Len(Path(approvals[a].by)) - 1

Qualifies(user, a, step) ==
  Role[user] \in Bypass \cup {Path(approvals[a].by)[step + 1]}

Present == {i \in DOMAIN rows : rows[i].status # "gone"}
Linked(guest) == \E i \in Present : rows[i].guest = guest /\ rows[i].linked
Invited(guest) == {i \in Present : /\ rows[i].guest = guest
                                   /\ rows[i].status = "invited"
                                   /\ ~rows[i].archived
                                   /\ ~rows[i].linked}

IsUser(person) == person \in Staff \/ Linked(person)

\* assertCanAddUser counts the active and the invited.
Seated == {i \in Present : /\ rows[i].status \in {"active", "invited"}
                           /\ ~rows[i].archived}
Seats == Cardinality(Staff) + Cardinality(Seated)

Count == started < MaxCalls /\ started' = started + 1

InFlight == {w \in Workers : calls[w] # Idle}
SlotIsFree == Cardinality(InFlight) < slots

Begin(w, call) == /\ calls[w] = Idle
                  /\ SlotIsFree
                  /\ calls' = [calls EXCEPT ![w] = call]
                  /\ Count
                  /\ UNCHANGED <<rows, approvals, sent, agreed, founded, slots>>

Goto(w, call) == calls' = [calls EXCEPT ![w] = call] /\ UNCHANGED <<started, slots>>
Finish(w) == Goto(w, Idle)

-----------------------------------------------------------------------------
(* POST /users.                                                              *)

\* Mutant: the plan is exceeded by one.
InviteOneMore(w, inviter, guest) ==
  /\ inviter \in Inviters
  /\ IsUser(inviter)
  /\ Seats <= MaxUsers
  /\ Begin(w, [op |-> "invite", by |-> inviter, guest |-> guest])

Invite(w, inviter, guest) ==
  /\ inviter \in Inviters
  /\ IsUser(inviter)
  /\ Seats < MaxUsers
  /\ Begin(w, [op |-> "invite", by |-> inviter, guest |-> guest])

(* The unique index on e-mail addresses admits a new row: it waits for an    *)
(* open transaction that has inserted one, and refuses a second.             *)
Admits(guest) ==
  /\ Len(rows) < MaxRows
  /\ \A i \in Present : rows[i].guest # guest
  /\ \A w \in Workers : calls[w].op = "inviting" => calls[w].guest # guest

NewRow(guest) == [guest |-> guest, status |-> "invited",
                  archived |-> FALSE, linked |-> FALSE]

(* The founders' and admins' invitations need no approval.                   *)
SendDirect(w) ==
  /\ calls[w].op = "invite"
  /\ Direct(calls[w].by)
  /\ Admits(calls[w].guest)
  /\ sent' = sent \cup {[to |-> calls[w].guest, approval |-> 0]}
  /\ Goto(w, [calls[w] EXCEPT !.op = "inviting"])
  /\ UNCHANGED <<rows, approvals, agreed, founded>>

CommitDirect(w) ==
  /\ calls[w].op = "inviting"
  /\ rows' = Append(rows, NewRow(calls[w].guest))
  /\ Finish(w)
  /\ UNCHANGED <<approvals, sent, agreed, founded>>

RequestApproval(w) ==
  /\ calls[w].op = "invite"
  /\ ~Direct(calls[w].by)
  /\ Admits(calls[w].guest)
  /\ rows' = Append(rows, NewRow(calls[w].guest))
  /\ approvals' = Append(approvals, [row |-> Len(rows) + 1, by |-> calls[w].by,
                                     step |-> 0, status |-> "pending"])
  /\ Finish(w)
  /\ UNCHANGED <<sent, agreed, founded>>

-----------------------------------------------------------------------------
(* POST /invitations/:id/approve and /reject.                                *)
Verdicts == {"approve", "reject"}

\* Mutant: an approved invitation can be decided again.
UndecidedOrApproved(a) == approvals[a].status # "rejected"

Undecided(a) == approvals[a].status = "pending"

\* Mutant: the approver's role is not compared with the step's.
JudgeUnqualified(w, user, a, verdict) ==
  /\ user \in Inviters
  /\ IsUser(user)
  /\ Undecided(a)
  /\ user # approvals[a].by
  /\ user # rows[approvals[a].row].guest
  /\ Begin(w, [op |-> verdict, by |-> user, approval |-> a,
               step |-> approvals[a].step])

(* assertCanApprove: the current step is the user's to decide.               *)
Judge(w, user, a, verdict) ==
  /\ user \in Inviters
  /\ IsUser(user)
  /\ Undecided(a)
  /\ Qualifies(user, a, approvals[a].step)
  /\ user # approvals[a].by
  /\ user # rows[approvals[a].row].guest
  /\ Begin(w, [op |-> verdict, by |-> user, approval |-> a,
               step |-> approvals[a].step])

(* advanceApproval and rejectApproval read the row again, and act on the step*)
(* it has now.                                                               *)
Reread(w) ==
  LET c == calls[w] IN
  /\ c.op \in Verdicts
  /\ Undecided(c.approval)
  /\ Goto(w, [c EXCEPT !.op = IF @ = "approve" THEN "advance" ELSE "remove",
                       !.step = approvals[c.approval].step])
  /\ UNCHANGED <<rows, approvals, sent, agreed, founded>>

\* The transaction that sends the e-mail has updated the row and holds its lock.
Unlocked(a) == \A w \in Workers : calls[w].op = "concluding" => calls[w].approval # a

Agree(c) == agreed' = agreed \cup {[approval |-> c.approval, step |-> c.step,
                                    by |-> c.by]}

Advance(w) ==
  LET c == calls[w] IN
  /\ c.op = "advance"
  /\ ~IsLast(c.approval, c.step)
  /\ Unlocked(c.approval)
  /\ approvals' = [approvals EXCEPT ![c.approval].step = c.step + 1]
  /\ Agree(c)
  /\ Finish(w)
  /\ UNCHANGED <<rows, sent, founded>>

\* Mutant: the invited row is not looked up before the e-mail is sent.
ConcludeBlindly(w) ==
  LET c == calls[w] IN
  /\ c.op = "advance"
  /\ IsLast(c.approval, c.step)
  /\ Unlocked(c.approval)
  /\ sent' = sent \cup {[to |-> rows[approvals[c.approval].row].guest,
                         approval |-> c.approval]}
  /\ Agree(c)
  /\ Goto(w, [c EXCEPT !.op = "concluding"])
  /\ UNCHANGED <<rows, approvals, founded>>

(* The last step: the row becomes approved, Clerk sends the e-mail, and the  *)
(* transaction commits, or does not.                                         *)
Conclude(w) ==
  LET c == calls[w] IN
  /\ c.op = "advance"
  /\ IsLast(c.approval, c.step)
  /\ Unlocked(c.approval)
  /\ approvals[c.approval].row \in Present
  /\ sent' = sent \cup {[to |-> rows[approvals[c.approval].row].guest,
                         approval |-> c.approval]}
  /\ Agree(c)
  /\ Goto(w, [c EXCEPT !.op = "concluding"])
  /\ UNCHANGED <<rows, approvals, founded>>

CommitConclusion(w) ==
  /\ calls[w].op = "concluding"
  /\ approvals' = [approvals EXCEPT ![calls[w].approval].status = "approved"]
  /\ Finish(w)
  /\ UNCHANGED <<rows, sent, agreed, founded>>

(* The row is deleted whether or not the person has joined meanwhile.        *)
Remove(w) ==
  LET a == calls[w].approval IN
  /\ calls[w].op = "remove"
  /\ Unlocked(a)
  /\ approvals' = [approvals EXCEPT ![a].status = "rejected"]
  /\ rows' = [rows EXCEPT ![approvals[a].row].status = "gone"]
  /\ Finish(w)
  /\ UNCHANGED <<sent, agreed, founded>>

-----------------------------------------------------------------------------
(* Sign-up.  Anybody may register with Clerk, invited or not.                *)
Homeless(guest) == guest \notin founded /\ ~Linked(guest)

(* clerk_user_id is unique: the person is placed elsewhere than in row i.     *)
Elsewhere(guest, i) ==
  \/ guest \in founded
  \/ \E j \in Present \ {i} : rows[j].guest = guest /\ rows[j].linked

(* onUserCreated looks for an invited row with the person's address.  Clerk  *)
(* delivers the event until it is acknowledged, possibly twice at once.      *)
Deliver(w, guest) ==
  /\ Homeless(guest)
  /\ \E i \in IF Invited(guest) = {} THEN {0} ELSE Invited(guest) :
       Begin(w, [op |-> "signup", guest |-> guest, row |-> i])

\* Mutant: no unique index on clerk_user_id.
LinkAnyway(w) ==
  LET c == calls[w] IN
  /\ c.op = "signup"
  /\ c.row \in Present
  /\ rows' = [rows EXCEPT ![c.row].status = "active", ![c.row].linked = TRUE]
  /\ Finish(w)
  /\ UNCHANGED <<approvals, sent, agreed, founded>>

(* The row is updated by id: once more if an overlapping delivery that read  *)
(* the same row has linked it already, whatever became of its status since.  *)
Link(w) ==
  LET c == calls[w] IN
  /\ c.op = "signup"
  /\ c.row \in Present
  /\ ~Elsewhere(c.guest, c.row)
  /\ rows' = [rows EXCEPT ![c.row].status = "active", ![c.row].linked = TRUE]
  /\ Finish(w)
  /\ UNCHANGED <<approvals, sent, agreed, founded>>

Found(w) ==
  LET c == calls[w] IN
  /\ c.op = "signup"
  /\ c.row = 0
  /\ Homeless(c.guest)
  /\ founded' = founded \cup {c.guest}
  /\ Finish(w)
  /\ UNCHANGED <<rows, approvals, sent, agreed>>

-----------------------------------------------------------------------------
(* PATCH /users/:id, archive and unarchive: requests of a single statement.  *)
Edit(i, status, archived) ==
  /\ SlotIsFree
  /\ Count
  /\ rows' = [rows EXCEPT ![i].status = status, ![i].archived = archived]
  /\ UNCHANGED <<approvals, sent, agreed, founded, calls, slots>>

Update(i, status) == i \in Present /\ ~rows[i].archived /\ Edit(i, status, FALSE)
Archive(i) == i \in Present /\ ~rows[i].archived /\ Edit(i, "inactive", TRUE)
Unarchive(i) == i \in Present /\ rows[i].archived /\ Edit(i, "active", FALSE)

-----------------------------------------------------------------------------
(* The transaction is rolled back: an address that is taken, a decision made *)
(* meanwhile, an error or a time-out.  An e-mail that was sent stays sent.   *)
Rollback(w) ==
  /\ calls[w] # Idle
  /\ Finish(w)
  /\ UNCHANGED <<rows, approvals, sent, agreed, founded>>

Load(w) == \/ \E u \in People, g \in Guests : Invite(w, u, g)
           \/ \E u \in People, a \in DOMAIN approvals, v \in Verdicts : Judge(w, u, a, v)
           \/ \E g \in Guests : Deliver(w, g)

Step(w) == \/ SendDirect(w) \/ CommitDirect(w) \/ RequestApproval(w)
           \/ Reread(w) \/ Advance(w) \/ Conclude(w) \/ CommitConclusion(w)
           \/ Remove(w)
           \/ Link(w) \/ Found(w)
           \/ Rollback(w)

Administer(i) == \/ \E status \in Assignable : Update(i, status)
                 \/ Archive(i)
                 \/ Unarchive(i)

Next == \/ \E w \in Workers : Load(w) \/ Step(w)
        \/ \E i \in DOMAIN rows : Administer(i)

Spec == Init /\ [][Next]_vars

-----------------------------------------------------------------------------
(* What holds however requests and sign-ups interleave.                      *)

\* Rejecting an invitation frees the address and the seat, and nothing else
\* does: a row is gone exactly if its approval was rejected, even when an
\* approval of the last step was under way.
RejectedIsRemoved ==
  /\ \A a \in DOMAIN approvals :
       approvals[a].status = "rejected" <=> approvals[a].row \notin Present
  /\ \A i \in DOMAIN rows \ Present : \E a \in DOMAIN approvals : approvals[a].row = i

\* A person ends up in one tenant: two deliveries of the same sign-up, one of
\* which saw the invitation, do not both place the person.
OneHome ==
  \A i \in Present : rows[i].linked =>
    /\ rows[i].guest \notin founded
    /\ \A j \in Present : rows[j].linked /\ rows[j].guest = rows[i].guest => j = i

\* Clerk sends an invitation that needs approval only after somebody other
\* than the inviter and the invited person agreed to each step of the chain,
\* whatever two approvers of the same step overwrite.
SentWasAgreed ==
  \A s \in sent : s.approval # 0 =>
    \A k \in Steps(s.approval) :
      \E g \in agreed : /\ g.approval = s.approval
                        /\ g.step = k
                        /\ g.by \notin {approvals[s.approval].by, s.to}

-----------------------------------------------------------------------------
(* What holds as long as calls do not overlap.                               *)

\* With calls that do not overlap, each step of an approval that led to an
\* invitation was agreed to by somebody with the role the step asks for.
SentWasQualified ==
  \A s \in sent : s.approval # 0 =>
    \A k \in Steps(s.approval) :
      \E g \in agreed : /\ g.approval = s.approval
                        /\ g.step = k
                        /\ Qualifies(g.by, s.approval, k)

SeriallyQualified == slots = 1 => SentWasQualified

\* With calls that do not overlap, the requests implement the approval that the
\* code's comments promise: each step of the chain in turn is agreed to by an
\* outsider with its role, the e-mail leaves with the last one, only an
\* invitation that was sent is approved, and a decision is final.
Promise == INSTANCE OnboardingApproval
             WITH approvals <- [a \in DOMAIN approvals |->
                                  [by |-> approvals[a].by,
                                   guest |-> rows[approvals[a].row].guest,
                                   step |-> approvals[a].step,
                                   status |-> approvals[a].status]],
                  mailed <- {s.approval : s \in sent} \ {0}

SeriallyApproved == /\ Promise!Init
                    /\ [][slots = 1 => [Promise!Next]_(Promise!vars)]_vars

\* With calls that do not overlap, no invitation takes a seat the plan does not
\* have.
FitsThePlan == Len(rows') > Len(rows) => Seats' <= MaxUsers

SeriallyFits == [][slots = 1 => FitsThePlan]_vars
=============================================================================
