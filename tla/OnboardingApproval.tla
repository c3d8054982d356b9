-------------------------- MODULE OnboardingApproval --------------------------
(* The approval of an invitation as assertCanApprove and the comments on     *)
(* advanceApproval and rejectApproval promise it, every call taking effect at*)
(* once: the chain is walked one step at a time, each step by somebody it    *)
(* asks for, and Clerk's e-mail leaves with the last one.                    *)
(*                                                                           *)
(* The e-mail is not part of the transaction: an invitation may be sent and  *)
(* still wait for its last step, to be sent again or rejected after all.     *)
EXTENDS Integers, Sequences

CONSTANTS People,   \* who may invite and approve
          Guests,   \* who may be invited
          Role,     \* org_role of each
          Bypass,   \* roles that stand in for any approver
          Path(_)   \* the roles an inviter's invitations go through

VARIABLES approvals,  \* per approval its inviter, invited person, step, status
          agreed,     \* who agreed to which step of which approval
          mailed      \* approvals whose invitation has been sent

vars == <<approvals, agreed, mailed>>

Init == /\ approvals = <<>>
        /\ agreed = {}
        /\ mailed = {}

Request(by, guest) ==
  /\ Path(by) # <<>>
  /\ approvals' = Append(approvals, [by |-> by, guest |-> guest,
                                     step |-> 0, status |-> "pending"])
  /\ UNCHANGED <<agreed, mailed>>

Decides(user, a) ==
  /\ approvals[a].status = "pending"
  /\ user \notin {approvals[a].by, approvals[a].guest}
  /\ Role[user] \in Bypass \cup {Path(approvals[a].by)[approvals[a].step + 1]}

IsLast(a) == approvals[a].step + 1 = Len(Path(approvals[a].by))

Agrees(user, a) ==
  /\ Decides(user, a)
  /\ agreed' = agreed \cup {[approval |-> a, step |-> approvals[a].step, by |-> user]}

Advance(user, a) ==
  /\ ~IsLast(a)
  /\ Agrees(user, a)
  /\ approvals' = [approvals EXCEPT ![a].step = @ + 1]
  /\ UNCHANGED mailed

Send(user, a) ==
  /\ IsLast(a)
  /\ Agrees(user, a)
  /\ mailed' = mailed \cup {a}
  /\ UNCHANGED approvals

Approve(a) ==
  /\ approvals[a].status = "pending"
  /\ a \in mailed
  /\ approvals' = [approvals EXCEPT ![a].status = "approved"]
  /\ UNCHANGED <<agreed, mailed>>

Reject(user, a) ==
  /\ Decides(user, a)
  /\ approvals' = [approvals EXCEPT ![a].status = "rejected"]
  /\ UNCHANGED <<agreed, mailed>>

Next == \/ \E by \in People, guest \in Guests : Request(by, guest)
        \/ \E a \in DOMAIN approvals :
             \/ Approve(a)
             \/ \E user \in People : Advance(user, a) \/ Send(user, a) \/ Reject(user, a)
=============================================================================
