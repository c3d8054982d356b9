----------------------------- MODULE MCInvitations -----------------------------
(* A founder, a supervisor, a manager and an HR officer; an invited manager, *)
(* who may approve once on board, and an invited employee.  Whoever invites, *)
(* the chain has no, one or two steps left.                                  *)
EXTENDS Invitations, TLC

CONSTANTS ceo, sup, mgr, hr, mia, eli

MCStaff == {ceo, sup, mgr, hr}
MCSmallStaff == {ceo, sup, hr}
MCRole == (ceo :> "ceo") @@ (sup :> "supervisor") @@ (mgr :> "manager") @@ (hr :> "hr")
            @@ (mia :> "manager") @@ (eli :> "employee")
MCInviters == MCStaff \cup {mia}
MCFewInviters == MCSmallStaff \cup {mia}
MCChain == <<"supervisor", "manager">>

\* Workers are interchangeable.
WorkerSymmetry == Permutations(Workers)

(* Behaviours with one call at a time beside behaviours with two: what the   *)
(* transactions of a call rely on each other for holds only in the first.    *)
(* Bounds: six calls one at a time; overlapping, none about the employee.    *)
Awaited == {g \in Guests : \E w \in InFlight : "guest" \in DOMAIN calls[w] /\ calls[w].guest = g}

MCNext == Next /\ IF slots = 1 THEN started' <= 6 ELSE eli \notin Awaited'
MCSpec == Init /\ [][MCNext]_vars
=============================================================================
