------------------------------ MODULE BillingGate ------------------------------
(* The guards a request passes before its handler runs, for one tenant.      *)
(*                                                                           *)
(* NestJS runs the global guards of app.module.ts first, in the order they   *)
(* are provided, and then those of the controller.  BillingStatusGuard asks  *)
(* a read-through cache that no change of the company's row invalidates.     *)
EXTENDS Naturals, Sequences

CONSTANTS TTL,        \* ticks a snapshot lives, at least one: 60 seconds
          MaxTicks    \* bound: ticks the tenant is observed to be blocked

VARIABLES company,   \* what the row says: blocked, read-only or not paying
          blockedFor,  \* ticks it has said so
          snapshot,  \* the cached billing status, "none" when it has expired
          left,      \* ticks the snapshot has left
          requests   \* requests under way and served

vars == <<company, blockedFor, snapshot, left, requests>>

-----------------------------------------------------------------------------
Standing == {"open", "blocked"}

\* Reads, writes, writes of the billing controller, and webhooks.
Kinds == {"read", "write", "recovery", "webhook"}

Guards == <<"throttler", "billing", "clerk", "permissions">>
Global == 2

\* A webhook controller has no guards of its own.
GuardsOf(kind) == IF kind = "webhook" THEN SubSeq(Guards, 1, Global) ELSE Guards

Request == [kind : Kinds,
            passed : 0..Len(Guards),      \* guards behind it
            auth : BOOLEAN,               \* req.auth is set
            blockedFor : 0..MaxTicks]     \* when it came in; 0 once that has changed

TypeOK ==
  /\ company \in Standing
  /\ blockedFor \in 0..MaxTicks
  /\ snapshot \in Standing \cup {"none"}
  /\ left \in 0..TTL
  /\ requests \subseteq Request

Init ==
  /\ company = "open" /\ blockedFor = 0
  /\ snapshot = "none" /\ left = 0
  /\ requests = {}

-----------------------------------------------------------------------------
(* The ladder, a webhook or a payment changes the row.                       *)
Change ==
  /\ company' \in Standing \ {company}
  /\ blockedFor' = 0
  /\ requests' = {[r EXCEPT !.blockedFor = 0] : r \in requests}
  /\ UNCHANGED <<snapshot, left>>

Tick ==
  /\ blockedFor' = IF company = "blocked" THEN blockedFor + 1 ELSE 0
  /\ blockedFor' <= MaxTicks
  /\ left' = IF left = 0 THEN 0 ELSE left - 1
  /\ snapshot' = IF left <= 1 THEN "none" ELSE snapshot
  /\ UNCHANGED <<company, requests>>

Arrive(kind) ==
  /\ requests' = requests \cup {[kind |-> kind, passed |-> 0, auth |-> FALSE,
                                 blockedFor |-> blockedFor]}
  /\ UNCHANGED <<company, blockedFor, snapshot, left>>

-----------------------------------------------------------------------------
At(r, guard) == r.passed < Len(GuardsOf(r.kind)) /\ GuardsOf(r.kind)[r.passed + 1] = guard
Passes(r) == requests' = (requests \ {r}) \cup {[r EXCEPT !.passed = @ + 1]}
Refused(r) == requests' = requests \ {r}

\* BillingStatusGuard's ways out before it looks at the tenant.
Exempt(r) == r.kind \in {"read", "recovery"} \/ ~r.auth

Known == IF snapshot = "none" THEN company ELSE snapshot

Bill(r) ==
  /\ At(r, "billing")
  /\ IF Exempt(r)
       THEN Passes(r) /\ UNCHANGED <<snapshot, left>>
       ELSE /\ snapshot' = Known
            /\ left' = IF snapshot = "none" THEN TTL ELSE left
            /\ IF Known = "blocked" THEN Refused(r) ELSE Passes(r)
  /\ UNCHANGED <<company, blockedFor>>

\* ClerkAuthGuard sets req.auth or answers 401.
Authenticate(r) ==
  /\ At(r, "clerk")
  /\ \/ requests' = (requests \ {r}) \cup {[r EXCEPT !.passed = @ + 1, !.auth = TRUE]}
     \/ Refused(r)
  /\ UNCHANGED <<company, blockedFor, snapshot, left>>

Throttle(r) ==
  /\ At(r, "throttler")
  /\ Passes(r) \/ Refused(r)
  /\ UNCHANGED <<company, blockedFor, snapshot, left>>

Permit(r) ==
  /\ At(r, "permissions") /\ r.auth
  /\ Passes(r) \/ Refused(r)
  /\ UNCHANGED <<company, blockedFor, snapshot, left>>

Next ==
  \/ Change \/ Tick
  \/ \E kind \in Kinds : Arrive(kind)
  \/ \E r \in requests : Throttle(r) \/ Bill(r) \/ Authenticate(r) \/ Permit(r)

Spec == Init /\ [][Next]_vars

-----------------------------------------------------------------------------
(* "Every write request goes through this guard": a tenant that has been     *)
(* blocked for longer than a snapshot lives gets no write to its handler,    *)
(* except on the routes that let it recover.                                 *)
BlockedDoNotWrite ==
  \A r \in requests :
    r.kind = "write" /\ r.passed = Len(Guards) => r.blockedFor <= TTL
=============================================================================
