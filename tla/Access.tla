--------------------------------- MODULE Access --------------------------------
(* Role grants, role definitions and the in-process cache of effective       *)
(* permissions that PermissionsGuard asks on every request.                  *)
(*                                                                           *)
(* A miss loads the cache in two queries on a connection of its own: the     *)
(* user with the roles granted by id and the role names granted by name,     *)
(* then the roles of those names.  A request that changes grants or a role   *)
(* passes the guard, writes inside its transaction and drops cache entries   *)
(* before the commit makes the write visible.  A load may begin or end       *)
(* anywhere in between.                                                      *)
(*                                                                           *)
(* Time is the number of ticks an entry has left.                            *)
EXTENDS Naturals, FiniteSets

CONSTANTS Users,
          Roles,        \* the roles every tenant is seeded with
          Permissions,
          Seed,         \* roles.permissions at sign-up
          Founder,      \* user_system_roles at sign-up
          Manage,       \* the permission that grants and role edits need
          TTL,          \* ticks an entry lives
          MaxChanges    \* bound: grants, revocations and role edits

ASSUME SeedAssumption == Seed \in [Roles -> SUBSET Permissions]
ASSUME FounderAssumption == Founder \subseteq Users \X Roles
ASSUME TTLAssumption == TTL \in Nat \ {0}

VARIABLES direct,    \* user_roles: pairs of user and role
          named,     \* user_system_roles: pairs of user and role name
          perms,     \* roles.permissions
          cache,     \* per user, the cached set and the ticks it has left
          loads,     \* loads between their two queries
          changes,   \* requests that change something, from their guard to their end
          begun,     \* changes begun so far
          overlap    \* whether loads and changes overlap in this behaviour

tables == <<direct, named, perms>>
vars == <<tables, cache, loads, changes, begun, overlap>>

-----------------------------------------------------------------------------
Entry == [set : SUBSET Permissions, left : 0..TTL]
Empty == [set |-> {}, left |-> 0]
Load == [user : Users, set : SUBSET Permissions, names : SUBSET Roles]

Grant == [op : {"assign", "revoke", "assignSystem", "revokeSystem"},
          user : Users, role : Roles]
Edit == [op : {"edit"}, role : Roles, perms : SUBSET Permissions]
Change == [phase : {"cleared", "written", "halfway", "busted"}, what : Grant \cup Edit]

TypeOK ==
  /\ direct \subseteq Users \X Roles
  /\ named \subseteq Users \X Roles
  /\ perms \in [Roles -> SUBSET Permissions]
  /\ cache \in [Users -> Entry]
  /\ loads \subseteq Load
  /\ changes \subseteq Change
  /\ begun \in Nat
  /\ overlap \in BOOLEAN

Init ==
  /\ direct = {}
  /\ named = Founder
  /\ perms = Seed
  /\ cache = [u \in Users |-> Empty]
  /\ loads = {}
  /\ changes = {}
  /\ begun = 0
  /\ overlap \in BOOLEAN

RolesOf(u, grants) == {r \in Roles : <<u, r>> \in grants}
PermissionsOf(roles) == UNION {perms[r] : r \in roles}

(* What the tables say a user may do.                                        *)
Effective(u) == PermissionsOf(RolesOf(u, direct)) \cup PermissionsOf(RolesOf(u, named))

-----------------------------------------------------------------------------
(* getEffectivePermissions: a hit only reads.                                *)
Hit(u) == cache[u].left > 0

LoadBegins(u) ==
  /\ ~Hit(u)
  /\ overlap \/ changes = {}
  /\ loads' = loads \cup {[user |-> u, set |-> PermissionsOf(RolesOf(u, direct)),
                           names |-> RolesOf(u, named)]}
  /\ UNCHANGED <<tables, cache, changes, begun, overlap>>

LoadEnds(l) ==
  /\ l \in loads
  /\ loads' = loads \ {l}
  /\ cache' = [cache EXCEPT ![l.user] =
                 [set |-> l.set \cup PermissionsOf(l.names), left |-> TTL]]
  /\ UNCHANGED <<tables, changes, begun, overlap>>

\* Mutant: time passes only for the entries that are not about to expire.
AgesToOne == [u \in Users |-> IF cache[u].left > 1 THEN [cache[u] EXCEPT !.left = @ - 1]
                                                 ELSE cache[u]]

Aged == [u \in Users |-> IF cache[u].left > 1 THEN [cache[u] EXCEPT !.left = @ - 1]
                                            ELSE Empty]

Tick ==
  /\ \E u \in Users : Hit(u)
  /\ cache' = Aged
  /\ UNCHANGED <<tables, loads, changes, begun, overlap>>

-----------------------------------------------------------------------------
(* The guard of a request that is going to change something.  It comes before*)
(* the transaction; what it has let pass stays let pass.                     *)
Clear(what) ==
  LET c == [phase |-> "cleared", what |-> what] IN
  /\ begun < MaxChanges
  /\ \E actor \in Users : Hit(actor) /\ Manage \in cache[actor].set
  /\ overlap \/ loads = {}
  /\ c \notin changes
  /\ changes' = changes \cup {c}
  /\ begun' = begun + 1
  /\ UNCHANGED <<tables, cache, loads, overlap>>

(* The uncommitted write.  A second change of the same row waits for the row *)
(* lock.                                                                     *)
Row(what) == IF what.op = "edit" THEN <<"role", what.role>>
             ELSE IF what.op \in {"assign", "revoke"} THEN <<"direct", what.user, what.role>>
             ELSE <<"named", what.user, what.role>>

Goes(c, phase) == changes' = (changes \ {c}) \cup {[c EXCEPT !.phase = phase]}

Write(c, op, phase) ==
  /\ c.phase = "cleared"
  /\ c.what.op = op
  /\ \A d \in changes : d.phase # "cleared" => Row(d.what) # Row(c.what)
  /\ Goes(c, phase)
  /\ UNCHANGED <<tables, loads, begun, overlap>>

Drop(users) ==
  cache' = [u \in Users |-> IF u \in users THEN Empty ELSE cache[u]]

(* POST and DELETE /users/:id/roles: write, then invalidateUser.             *)
AssignRole(c) == Write(c, "assign", "busted") /\ Drop({c.what.user})

\* Mutant: a revocation leaves the cache alone.
RevokesQuietly(c) ==
  /\ Write(c, "revoke", "busted")
  /\ <<c.what.user, c.what.role>> \in direct
  /\ UNCHANGED cache

RevokeRole(c) ==
  /\ Write(c, "revoke", "busted")
  /\ <<c.what.user, c.what.role>> \in direct
  /\ Drop({c.what.user})

(* POST and DELETE /users/:id/system-roles.  The grant names the role; a     *)
(* built-in role keeps its name and the API creates no other, so the name    *)
(* stands for the role.                                                      *)
AssignSystemRole(c) == Write(c, "assignSystem", "busted") /\ Drop({c.what.user})

RevokeSystemRole(c) ==
  /\ Write(c, "revokeSystem", "busted")
  /\ <<c.what.user, c.what.role>> \in named
  /\ Drop({c.what.user})

(* PATCH /roles/:id of the permissions, the only field a built-in role lets  *)
(* change.                                                                   *)
EditRole(c) == Write(c, "edit", "written") /\ UNCHANGED cache

(* invalidateUsersWithRole and invalidateUsersWithSystemRoleName: each reads *)
(* the committed holders, by id the one and by name the other, and drops     *)
(* their entries.                                                            *)
ById(r) == {u \in Users : <<u, r>> \in direct}
ByName(r) == {u \in Users : <<u, r>> \in named}
Holders(r) == ById(r) \cup ByName(r)

BustById(c) ==
  /\ c.phase = "written"
  /\ Drop(ById(c.what.role))
  /\ Goes(c, "halfway")
  /\ UNCHANGED <<tables, loads, begun, overlap>>

BustByName(c) ==
  /\ c.phase = "halfway"
  /\ Drop(ByName(c.what.role))
  /\ Goes(c, "busted")
  /\ UNCHANGED <<tables, loads, begun, overlap>>

(* The commit.                                                               *)
Commit(c) ==
  LET w == c.what IN
  /\ c.phase = "busted"
  /\ direct' = CASE w.op = "assign" -> direct \cup {<<w.user, w.role>>}
                 [] w.op = "revoke" -> direct \ {<<w.user, w.role>>}
                 [] OTHER -> direct
  /\ named' = CASE w.op = "assignSystem" -> named \cup {<<w.user, w.role>>}
                [] w.op = "revokeSystem" -> named \ {<<w.user, w.role>>}
                [] OTHER -> named
  /\ perms' = IF w.op = "edit" THEN [perms EXCEPT ![w.role] = w.perms] ELSE perms
  /\ changes' = changes \ {c}
  /\ UNCHANGED <<cache, loads, begun, overlap>>

Rollback(c) ==
  /\ changes' = changes \ {c}
  /\ UNCHANGED <<tables, cache, loads, begun, overlap>>

Writes(c) == \/ AssignRole(c) \/ RevokeRole(c)
             \/ AssignSystemRole(c) \/ RevokeSystemRole(c)
             \/ EditRole(c)

Loads == \/ \E u \in Users : LoadBegins(u)
         \/ \E l \in loads : LoadEnds(l)

Ends == \E c \in changes : \/ Writes(c)
                           \/ BustById(c) \/ BustByName(c)
                           \/ Commit(c) \/ Rollback(c)

Next == \/ \E what \in Grant \cup Edit : Clear(what)
        \/ Ends
        \/ Loads
        \/ Tick

Spec == Init /\ [][Next]_vars

(* Time passes, queries answer and transactions end.  Nobody has to change   *)
(* anything or send a request.                                               *)
FairSpec == /\ Spec
            /\ WF_vars(Tick)
            /\ WF_vars(\E l \in loads : LoadEnds(l))
            /\ WF_vars(Ends)

-----------------------------------------------------------------------------
\* Changes take effect at once as long as no load overlaps one: outside a
\* change, whatever the cache answers is what the tables say.
ChangesTakeEffect ==
  ~overlap /\ changes = {} =>
    \A u \in Users : Hit(u) => cache[u].set = Effective(u)

\* With loads that overlap a change, a wrong entry dies: once nobody changes
\* grants any more, the cache comes to agree with the tables and does so from
\* then on.  Only the expiry, never renewed by a hit, ensures it.
WrongEntriesDie ==
  <>[](\A u \in Users : Hit(u) => cache[u].set = Effective(u))
=============================================================================
