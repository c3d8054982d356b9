------------------------------ MODULE AccessProofs -----------------------------
(* Proofs about Access, for any users, roles, permissions and life time of   *)
(* an entry: the state keeps its shape, and as long as no load overlaps a    *)
(* change the cache never answers anything but what the tables say.          *)
EXTENDS Access, TLAPS

-----------------------------------------------------------------------------
(* Type correctness.                                                         *)
LEMMA TypeInit == Init => TypeOK
<1> SUFFICES ASSUME Init PROVE TypeOK
  OBVIOUS
<1>1. named \subseteq Users \X Roles /\ perms \in [Roles -> SUBSET Permissions]
  BY SeedAssumption, FounderAssumption DEF Init
<1>2. Empty \in Entry
  BY TTLAssumption DEF Empty, Entry
<1> QED
  BY <1>1, <1>2 DEF Init, TypeOK

\* What the permissions of a set of roles are made of.
LEMMA PermissionsType ==
  ASSUME perms \in [Roles -> SUBSET Permissions], NEW rs \in SUBSET Roles
  PROVE  PermissionsOf(rs) \subseteq Permissions
BY DEF PermissionsOf

\* A change that goes on to a phase, whatever it does to the cache.
LEMMA GoesType ==
  ASSUME TypeOK, NEW c \in changes,
         NEW phase \in {"cleared", "written", "halfway", "busted"}, Goes(c, phase)
  PROVE  \E d \in Change : /\ d.phase = phase /\ d.what = c.what
                           /\ changes' = (changes \ {c}) \cup {d}
                           /\ changes' \subseteq Change
<1> DEFINE d == [c EXCEPT !.phase = phase]
<1>1. d \in Change /\ d.phase = phase /\ d.what = c.what
  BY DEF TypeOK, Change
<1> QED
  BY <1>1 DEF Goes, TypeOK

\* A request that writes: a grant or a revocation drops the user's entry at
\* once, an edit of a role drops nothing yet.
LEMMA WritesEffect ==
  ASSUME TypeOK, NEW c \in changes, Writes(c)
  PROVE  /\ UNCHANGED <<tables, loads, begun, overlap>> /\ c.phase = "cleared"
         /\ \/ /\ c.what \in Grant /\ Goes(c, "busted") /\ Drop({c.what.user})
            \/ /\ c.what \in Edit /\ Goes(c, "written") /\ UNCHANGED cache
<1>1. c.what \in Grant \cup Edit
  BY DEF TypeOK, Change
<1>2. c.what.op = "edit" => c.what \in Edit
  BY <1>1 DEF Grant
<1>3. c.what.op \in {"assign", "revoke", "assignSystem", "revokeSystem"} => c.what \in Grant
  BY <1>1 DEF Edit
<1> QED
  BY <1>2, <1>3
     DEF Writes, Write, AssignRole, RevokeRole, AssignSystemRole, RevokeSystemRole, EditRole

LEMMA DropType ==
  ASSUME TypeOK, NEW users, Drop(users)
  PROVE  /\ cache' \in [Users -> Entry]
         /\ \A u \in Users : Hit(u)' => u \notin users /\ cache'[u] = cache[u]
<1>1. Empty \in Entry /\ Empty.left = 0
  BY TTLAssumption DEF Empty, Entry
<1> QED
  BY <1>1 DEF Drop, TypeOK, Hit

LEMMA TypeStep == TypeOK /\ [Next]_vars => TypeOK'
<1> SUFFICES ASSUME TypeOK, [Next]_vars PROVE TypeOK'
  OBVIOUS
<1>1. ASSUME NEW u \in Users, LoadBegins(u) PROVE TypeOK'
  <2>1. RolesOf(u, direct) \subseteq Roles /\ RolesOf(u, named) \subseteq Roles
    BY DEF RolesOf
  <2>2. PermissionsOf(RolesOf(u, direct)) \subseteq Permissions
    BY <2>1, PermissionsType DEF TypeOK
  <2>3. [user |-> u, set |-> PermissionsOf(RolesOf(u, direct)),
         names |-> RolesOf(u, named)] \in Load
    BY <2>1, <2>2 DEF Load
  <2> QED
    BY <1>1, <2>3 DEF LoadBegins, TypeOK, tables
<1>2. ASSUME NEW l \in loads, LoadEnds(l) PROVE TypeOK'
  <2>1. l.user \in Users /\ l.set \subseteq Permissions /\ l.names \subseteq Roles
    BY DEF TypeOK, Load
  <2>2. PermissionsOf(l.names) \subseteq Permissions
    BY <2>1, PermissionsType DEF TypeOK
  <2>3. [set |-> l.set \cup PermissionsOf(l.names), left |-> TTL] \in Entry
    BY <2>1, <2>2, TTLAssumption DEF Entry
  <2> QED
    BY <1>2, <2>1, <2>3 DEF LoadEnds, TypeOK, tables
<1>3. CASE Tick
  <2>1. Aged \in [Users -> Entry]
    <3>1. Empty \in Entry
      BY TTLAssumption DEF Empty, Entry
    <3>2. \A u \in Users : cache[u].left > 1 => [cache[u] EXCEPT !.left = @ - 1] \in Entry
      BY TTLAssumption DEF TypeOK, Entry
    <3> QED
      BY <3>1, <3>2 DEF Aged, TypeOK
  <2> QED
    BY <1>3, <2>1 DEF Tick, TypeOK, tables
<1>4. ASSUME NEW what \in Grant \cup Edit, Clear(what) PROVE TypeOK'
  <2>1. [phase |-> "cleared", what |-> what] \in Change
    BY DEF Change
  <2> QED
    BY <1>4, <2>1 DEF Clear, TypeOK, tables
<1>5. ASSUME NEW c \in changes, Writes(c) PROVE TypeOK'
  BY <1>5, WritesEffect, GoesType, DropType DEF TypeOK, tables
<1>6. ASSUME NEW c \in changes, BustById(c) \/ BustByName(c) PROVE TypeOK'
  BY <1>6, GoesType, DropType DEF BustById, BustByName, TypeOK, tables
<1>7. ASSUME NEW c \in changes, Commit(c) PROVE TypeOK'
  <2>1. c.what \in Grant \cup Edit
    BY DEF TypeOK, Change
  <2>2. direct' \subseteq Users \X Roles /\ named' \subseteq Users \X Roles
    BY <1>7, <2>1 DEF Commit, TypeOK, Grant, Edit
  <2>3. perms' \in [Roles -> SUBSET Permissions]
    BY <1>7, <2>1 DEF Commit, TypeOK, Grant, Edit
  <2> QED
    BY <1>7, <2>2, <2>3 DEF Commit, TypeOK
<1>8. ASSUME NEW c \in changes, Rollback(c) PROVE TypeOK'
  BY <1>8 DEF Rollback, TypeOK, tables
<1>9. CASE UNCHANGED vars
  BY <1>9 DEF vars, tables, TypeOK
<1> QED
  BY <1>1, <1>2, <1>3, <1>4, <1>5, <1>6, <1>7, <1>8, <1>9 DEF Next, Loads, Ends

\* Grants, roles, cache entries, loads and changes keep their shape.
THEOREM TypeCorrect == Spec => []TypeOK
<1> QED
  BY TypeInit, TypeStep, PTL DEF Spec

-----------------------------------------------------------------------------
(* The argument.  Loads and changes keep out of each other's way, so a load  *)
(* ends with the tables it began with.  An entry can then be wrong only      *)
(* because a commit changed what it was made from.  But whom a change        *)
(* concerns has had no entry since the change dropped it: nothing but a load *)
(* makes one.  The holders of a role being edited may grow meanwhile, by a   *)
(* user whose own grant has dropped the entry.                               *)
Apart == loads = {} \/ changes = {}

LoadsAreExact ==
  \A l \in loads : /\ l.set = PermissionsOf(RolesOf(l.user, direct))
                   /\ l.names = RolesOf(l.user, named)

CacheIsExact == \A u \in Users : Hit(u) => cache[u].set = Effective(u)

Concerned(what) == IF what.op = "edit" THEN Holders(what.role) ELSE {what.user}

\* Whose entries a change has dropped by now.
Dropped(c) == CASE c.phase = "busted" -> Concerned(c.what)
                [] c.phase = "halfway" -> ById(c.what.role)
                [] OTHER -> {}

DroppedStayOut ==
  \A c \in changes : /\ \A u \in Dropped(c) : ~Hit(u)
                     /\ c.phase \in {"written", "halfway"} => c.what.op = "edit"

Exact == Apart /\ LoadsAreExact /\ CacheIsExact /\ DroppedStayOut
IInv == TypeOK /\ (~overlap => Exact)

LEMMA IInvInit == Init => IInv
<1> SUFFICES ASSUME Init PROVE Exact
  BY TypeInit DEF IInv
<1>1. \A u \in Users : ~Hit(u)
  BY DEF Init, Hit, Empty
<1> QED
  BY <1>1 DEF Init, Exact, Apart, LoadsAreExact, CacheIsExact, DroppedStayOut

\* What is computed from the tables changes with the tables only.
LEMMA TablesSame ==
  ASSUME UNCHANGED tables
  PROVE  /\ \A u : Effective(u)' = Effective(u)
         /\ \A c : Dropped(c)' = Dropped(c)
         /\ \A rs : PermissionsOf(rs)' = PermissionsOf(rs)
         /\ \A u : /\ RolesOf(u, direct)' = RolesOf(u, direct)
                   /\ RolesOf(u, named)' = RolesOf(u, named)
BY DEF tables, Effective, Dropped, Concerned, Holders, ById, ByName, PermissionsOf, RolesOf

LEMMA DroppedAreUsers == ASSUME NEW c \in Change PROVE Dropped(c) \subseteq Users
BY DEF Dropped, Concerned, Holders, ById, ByName, Change, Grant, Edit

\* A change that goes on, the tables left alone: whom it has to keep out it has
\* kept out before or drops now.
LEMMA GoesOn ==
  ASSUME TypeOK, Exact, NEW c \in changes, NEW d \in Change,
         changes' = (changes \ {c}) \cup {d},
         NEW users, Drop(users), UNCHANGED tables, loads' = loads,
         Dropped(d) \subseteq Dropped(c) \cup users,
         d.phase \in {"written", "halfway"} => d.what.op = "edit"
  PROVE  Exact'
<1>1. \A u \in Users : Hit(u)' => Hit(u) /\ cache'[u] = cache[u] /\ u \notin users
  BY DropType DEF Hit
<1>2. CacheIsExact'
  BY <1>1, TablesSame DEF Exact, CacheIsExact
<1>3. loads' = {} /\ LoadsAreExact'
  BY DEF Exact, Apart, LoadsAreExact
<1>4. ASSUME NEW e \in changes'
      PROVE  /\ \A u \in Dropped(e)' : ~Hit(u)'
             /\ e.phase \in {"written", "halfway"} => e.what.op = "edit"
  <2>1. e \in Change /\ Dropped(e)' = Dropped(e) /\ Dropped(e) \subseteq Users
    BY DroppedAreUsers, TablesSame DEF TypeOK
  <2>2. CASE e \in changes
    BY <1>1, <2>1, <2>2 DEF Exact, DroppedStayOut
  <2>3. CASE e = d
    BY <1>1, <2>1, <2>3 DEF Exact, DroppedStayOut
  <2> QED
    BY <2>2, <2>3
<1> QED
  BY <1>2, <1>3, <1>4 DEF Exact, Apart, DroppedStayOut

\* The commit of a change that has dropped its entries.
LEMMA CommitStep ==
  ASSUME TypeOK, Exact, NEW c \in changes, Commit(c)
  PROVE  Exact'
<1> DEFINE w == c.what
<1>1. w \in Grant \cup Edit /\ c.phase = "busted" /\ UNCHANGED <<cache, loads>>
      /\ changes' = changes \ {c}
  BY DEF Commit, TypeOK, Change
<1>2. loads' = {}
  BY <1>1 DEF Exact, Apart
<1>3. \A u \in Users : Hit(u)' = Hit(u) /\ (Hit(u) => u \notin Concerned(w))
  BY <1>1 DEF Exact, DroppedStayOut, Dropped, Hit
<1>4. CASE w.op = "edit"
  <2>1. /\ UNCHANGED <<direct, named>> /\ w.role \in Roles
        /\ perms' = [perms EXCEPT ![w.role] = w.perms]
    BY <1>1, <1>4 DEF Commit, Grant, Edit
  <2>2. ASSUME NEW u \in Users, Hit(u) PROVE Effective(u)' = Effective(u)
    <3>1. <<u, w.role>> \notin direct /\ <<u, w.role>> \notin named
      BY <1>3, <1>4, <2>2 DEF Concerned, Holders, ById, ByName
    <3>2. w.role \notin RolesOf(u, direct) /\ w.role \notin RolesOf(u, named)
      BY <3>1 DEF RolesOf
    <3>3. \A r \in Roles : r # w.role => perms'[r] = perms[r]
      BY <2>1 DEF TypeOK
    <3>4. RolesOf(u, direct)' = RolesOf(u, direct) /\ RolesOf(u, named)' = RolesOf(u, named)
      BY <2>1 DEF RolesOf
    <3>5. ASSUME NEW rs \in SUBSET Roles, w.role \notin rs
          PROVE  UNION {perms'[r] : r \in rs} = UNION {perms[r] : r \in rs}
      <4>1. \A r \in rs : perms'[r] = perms[r]
        BY <3>3, <3>5
      <4> QED
        BY <4>1
    <3>6. RolesOf(u, direct) \subseteq Roles /\ RolesOf(u, named) \subseteq Roles
      BY DEF RolesOf
    <3> QED
      BY <3>2, <3>4, <3>5, <3>6 DEF Effective, PermissionsOf
  <2>3. \A d : Dropped(d)' = Dropped(d)
    BY <2>1 DEF Dropped, Concerned, Holders, ById, ByName
  <2>4. DroppedStayOut'
    <3> SUFFICES ASSUME NEW d \in changes'
                 PROVE  /\ \A u \in Dropped(d)' : ~Hit(u)'
                        /\ d.phase \in {"written", "halfway"} => d.what.op = "edit"
      BY DEF DroppedStayOut
    <3>1. d \in changes /\ Dropped(d) \subseteq Users
      BY <1>1, DroppedAreUsers DEF TypeOK
    <3> QED
      BY <1>3, <2>3, <3>1 DEF Exact, DroppedStayOut
  <2>5. CacheIsExact'
    BY <1>1, <1>3, <2>2 DEF Exact, CacheIsExact
  <2> QED
    BY <1>1, <1>2, <2>4, <2>5 DEF Exact, Apart, LoadsAreExact
<1>5. CASE w.op # "edit"
  <2>1. /\ w \in Grant /\ UNCHANGED perms /\ w.user \in Users
        /\ direct' \subseteq direct \cup {<<w.user, w.role>>}
        /\ named' \subseteq named \cup {<<w.user, w.role>>}
        /\ \A u \in Users, r \in Roles : u # w.user =>
             /\ <<u, r>> \in direct' <=> <<u, r>> \in direct
             /\ <<u, r>> \in named' <=> <<u, r>> \in named
    BY <1>1, <1>5 DEF Commit, Grant, Edit
  <2>2. ~Hit(w.user)
    BY <1>3, <1>5, <2>1 DEF Concerned
  <2>3. ASSUME NEW u \in Users, Hit(u) PROVE Effective(u)' = Effective(u)
    <3>1. RolesOf(u, direct)' = RolesOf(u, direct) /\ RolesOf(u, named)' = RolesOf(u, named)
      BY <2>1, <2>2, <2>3 DEF RolesOf
    <3> QED
      BY <2>1, <3>1 DEF Effective, PermissionsOf
  <2>4. ASSUME NEW d \in Change PROVE Dropped(d)' \subseteq Dropped(d) \cup {w.user}
    BY <2>1, <2>4 DEF Dropped, Concerned, Holders, ById, ByName, Change, Grant, Edit
  <2>5. DroppedStayOut'
    <3> SUFFICES ASSUME NEW d \in changes'
                 PROVE  /\ \A u \in Dropped(d)' : ~Hit(u)'
                        /\ d.phase \in {"written", "halfway"} => d.what.op = "edit"
      BY DEF DroppedStayOut
    <3>1. d \in changes /\ d \in Change
      BY <1>1 DEF TypeOK
    <3>2. Dropped(d)' \subseteq Dropped(d) \cup {w.user} /\ Dropped(d) \subseteq Users
      BY <2>4, <3>1, DroppedAreUsers
    <3> QED
      BY <1>3, <2>1, <2>2, <3>1, <3>2 DEF Exact, DroppedStayOut
  <2> QED
    BY <1>1, <1>2, <1>3, <2>3, <2>5 DEF Exact, Apart, LoadsAreExact, CacheIsExact
<1> QED
  BY <1>4, <1>5

LEMMA ExactStep == TypeOK /\ ~overlap /\ Exact /\ [Next]_vars => Exact'
<1> SUFFICES ASSUME TypeOK, ~overlap, Exact, [Next]_vars PROVE Exact'
  OBVIOUS
<1>1. ASSUME NEW u \in Users, LoadBegins(u) PROVE Exact'
  <2> DEFINE l == [user |-> u, set |-> PermissionsOf(RolesOf(u, direct)),
                   names |-> RolesOf(u, named)]
  <2>1. /\ changes = {} /\ changes' = {} /\ UNCHANGED <<direct, named, perms, cache>>
        /\ loads' = loads \cup {l}
    BY <1>1 DEF LoadBegins, tables
  <2>2. \A k \in loads' : /\ k.set = PermissionsOf(RolesOf(k.user, direct))
                          /\ k.names = RolesOf(k.user, named)
    BY <2>1 DEF Exact, LoadsAreExact
  <2>3. LoadsAreExact'
    BY <2>1, <2>2, TablesSame DEF LoadsAreExact, tables
  <2>4. CacheIsExact'
    BY <2>1, TablesSame DEF Exact, CacheIsExact, Hit, tables
  <2> QED
    BY <2>1, <2>3, <2>4 DEF Exact, Apart, DroppedStayOut
<1>2. ASSUME NEW l \in loads, LoadEnds(l) PROVE Exact'
  <2>1. /\ changes = {} /\ changes' = {} /\ UNCHANGED <<direct, named, perms>>
        /\ loads' \subseteq loads
        /\ cache' = [cache EXCEPT ![l.user] = [set |-> Effective(l.user), left |-> TTL]]
    BY <1>2 DEF LoadEnds, tables, Exact, Apart, LoadsAreExact, Effective
  <2>2. \A u \in Users : Effective(u)' = Effective(u)
    BY <2>1 DEF Effective, PermissionsOf, RolesOf
  <2>3. CacheIsExact'
    BY <2>1, <2>2 DEF TypeOK, Exact, CacheIsExact, Hit
  <2>4. LoadsAreExact'
    BY <2>1 DEF Exact, LoadsAreExact, PermissionsOf, RolesOf
  <2> QED
    BY <2>1, <2>3, <2>4 DEF Exact, Apart, DroppedStayOut
<1>3. CASE Tick
  <2>1. UNCHANGED <<direct, named, perms, loads, changes>> /\ cache' = Aged
    BY <1>3 DEF Tick, tables
  <2>2. \A u \in Users : Hit(u)' => Hit(u) /\ cache'[u].set = cache[u].set
    BY <2>1 DEF Aged, Hit, Empty, TypeOK, Entry
  <2>3. \A u \in Users : Effective(u)' = Effective(u)
    BY <2>1 DEF Effective, PermissionsOf, RolesOf
  <2>4. \A c \in changes : Dropped(c)' = Dropped(c) /\ Dropped(c) \subseteq Users
    BY <2>1, TablesSame, DroppedAreUsers DEF tables, TypeOK
  <2>5. LoadsAreExact'
    BY <2>1 DEF Exact, LoadsAreExact, PermissionsOf, RolesOf
  <2> QED
    BY <2>1, <2>2, <2>3, <2>4, <2>5 DEF Exact, Apart, CacheIsExact, DroppedStayOut
<1>4. ASSUME NEW what \in Grant \cup Edit, Clear(what) PROVE Exact'
  <2> DEFINE d == [phase |-> "cleared", what |-> what]
  <2>1. /\ loads = {} /\ loads' = {} /\ UNCHANGED <<tables, cache>>
        /\ changes' = changes \cup {d}
    BY <1>4 DEF Clear
  <2>2. d.phase = "cleared" /\ Dropped(d) = {}
    BY DEF Dropped
  <2> HIDE DEF d
  <2>3. DroppedStayOut'
    BY <2>1, <2>2, TablesSame DEF Exact, DroppedStayOut, Hit
  <2>4. CacheIsExact'
    BY <2>1, TablesSame DEF Exact, CacheIsExact, Hit
  <2> QED
    BY <2>1, <2>3, <2>4 DEF Exact, Apart, LoadsAreExact
<1>5. ASSUME NEW c \in changes, Writes(c) PROVE Exact'
  <2>1. CASE c.what \in Grant /\ Goes(c, "busted") /\ Drop({c.what.user})
    <3>1. PICK d \in Change : /\ d.phase = "busted" /\ d.what = c.what
                             /\ changes' = (changes \ {c}) \cup {d}
      BY <2>1, GoesType
    <3>2. Dropped(d) = {c.what.user}
      BY <2>1, <3>1 DEF Dropped, Concerned, Grant
    <3> QED
      BY <1>5, <2>1, <3>1, <3>2, WritesEffect, GoesOn
  <2>2. CASE c.what \in Edit /\ Goes(c, "written") /\ UNCHANGED cache
    <3>1. PICK d \in Change : /\ d.phase = "written" /\ d.what = c.what
                             /\ changes' = (changes \ {c}) \cup {d}
      BY <2>2, GoesType
    <3>2. Dropped(d) = {} /\ d.what.op = "edit"
      BY <2>2, <3>1 DEF Dropped, Edit
    <3>3. Drop({})
      BY <2>2 DEF Drop, TypeOK
    <3> QED
      BY <1>5, <3>1, <3>2, <3>3, WritesEffect, GoesOn
  <2> QED
    BY <1>5, <2>1, <2>2, WritesEffect
<1>6. ASSUME NEW c \in changes, BustById(c) \/ BustByName(c) PROVE Exact'
  <2>1. CASE BustById(c)
    <3>1. PICK d \in Change : /\ d.phase = "halfway" /\ d.what = c.what
                             /\ changes' = (changes \ {c}) \cup {d}
      BY <2>1, GoesType DEF BustById
    <3>2. c.what.op = "edit"
      BY <2>1 DEF BustById, Exact, DroppedStayOut
    <3>3. Dropped(d) = ById(c.what.role)
      BY <3>1 DEF Dropped
    <3> QED
      BY <2>1, <3>1, <3>2, <3>3, GoesOn DEF BustById
  <2>2. CASE BustByName(c)
    <3>1. PICK d \in Change : /\ d.phase = "busted" /\ d.what = c.what
                             /\ changes' = (changes \ {c}) \cup {d}
      BY <2>2, GoesType DEF BustByName
    <3>2. c.what.op = "edit"
      BY <2>2 DEF BustByName, Exact, DroppedStayOut
    <3>3. /\ Dropped(d) = Holders(c.what.role)
          /\ Dropped(c) = ById(c.what.role)
      BY <2>2, <3>1, <3>2 DEF Dropped, Concerned, BustByName
    <3> QED
      BY <2>2, <3>1, <3>2, <3>3, GoesOn DEF BustByName, Holders
  <2> QED
    BY <1>6, <2>1, <2>2
<1>7. ASSUME NEW c \in changes, Commit(c) PROVE Exact'
  BY <1>7, CommitStep
<1>8. ASSUME NEW c \in changes, Rollback(c) PROVE Exact'
  BY <1>8, TablesSame DEF Rollback, Exact, Apart, LoadsAreExact, CacheIsExact, DroppedStayOut, Hit
<1>9. CASE UNCHANGED vars
  BY <1>9, TablesSame DEF vars, Exact, Apart, LoadsAreExact, CacheIsExact, DroppedStayOut, Hit
<1> QED
  BY <1>1, <1>2, <1>3, <1>4, <1>5, <1>6, <1>7, <1>8, <1>9 DEF Next, Loads, Ends

LEMMA OverlapIsFixed == [Next]_vars => overlap' = overlap
BY DEF Next, Loads, Ends, LoadBegins, LoadEnds, Tick, Clear, Writes, Write, AssignRole,
       RevokeRole, AssignSystemRole, RevokeSystemRole, EditRole, BustById, BustByName,
       Commit, Rollback, vars

(* Roles and grants take effect with the commit, for everybody at once, as   *)
(* long as no load overlaps a change: getEffectivePermissions never answers  *)
(* from an entry that a grant, a revocation or a role edit has outdated.     *)
THEOREM ChangesAreEffective == Spec => []ChangesTakeEffect
<1>1. IInv /\ [Next]_vars => IInv'
  BY TypeStep, ExactStep, OverlapIsFixed DEF IInv
<1>2. IInv => ChangesTakeEffect
  BY DEF IInv, Exact, CacheIsExact, ChangesTakeEffect
<1> QED
  BY IInvInit, <1>1, <1>2, PTL DEF Spec
=============================================================================
