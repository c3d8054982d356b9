------------------------------ MODULE Departments ------------------------------
(* The department tree of a tenant and the team memberships of its users.    *)
(*                                                                           *)
(* Every request is one READ COMMITTED transaction.  A move walks up from    *)
(* the proposed parent with one SELECT per step, each of which sees what is  *)
(* committed by then, and updates the row by id at the end; nothing it read  *)
(* is locked.  An archive counts the active children first.                  *)
(*                                                                           *)
(* Names are left out; the conflict with a sibling's name rolls a request    *)
(* back, as any failure does.                                                *)
EXTENDS Naturals, FiniteSets

CONSTANTS Depts,     \* ids of departments rows
          Roots,     \* departments that exist at the start, without a parent
          Branches,
          Users,
          Teams,
          None,      \* SQL NULL
          MaxMoves,  \* bound: moves begun
          MaxCalls   \* bound: creations, archivals and membership changes begun

ASSUME NoneAssumption == None \notin Depts
ASSUME DeptsAssumption == IsFiniteSet(Depts) /\ Roots \subseteq Depts
ASSUME BoundsAssumption == MaxMoves \in Nat /\ MaxCalls \in Nat

VARIABLES depts,     \* departments rows
          members,   \* user_teams rows: triples of user, team and is_primary
          calls,     \* transactions between their first read and their end
          moves,     \* moves begun so far
          begun,     \* other calls begun so far
          overlap    \* how many moves, and how many joins, may be open at a time
                     \* in this behaviour

vars == <<depts, members, calls, moves, begun, overlap>>

-----------------------------------------------------------------------------
Absent == [state |-> "absent"]
Row == [state : {"active", "archived"}, branch : Branches, parent : Depts \cup {None}]

Move == [op : {"move"}, dept : Depts, parent : Depts \cup {None},
         cursor : Depts \cup {None}, seen : SUBSET Depts]
Call == Move
        \cup [op : {"create"}, dept : Depts, branch : Branches,
              parent : Depts \cup {None}]
        \cup [op : {"archive"}, dept : Depts]
        \cup [op : {"join"}, user : Users, team : Teams, primary : BOOLEAN,
            demote : SUBSET Teams]

TypeOK ==
  /\ depts \in [Depts -> Row \cup {Absent}]
  /\ members \subseteq Users \X Teams \X BOOLEAN
  /\ calls \subseteq Call
  /\ moves \in Nat
  /\ begun \in Nat
  /\ overlap \in 1..2

Init ==
  /\ \E b \in Branches :
       depts = [d \in Depts |-> IF d \in Roots
                                THEN [state |-> "active", branch |-> b, parent |-> None]
                                ELSE Absent]
  /\ members = {}
  /\ calls = {}
  /\ moves = 0
  /\ begun = 0
  /\ overlap \in 1..2

Exists(d) == depts[d] # Absent
Active(d) == depts[d].state = "active"
Open(op) == {c \in calls : c.op = op}

Ends(call) == calls' = calls \ {call}

Begin(call) ==
  /\ begun < MaxCalls
  /\ call \notin calls
  /\ calls' = calls \cup {call}
  /\ begun' = begun + 1
  /\ UNCHANGED <<depts, members, moves, overlap>>

-----------------------------------------------------------------------------
(* POST /departments: the parent is active and in the same branch.           *)
LoadCreate(d, b, p) ==
  /\ ~Exists(d)
  /\ \A c \in Open("create") : c.dept # d
  /\ p # None => Exists(p) /\ Active(p) /\ depts[p].branch = b
  /\ Begin([op |-> "create", dept |-> d, branch |-> b, parent |-> p])

WriteCreate(call) ==
  /\ call.op = "create"
  /\ depts' = [depts EXCEPT ![call.dept] =
                 [state |-> "active", branch |-> call.branch, parent |-> call.parent]]
  /\ Ends(call)
  /\ UNCHANGED <<members, moves, begun, overlap>>

(* PATCH /departments/:id.  A move to the root walks nowhere.                *)
BeginMove(d, p) ==
  LET call == [op |-> "move", dept |-> d, parent |-> p, cursor |-> p, seen |-> {}] IN
  /\ moves < MaxMoves
  /\ Cardinality(Open("move")) < overlap
  /\ Exists(d)
  /\ p # None => Exists(p)
  /\ p # d
  /\ call \notin calls
  /\ calls' = calls \cup {call}
  /\ moves' = moves + 1
  /\ UNCHANGED <<depts, members, begun, overlap>>

\* Mutant: only the proposed parent itself is looked at.
ReachedAtOnce(call) == call.cursor = None \/ call.seen # {}

\* Mutant: the walk does not remember where it has been.
ReachedRoot(call) == call.cursor = None

(* The walk is over at the root, and where a cycle brings it back to.        *)
Walked(call) == call.cursor = None \/ call.cursor \in call.seen

(* One step of the walk: refused where it meets the department itself or     *)
(* finds no row, one SELECT further otherwise.                               *)
Step(call) ==
  /\ call.op = "move"
  /\ ~Walked(call)
  /\ IF call.cursor = call.dept \/ ~Exists(call.cursor)
       THEN Ends(call)
       ELSE calls' = (calls \ {call})
                     \cup {[call EXCEPT !.cursor = depts[call.cursor].parent,
                                        !.seen = @ \cup {call.cursor}]}
  /\ UNCHANGED <<depts, members, moves, begun, overlap>>

(* updateMany of the row unless it is archived; then nothing is written.     *)
WriteMove(call) ==
  /\ call.op = "move"
  /\ Walked(call)
  /\ depts' = IF Active(call.dept)
                THEN [depts EXCEPT ![call.dept].parent = call.parent]
                ELSE depts
  /\ Ends(call)
  /\ UNCHANGED <<members, moves, begun, overlap>>

(* POST /departments/:id/archive: refused while a child is active.           *)
LoadArchive(d) ==
  /\ Exists(d)
  /\ \A c \in Depts : Exists(c) /\ Active(c) => depts[c].parent # d
  /\ Begin([op |-> "archive", dept |-> d])

WriteArchive(call) ==
  /\ call.op = "archive"
  /\ depts' = [depts EXCEPT ![call.dept].state = "archived"]
  /\ Ends(call)
  /\ UNCHANGED <<members, moves, begun, overlap>>

(* POST /departments/:id/unarchive: one statement, whatever the parent is.   *)
Unarchive(d) ==
  /\ Exists(d)
  /\ ~Active(d)
  /\ begun < MaxCalls
  /\ depts' = [depts EXCEPT ![d].state = "active"]
  /\ begun' = begun + 1
  /\ UNCHANGED <<members, calls, moves, overlap>>

-----------------------------------------------------------------------------
(* POST /users/:id/teams.  The statement that demotes the primary rows it    *)
(* sees comes first, the upsert of the membership second; a row another      *)
(* transaction is about to commit is not seen.                               *)
Primaries(u) == {t \in Teams : <<u, t, TRUE>> \in members}

\* Mutant: the upsert comes without the updateMany before it.
DemotesNobody(u, t) == {}

Demotes(u, t) == Primaries(u) \ {t}

LoadJoin(u, t, primary) ==
  /\ Cardinality(Open("join")) < overlap
  /\ Begin([op |-> "join", user |-> u, team |-> t, primary |-> primary,
            demote |-> IF primary THEN Demotes(u, t) ELSE {}])

(* The memberships as the two statements leave them.                         *)
Joined(call) ==
  LET kept == {m \in members : m[1] # call.user \/ m[2] \notin call.demote \cup {call.team}}
      demoted == {<<call.user, m[2], FALSE>> : m \in
                   {n \in members : n[1] = call.user /\ n[2] \in call.demote}}
  IN kept \cup demoted \cup {<<call.user, call.team, call.primary>>}

(* idx_user_teams_primary: one primary row per user.                         *)
IndexAdmits(memberships) ==
  \A m, n \in memberships : m[1] = n[1] /\ m[3] /\ n[3] => m[2] = n[2]

(* A violation of the index fails the request.                               *)
WriteJoin(call) ==
  /\ call.op = "join"
  /\ IndexAdmits(Joined(call))
  /\ members' = Joined(call)
  /\ Ends(call)
  /\ UNCHANGED <<depts, moves, begun, overlap>>

(* DELETE /users/:id/teams/:teamId.                                          *)
Leave(m) ==
  /\ begun < MaxCalls
  /\ begun' = begun + 1
  /\ members' = members \ {m}
  /\ UNCHANGED <<depts, calls, moves, overlap>>

(* The transaction fails: a name taken by a sibling, the index, a lost       *)
(* connection.                                                               *)
Rollback(call) ==
  /\ Ends(call)
  /\ UNCHANGED <<depts, members, moves, begun, overlap>>

Requests ==
  \/ \E d \in Depts, b \in Branches, p \in Depts \cup {None} : LoadCreate(d, b, p)
  \/ \E d \in Depts, p \in Depts \cup {None} : BeginMove(d, p)
  \/ \E d \in Depts : LoadArchive(d) \/ Unarchive(d)
  \/ \E u \in Users, t \in Teams, primary \in BOOLEAN : LoadJoin(u, t, primary)
  \/ \E m \in members : Leave(m)

Progress == \E call \in calls : Step(call) \/ WriteMove(call)

Next ==
  \/ Requests
  \/ Progress
  \/ \E call \in calls : \/ WriteCreate(call)
                         \/ WriteArchive(call)
                         \/ WriteJoin(call)
                         \/ Rollback(call)

Spec == Init /\ [][Next]_vars

(* A SELECT and an UPDATE of a move under way get their answer.              *)
FairSpec == Spec /\ WF_vars(Progress)

-----------------------------------------------------------------------------
\* As long as no two moves overlap, the departments form a forest, whatever
\* creations, archivals and restorations happen while a walk is under way: no
\* set of departments has the parents of all its members.
TreeIsAcyclic ==
  overlap = 1 =>
    \A ds \in SUBSET {d \in Depts : Exists(d)} :
      ds # {} => \E d \in ds : depts[d].parent \notin ds

\* That a user has one primary team is the index's doing; the demotion has to
\* see to it that the index refuses nobody.  As long as no two joins overlap, it
\* admits what a join is about to leave behind, whatever teams were joined and
\* left before it began and left since.
PrimaryChangesPass ==
  overlap = 1 => \A call \in Open("join") : IndexAdmits(Joined(call))

\* The walk of a move ends even where overlapping moves have closed a cycle
\* that does not contain the department that moves.
WalkEnds == (Open("move") # {}) ~> (Open("move") = {})
=============================================================================
