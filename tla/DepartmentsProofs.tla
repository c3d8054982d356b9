---------------------------- MODULE DepartmentsProofs ---------------------------
(* Proofs about Departments, for any departments, users and teams and any    *)
(* number of requests in flight: rows keep their shape, moves that do not    *)
(* overlap keep the departments a forest, and nobody has two primary teams.  *)
EXTENDS Departments, FiniteSetTheorems, TLAPS

-----------------------------------------------------------------------------
(* Type correctness, with what a transaction relies on when it writes: rows  *)
(* are never deleted, a department to be created is not there yet, and only  *)
(* one request creates it.                                                   *)
Grounded(call) ==
  /\ call.op = "create" => /\ ~Exists(call.dept)
                           /\ call.parent # None => Exists(call.parent)
  /\ call.op = "move" => /\ Exists(call.dept)
                         /\ call.parent # None => Exists(call.parent)
  /\ call.op = "archive" => Exists(call.dept)

ParentsExist ==
  \A d \in Depts : Exists(d) /\ depts[d].parent # None => Exists(depts[d].parent)

Typed ==
  /\ TypeOK
  /\ \A call \in calls : Grounded(call)
  /\ \A c1, c2 \in Open("create") : c1.dept = c2.dept => c1 = c2
  /\ ParentsExist

LEMMA Rows ==
  ASSUME TypeOK, NEW d \in Depts
  PROVE  /\ Exists(d) <=> depts[d] \in Row
         /\ Exists(d) <=> depts[d].state # "absent"
         /\ Exists(d) => depts[d].parent \in Depts \cup {None}
BY DEF TypeOK, Exists, Absent, Row

LEMMA TypedInit == Init => Typed
<1> SUFFICES ASSUME Init PROVE Typed
  OBVIOUS
<1>1. TypeOK
  BY DEF Init, TypeOK, Row
<1>2. \A d \in Depts : Exists(d) => depts[d].parent = None
  BY DEF Init, Exists, Absent
<1> QED
  BY <1>1, <1>2 DEF Init, Typed, ParentsExist, Open

(* A step that adds a request, ends one, or walks one step further, and      *)
(* leaves the rows alone.                                                    *)
LEMMA CallsStep ==
  ASSUME Typed, UNCHANGED depts, TypeOK',
         \A call \in calls' \ calls : Grounded(call),
         \A c1, c2 \in Open("create")' : c1.dept = c2.dept => c1 = c2
  PROVE  Typed'
BY DEF Typed, Grounded, ParentsExist, Exists

LEMMA TypedStep == Typed /\ [Next]_vars => Typed'
<1> SUFFICES ASSUME Typed, [Next]_vars PROVE Typed'
  OBVIOUS
<1>0. TypeOK /\ \A call \in calls : call \in Call
  BY DEF Typed, TypeOK
<1>1. ASSUME NEW d \in Depts, NEW b \in Branches, NEW p \in Depts \cup {None}, LoadCreate(d, b, p)
      PROVE  Typed'
  <2> DEFINE new == [op |-> "create", dept |-> d, branch |-> b, parent |-> p]
  <2>1. /\ ~Exists(d) /\ \A c \in Open("create") : c.dept # d
        /\ p # None => Exists(p)
        /\ calls' = calls \cup {new} /\ begun' = begun + 1
        /\ UNCHANGED <<depts, members, moves, overlap>>
    BY <1>1 DEF LoadCreate, Begin
  <2>2. new \in Call /\ Grounded(new) /\ new.op = "create" /\ new.dept = d
    BY <2>1 DEF Call, Grounded
  <2> HIDE DEF new
  <2>3. TypeOK'
    BY <1>0, <2>1, <2>2 DEF TypeOK
  <2>4. \A c1, c2 \in Open("create")' : c1.dept = c2.dept => c1 = c2
    BY <2>1, <2>2 DEF Open, Typed
  <2> QED
    BY <2>1, <2>2, <2>3, <2>4, CallsStep
<1>2. ASSUME NEW d \in Depts, NEW p \in Depts \cup {None}, BeginMove(d, p)
      PROVE  Typed'
  <2> DEFINE new == [op |-> "move", dept |-> d, parent |-> p, cursor |-> p, seen |-> {}]
  <2>1. /\ Exists(d)
        /\ p # None => Exists(p)
        /\ calls' = calls \cup {new} /\ moves' = moves + 1
        /\ UNCHANGED <<depts, members, begun, overlap>>
    BY <1>2 DEF BeginMove
  <2>2. new \in Call /\ new.op = "move" /\ new.dept = d /\ new.parent = p
    BY DEF Call, Move
  <2> HIDE DEF new
  <2>5. Grounded(new)
    BY <2>1, <2>2 DEF Grounded
  <2>3. TypeOK'
    BY <1>0, <2>1, <2>2 DEF TypeOK
  <2>4. \A c1, c2 \in Open("create")' : c1.dept = c2.dept => c1 = c2
    BY <2>1, <2>2 DEF Open, Typed
  <2> QED
    BY <2>1, <2>2, <2>3, <2>4, <2>5, CallsStep
<1>3. ASSUME NEW d \in Depts, LoadArchive(d) PROVE Typed'
  <2> DEFINE new == [op |-> "archive", dept |-> d]
  <2>1. /\ Exists(d) /\ calls' = calls \cup {new} /\ begun' = begun + 1
        /\ UNCHANGED <<depts, members, moves, overlap>>
    BY <1>3 DEF LoadArchive, Begin
  <2>2. new \in Call /\ Grounded(new) /\ new.op = "archive"
    BY <2>1 DEF Call, Grounded
  <2> HIDE DEF new
  <2>3. TypeOK'
    BY <1>0, <2>1, <2>2 DEF TypeOK
  <2>4. \A c1, c2 \in Open("create")' : c1.dept = c2.dept => c1 = c2
    BY <2>1, <2>2 DEF Open, Typed
  <2> QED
    BY <2>1, <2>2, <2>3, <2>4, CallsStep
<1>4. ASSUME NEW u \in Users, NEW t \in Teams, NEW primary \in BOOLEAN, LoadJoin(u, t, primary)
      PROVE  Typed'
  <2> DEFINE new == [op |-> "join", user |-> u, team |-> t, primary |-> primary,
                     demote |-> IF primary THEN Demotes(u, t) ELSE {}]
  <2>1. /\ calls' = calls \cup {new} /\ begun' = begun + 1
        /\ UNCHANGED <<depts, members, moves, overlap>>
    BY <1>4 DEF LoadJoin, Begin
  <2>2. new \in Call /\ Grounded(new) /\ new.op = "join"
    BY DEF Call, Grounded, Demotes, Primaries
  <2> HIDE DEF new
  <2>3. TypeOK'
    BY <1>0, <2>1, <2>2 DEF TypeOK
  <2>4. \A c1, c2 \in Open("create")' : c1.dept = c2.dept => c1 = c2
    BY <2>1, <2>2 DEF Open, Typed
  <2> QED
    BY <2>1, <2>2, <2>3, <2>4, CallsStep
<1>5. ASSUME NEW m \in members, Leave(m) PROVE Typed'
  <2>1. TypeOK'
    BY <1>0, <1>5 DEF Leave, TypeOK
  <2> QED
    BY <1>5, <2>1, CallsStep DEF Leave, Open, Typed
<1>6. ASSUME NEW call \in calls, Step(call) PROVE Typed'
  <2>1. CASE calls' = calls \ {call}
    <3>1. TypeOK'
      BY <1>0, <1>6, <2>1 DEF Step, TypeOK
    <3> QED
      BY <1>6, <2>1, <3>1, CallsStep DEF Step, Open, Typed
  <2>2. CASE calls' # calls \ {call}
    <3> DEFINE next == [call EXCEPT !.cursor = depts[call.cursor].parent,
                                    !.seen = @ \cup {call.cursor}]
    <3>1. /\ call.op = "move" /\ ~Walked(call) /\ Exists(call.cursor)
          /\ calls' = (calls \ {call}) \cup {next}
          /\ UNCHANGED <<depts, members, moves, begun, overlap>>
      BY <1>6, <2>2 DEF Step, Ends
    <3>2. call \in Move
      BY <1>0, <3>1 DEF Call
    <3>3. call.cursor \in Depts /\ depts[call.cursor].parent \in Depts \cup {None}
      BY <1>0, <3>1, <3>2, Rows DEF Walked, Move
    <3>4. next \in Move /\ next.op = "move" /\ next.dept = call.dept /\ next.parent = call.parent
      BY <3>2, <3>3 DEF Move
    <3>5. Grounded(next)
      BY <3>1, <3>4 DEF Typed, Grounded
    <3> HIDE DEF next
    <3>6. TypeOK'
      BY <1>0, <3>1, <3>4 DEF TypeOK, Call
    <3>7. \A c1, c2 \in Open("create")' : c1.dept = c2.dept => c1 = c2
      BY <3>1, <3>4 DEF Open, Typed
    <3> QED
      BY <3>1, <3>5, <3>6, <3>7, CallsStep
  <2> QED
    BY <2>1, <2>2
<1>7. ASSUME NEW call \in calls, WriteCreate(call) PROVE Typed'
  <2> DEFINE row == [state |-> "active", branch |-> call.branch, parent |-> call.parent]
  <2>1. /\ call.op = "create" /\ call.dept \in Depts /\ call.branch \in Branches
        /\ call.parent \in Depts \cup {None} /\ Grounded(call)
    BY <1>0, <1>7 DEF WriteCreate, Call, Move, Typed
  <2>2. /\ depts' = [depts EXCEPT ![call.dept] = row] /\ calls' = calls \ {call}
        /\ UNCHANGED <<members, moves, begun, overlap>>
    BY <1>7 DEF WriteCreate, Ends
  <2>3. row \in Row /\ row.parent = call.parent
    BY <2>1 DEF Row
  <2> HIDE DEF row
  <2>4. TypeOK'
    BY <1>0, <2>2, <2>3 DEF TypeOK
  <2>5. /\ \A d \in Depts : d # call.dept => depts'[d] = depts[d]
        /\ depts'[call.dept] = row /\ Exists(call.dept)'
    BY <1>0, <2>1, <2>2, <2>3 DEF TypeOK, Exists, Absent, Row
  <2>6. \A d \in Depts : Exists(d) => Exists(d)'
    BY <2>5 DEF Exists
  <2>7. ASSUME NEW c \in calls' PROVE Grounded(c)'
    <3>1. c \in calls /\ c \in Call /\ c # call /\ Grounded(c)
      BY <1>0, <2>2 DEF Typed
    <3>2. CASE c.op = "create"
      <4>1. c.dept \in Depts /\ c.dept # call.dept
        BY <2>1, <3>1, <3>2 DEF Typed, Open, Call, Move
      <4>2. c.parent \in Depts \cup {None}
        BY <3>1, <3>2 DEF Call, Move
      <4> QED
        BY <2>5, <2>6, <3>1, <3>2, <4>1, <4>2 DEF Grounded, Exists
    <3>3. CASE c.op # "create"
      BY <2>6, <3>1, <3>3 DEF Grounded, Call, Move
    <3> QED
      BY <3>2, <3>3
  <2>8. ParentsExist'
    <3>1. ASSUME NEW d \in Depts, Exists(d)', depts'[d].parent # None
          PROVE  depts'[depts'[d].parent] # Absent
      <4>1. CASE d = call.dept
        BY <2>1, <2>3, <2>5, <2>6, <3>1, <4>1 DEF Grounded, Exists
      <4>2. CASE d # call.dept
        <5>1. Exists(d) /\ depts'[d] = depts[d]
          BY <2>5, <3>1, <4>2 DEF Exists
        <5>2. PICK p \in Depts : p = depts[d].parent /\ Exists(p)
          BY <1>0, <3>1, <5>1, Rows DEF Typed, ParentsExist
        <5> QED
          BY <2>6, <5>1, <5>2 DEF Exists
      <4> QED
        BY <4>1, <4>2
    <3> QED
      BY <3>1 DEF ParentsExist, Exists
  <2> QED
    BY <2>2, <2>4, <2>7, <2>8 DEF Typed, Open
\* An update that leaves the rows there.
<1>8. ASSUME NEW call \in calls, calls' = calls \ {call},
             UNCHANGED <<members, moves, begun, overlap>>, TypeOK', ParentsExist',
             \A d \in Depts : Exists(d)' <=> Exists(d)
      PROVE  Typed'
  <2>1. ASSUME NEW c \in calls' PROVE Grounded(c)'
    <3>1. c \in Call /\ Grounded(c)
      BY <1>0, <1>8 DEF Typed
    <3> QED
      BY <1>8, <3>1 DEF Grounded, Call, Move
  <2> QED
    BY <1>8, <2>1 DEF Typed, Open
<1>9. ASSUME NEW call \in calls, WriteMove(call) PROVE Typed'
  <2>1. /\ call.dept \in Depts /\ Exists(call.dept) /\ call.parent \in Depts \cup {None}
        /\ call.parent # None => Exists(call.parent)
    BY <1>0, <1>9 DEF WriteMove, Call, Move, Typed, Grounded
  <2> DEFINE row == [depts[call.dept] EXCEPT !.parent = call.parent]
  <2>2. /\ depts' \in {depts, [depts EXCEPT ![call.dept] = row]} /\ calls' = calls \ {call}
        /\ UNCHANGED <<members, moves, begun, overlap>>
    BY <1>0, <1>9, <2>1 DEF WriteMove, Ends, TypeOK
  <2>3. row \in Row /\ row.parent = call.parent
    BY <1>0, <2>1, Rows DEF Row
  <2>4. depts[call.dept] \in Row
    BY <1>0, <2>1, Rows
  <2> HIDE DEF row
  <2>5. TypeOK'
    BY <1>0, <2>2, <2>3 DEF TypeOK
  <2>6. \A d \in Depts : /\ Exists(d)' <=> Exists(d)
                         /\ depts'[d] = depts[d] \/ depts'[d].parent = call.parent
    BY <1>0, <2>1, <2>2, <2>3, <2>4 DEF TypeOK, Exists, Absent, Row
  <2>7. ParentsExist'
    <3>1. ASSUME NEW d \in Depts, Exists(d)', depts'[d].parent # None
          PROVE  depts'[depts'[d].parent] # Absent
      <4>1. PICK p : p = depts'[d].parent
        OBVIOUS
      <4>2. p \in Depts /\ Exists(p)
        BY <1>0, <2>1, <2>6, <3>1, <4>1, Rows DEF Typed, ParentsExist
      <4> QED
        BY <2>6, <4>1, <4>2 DEF Exists
    <3> QED
      BY <3>1 DEF ParentsExist, Exists
  <2> QED
    BY <1>8, <2>2, <2>5, <2>6, <2>7
<1>10. ASSUME NEW d \in Depts, Exists(d), depts' \in {[depts EXCEPT ![d].state = "archived"],
                                                      [depts EXCEPT ![d].state = "active"]}
       PROVE  /\ depts' \in [Depts -> Row \cup {Absent}]
              /\ ParentsExist'
              /\ \A e \in Depts : Exists(e)' <=> Exists(e)
  <2>1. depts[d] \in Row
    BY <1>0, <1>10, Rows
  <2>2. depts'[d] \in Row /\ depts'[d].parent = depts[d].parent
        /\ \A e \in Depts : e # d => depts'[e] = depts[e]
    BY <1>0, <1>10, <2>1 DEF Row, TypeOK
  <2>3. depts' \in [Depts -> Row \cup {Absent}]
    BY <1>0, <1>10, <2>1 DEF Row, TypeOK
  <2>4. \A e \in Depts : Exists(e)' <=> Exists(e)
    BY <1>10, <2>2 DEF Exists, Absent, Row
  <2>5. \A e \in Depts : Exists(e) => depts'[e].parent = depts[e].parent
    BY <2>2
  <2>6. ParentsExist'
    <3>1. ASSUME NEW e \in Depts, Exists(e)', depts'[e].parent # None
          PROVE  depts'[depts'[e].parent] # Absent
      <4>1. PICK p \in Depts : p = depts'[e].parent /\ Exists(p)
        BY <1>0, <2>4, <2>5, <3>1, Rows DEF Typed, ParentsExist
      <4> QED
        BY <2>4, <4>1 DEF Exists
    <3> QED
      BY <3>1 DEF ParentsExist, Exists
  <2> QED
    BY <2>3, <2>4, <2>6
<1>11. ASSUME NEW call \in calls, WriteArchive(call) PROVE Typed'
  <2>1. call.dept \in Depts /\ Exists(call.dept)
    BY <1>0, <1>11 DEF WriteArchive, Call, Move, Typed, Grounded
  <2>2. depts' = [depts EXCEPT ![call.dept].state = "archived"] /\ calls' = calls \ {call}
        /\ UNCHANGED <<members, moves, begun, overlap>>
    BY <1>11 DEF WriteArchive, Ends
  <2>3. TypeOK'
    BY <1>0, <1>10, <2>1, <2>2 DEF TypeOK
  <2> QED
    BY <1>8, <1>10, <2>1, <2>2, <2>3
<1>12. ASSUME NEW d \in Depts, Unarchive(d) PROVE Typed'
  <2>1. Exists(d) /\ depts' = [depts EXCEPT ![d].state = "active"] /\ begun' = begun + 1
        /\ UNCHANGED <<members, calls, moves, overlap>>
    BY <1>12 DEF Unarchive
  <2>2. TypeOK'
    <3>1. depts' \in [Depts -> Row \cup {Absent}]
      BY <1>10, <2>1
    <3> QED
      BY <1>0, <2>1, <3>1 DEF TypeOK
  <2>3. ParentsExist' /\ \A e \in Depts : Exists(e)' <=> Exists(e)
    BY <1>10, <2>1
  <2>4. ASSUME NEW c \in calls' PROVE Grounded(c)'
    <3>1. c \in Call /\ Grounded(c)
      BY <1>0, <2>1 DEF Typed
    <3> QED
      BY <2>3, <3>1 DEF Grounded, Call, Move
  <2> QED
    BY <2>1, <2>2, <2>3, <2>4 DEF Typed, Open
<1>13. ASSUME NEW call \in calls, WriteJoin(call) PROVE Typed'
  <2>1. call.op = "join" /\ call.user \in Users /\ call.team \in Teams /\ call.primary \in BOOLEAN
    BY <1>0, <1>13 DEF WriteJoin, Call, Move
  <2>2. calls' = calls \ {call} /\ UNCHANGED <<depts, moves, begun, overlap>>
    BY <1>13 DEF WriteJoin, Ends
  <2>3. members' \subseteq Users \X Teams \X BOOLEAN
    <3>1. \A m \in members : m[1] \in Users /\ m[2] \in Teams
      BY <1>0 DEF TypeOK
    <3>2. {<<call.user, m[2], FALSE>> : m \in {n \in members : n[1] = call.user
                                                          /\ n[2] \in call.demote}}
            \subseteq Users \X Teams \X BOOLEAN
      <4>1. \A m \in members : <<call.user, m[2], FALSE>> \in Users \X Teams \X BOOLEAN
        BY <2>1, <3>1
      <4> QED
        BY <4>1
    <3>3. <<call.user, call.team, call.primary>> \in Users \X Teams \X BOOLEAN
      BY <2>1
    <3>4. \A m \in members : m \in Users \X Teams \X BOOLEAN
      BY <1>0 DEF TypeOK
    <3> QED
      BY <1>13, <3>2, <3>3, <3>4 DEF WriteJoin, Joined
  <2>4. TypeOK'
    BY <1>0, <2>2, <2>3 DEF TypeOK
  <2> QED
    BY <2>2, <2>4, CallsStep DEF Typed, Open
<1>14. ASSUME NEW call \in calls, Rollback(call) PROVE Typed'
  <2>1. TypeOK'
    BY <1>0, <1>14 DEF Rollback, Ends, TypeOK
  <2> QED
    BY <1>14, <2>1, CallsStep DEF Rollback, Ends, Typed, Open
<1>15. CASE UNCHANGED vars
  BY <1>15 DEF vars, Typed, TypeOK, Grounded, ParentsExist, Exists, Open
<1> QED
  BY <1>1, <1>2, <1>3, <1>4, <1>5, <1>6, <1>7, <1>9, <1>11, <1>12, <1>13, <1>14, <1>15
     DEF Next, Requests, Progress

LEMMA TypedAlways == Spec => []Typed
<1> QED
  BY TypedInit, TypedStep, PTL DEF Spec

\* Rows, memberships and requests keep their shape.
THEOREM TypeCorrect == Spec => []TypeOK
<1>1. Typed => TypeOK
  BY DEF Typed
<1> QED
  BY <1>1, TypedAlways, PTL

-----------------------------------------------------------------------------
(* The forest.  A set of departments that has the parents of all its members *)
(* is a cycle, or leads to one.  Behind a walk lies a set that is closed     *)
(* upwards: it starts at the proposed parent, holds every department passed, *)
(* never the one that moves, and leads only to where the walk is now.        *)
Closed(ds) == \A d \in ds : Exists(d) /\ depts[d].parent \in ds

Acyclic == \A ds \in SUBSET Depts : ds # {} => ~Closed(ds)

Path(call) ==
  /\ call.dept \notin call.seen
  /\ call.parent \in call.seen \cup {call.cursor}
  /\ \A e \in call.seen : Exists(e) /\ depts[e].parent \in call.seen \cup {call.cursor}

Walking ==
  /\ \A c1, c2 \in Open("move") : c1 = c2
  /\ \A call \in Open("move") : Path(call)

Forest == overlap = 1 => Acyclic /\ Walking

LEMMA ForestInit == Init => Forest
<1> SUFFICES ASSUME Init PROVE Forest
  OBVIOUS
<1>1. \A d \in Depts : Exists(d) => depts[d].parent = None
  BY DEF Init, Exists, Absent
<1>2. Acyclic
  BY <1>1, NoneAssumption DEF Acyclic, Closed
<1> QED
  BY <1>2 DEF Init, Forest, Walking, Open

\* The rows keep their parents and the moves stay, walk no further, or end.
LEMMA ForestKept ==
  ASSUME Typed, Forest, overlap' = overlap,
         \A d \in Depts : Exists(d)' <=> Exists(d),
         \A d \in Depts : Exists(d) => depts'[d].parent = depts[d].parent,
         Open("move")' \subseteq Open("move")
  PROVE  Forest'
<1> SUFFICES ASSUME overlap = 1 PROVE Acyclic' /\ Walking'
  BY DEF Forest
<1>1. Acyclic'
  BY DEF Forest, Acyclic, Closed
<1>2. ASSUME NEW call \in Open("move") PROVE Path(call)'
  <2>1. Path(call) /\ call.seen \subseteq Depts
    BY <1>2 DEF Forest, Walking, Open, Typed, TypeOK, Call, Move
  <2> QED
    BY <2>1 DEF Path
<1> QED
  BY <1>1, <1>2 DEF Forest, Walking

LEMMA ForestStep == Typed /\ Forest /\ [Next]_vars => Forest'
<1> SUFFICES ASSUME Typed, Forest, [Next]_vars PROVE Forest'
  OBVIOUS
<1>0. TypeOK /\ \A call \in calls : call \in Call /\ Grounded(call)
  BY DEF Typed, TypeOK
<1>1. ASSUME NEW d \in Depts, NEW p \in Depts \cup {None}, BeginMove(d, p) PROVE Forest'
  <2> SUFFICES ASSUME overlap = 1 PROVE Acyclic' /\ Walking'
    BY <1>1 DEF Forest, BeginMove
  <2> DEFINE new == [op |-> "move", dept |-> d, parent |-> p, cursor |-> p, seen |-> {}]
  <2>1. UNCHANGED depts /\ calls' = calls \cup {new} /\ Cardinality(Open("move")) < 1
    BY <1>1 DEF BeginMove
  <2>2. new.op = "move" /\ new.dept = d /\ new.parent = p /\ new.cursor = p /\ new.seen = {}
    OBVIOUS
  <2> HIDE DEF new
  <2>3. Open("move") = {}
    <3>1. ASSUME NEW c \in Open("move") PROVE FALSE
      <4>1. Open("move") = {c}
        BY <3>1 DEF Forest, Walking
      <4>2. Cardinality(Open("move")) = 1
        BY <4>1, FS_Singleton
      <4> QED
        BY <2>1, <4>2
    <3> QED
      BY <3>1
  <2>4. Open("move")' = {new}
    BY <2>1, <2>2, <2>3 DEF Open
  <2>5. Acyclic'
    BY <2>1 DEF Forest, Acyclic, Closed, Exists
  <2>6. Path(new)'
    <3>1. PICK c : c = new
      OBVIOUS
    <3>2. Path(c)'
      BY <2>2, <3>1 DEF Path
    <3> QED
      BY <2>2 DEF Path
  <2> QED
    BY <2>4, <2>5, <2>6 DEF Walking
<1>2. ASSUME NEW call \in calls, Step(call) PROVE Forest'
  <2>1. CASE calls' = calls \ {call}
    <3>1. UNCHANGED <<depts, overlap>> /\ Open("move")' \subseteq Open("move")
      BY <1>2, <2>1 DEF Step, Open
    <3> QED
      BY <3>1, ForestKept DEF Exists
  <2>2. CASE calls' # calls \ {call}
    <3> SUFFICES ASSUME overlap = 1 PROVE Acyclic' /\ Walking'
      BY <1>2 DEF Forest, Step
    <3> DEFINE next == [call EXCEPT !.cursor = depts[call.cursor].parent,
                                    !.seen = @ \cup {call.cursor}]
    <3>1. /\ call.op = "move" /\ Exists(call.cursor) /\ call.cursor # call.dept
          /\ calls' = (calls \ {call}) \cup {next} /\ UNCHANGED depts
      BY <1>2, <2>2 DEF Step, Ends
    <3>2. call \in Move
      BY <1>0, <3>1 DEF Call
    <3>3. /\ next.op = "move" /\ next.dept = call.dept /\ next.parent = call.parent
          /\ next.cursor = depts[call.cursor].parent /\ next.seen = call.seen \cup {call.cursor}
      BY <3>1, <3>2 DEF Move
    <3>4. Path(call) /\ \A c \in Open("move") : c = call
      BY <3>1 DEF Forest, Walking, Open
    <3>5. PICK g : g = next
      OBVIOUS
    <3> HIDE DEF next
    <3>6. Open("move")' = {g}
      BY <3>1, <3>3, <3>4, <3>5 DEF Open
    <3>7. Path(g)'
      BY <3>1, <3>3, <3>4, <3>5 DEF Path, Exists
    <3>8. Acyclic'
      BY <3>1 DEF Forest, Acyclic, Closed, Exists
    <3> QED
      BY <3>6, <3>7, <3>8 DEF Walking
  <2> QED
    BY <2>1, <2>2
<1>3. ASSUME NEW call \in calls, WriteMove(call) PROVE Forest'
  <2> SUFFICES ASSUME overlap = 1 PROVE Acyclic' /\ Walking'
    BY <1>3 DEF Forest, WriteMove
  <2>1. /\ call.op = "move" /\ call \in Move /\ Grounded(call) /\ Path(call) /\ Walked(call)
        /\ call.dept \in Depts /\ call.seen \subseteq Depts
    BY <1>0, <1>3 DEF WriteMove, Call, Move, Forest, Walking, Open
  <2>2. Open("move")' = {}
    BY <1>3, <2>1 DEF WriteMove, Ends, Open, Forest, Walking
  <2>3. ASSUME NEW ds \in SUBSET Depts, ds # {}, Closed(ds)' PROVE FALSE
    <3>1. \A d \in Depts : Exists(d)' => Exists(d)
      BY <1>0, <1>3, <2>1 DEF WriteMove, TypeOK, Exists, Grounded
    <3>2. \A d \in Depts : d # call.dept => depts'[d] = depts[d]
      BY <1>0, <1>3, <2>1 DEF WriteMove, TypeOK
    <3>3. call.dept \in ds /\ depts'[call.dept] # depts[call.dept]
      <4>1. ASSUME depts'[call.dept] = depts[call.dept] \/ call.dept \notin ds PROVE FALSE
        <5>1. Closed(ds)
          BY <2>3, <3>1, <3>2, <4>1 DEF Closed
        <5> QED
          BY <2>3, <5>1 DEF Forest, Acyclic
      <4> QED
        BY <4>1
    <3>4. depts'[call.dept].parent = call.parent
      <4>1. depts' = [depts EXCEPT ![call.dept].parent = call.parent]
        BY <1>3, <3>3 DEF WriteMove
      <4>2. depts[call.dept] \in Row
        BY <1>0, <2>1, Rows DEF Grounded
      <4> QED
        BY <1>0, <2>1, <4>1, <4>2 DEF TypeOK, Row
    <3>5. call.parent \in ds /\ call.parent # None
      BY <2>3, <3>3, <3>4, NoneAssumption DEF Closed
    <3>6. call.parent \in call.seen /\ \A e \in call.seen : depts[e].parent \in call.seen \cup {None}
      BY <2>1, <3>5 DEF Path, Walked
    <3>7. Closed(ds \cap call.seen)
      <4> SUFFICES ASSUME NEW e \in ds \cap call.seen
                   PROVE  Exists(e) /\ depts[e].parent \in ds \cap call.seen
        BY DEF Closed
      <4>1. e # call.dept /\ depts'[e] = depts[e] /\ Exists(e)
        BY <2>1, <2>3, <3>2 DEF Path
      <4>2. depts[e].parent \in ds
        BY <2>3, <4>1 DEF Closed
      <4> QED
        BY <2>3, <3>6, <4>1, <4>2, NoneAssumption
    <3> QED
      BY <2>3, <3>5, <3>6, <3>7 DEF Forest, Acyclic
  <2> QED
    BY <2>2, <2>3 DEF Acyclic, Walking
<1>4. ASSUME NEW call \in calls, WriteCreate(call) PROVE Forest'
  <2> SUFFICES ASSUME overlap = 1 PROVE Acyclic' /\ Walking'
    BY <1>4 DEF Forest, WriteCreate
  <2>1. /\ call.op = "create" /\ call.dept \in Depts /\ ~Exists(call.dept)
        /\ call.parent # None => Exists(call.parent)
    BY <1>0, <1>4 DEF WriteCreate, Call, Move, Grounded
  <2>2. /\ depts'[call.dept].parent = call.parent
        /\ \A d \in Depts : d # call.dept => depts'[d] = depts[d]
        /\ calls' = calls \ {call}
    BY <1>0, <1>4, <2>1 DEF WriteCreate, TypeOK, Ends
  <2>3. ASSUME NEW ds \in SUBSET Depts, ds # {}, Closed(ds)' PROVE FALSE
    <3> DEFINE rest == ds \ {call.dept}
    <3>1. \A d \in rest : Exists(d) /\ depts[d].parent \in ds
      BY <2>2, <2>3 DEF Closed, Exists
    <3>2. \A d \in rest : depts[d].parent \in rest
      BY <2>1, <2>3, <3>1, NoneAssumption DEF Typed, ParentsExist
    <3>3. rest = {}
      BY <2>3, <3>1, <3>2 DEF Closed, Forest, Acyclic
    <3>4. call.parent = call.dept
      BY <2>2, <2>3, <3>3 DEF Closed
    <3> QED
      BY <2>1, <3>4, NoneAssumption
  <2>4. ASSUME NEW c \in Open("move")' PROVE Path(c)'
    <3>1. c \in Open("move") /\ Path(c) /\ c.seen \subseteq Depts
      BY <1>0, <2>2 DEF Open, Forest, Walking, Call, Move
    <3>2. \A e \in c.seen : e # call.dept
      BY <2>1, <3>1 DEF Path
    <3> QED
      BY <2>2, <3>1, <3>2 DEF Path, Exists
  <2>5. \A c1, c2 \in Open("move")' : c1 = c2
    BY <2>2 DEF Open, Forest, Walking
  <2> QED
    BY <2>3, <2>4, <2>5 DEF Acyclic, Walking
\* The other steps leave the parents and the walks alone.
<1>5. ASSUME NEW d \in Depts, Exists(d), depts' \in {[depts EXCEPT ![d].state = "archived"],
                                                     [depts EXCEPT ![d].state = "active"]}
      PROVE  /\ \A e \in Depts : Exists(e)' <=> Exists(e)
             /\ \A e \in Depts : Exists(e) => depts'[e].parent = depts[e].parent
  <2>1. depts[d] \in Row
    BY <1>0, <1>5, Rows
  <2>2. depts'[d] \in Row /\ depts'[d].parent = depts[d].parent
        /\ \A e \in Depts : e # d => depts'[e] = depts[e]
    BY <1>0, <1>5, <2>1 DEF Row, TypeOK
  <2> QED
    BY <1>5, <2>2 DEF Exists, Absent, Row
<1>6. ASSUME NEW call \in calls, WriteArchive(call) PROVE Forest'
  <2>1. /\ call.dept \in Depts /\ Exists(call.dept) /\ UNCHANGED overlap
        /\ depts' = [depts EXCEPT ![call.dept].state = "archived"]
        /\ Open("move")' \subseteq Open("move")
    BY <1>0, <1>6 DEF WriteArchive, Call, Move, Grounded, Ends, Open
  <2> QED
    BY <1>5, <2>1, ForestKept
<1>7. ASSUME NEW d \in Depts, Unarchive(d) PROVE Forest'
  <2>1. /\ Exists(d) /\ UNCHANGED <<overlap, calls>>
        /\ depts' = [depts EXCEPT ![d].state = "active"]
    BY <1>7 DEF Unarchive
  <2> QED
    BY <1>5, <2>1, ForestKept DEF Open
<1>8. CASE UNCHANGED <<depts, overlap>> /\ Open("move")' \subseteq Open("move")
  BY <1>8, ForestKept DEF Exists
<1>9. ASSUME NEW d \in Depts, NEW b \in Branches, NEW p \in Depts \cup {None}, LoadCreate(d, b, p)
      PROVE  Forest'
  BY <1>8, <1>9 DEF LoadCreate, Begin, Open
<1>10. ASSUME NEW d \in Depts, LoadArchive(d) PROVE Forest'
  BY <1>8, <1>10 DEF LoadArchive, Begin, Open
<1>11. ASSUME NEW u \in Users, NEW t \in Teams, NEW primary \in BOOLEAN, LoadJoin(u, t, primary)
       PROVE  Forest'
  BY <1>8, <1>11 DEF LoadJoin, Begin, Open
<1>12. ASSUME NEW m, Leave(m) PROVE Forest'
  BY <1>8, <1>12 DEF Leave, Open
<1>13. ASSUME NEW call \in calls, WriteJoin(call) \/ Rollback(call) PROVE Forest'
  BY <1>8, <1>13 DEF WriteJoin, Rollback, Ends, Open
<1>14. CASE UNCHANGED vars
  BY <1>8, <1>14 DEF vars, Open
<1> QED
  BY <1>1, <1>2, <1>3, <1>4, <1>6, <1>7, <1>9, <1>10, <1>11, <1>12, <1>13, <1>14
     DEF Next, Requests, Progress

(* If no two moves overlap the departments are a forest at every moment,     *)
(* although the walk of a move reads one row at a time while others create,  *)
(* archive and restore departments.                                          *)
THEOREM TreeStaysAcyclic == Spec => []TreeIsAcyclic
<1>1. Forest => TreeIsAcyclic
  BY DEF Forest, Acyclic, Closed, TreeIsAcyclic
<1> QED
  BY <1>1, ForestInit, ForestStep, TypedAlways, PTL DEF Spec

-----------------------------------------------------------------------------
(* Primary teams.  The index holds of the rows; an open join has seen every  *)
(* other primary row its user can still have when it writes.                 *)
Indexed == IndexAdmits(members)

JoinsAreAlone == overlap = 1 => \A c1, c2 \in Open("join") : c1 = c2

DemotionSuffices ==
  overlap = 1 =>
    \A call \in Open("join") : call.primary =>
      \A m \in members : m[1] = call.user /\ m[3] => m[2] \in call.demote \cup {call.team}

JoinInv == Indexed /\ JoinsAreAlone /\ DemotionSuffices

(* A request that leaves the joins that are open, and adds no membership.    *)
LEMMA JoinsKept ==
  ASSUME JoinInv, Open("join")' \subseteq Open("join"), members' \subseteq members,
         UNCHANGED overlap
  PROVE  JoinInv'
BY DEF JoinInv, Indexed, IndexAdmits, JoinsAreAlone, DemotionSuffices

LEMMA JoinsBegin ==
  ASSUME Typed, JoinInv, NEW u \in Users, NEW t \in Teams, NEW primary \in BOOLEAN,
         LoadJoin(u, t, primary)
  PROVE  JoinInv'
<1> DEFINE new == [op |-> "join", user |-> u, team |-> t, primary |-> primary,
                   demote |-> IF primary THEN Demotes(u, t) ELSE {}]
<1>1. /\ UNCHANGED <<members, overlap>> /\ calls' = calls \cup {new}
      /\ Cardinality(Open("join")) < overlap
  BY DEF LoadJoin, Begin
<1>2. ASSUME overlap = 1 PROVE Open("join")' \subseteq {new}
  <2>1. Open("join") = {}
    <3>1. ASSUME NEW c \in Open("join") PROVE FALSE
      <4>1. Open("join") = {c}
        BY <1>2, <3>1 DEF JoinInv, JoinsAreAlone
      <4>2. Cardinality(Open("join")) = 1
        BY <4>1, FS_Singleton
      <4> QED
        BY <1>1, <1>2, <4>2
    <3> QED
      BY <3>1
  <2> QED
    BY <1>1, <2>1 DEF Open
<1>3. ASSUME primary, NEW m \in members, m[1] = u, m[3]
      PROVE  m[2] \in Demotes(u, t) \cup {t}
  <2>1. PICK v \in Users, k \in Teams, b \in BOOLEAN : m = <<v, k, b>>
    BY DEF Typed, TypeOK
  <2> /\ m[1] = v
      /\ m[2] = k
      /\ m[3] = b
    BY <2>1
  <2>2. m = <<u, m[2], TRUE>> /\ m[2] \in Teams
    <3>1. b = TRUE
      BY <1>3
    <3> QED
      BY <1>3, <2>1, <3>1
  <2> QED
    BY <2>2 DEF Demotes, Primaries
<1>4. /\ new.user = u /\ new.team = t /\ new.primary = primary
      /\ primary => new.demote = Demotes(u, t)
  OBVIOUS
<1> HIDE DEF new
<1>5. DemotionSuffices'
  BY <1>1, <1>2, <1>3, <1>4 DEF DemotionSuffices
<1>6. JoinsAreAlone'
  BY <1>1, <1>2 DEF JoinsAreAlone
<1> QED
  BY <1>1, <1>5, <1>6 DEF JoinInv, Indexed, IndexAdmits

LEMMA JoinsStep == Typed /\ JoinInv /\ [Next]_vars => JoinInv'
<1> SUFFICES ASSUME Typed, JoinInv, [Next]_vars PROVE JoinInv'
  OBVIOUS
<1>1. ASSUME NEW call \in calls, WriteJoin(call) PROVE JoinInv'
  <2>1. /\ Indexed' /\ UNCHANGED overlap /\ call \in Open("join")
        /\ Open("join")' = Open("join") \ {call}
    BY <1>1 DEF WriteJoin, Ends, Indexed, Open, IndexAdmits
  <2>2. overlap = 1 => Open("join")' = {}
    BY <2>1 DEF JoinInv, JoinsAreAlone
  <2> QED
    BY <2>1, <2>2 DEF JoinInv, JoinsAreAlone, DemotionSuffices
<1>2. ASSUME NEW m, Leave(m) PROVE JoinInv'
  <2>1. members' \subseteq members /\ UNCHANGED <<calls, overlap>>
    BY <1>2 DEF Leave
  <2> QED
    BY <2>1, JoinsKept DEF Open
<1>3. ASSUME NEW new, new.op # "join", calls' \subseteq calls \cup {new},
             UNCHANGED <<members, overlap>>
      PROVE  JoinInv'
  BY <1>3, JoinsKept DEF Open
<1>4. ASSUME NEW d \in Depts, NEW b \in Branches, NEW p \in Depts \cup {None}, LoadCreate(d, b, p)
      PROVE  JoinInv'
  BY <1>3, <1>4 DEF LoadCreate, Begin
<1>5. ASSUME NEW d \in Depts, NEW p \in Depts \cup {None}, BeginMove(d, p) PROVE JoinInv'
  BY <1>3, <1>5 DEF BeginMove
<1>6. ASSUME NEW d \in Depts, LoadArchive(d) PROVE JoinInv'
  BY <1>3, <1>6 DEF LoadArchive, Begin
<1>7. ASSUME NEW call \in calls, Step(call) PROVE JoinInv'
  <2>1. call \in Move
    BY <1>7 DEF Step, Typed, TypeOK, Call
  <2> DEFINE new == [call EXCEPT !.cursor = depts[call.cursor].parent,
                                 !.seen = @ \cup {call.cursor}]
  <2>2. new.op # "join" /\ calls' \subseteq calls \cup {new} /\ UNCHANGED <<members, overlap>>
    BY <1>7, <2>1 DEF Step, Ends, Move
  <2> QED
    BY <1>3, <2>2
<1>8. ASSUME calls' \subseteq calls, UNCHANGED <<members, overlap>> PROVE JoinInv'
  BY <1>8, JoinsKept DEF Open
<1>9. ASSUME NEW call \in calls,
             WriteMove(call) \/ WriteCreate(call) \/ WriteArchive(call) \/ Rollback(call)
      PROVE  JoinInv'
  BY <1>8, <1>9 DEF WriteMove, WriteCreate, WriteArchive, Rollback, Ends
<1>10. ASSUME (\E d \in Depts : Unarchive(d)) \/ UNCHANGED vars PROVE JoinInv'
  BY <1>8, <1>10 DEF Unarchive, vars
<1> QED
  BY <1>1, <1>2, <1>4, <1>5, <1>6, <1>7, <1>9, <1>10, JoinsBegin DEF Next, Requests, Progress

(* If no two joins overlap, the statement that demotes leaves nothing for the*)
(* index to refuse, whatever is joined and left before and in between.       *)
THEOREM PrimaryChangesSucceed == Spec => []PrimaryChangesPass
<1>1. Init => JoinInv
  BY DEF Init, JoinInv, Indexed, IndexAdmits, JoinsAreAlone, DemotionSuffices, Open
<1>2. Typed /\ JoinInv => PrimaryChangesPass
  <2> SUFFICES ASSUME Typed, JoinInv, overlap = 1, NEW call \in Open("join"),
                      NEW m \in Joined(call), NEW n \in Joined(call),
                      m[1] = n[1], m[3], n[3]
               PROVE  m[2] = n[2]
    BY DEF PrimaryChangesPass, IndexAdmits
  <2> DEFINE new == <<call.user, call.team, call.primary>>
  <2>1. ASSUME NEW r \in Joined(call), r[3]
        PROVE  \/ r = new
               \/ (r \in members /\ (r[1] = call.user => r[2] \notin call.demote \cup {call.team}))
    <3>1. CASE \E k \in members : r = <<call.user, k[2], FALSE>>
      BY <2>1, <3>1
    <3>2. CASE r \in members /\ (r[1] # call.user \/ r[2] \notin call.demote \cup {call.team})
      BY <3>2
    <3> QED
      BY <2>1, <3>1, <3>2 DEF Joined
  <2>2. ASSUME NEW r \in Joined(call), r[3], r # new, r[1] = call.user PROVE ~call.primary
    BY <2>1, <2>2 DEF JoinInv, DemotionSuffices
  <2>3. CASE m = new \/ n = new
    BY <2>2, <2>3
  <2>4. CASE m # new /\ n # new
    BY <2>1, <2>4 DEF JoinInv, Indexed, IndexAdmits
  <2> QED
    BY <2>3, <2>4
<1> QED
  BY <1>1, <1>2, JoinsStep, TypedAlways, PTL DEF Spec
=============================================================================
