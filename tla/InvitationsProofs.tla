-------------------------- MODULE InvitationsProofs --------------------------
(* What holds for any number of overlapping requests and sign-ups, any chain *)
(* of approvers and any staff.                                               *)
EXTENDS Invitations, FiniteSetTheorems, TLAPS

Judging == {"approve", "reject", "advance", "concluding", "remove"}

(* Whatever refers to a row refers to one that was created, and an approval  *)
(* has a users row of its own.                                               *)
Grounded ==
  /\ \A a \in DOMAIN approvals : approvals[a].row \in DOMAIN rows
  /\ \A a, b \in DOMAIN approvals : approvals[a].row = approvals[b].row => a = b
  /\ \A w \in Workers : calls[w].op \in Judging => calls[w].approval \in DOMAIN approvals
  /\ \A w \in Workers : calls[w].op = "signup" /\ calls[w].row # 0 =>
       /\ calls[w].row \in DOMAIN rows
       /\ rows[calls[w].row].guest = calls[w].guest

Typed == TypeOK /\ Grounded

-----------------------------------------------------------------------------
(* What the calls in flight are.                                             *)
LEMMA CallTypes ==
  ASSUME TypeOK, NEW w \in Workers
  PROVE  /\ calls[w].op \in Judging => calls[w] \in Verdict
         /\ calls[w].op \in {"invite", "inviting"} => calls[w] \in Invitation
         /\ calls[w].op = "signup" => calls[w] \in SignUp
BY DEF TypeOK, Judging, Idle, Invitation, Verdict, SignUp

(* The effect of Goto and of Begin on the calls.                             *)
LEMMA GotoType ==
  ASSUME TypeOK, NEW w \in Workers,
         NEW call \in {Idle} \cup Invitation \cup Verdict \cup SignUp,
         calls' = [calls EXCEPT ![w] = call]
  PROVE  /\ calls' \in [Workers -> {Idle} \cup Invitation \cup Verdict \cup SignUp]
         /\ calls'[w] = call
         /\ \A v \in Workers : v # w => calls'[v] = calls[v]
BY DEF TypeOK

(* A row of the table is replaced, or one is added.                          *)
LEMMA Replaced ==
  ASSUME NEW S, NEW s \in Seq(S), NEW i \in DOMAIN s, NEW row \in S
  PROVE  /\ [s EXCEPT ![i] = row] \in Seq(S)
         /\ DOMAIN [s EXCEPT ![i] = row] = DOMAIN s
OBVIOUS

LEMMA Added ==
  ASSUME NEW S, NEW s \in Seq(S), NEW row \in S
  PROVE  /\ Append(s, row) \in Seq(S)
         /\ DOMAIN Append(s, row) = DOMAIN s \cup {Len(s) + 1}
         /\ Append(s, row)[Len(s) + 1] = row
         /\ Len(s) + 1 \notin DOMAIN s
         /\ \A i \in DOMAIN s : Append(s, row)[i] = s[i]
OBVIOUS

LEMMA TypedInit == Init => Typed
BY BoundsAssumption DEF Init, Typed, TypeOK, Grounded, Idle, Judging

-----------------------------------------------------------------------------
(* Rows are added and changed; none changes its person, none its approval.   *)
Grows ==
  /\ DOMAIN rows \subseteq DOMAIN rows'
  /\ \A i \in DOMAIN rows : rows'[i].guest = rows[i].guest
  /\ DOMAIN approvals \subseteq DOMAIN approvals'
  /\ \A a \in DOMAIN approvals : /\ approvals'[a].row = approvals[a].row
                                 /\ approvals'[a].by = approvals[a].by

\* A call refers to rows that exist.
CallGrounded(call) ==
  /\ call.op \in Judging => call.approval \in DOMAIN approvals
  /\ call.op = "signup" /\ call.row # 0 => /\ call.row \in DOMAIN rows
                                           /\ rows[call.row].guest = call.guest

LEMMA GroundedGrows ==
  ASSUME Grounded, Grows, NEW w \in Workers, CallGrounded(calls'[w]),
         \A v \in Workers : v # w => calls'[v] = calls[v],
         DOMAIN approvals' = DOMAIN approvals
  PROVE  Grounded'
<1>1. \A v \in Workers : v # w => CallGrounded(calls'[v])
  BY DEF Grounded, CallGrounded
<1>2. \A v \in Workers : CallGrounded(calls'[v])
  BY <1>1
<1>3. \A v \in Workers : /\ calls'[v].op \in Judging => calls'[v].approval \in DOMAIN approvals
                         /\ calls'[v].op = "signup" /\ calls'[v].row # 0 =>
                              /\ calls'[v].row \in DOMAIN rows
                              /\ rows[calls'[v].row].guest = calls'[v].guest
  BY <1>2 DEF CallGrounded
<1> QED
  BY <1>3 DEF Grounded, Grows

LEMMA IdleGrounded == CallGrounded(Idle)
BY DEF CallGrounded, Idle, Judging

(* A step that changes no table.                                             *)
LEMMA TypedQuiet ==
  ASSUME Typed, NEW w \in Workers,
         NEW call \in {Idle} \cup Invitation \cup Verdict \cup SignUp,
         calls' = [calls EXCEPT ![w] = call], CallGrounded(call), started' \in Nat,
         UNCHANGED <<rows, approvals, sent, agreed, founded, slots>>
  PROVE  Typed'
<1>1. /\ calls' \in [Workers -> {Idle} \cup Invitation \cup Verdict \cup SignUp]
      /\ calls'[w] = call
      /\ \A v \in Workers : v # w => calls'[v] = calls[v]
  BY GotoType DEF Typed
<1>2. TypeOK'
  BY <1>1 DEF Typed, TypeOK
<1>3. Grows
  BY DEF Grows
<1> QED
  BY <1>1, <1>2, <1>3, GroundedGrows DEF Typed

LEMMA CountType == ASSUME Typed, Count PROVE started' \in Nat
BY DEF Typed, TypeOK, Count

LEMMA TypedLoad ==
  ASSUME Typed, NEW w \in Workers, Load(w)
  PROVE  Typed'
<1>1. ASSUME NEW u \in People, NEW g \in Guests, Invite(w, u, g) PROVE Typed'
  <2> DEFINE call == [op |-> "invite", by |-> u, guest |-> g]
  <2>1. call \in Invitation /\ CallGrounded(call)
    BY DEF Invitation, CallGrounded, Judging
  <2>2. calls' = [calls EXCEPT ![w] = call] /\ Count
        /\ UNCHANGED <<rows, approvals, sent, agreed, founded, slots>>
    BY <1>1 DEF Invite, Begin
  <2> HIDE DEF call
  <2> QED
    BY <2>1, <2>2, CountType, TypedQuiet
<1>2. ASSUME NEW u \in People, NEW a \in DOMAIN approvals, NEW v \in Verdicts,
             Judge(w, u, a, v)
      PROVE  Typed'
  <2> DEFINE call == [op |-> v, by |-> u, approval |-> a, step |-> approvals[a].step]
  <2>1. a \in Nat /\ approvals[a] \in Approval
    BY DEF Typed, TypeOK
  <2>2. call \in Verdict /\ CallGrounded(call)
    BY <2>1 DEF Verdict, Verdicts, CallGrounded, Judging, Approval
  <2>3. calls' = [calls EXCEPT ![w] = call] /\ Count
        /\ UNCHANGED <<rows, approvals, sent, agreed, founded, slots>>
    BY <1>2 DEF Judge, Begin
  <2> HIDE DEF call
  <2> QED
    BY <2>2, <2>3, CountType, TypedQuiet
<1>3. ASSUME NEW g \in Guests, Deliver(w, g) PROVE Typed'
  <2>1. PICK i : /\ i \in IF Invited(g) = {} THEN {0} ELSE Invited(g)
                 /\ Begin(w, [op |-> "signup", guest |-> g, row |-> i])
    BY <1>3 DEF Deliver
  <2> DEFINE call == [op |-> "signup", guest |-> g, row |-> i]
  <2>2. i = 0 \/ (i \in DOMAIN rows /\ rows[i].guest = g)
    BY <2>1 DEF Invited, Present
  <2>3. i \in Nat
    BY <2>2 DEF Typed, TypeOK
  <2>4. call \in SignUp /\ CallGrounded(call)
    BY <2>2, <2>3 DEF SignUp, CallGrounded, Judging
  <2>5. calls' = [calls EXCEPT ![w] = call] /\ Count
        /\ UNCHANGED <<rows, approvals, sent, agreed, founded, slots>>
    BY <2>1 DEF Begin
  <2> HIDE DEF call
  <2> QED
    BY <2>4, <2>5, CountType, TypedQuiet
<1> QED
  BY <1>1, <1>2, <1>3 DEF Load

(* A step of a call that ends it and changes rows and approvals in place.    *)
LEMMA TypedFinish ==
  ASSUME Typed, NEW w \in Workers, Finish(w), Grows,
         DOMAIN approvals' = DOMAIN approvals,
         rows' \in Seq(UserRow), approvals' \in Seq(Approval),
         sent' \subseteq [to : Guests, approval : Nat],
         agreed' \subseteq [approval : Nat, step : Nat, by : People],
         founded' \subseteq Guests
  PROVE  Typed'
<1>1. /\ calls' \in [Workers -> {Idle} \cup Invitation \cup Verdict \cup SignUp]
      /\ calls'[w] = Idle
      /\ \A v \in Workers : v # w => calls'[v] = calls[v]
  BY GotoType DEF Typed, Finish, Goto
<1>2. TypeOK'
  BY <1>1 DEF Typed, TypeOK, Finish, Goto
<1> QED
  BY <1>1, <1>2, IdleGrounded, GroundedGrows DEF Typed

(* The status of a row, or of an approval, is replaced.                      *)
LEMMA RowUpdated ==
  ASSUME Typed, NEW i \in DOMAIN rows, NEW status \in Statuses,
         NEW archived \in BOOLEAN, NEW linked \in BOOLEAN,
         rows' = [rows EXCEPT ![i] = [rows[i] EXCEPT !.status = status,
                                                     !.archived = archived,
                                                     !.linked = linked]]
  PROVE  /\ rows' \in Seq(UserRow)
         /\ DOMAIN rows' = DOMAIN rows
         /\ \A j \in DOMAIN rows : rows'[j].guest = rows[j].guest
         /\ \A j \in DOMAIN rows : j # i => rows'[j] = rows[j]
         /\ rows'[i].status = status /\ rows'[i].linked = linked
<1> DEFINE row == [rows[i] EXCEPT !.status = status, !.archived = archived,
                                  !.linked = linked]
<1>1. rows \in Seq(UserRow)
  BY DEF Typed, TypeOK
<1>2. rows[i] \in UserRow
  BY <1>1
<1>3. /\ row \in UserRow /\ row.guest = rows[i].guest
      /\ row.status = status /\ row.linked = linked
  BY <1>2 DEF UserRow
<1> HIDE DEF row
<1>4. rows' = [rows EXCEPT ![i] = row]
  BY DEF row
<1>5. rows' \in Seq(UserRow) /\ DOMAIN rows' = DOMAIN rows
  BY <1>1, <1>3, <1>4, Replaced
<1> QED
  BY <1>1, <1>3, <1>4, <1>5

LEMMA ApprovalUpdated ==
  ASSUME Typed, NEW a \in DOMAIN approvals, NEW step \in Nat,
         NEW status \in {"pending", "approved", "rejected"},
         approvals' = [approvals EXCEPT ![a] = [approvals[a] EXCEPT !.step = step,
                                                                    !.status = status]]
  PROVE  /\ approvals' \in Seq(Approval)
         /\ DOMAIN approvals' = DOMAIN approvals
         /\ \A b \in DOMAIN approvals : /\ approvals'[b].row = approvals[b].row
                                        /\ approvals'[b].by = approvals[b].by
         /\ \A b \in DOMAIN approvals : b # a => approvals'[b] = approvals[b]
         /\ approvals'[a].step = step /\ approvals'[a].status = status
<1> DEFINE row == [approvals[a] EXCEPT !.step = step, !.status = status]
<1>1. approvals \in Seq(Approval)
  BY DEF Typed, TypeOK
<1>2. approvals[a] \in Approval
  BY <1>1
<1>3. /\ row \in Approval /\ row.row = approvals[a].row /\ row.by = approvals[a].by
      /\ row.step = step /\ row.status = status
  BY <1>2 DEF Approval
<1> HIDE DEF row
<1>4. approvals' = [approvals EXCEPT ![a] = row]
  BY DEF row
<1>5. approvals' \in Seq(Approval) /\ DOMAIN approvals' = DOMAIN approvals
  BY <1>1, <1>3, <1>4, Replaced
<1> QED
  BY <1>1, <1>3, <1>4, <1>5

(* What each writing step does to rows and approvals.                        *)
LEMMA AdvanceEffect ==
  ASSUME Typed, NEW w \in Workers, Advance(w)
  PROVE  LET a == calls[w].approval IN
         /\ calls[w] \in Verdict /\ a \in DOMAIN approvals
         /\ approvals' \in Seq(Approval)
         /\ DOMAIN approvals' = DOMAIN approvals
         /\ \A b \in DOMAIN approvals : /\ approvals'[b].row = approvals[b].row
                                        /\ approvals'[b].by = approvals[b].by
         /\ \A b \in DOMAIN approvals : b # a => approvals'[b] = approvals[b]
         /\ approvals'[a].step = calls[w].step + 1
         /\ approvals'[a].status = approvals[a].status
<1> DEFINE a == calls[w].approval
<1>1. calls[w] \in Verdict /\ a \in DOMAIN approvals
  BY CallTypes DEF Advance, Judging, Typed, Grounded
<1>2. approvals[a] \in Approval
  BY <1>1 DEF Typed, TypeOK
<1>3. calls[w].step + 1 \in Nat /\ approvals[a].status \in {"pending", "approved", "rejected"}
  BY <1>1, <1>2 DEF Verdict, Approval
<1>4. approvals' = [approvals EXCEPT ![a] = [approvals[a] EXCEPT
                      !.step = calls[w].step + 1, !.status = approvals[a].status]]
  BY <1>2 DEF Advance, Approval
<1> HIDE DEF a
<1>5. /\ approvals' \in Seq(Approval)
      /\ DOMAIN approvals' = DOMAIN approvals
      /\ \A b \in DOMAIN approvals : /\ approvals'[b].row = approvals[b].row
                                     /\ approvals'[b].by = approvals[b].by
      /\ \A b \in DOMAIN approvals : b # a => approvals'[b] = approvals[b]
      /\ approvals'[a].step = calls[w].step + 1
      /\ approvals'[a].status = approvals[a].status
  BY <1>1, <1>3, <1>4, ApprovalUpdated
<1> QED
  BY <1>1, <1>5 DEF a

(* A verdict that has been reached refers to an approval, and that to a row. *)
LEMMA VerdictGrounded ==
  ASSUME Typed, NEW w \in Workers, calls[w].op \in Judging
  PROVE  /\ calls[w] \in Verdict
         /\ calls[w].approval \in DOMAIN approvals
         /\ approvals[calls[w].approval] \in Approval
         /\ approvals[calls[w].approval].row \in DOMAIN rows
         /\ rows[approvals[calls[w].approval].row] \in UserRow
<1>1. calls[w] \in Verdict /\ calls[w].approval \in DOMAIN approvals
  BY CallTypes DEF Typed, Grounded
<1>2. /\ approvals[calls[w].approval] \in Approval
      /\ approvals[calls[w].approval].row \in DOMAIN rows
  BY <1>1 DEF Typed, TypeOK, Grounded
<1> QED
  BY <1>1, <1>2 DEF Typed, TypeOK

LEMMA CommitEffect ==
  ASSUME Typed, NEW w \in Workers, CommitConclusion(w)
  PROVE  LET a == calls[w].approval IN
         /\ a \in DOMAIN approvals
         /\ approvals' \in Seq(Approval)
         /\ DOMAIN approvals' = DOMAIN approvals
         /\ \A b \in DOMAIN approvals : /\ approvals'[b].row = approvals[b].row
                                        /\ approvals'[b].by = approvals[b].by
         /\ \A b \in DOMAIN approvals : b # a => approvals'[b] = approvals[b]
         /\ approvals'[a].step = approvals[a].step
         /\ approvals'[a].status = "approved"
<1> DEFINE a == calls[w].approval
<1>1. a \in DOMAIN approvals /\ approvals[a] \in Approval
  BY VerdictGrounded DEF CommitConclusion, Judging
<1>2. approvals[a].step \in Nat
  BY <1>1 DEF Approval
<1>3. approvals' = [approvals EXCEPT ![a] = [approvals[a] EXCEPT
                      !.step = approvals[a].step, !.status = "approved"]]
  BY <1>1 DEF CommitConclusion, Approval
<1> HIDE DEF a
<1>4. /\ approvals' \in Seq(Approval)
      /\ DOMAIN approvals' = DOMAIN approvals
      /\ \A b \in DOMAIN approvals : /\ approvals'[b].row = approvals[b].row
                                     /\ approvals'[b].by = approvals[b].by
      /\ \A b \in DOMAIN approvals : b # a => approvals'[b] = approvals[b]
      /\ approvals'[a].step = approvals[a].step
      /\ approvals'[a].status = "approved"
  BY <1>1, <1>2, <1>3, ApprovalUpdated
<1> QED
  BY <1>1, <1>4 DEF a

LEMMA RemoveEffect ==
  ASSUME Typed, NEW w \in Workers, Remove(w)
  PROVE  LET a == calls[w].approval
             i == approvals[a].row IN
         /\ a \in DOMAIN approvals /\ i \in DOMAIN rows
         /\ approvals' \in Seq(Approval) /\ rows' \in Seq(UserRow)
         /\ DOMAIN approvals' = DOMAIN approvals /\ DOMAIN rows' = DOMAIN rows
         /\ \A b \in DOMAIN approvals : /\ approvals'[b].row = approvals[b].row
                                        /\ approvals'[b].by = approvals[b].by
         /\ \A b \in DOMAIN approvals : b # a => approvals'[b] = approvals[b]
         /\ approvals'[a].step = approvals[a].step
         /\ approvals'[a].status = "rejected"
         /\ \A j \in DOMAIN rows : rows'[j].guest = rows[j].guest
         /\ \A j \in DOMAIN rows : j # i => rows'[j] = rows[j]
         /\ rows'[i].status = "gone"
<1> DEFINE a == calls[w].approval
           i == approvals[a].row
<1>1. /\ a \in DOMAIN approvals /\ approvals[a] \in Approval
      /\ i \in DOMAIN rows /\ rows[i] \in UserRow
  BY VerdictGrounded DEF Remove, Judging
<1>2. approvals[a].step \in Nat /\ rows[i].archived \in BOOLEAN /\ rows[i].linked \in BOOLEAN
  BY <1>1 DEF Approval, UserRow
<1>3. approvals' = [approvals EXCEPT ![a] = [approvals[a] EXCEPT
                      !.step = approvals[a].step, !.status = "rejected"]]
  BY <1>1 DEF Remove, Approval
<1>4. rows' = [rows EXCEPT ![i] = [rows[i] EXCEPT !.status = "gone",
                 !.archived = rows[i].archived, !.linked = rows[i].linked]]
  BY <1>1 DEF Remove, UserRow
<1>5. "gone" \in Statuses
  BY DEF Statuses
<1> HIDE DEF a, i
<1>6. /\ approvals' \in Seq(Approval)
      /\ DOMAIN approvals' = DOMAIN approvals
      /\ \A b \in DOMAIN approvals : /\ approvals'[b].row = approvals[b].row
                                     /\ approvals'[b].by = approvals[b].by
      /\ \A b \in DOMAIN approvals : b # a => approvals'[b] = approvals[b]
      /\ approvals'[a].step = approvals[a].step
      /\ approvals'[a].status = "rejected"
  BY <1>1, <1>2, <1>3, ApprovalUpdated
<1>7. /\ rows' \in Seq(UserRow)
      /\ DOMAIN rows' = DOMAIN rows
      /\ \A j \in DOMAIN rows : rows'[j].guest = rows[j].guest
      /\ \A j \in DOMAIN rows : j # i => rows'[j] = rows[j]
      /\ rows'[i].status = "gone"
  BY <1>1, <1>2, <1>4, <1>5, RowUpdated
<1> QED
  BY <1>1, <1>6, <1>7 DEF a, i

LEMMA LinkEffect ==
  ASSUME Typed, NEW w \in Workers, Link(w)
  PROVE  LET i == calls[w].row IN
         /\ i \in Present /\ rows[i].guest = calls[w].guest
         /\ rows' \in Seq(UserRow)
         /\ DOMAIN rows' = DOMAIN rows
         /\ \A j \in DOMAIN rows : rows'[j].guest = rows[j].guest
         /\ \A j \in DOMAIN rows : j # i => rows'[j] = rows[j]
         /\ rows'[i].status = "active" /\ rows'[i].linked
<1> DEFINE i == calls[w].row
<1>1. i \in Present /\ i \in DOMAIN rows
  BY DEF Link, Present
<1>2. i # 0 /\ rows[i].guest = calls[w].guest /\ rows[i] \in UserRow
  BY <1>1 DEF Typed, TypeOK, Grounded, Link
<1>3. rows[i].archived \in BOOLEAN
  BY <1>2 DEF UserRow
<1>4. rows' = [rows EXCEPT ![i] = [rows[i] EXCEPT !.status = "active",
                 !.archived = rows[i].archived, !.linked = TRUE]]
  BY <1>1, <1>2 DEF Link, UserRow
<1>5. "active" \in Statuses
  BY DEF Statuses, Assignable
<1> HIDE DEF i
<1>6. /\ rows' \in Seq(UserRow)
      /\ DOMAIN rows' = DOMAIN rows
      /\ \A j \in DOMAIN rows : rows'[j].guest = rows[j].guest
      /\ \A j \in DOMAIN rows : j # i => rows'[j] = rows[j]
      /\ rows'[i].status = "active" /\ rows'[i].linked = TRUE
  BY <1>1, <1>3, <1>4, <1>5, RowUpdated
<1> QED
  BY <1>1, <1>2, <1>6 DEF i

LEMMA EditEffect ==
  ASSUME Typed, NEW i \in Present, NEW status \in Statuses, NEW archived \in BOOLEAN,
         Edit(i, status, archived)
  PROVE  /\ rows' \in Seq(UserRow)
         /\ DOMAIN rows' = DOMAIN rows
         /\ \A j \in DOMAIN rows : rows'[j].guest = rows[j].guest
         /\ \A j \in DOMAIN rows : j # i => rows'[j] = rows[j]
         /\ rows'[i].status = status /\ rows'[i].linked = rows[i].linked
<1>1. i \in DOMAIN rows /\ rows[i] \in UserRow
  BY DEF Present, Typed, TypeOK
<1>2. rows[i].linked \in BOOLEAN
  BY <1>1 DEF UserRow
<1>3. rows' = [rows EXCEPT ![i] = [rows[i] EXCEPT !.status = status,
                 !.archived = archived, !.linked = rows[i].linked]]
  BY <1>1 DEF Edit, UserRow
<1> QED
  BY <1>1, <1>2, <1>3, RowUpdated

(* A step that leaves the approvals alone, and may add a row.                *)
LEMMA TypedCall ==
  ASSUME Typed, NEW w \in Workers,
         NEW call \in {Idle} \cup Invitation \cup Verdict \cup SignUp,
         Goto(w, call), CallGrounded(call),
         rows' \in Seq(UserRow), DOMAIN rows \subseteq DOMAIN rows',
         \A i \in DOMAIN rows : rows'[i].guest = rows[i].guest,
         sent' \subseteq [to : Guests, approval : Nat],
         agreed' \subseteq [approval : Nat, step : Nat, by : People],
         founded' \subseteq Guests, UNCHANGED approvals
  PROVE  Typed'
<1>1. /\ calls' \in [Workers -> {Idle} \cup Invitation \cup Verdict \cup SignUp]
      /\ calls'[w] = call
      /\ \A v \in Workers : v # w => calls'[v] = calls[v]
  BY GotoType DEF Typed, Goto
<1>2. TypeOK'
  BY <1>1 DEF Typed, TypeOK, Goto
<1>3. Grows
  BY DEF Grows
<1> QED
  BY <1>1, <1>2, <1>3, GroundedGrows DEF Typed

LEMMA IdleIsCall == Idle \in {Idle} \cup Invitation \cup Verdict \cup SignUp
OBVIOUS

LEMMA AgreeType ==
  ASSUME Typed, NEW c \in Verdict, Agree(c)
  PROVE  agreed' \subseteq [approval : Nat, step : Nat, by : People]
BY DEF Typed, TypeOK, Agree, Verdict

LEMMA TypedSendDirect == ASSUME Typed, NEW w \in Workers, SendDirect(w) PROVE Typed'
<1> DEFINE call == [calls[w] EXCEPT !.op = "inviting"]
<1>1. calls[w] \in Invitation
  BY CallTypes DEF Typed, SendDirect
<1>2. call \in Invitation /\ CallGrounded(call)
  BY <1>1 DEF Invitation, CallGrounded, Judging
<1>3. sent' \subseteq [to : Guests, approval : Nat]
  BY <1>1 DEF Typed, TypeOK, SendDirect, Invitation
<1>4. Goto(w, call) /\ UNCHANGED <<rows, approvals, agreed, founded>>
  BY DEF SendDirect
<1> HIDE DEF call
<1> QED
  BY <1>2, <1>3, <1>4, TypedCall DEF Typed, TypeOK

LEMMA NewRowType ==
  ASSUME Typed, NEW g \in Guests, rows' = Append(rows, NewRow(g))
  PROVE  /\ rows' \in Seq(UserRow)
         /\ DOMAIN rows' = DOMAIN rows \cup {Len(rows) + 1}
         /\ Len(rows) + 1 \in Nat \ DOMAIN rows
         /\ rows'[Len(rows) + 1] = NewRow(g)
         /\ \A i \in DOMAIN rows : rows'[i] = rows[i]
<1>1. NewRow(g) \in UserRow
  BY DEF NewRow, UserRow, Statuses
<1>2. rows \in Seq(UserRow)
  BY DEF Typed, TypeOK
<1> QED
  BY <1>1, <1>2, Added

LEMMA TypedCommitDirect == ASSUME Typed, NEW w \in Workers, CommitDirect(w) PROVE Typed'
<1>1. calls[w].guest \in Guests
  BY CallTypes DEF Typed, CommitDirect, Invitation
<1>2. /\ rows' \in Seq(UserRow) /\ DOMAIN rows \subseteq DOMAIN rows'
      /\ \A i \in DOMAIN rows : rows'[i].guest = rows[i].guest
  BY <1>1, NewRowType DEF CommitDirect
<1>3. Goto(w, Idle) /\ UNCHANGED <<approvals, sent, agreed, founded>>
  BY DEF CommitDirect, Finish
<1> QED
  BY <1>2, <1>3, IdleIsCall, IdleGrounded, TypedCall DEF Typed, TypeOK

LEMMA RequestEffect ==
  ASSUME Typed, NEW w \in Workers, RequestApproval(w)
  PROVE  LET n == Len(approvals) + 1
             i == Len(rows) + 1 IN
         /\ calls[w] \in Invitation
         /\ rows' \in Seq(UserRow) /\ approvals' \in Seq(Approval)
         /\ DOMAIN rows' = DOMAIN rows \cup {i} /\ i \notin DOMAIN rows
         /\ DOMAIN approvals' = DOMAIN approvals \cup {n} /\ n \notin DOMAIN approvals
         /\ rows'[i] = NewRow(calls[w].guest)
         /\ \A j \in DOMAIN rows : rows'[j] = rows[j]
         /\ approvals'[n] = [row |-> i, by |-> calls[w].by, step |-> 0,
                             status |-> "pending"]
         /\ approvals'[n].row = i
         /\ \A a \in DOMAIN approvals : approvals'[a] = approvals[a]
<1> DEFINE approval == [row |-> Len(rows) + 1, by |-> calls[w].by, step |-> 0,
                        status |-> "pending"]
<1>1. calls[w] \in Invitation
  BY CallTypes DEF Typed, RequestApproval
<1>2. calls[w].guest \in Guests /\ calls[w].by \in People
  BY <1>1 DEF Invitation
<1>3. /\ rows' \in Seq(UserRow)
      /\ DOMAIN rows' = DOMAIN rows \cup {Len(rows) + 1}
      /\ Len(rows) + 1 \in Nat \ DOMAIN rows
      /\ rows'[Len(rows) + 1] = NewRow(calls[w].guest)
      /\ \A j \in DOMAIN rows : rows'[j] = rows[j]
  BY <1>2, NewRowType DEF RequestApproval
<1>4. approval \in Approval
  BY <1>2, <1>3 DEF Approval
<1>5. approvals \in Seq(Approval) /\ approvals' = Append(approvals, approval)
  BY DEF Typed, TypeOK, RequestApproval
<1> HIDE DEF approval
<1>6. /\ approvals' \in Seq(Approval)
      /\ DOMAIN approvals' = DOMAIN approvals \cup {Len(approvals) + 1}
      /\ approvals'[Len(approvals) + 1] = approval
      /\ Len(approvals) + 1 \notin DOMAIN approvals
      /\ \A a \in DOMAIN approvals : approvals'[a] = approvals[a]
  BY <1>4, <1>5, Added
<1> QED
  BY <1>1, <1>3, <1>6 DEF approval

LEMMA TypedRequest == ASSUME Typed, NEW w \in Workers, RequestApproval(w) PROVE Typed'
<1> DEFINE n == Len(approvals) + 1
           i == Len(rows) + 1
<1>1. /\ rows' \in Seq(UserRow) /\ approvals' \in Seq(Approval)
      /\ DOMAIN rows' = DOMAIN rows \cup {i} /\ i \notin DOMAIN rows
      /\ DOMAIN approvals' = DOMAIN approvals \cup {n} /\ n \notin DOMAIN approvals
      /\ \A j \in DOMAIN rows : rows'[j] = rows[j]
      /\ approvals'[n].row = i
      /\ \A a \in DOMAIN approvals : approvals'[a] = approvals[a]
  BY RequestEffect
<1> HIDE DEF n, i
<1>2. calls' = [calls EXCEPT ![w] = Idle] /\ UNCHANGED <<sent, agreed, founded, started, slots>>
  BY DEF RequestApproval, Finish, Goto
<1>3. /\ calls' \in [Workers -> {Idle} \cup Invitation \cup Verdict \cup SignUp]
      /\ calls'[w] = Idle
      /\ \A v \in Workers : v # w => calls'[v] = calls[v]
  BY <1>2, GotoType, IdleIsCall DEF Typed
<1>4. TypeOK'
  BY <1>1, <1>2, <1>3 DEF Typed, TypeOK
<1>5. /\ \A a \in DOMAIN approvals' : approvals'[a].row \in DOMAIN rows'
      /\ \A a, b \in DOMAIN approvals' : approvals'[a].row = approvals'[b].row => a = b
  BY <1>1 DEF Typed, Grounded
<1>6. \A v \in Workers : calls'[v].op \in Judging => calls'[v].approval \in DOMAIN approvals'
  BY <1>1, <1>3 DEF Typed, Grounded, Idle, Judging
<1>7. \A v \in Workers : calls'[v].op = "signup" /\ calls'[v].row # 0 =>
        /\ calls'[v].row \in DOMAIN rows'
        /\ rows'[calls'[v].row].guest = calls'[v].guest
  BY <1>1, <1>3 DEF Typed, Grounded, Idle
<1> QED
  BY <1>4, <1>5, <1>6, <1>7 DEF Typed, Grounded

LEMMA TypedReread == ASSUME Typed, NEW w \in Workers, Reread(w) PROVE Typed'
<1> DEFINE c == calls[w]
           call == [c EXCEPT !.op = IF @ = "approve" THEN "advance" ELSE "remove",
                             !.step = approvals[c.approval].step]
<1>1. c \in Verdict /\ c.approval \in DOMAIN approvals /\ approvals[c.approval] \in Approval
  BY VerdictGrounded DEF Reread, Verdicts, Judging
<1>2. call \in Verdict /\ CallGrounded(call)
  BY <1>1 DEF Verdict, Approval, CallGrounded, Judging
<1>3. Goto(w, call) /\ UNCHANGED <<rows, approvals, sent, agreed, founded>>
  BY DEF Reread
<1> HIDE DEF call
<1> QED
  BY <1>2, <1>3, TypedCall DEF Typed, TypeOK

LEMMA TypedAdvance == ASSUME Typed, NEW w \in Workers, Advance(w) PROVE Typed'
<1>1. /\ calls[w] \in Verdict
      /\ approvals' \in Seq(Approval) /\ DOMAIN approvals' = DOMAIN approvals
      /\ \A b \in DOMAIN approvals : /\ approvals'[b].row = approvals[b].row
                                     /\ approvals'[b].by = approvals[b].by
  BY AdvanceEffect
<1>2. agreed' \subseteq [approval : Nat, step : Nat, by : People]
  BY <1>1, AgreeType DEF Advance
<1>3. Grows
  BY <1>1 DEF Grows, Advance
<1>4. Finish(w) /\ UNCHANGED <<rows, sent, founded>>
  BY DEF Advance
<1> QED
  BY <1>1, <1>2, <1>3, <1>4, TypedFinish DEF Typed, TypeOK

LEMMA TypedConclude == ASSUME Typed, NEW w \in Workers, Conclude(w) PROVE Typed'
<1> DEFINE c == calls[w]
           call == [c EXCEPT !.op = "concluding"]
<1>1. /\ c \in Verdict /\ c.approval \in DOMAIN approvals
      /\ rows[approvals[c.approval].row] \in UserRow
  BY VerdictGrounded DEF Conclude, Judging
<1>2. call \in Verdict /\ CallGrounded(call)
  BY <1>1 DEF Verdict, CallGrounded, Judging
<1>3. sent' \subseteq [to : Guests, approval : Nat]
  BY <1>1 DEF Typed, TypeOK, Conclude, UserRow
<1>4. agreed' \subseteq [approval : Nat, step : Nat, by : People]
  BY <1>1, AgreeType DEF Conclude
<1>5. Goto(w, call) /\ UNCHANGED <<rows, approvals, founded>>
  BY DEF Conclude
<1> HIDE DEF call
<1> QED
  BY <1>2, <1>3, <1>4, <1>5, TypedCall DEF Typed, TypeOK

LEMMA TypedCommitConclusion ==
  ASSUME Typed, NEW w \in Workers, CommitConclusion(w)
  PROVE  Typed'
<1>1. /\ approvals' \in Seq(Approval) /\ DOMAIN approvals' = DOMAIN approvals
      /\ \A b \in DOMAIN approvals : /\ approvals'[b].row = approvals[b].row
                                     /\ approvals'[b].by = approvals[b].by
  BY CommitEffect
<1>2. Finish(w) /\ UNCHANGED <<rows, sent, agreed, founded>>
  BY DEF CommitConclusion
<1>3. Grows
  BY <1>1, <1>2 DEF Grows
<1> QED
  BY <1>1, <1>2, <1>3, TypedFinish DEF Typed, TypeOK

LEMMA TypedRemove == ASSUME Typed, NEW w \in Workers, Remove(w) PROVE Typed'
<1>1. /\ approvals' \in Seq(Approval) /\ DOMAIN approvals' = DOMAIN approvals
      /\ rows' \in Seq(UserRow) /\ DOMAIN rows' = DOMAIN rows
      /\ \A b \in DOMAIN approvals : /\ approvals'[b].row = approvals[b].row
                                     /\ approvals'[b].by = approvals[b].by
      /\ \A j \in DOMAIN rows : rows'[j].guest = rows[j].guest
  BY RemoveEffect
<1>2. Finish(w) /\ UNCHANGED <<sent, agreed, founded>>
  BY DEF Remove
<1>3. Grows
  BY <1>1 DEF Grows
<1> QED
  BY <1>1, <1>2, <1>3, TypedFinish DEF Typed, TypeOK

LEMMA TypedSignUp == ASSUME Typed, NEW w \in Workers, Link(w) \/ Found(w) PROVE Typed'
<1>1. CASE Link(w)
  <2>1. /\ rows' \in Seq(UserRow) /\ DOMAIN rows' = DOMAIN rows
        /\ \A j \in DOMAIN rows : rows'[j].guest = rows[j].guest
    BY <1>1, LinkEffect
  <2>2. Goto(w, Idle) /\ UNCHANGED <<approvals, sent, agreed, founded>>
    BY <1>1 DEF Link, Finish
  <2> QED
    BY <2>1, <2>2, IdleIsCall, IdleGrounded, TypedCall DEF Typed, TypeOK
<1>2. CASE Found(w)
  <2>1. calls[w].guest \in Guests
    BY <1>2, CallTypes DEF Typed, Found, SignUp
  <2>2. founded' \subseteq Guests
    BY <1>2, <2>1 DEF Typed, TypeOK, Found
  <2>3. Goto(w, Idle) /\ UNCHANGED <<rows, approvals, sent, agreed>>
    BY <1>2 DEF Found, Finish
  <2> QED
    BY <2>2, <2>3, IdleIsCall, IdleGrounded, TypedCall DEF Typed, TypeOK
<1> QED
  BY <1>1, <1>2

LEMMA TypedStep == ASSUME Typed, NEW w \in Workers, Step(w) PROVE Typed'
<1>1. CASE Rollback(w)
  BY <1>1, IdleIsCall, IdleGrounded, TypedCall DEF Rollback, Finish, Typed, TypeOK
<1> QED
  BY <1>1, TypedSendDirect, TypedCommitDirect, TypedRequest, TypedReread, TypedAdvance,
     TypedConclude, TypedCommitConclusion, TypedRemove, TypedSignUp DEF Step

(* An administrator's request edits one row, which is not deleted.           *)
LEMMA AdministerIsEdit ==
  ASSUME NEW i, Administer(i)
  PROVE  \E status \in Assignable, archived \in BOOLEAN :
           i \in Present /\ Edit(i, status, archived)
BY DEF Administer, Update, Archive, Unarchive, Assignable

LEMMA TypedAdminister == ASSUME Typed, NEW i, Administer(i) PROVE Typed'
<1>1. PICK status \in Assignable, archived \in BOOLEAN :
        i \in Present /\ Edit(i, status, archived)
  BY AdministerIsEdit
<1>2. status \in Statuses
  BY DEF Statuses
<1>3. /\ rows' \in Seq(UserRow) /\ DOMAIN rows' = DOMAIN rows
      /\ \A j \in DOMAIN rows : rows'[j].guest = rows[j].guest
  BY <1>1, <1>2, EditEffect
<1>4. started' \in Nat /\ UNCHANGED <<approvals, sent, agreed, founded, calls, slots>>
  BY <1>1, CountType DEF Edit
<1>5. TypeOK'
  BY <1>3, <1>4 DEF Typed, TypeOK
<1>6. Grounded'
  BY <1>3, <1>4 DEF Typed, Grounded
<1> QED
  BY <1>5, <1>6 DEF Typed

LEMMA TypedNext == Typed /\ [Next]_vars => Typed'
<1> SUFFICES ASSUME Typed, [Next]_vars PROVE Typed'
  OBVIOUS
<1>1. CASE UNCHANGED vars
  BY <1>1 DEF vars, Typed, TypeOK, Grounded
<1>2. CASE Next
  BY <1>2, TypedLoad, TypedStep, TypedAdminister DEF Next
<1> QED
  BY <1>1, <1>2

LEMMA TypedAlways == Spec => []Typed
BY TypedInit, TypedNext, PTL DEF Spec

(* Users, approvals and the calls in flight keep their shape, and refer to   *)
(* rows that exist: users.service.ts hands an approval's user id to delete   *)
(* and to the e-mail lookup without checking it.                             *)
THEOREM TypeCorrect == Spec => []TypeOK
<1>1. Typed => TypeOK
  BY DEF Typed
<1> QED
  BY <1>1, TypedAlways, PTL

-----------------------------------------------------------------------------
(* Rejection.  While the e-mail of an approval is being sent, its row is     *)
(* there, for a rejection would have to wait for the lock.                   *)
Removed ==
  /\ RejectedIsRemoved
  /\ \A w \in Workers : calls[w].op = "concluding" =>
       approvals[calls[w].approval].row \in Present

\* Rows neither go nor come back, but may be added; no approval is rejected.
RowsStay ==
  /\ Present \subseteq Present'
  /\ DOMAIN rows' \ Present' = DOMAIN rows \ Present

DecisionsStay ==
  /\ DOMAIN approvals \subseteq DOMAIN approvals'
  /\ \A a \in DOMAIN approvals :
       /\ approvals'[a].row = approvals[a].row
       /\ approvals'[a].status = "rejected" <=> approvals[a].status = "rejected"
  /\ \A a \in DOMAIN approvals' \ DOMAIN approvals :
       approvals'[a].status # "rejected" /\ approvals'[a].row \in Present'

LEMMA RemovedKept ==
  ASSUME Typed, Removed, RowsStay, DecisionsStay,
         \A v \in Workers : calls'[v].op = "concluding" =>
           /\ calls'[v].approval \in DOMAIN approvals
           /\ approvals[calls'[v].approval].row \in Present
  PROVE  Removed'
<1>1. ASSUME NEW a \in DOMAIN approvals'
      PROVE  approvals'[a].status = "rejected" <=> approvals'[a].row \notin Present'
  <2>1. CASE a \notin DOMAIN approvals
    BY <2>1 DEF DecisionsStay
  <2>2. CASE a \in DOMAIN approvals
    <3>1. approvals[a].row \in DOMAIN rows
      BY <2>2 DEF Typed, Grounded
    <3>2. approvals[a].row \in Present' <=> approvals[a].row \in Present
      BY <3>1 DEF RowsStay
    <3>3. approvals[a].status = "rejected" <=> approvals[a].row \notin Present
      BY <2>2 DEF Removed, RejectedIsRemoved
    <3> QED
      BY <2>2, <3>2, <3>3 DEF DecisionsStay
  <2> QED
    BY <2>1, <2>2
<1>2. ASSUME NEW i \in DOMAIN rows' \ Present'
      PROVE  \E a \in DOMAIN approvals' : approvals'[a].row = i
  <2>1. PICK a \in DOMAIN approvals : approvals[a].row = i
    BY DEF RowsStay, Removed, RejectedIsRemoved
  <2> QED
    BY <2>1 DEF DecisionsStay
<1>3. \A v \in Workers : calls'[v].op = "concluding" =>
        approvals'[calls'[v].approval].row \in Present'
  BY DEF DecisionsStay, RowsStay
<1> QED
  BY <1>1, <1>2, <1>3 DEF Removed, RejectedIsRemoved

LEMMA RowsUnchanged == UNCHANGED rows => Present' = Present /\ RowsStay
BY DEF Present, RowsStay

LEMMA DecisionsUnchanged == UNCHANGED approvals => DecisionsStay
BY DEF DecisionsStay

(* No call but the one that steps begins to conclude.                        *)
LEMMA Concluding ==
  ASSUME Typed, Removed, NEW w \in Workers, NEW call, call.op # "concluding",
         calls' = [calls EXCEPT ![w] = call]
  PROVE  \A v \in Workers : calls'[v].op = "concluding" =>
           /\ calls'[v].approval \in DOMAIN approvals
           /\ approvals[calls'[v].approval].row \in Present
<1>1. \A v \in Workers : calls'[v] = IF v = w THEN call ELSE calls[v]
  BY DEF Typed, TypeOK
<1>2. \A v \in Workers : calls[v].op = "concluding" =>
        /\ calls[v].approval \in DOMAIN approvals
        /\ approvals[calls[v].approval].row \in Present
  BY DEF Typed, Grounded, Judging, Removed
<1> QED
  BY <1>1, <1>2

LEMMA Adding ==
  ASSUME Typed, NEW g \in Guests, rows' = Append(rows, NewRow(g))
  PROVE  RowsStay /\ Len(rows) + 1 \in Present'
<1>1. /\ DOMAIN rows' = DOMAIN rows \cup {Len(rows) + 1}
      /\ Len(rows) + 1 \notin DOMAIN rows
      /\ rows'[Len(rows) + 1].status = "invited"
      /\ \A i \in DOMAIN rows : rows'[i] = rows[i]
  BY NewRowType DEF NewRow
<1> QED
  BY <1>1 DEF RowsStay, Present

LEMMA Altering ==
  ASSUME DOMAIN rows' = DOMAIN rows, NEW i \in Present, rows'[i].status # "gone",
         \A j \in DOMAIN rows : j # i => rows'[j] = rows[j]
  PROVE  Present' = Present /\ RowsStay
<1>1. Present' = Present
  BY DEF Present
<1> QED
  BY <1>1 DEF RowsStay

LEMMA RemovedLoad == ASSUME Typed, Removed, NEW w \in Workers, Load(w) PROVE Removed'
<1>1. UNCHANGED <<rows, approvals>>
  BY DEF Load, Invite, Judge, Deliver, Begin
<1>2. PICK call : calls' = [calls EXCEPT ![w] = call] /\ call.op # "concluding"
  <2>1. ASSUME NEW u \in People, NEW g \in Guests, Invite(w, u, g)
        PROVE  \E call : calls' = [calls EXCEPT ![w] = call] /\ call.op # "concluding"
    <3> WITNESS [op |-> "invite", by |-> u, guest |-> g]
    <3> QED
      BY <2>1 DEF Invite, Begin
  <2>2. ASSUME NEW u \in People, NEW a \in DOMAIN approvals, NEW v \in Verdicts,
               Judge(w, u, a, v)
        PROVE  \E call : calls' = [calls EXCEPT ![w] = call] /\ call.op # "concluding"
    <3> WITNESS [op |-> v, by |-> u, approval |-> a, step |-> approvals[a].step]
    <3> QED
      BY <2>2 DEF Judge, Begin, Verdicts
  <2>3. ASSUME NEW g \in Guests, Deliver(w, g)
        PROVE  \E call : calls' = [calls EXCEPT ![w] = call] /\ call.op # "concluding"
    <3>1. PICK i : Begin(w, [op |-> "signup", guest |-> g, row |-> i])
      BY <2>3 DEF Deliver
    <3> WITNESS [op |-> "signup", guest |-> g, row |-> i]
    <3> QED
      BY <3>1 DEF Begin
  <2> QED
    BY <2>1, <2>2, <2>3 DEF Load
<1> QED
  BY <1>1, <1>2, Concluding, RowsUnchanged, DecisionsUnchanged, RemovedKept

(* The steps that end a call: it is idle then.                               *)
LEMMA RemovedEnd ==
  ASSUME Typed, Removed, NEW w \in Workers, Finish(w), RowsStay, DecisionsStay
  PROVE  Removed'
<1>1. Idle.op # "concluding"
  BY DEF Idle
<1>2. calls' = [calls EXCEPT ![w] = Idle]
  BY DEF Finish, Goto
<1> QED
  BY <1>1, <1>2, Concluding, RemovedKept

LEMMA RemovedSendDirect ==
  ASSUME Typed, Removed, NEW w \in Workers, SendDirect(w)
  PROVE  Removed'
<1> DEFINE call == [calls[w] EXCEPT !.op = "inviting"]
<1>1. calls[w] \in Invitation
  BY CallTypes DEF Typed, SendDirect
<1>2. call.op # "concluding"
  BY <1>1 DEF Invitation
<1>3. calls' = [calls EXCEPT ![w] = call] /\ UNCHANGED <<rows, approvals>>
  BY DEF SendDirect, Goto
<1> HIDE DEF call
<1> QED
  BY <1>2, <1>3, Concluding, RowsUnchanged, DecisionsUnchanged, RemovedKept

LEMMA RemovedCommitDirect ==
  ASSUME Typed, Removed, NEW w \in Workers, CommitDirect(w)
  PROVE  Removed'
<1>1. calls[w].guest \in Guests
  BY CallTypes DEF Typed, CommitDirect, Invitation
<1> QED
  BY <1>1, Adding, DecisionsUnchanged, RemovedEnd DEF CommitDirect

LEMMA RemovedRequest ==
  ASSUME Typed, Removed, NEW w \in Workers, RequestApproval(w)
  PROVE  Removed'
<1>1. calls[w].guest \in Guests
  BY CallTypes DEF Typed, RequestApproval, Invitation
<1>2. RowsStay /\ Len(rows) + 1 \in Present'
  BY <1>1, Adding DEF RequestApproval
<1>3. DecisionsStay
  <2> DEFINE n == Len(approvals) + 1
             i == Len(rows) + 1
  <2>1. /\ DOMAIN approvals' = DOMAIN approvals \cup {n}
        /\ approvals'[n] = [row |-> i, by |-> calls[w].by, step |-> 0,
                            status |-> "pending"]
        /\ \A a \in DOMAIN approvals : approvals'[a] = approvals[a]
    BY RequestEffect
  <2>2. approvals'[n].row = i /\ approvals'[n].status = "pending"
    BY <2>1
  <2> HIDE DEF n
  <2> QED
    BY <1>2, <2>1, <2>2 DEF DecisionsStay
<1> QED
  BY <1>2, <1>3, RemovedEnd DEF RequestApproval

LEMMA RemovedReread ==
  ASSUME Typed, Removed, NEW w \in Workers, Reread(w)
  PROVE  Removed'
<1> DEFINE c == calls[w]
           call == [c EXCEPT !.op = IF @ = "approve" THEN "advance" ELSE "remove",
                             !.step = approvals[c.approval].step]
<1>1. c \in Verdict
  BY VerdictGrounded DEF Reread, Verdicts, Judging
<1>2. call.op # "concluding"
  BY <1>1 DEF Verdict
<1>3. calls' = [calls EXCEPT ![w] = call] /\ UNCHANGED <<rows, approvals>>
  BY DEF Reread, Goto
<1> HIDE DEF call
<1> QED
  BY <1>2, <1>3, Concluding, RowsUnchanged, DecisionsUnchanged, RemovedKept

LEMMA RemovedAdvance ==
  ASSUME Typed, Removed, NEW w \in Workers, Advance(w)
  PROVE  Removed'
<1> DEFINE c == calls[w].approval
<1>1. /\ DOMAIN approvals' = DOMAIN approvals
      /\ \A b \in DOMAIN approvals : approvals'[b].row = approvals[b].row
      /\ \A b \in DOMAIN approvals : b # c => approvals'[b] = approvals[b]
      /\ approvals'[c].status = approvals[c].status
  BY AdvanceEffect
<1>2. DecisionsStay
  BY <1>1 DEF DecisionsStay
<1> QED
  BY <1>2, RowsUnchanged, RemovedEnd DEF Advance

LEMMA RemovedConclude ==
  ASSUME Typed, Removed, NEW w \in Workers, Conclude(w)
  PROVE  Removed'
<1> DEFINE c == calls[w]
           call == [c EXCEPT !.op = "concluding"]
<1>1. c \in Verdict /\ c.approval \in DOMAIN approvals
  BY VerdictGrounded DEF Conclude, Judging
<1>2. call.approval = c.approval
  BY <1>1 DEF Verdict
<1>3. calls' = [calls EXCEPT ![w] = call] /\ UNCHANGED <<rows, approvals>>
  BY DEF Conclude, Goto
<1>4. approvals[c.approval].row \in Present
  BY DEF Conclude
<1> HIDE DEF call
<1>5. \A v \in Workers : calls'[v] = IF v = w THEN call ELSE calls[v]
  BY <1>3 DEF Typed, TypeOK
<1>6. \A v \in Workers : calls[v].op = "concluding" =>
        /\ calls[v].approval \in DOMAIN approvals
        /\ approvals[calls[v].approval].row \in Present
  BY DEF Typed, Grounded, Judging, Removed
<1>7. \A v \in Workers : calls'[v].op = "concluding" =>
        /\ calls'[v].approval \in DOMAIN approvals
        /\ approvals[calls'[v].approval].row \in Present
  BY <1>1, <1>2, <1>4, <1>5, <1>6
<1> QED
  BY <1>3, <1>7, RowsUnchanged, DecisionsUnchanged, RemovedKept

LEMMA RemovedCommitConclusion ==
  ASSUME Typed, Removed, NEW w \in Workers, CommitConclusion(w)
  PROVE  Removed'
<1> DEFINE a == calls[w].approval
<1>1. /\ a \in DOMAIN approvals
      /\ DOMAIN approvals' = DOMAIN approvals
      /\ \A b \in DOMAIN approvals : approvals'[b].row = approvals[b].row
      /\ \A b \in DOMAIN approvals : b # a => approvals'[b] = approvals[b]
      /\ approvals'[a].status = "approved"
  BY CommitEffect
<1>2. approvals[a].row \in Present
  BY DEF CommitConclusion, Removed
<1>3. approvals[a].status # "rejected"
  BY <1>1, <1>2 DEF Removed, RejectedIsRemoved
<1> HIDE DEF a
<1>4. DecisionsStay
  BY <1>1, <1>3 DEF DecisionsStay
<1> QED
  BY <1>4, RowsUnchanged, RemovedEnd DEF CommitConclusion

LEMMA RemovedRemove ==
  ASSUME Typed, Removed, NEW w \in Workers, Remove(w)
  PROVE  Removed'
<1> DEFINE a == calls[w].approval
           i == approvals[a].row
<1>1. /\ a \in DOMAIN approvals /\ i \in DOMAIN rows
      /\ DOMAIN approvals' = DOMAIN approvals /\ DOMAIN rows' = DOMAIN rows
      /\ \A b \in DOMAIN approvals : approvals'[b].row = approvals[b].row
      /\ \A b \in DOMAIN approvals : b # a => approvals'[b] = approvals[b]
      /\ approvals'[a].status = "rejected"
      /\ \A j \in DOMAIN rows : j # i => rows'[j] = rows[j]
      /\ rows'[i].status = "gone"
  BY RemoveEffect
<1>2. \A v \in Workers : calls[v].op = "concluding" => calls[v].approval # a
  BY DEF Remove, Unlocked
<1>3. \A v \in Workers : calls'[v].op = "concluding" => calls'[v] = calls[v]
  BY DEF Remove, Finish, Goto, Idle, Typed, TypeOK
<1> HIDE DEF a
<1>4. Present' = Present \ {i}
  BY <1>1 DEF Present
<1>5. \A b \in DOMAIN approvals : b # a => approvals[b].row # i
  BY <1>1 DEF Typed, Grounded
<1>6. \A b \in DOMAIN approvals' :
        approvals'[b].status = "rejected" <=> approvals'[b].row \notin Present'
  BY <1>1, <1>4, <1>5 DEF Removed, RejectedIsRemoved
<1>7. \A j \in DOMAIN rows' \ Present' : \E b \in DOMAIN approvals' : approvals'[b].row = j
  BY <1>1, <1>4 DEF Removed, RejectedIsRemoved
<1>8. ASSUME NEW v \in Workers, calls'[v].op = "concluding"
      PROVE  approvals'[calls'[v].approval].row \in Present'
  <2>1. /\ calls'[v] = calls[v] /\ calls[v].approval \in DOMAIN approvals
        /\ calls[v].approval # a /\ approvals[calls[v].approval].row \in Present
    BY <1>2, <1>3, <1>8 DEF Typed, Grounded, Judging, Removed
  <2> QED
    BY <1>1, <1>4, <1>5, <2>1
<1> QED
  BY <1>6, <1>7, <1>8 DEF Removed, RejectedIsRemoved

LEMMA RemovedLink ==
  ASSUME Typed, Removed, NEW w \in Workers, Link(w)
  PROVE  Removed'
<1> DEFINE i == calls[w].row
<1>1. /\ i \in Present /\ DOMAIN rows' = DOMAIN rows
      /\ \A j \in DOMAIN rows : j # i => rows'[j] = rows[j]
      /\ rows'[i].status = "active"
  BY LinkEffect
<1> HIDE DEF i
<1>2. RowsStay
  BY <1>1, Altering
<1> QED
  BY <1>2, DecisionsUnchanged, RemovedEnd DEF Link

LEMMA RemovedAdminister == ASSUME Typed, Removed, NEW i, Administer(i) PROVE Removed'
<1>1. PICK status \in Assignable, archived \in BOOLEAN :
        i \in Present /\ Edit(i, status, archived)
  BY AdministerIsEdit
<1>2. status \in Statuses /\ status # "gone"
  BY DEF Statuses, Assignable
<1>3. /\ DOMAIN rows' = DOMAIN rows
      /\ \A j \in DOMAIN rows : j # i => rows'[j] = rows[j]
      /\ rows'[i].status = status
  BY <1>1, <1>2, EditEffect
<1>4. RowsStay
  BY <1>1, <1>2, <1>3, Altering
<1>5. UNCHANGED <<approvals, calls>>
  BY <1>1 DEF Edit
<1>6. \A v \in Workers : calls'[v].op = "concluding" =>
        /\ calls'[v].approval \in DOMAIN approvals
        /\ approvals[calls'[v].approval].row \in Present
  BY <1>5 DEF Typed, Grounded, Judging, Removed
<1> QED
  BY <1>4, <1>5, <1>6, DecisionsUnchanged, RemovedKept

LEMMA RemovedNext == Typed /\ Removed /\ [Next]_vars => Removed'
<1> SUFFICES ASSUME Typed, Removed, [Next]_vars PROVE Removed'
  OBVIOUS
<1>1. CASE UNCHANGED vars
  BY <1>1 DEF vars, Removed, RejectedIsRemoved, Present
<1>2. ASSUME NEW w \in Workers, Found(w) \/ Rollback(w) PROVE Removed'
  BY <1>2, RowsUnchanged, DecisionsUnchanged, RemovedEnd DEF Found, Rollback
<1>3. ASSUME NEW w \in Workers, Step(w) PROVE Removed'
  BY <1>2, <1>3, RemovedSendDirect, RemovedCommitDirect, RemovedRequest, RemovedReread,
     RemovedAdvance, RemovedConclude, RemovedCommitConclusion, RemovedRemove, RemovedLink
     DEF Step
<1>4. CASE Next
  BY <1>3, <1>4, RemovedLoad, RemovedAdminister DEF Next
<1> QED
  BY <1>1, <1>4

(* However decisions, sign-ups and administrators' edits interleave, a row   *)
(* is deleted exactly when its approval is rejected: the final approval holds*)
(* the lock of its row from the update to the commit (users.service.ts,      *)
(* advanceApproval), which a racing rejection waits for.                     *)
THEOREM RejectionsAreRemovals == Spec => []RejectedIsRemoved
<1>1. Init => Removed
  BY DEF Init, Removed, RejectedIsRemoved, Present, Idle
<1>2. Removed => RejectedIsRemoved
  BY DEF Removed
<1> QED
  BY <1>1, <1>2, TypedAlways, RemovedNext, PTL DEF Spec

-----------------------------------------------------------------------------
(* One tenant for each person.                                               *)

(* A step that places nobody.                                                *)
LEMMA NobodyPlaced ==
  ASSUME OneHome, UNCHANGED founded,
         \A i \in Present' : rows'[i].linked =>
           i \in Present /\ rows[i].linked /\ rows'[i].guest = rows[i].guest
  PROVE  OneHome'
<1>1. ASSUME NEW i \in Present', rows'[i].linked
      PROVE  rows'[i].guest \notin founded'
  BY <1>1 DEF OneHome
<1>2. ASSUME NEW i \in Present', rows'[i].linked,
             NEW j \in Present', rows'[j].linked, rows'[j].guest = rows'[i].guest
      PROVE  j = i
  BY <1>2 DEF OneHome
<1> QED
  BY <1>1, <1>2 DEF OneHome

LEMMA HomesUnchanged == ASSUME OneHome, UNCHANGED <<rows, founded>> PROVE OneHome'
BY DEF OneHome, Present

LEMMA HomesAdded ==
  ASSUME Typed, OneHome, NEW g \in Guests, rows' = Append(rows, NewRow(g)),
         UNCHANGED founded
  PROVE  OneHome'
<1>1. /\ DOMAIN rows' = DOMAIN rows \cup {Len(rows) + 1}
      /\ ~rows'[Len(rows) + 1].linked
      /\ \A i \in DOMAIN rows : rows'[i] = rows[i]
  BY NewRowType DEF NewRow
<1> QED
  BY <1>1, NobodyPlaced DEF Present

LEMMA HomesLink == ASSUME Typed, OneHome, NEW w \in Workers, Link(w) PROVE OneHome'
<1> DEFINE i == calls[w].row
           g == calls[w].guest
<1>1. /\ i \in Present /\ rows[i].guest = g
      /\ DOMAIN rows' = DOMAIN rows
      /\ \A j \in DOMAIN rows : rows'[j].guest = rows[j].guest
      /\ \A j \in DOMAIN rows : j # i => rows'[j] = rows[j]
      /\ rows'[i].status = "active"
  BY LinkEffect
<1>2. g \notin founded /\ \A j \in Present \ {i} : rows[j].guest = g => ~rows[j].linked
  BY DEF Link, Elsewhere
<1>3. UNCHANGED founded
  BY DEF Link
<1> HIDE DEF i, g
<1>4. Present' = Present /\ \A j \in Present : j \in DOMAIN rows
  BY <1>1 DEF Present
<1>5. \A j \in Present : j # i /\ rows'[j].linked =>
        rows[j].linked /\ rows'[j].guest # g /\ rows'[j].guest = rows[j].guest
  BY <1>1, <1>2, <1>4
<1>6. rows'[i].guest = g
  BY <1>1, <1>4
<1> QED
  BY <1>2, <1>3, <1>4, <1>5, <1>6 DEF OneHome

LEMMA HomesFound == ASSUME Typed, OneHome, NEW w \in Workers, Found(w) PROVE OneHome'
<1>1. /\ \A j \in Present : rows[j].guest = calls[w].guest => ~rows[j].linked
      /\ founded' = founded \cup {calls[w].guest} /\ UNCHANGED rows
  BY DEF Found, Homeless, Linked
<1>2. Present' = Present
  BY <1>1 DEF Present
<1> QED
  BY <1>1, <1>2 DEF OneHome

LEMMA HomesRemove == ASSUME Typed, OneHome, NEW w \in Workers, Remove(w) PROVE OneHome'
<1> DEFINE i == approvals[calls[w].approval].row
<1>1. /\ DOMAIN rows' = DOMAIN rows /\ rows'[i].status = "gone"
      /\ \A j \in DOMAIN rows : j # i => rows'[j] = rows[j]
  BY RemoveEffect
<1> HIDE DEF i
<1>2. \A j \in Present' : j \in Present /\ rows'[j] = rows[j]
  BY <1>1 DEF Present
<1> QED
  BY <1>2, NobodyPlaced DEF Remove

LEMMA HomesAdminister == ASSUME Typed, OneHome, NEW i, Administer(i) PROVE OneHome'
<1>1. PICK status \in Assignable, archived \in BOOLEAN :
        i \in Present /\ Edit(i, status, archived)
  BY AdministerIsEdit
<1>2. status \in Statuses
  BY DEF Statuses
<1>3. /\ DOMAIN rows' = DOMAIN rows
      /\ \A j \in DOMAIN rows : rows'[j].guest = rows[j].guest
      /\ \A j \in DOMAIN rows : j # i => rows'[j] = rows[j]
      /\ rows'[i].linked = rows[i].linked
  BY <1>1, <1>2, EditEffect
<1>4. UNCHANGED founded
  BY <1>1 DEF Edit
<1>5. \A j \in Present' : rows'[j].linked =>
        j \in Present /\ rows[j].linked /\ rows'[j].guest = rows[j].guest
  BY <1>1, <1>3 DEF Present
<1> QED
  BY <1>4, <1>5, NobodyPlaced

LEMMA HomesStep == ASSUME Typed, OneHome, NEW w \in Workers, Step(w) PROVE OneHome'
<1>1. CASE CommitDirect(w) \/ RequestApproval(w)
  <2>1. calls[w].guest \in Guests
    BY <1>1, CallTypes DEF Typed, CommitDirect, RequestApproval, Invitation
  <2> QED
    BY <1>1, <2>1, HomesAdded DEF CommitDirect, RequestApproval
<1>2. CASE SendDirect(w) \/ Reread(w) \/ Advance(w) \/ Conclude(w)
           \/ CommitConclusion(w) \/ Rollback(w)
  BY <1>2, HomesUnchanged
     DEF SendDirect, Reread, Advance, Conclude, CommitConclusion, Rollback
<1> QED
  BY <1>1, <1>2, HomesLink, HomesFound, HomesRemove DEF Step

LEMMA HomesNext == Typed /\ OneHome /\ [Next]_vars => OneHome'
<1> SUFFICES ASSUME Typed, OneHome, [Next]_vars PROVE OneHome'
  OBVIOUS
<1>1. CASE UNCHANGED vars
  BY <1>1, HomesUnchanged DEF vars
<1>2. ASSUME NEW w \in Workers, Load(w) PROVE OneHome'
  BY <1>2, HomesUnchanged DEF Load, Invite, Judge, Deliver, Begin
<1>3. CASE Next
  BY <1>2, <1>3, HomesStep, HomesAdminister DEF Next
<1> QED
  BY <1>1, <1>3

(* However deliveries of a sign-up overlap with each other and with          *)
(* rejections and edits, a person is linked to one row or founds a tenant,   *)
(* not both: onUserCreated (clerk-webhook.service.ts) relies on the unique   *)
(* index on clerk_user_id for it.                                            *)
THEOREM EveryoneHasOneHome == Spec => []OneHome
<1>1. Init => OneHome
  BY DEF Init, OneHome, Present
<1> QED
  BY <1>1, TypedAlways, HomesNext, PTL DEF Spec

-----------------------------------------------------------------------------
(* Agreement.  What the row of an approval counts as agreed, and what a call *)
(* takes for agreed, was agreed to by an outsider.                           *)
Outsider(user, a) == user \notin {approvals[a].by, rows[approvals[a].row].guest}

Consent(a, k) ==
  \E g \in agreed : g.approval = a /\ g.step = k /\ Outsider(g.by, a)

StepsAgreed(a, step) == \A k \in Nat : k < step => Consent(a, k)

AgreedSoFar ==
  /\ \A a \in DOMAIN approvals : StepsAgreed(a, approvals[a].step)
  /\ \A w \in Workers : calls[w].op \in Judging =>
       /\ Outsider(calls[w].by, calls[w].approval)
       /\ StepsAgreed(calls[w].approval, calls[w].step)
  /\ \A s \in sent : s.approval # 0 =>
       /\ s.approval \in DOMAIN approvals
       /\ s.to = rows[approvals[s.approval].row].guest
       /\ \A k \in Steps(s.approval) : Consent(s.approval, k)

LEMMA AgreedImplies == ASSUME AgreedSoFar PROVE SentWasAgreed
<1> SUFFICES ASSUME NEW s \in sent, s.approval # 0, NEW k \in Steps(s.approval)
             PROVE  \E g \in agreed : /\ g.approval = s.approval
                                      /\ g.step = k
                                      /\ g.by \notin {approvals[s.approval].by, s.to}
  BY DEF SentWasAgreed
<1>1. Consent(s.approval, k) /\ s.to = rows[approvals[s.approval].row].guest
  BY DEF AgreedSoFar
<1> QED
  BY <1>1 DEF Consent, Outsider

(* Inviter and invited person of an approval, and what was agreed, stay.     *)
Keeps == Grows /\ agreed \subseteq agreed'

LEMMA OutsiderKept ==
  ASSUME Typed, Keeps, NEW a \in DOMAIN approvals, NEW user
  PROVE  Outsider(user, a)' <=> Outsider(user, a)
<1>1. /\ approvals'[a].by = approvals[a].by /\ approvals'[a].row = approvals[a].row
      /\ approvals[a].row \in DOMAIN rows
  BY DEF Keeps, Grows, Typed, Grounded
<1>2. rows'[approvals'[a].row].guest = rows[approvals[a].row].guest
  BY <1>1 DEF Keeps, Grows
<1> QED
  BY <1>1, <1>2 DEF Outsider

LEMMA ConsentKept ==
  ASSUME Typed, Keeps, NEW a \in DOMAIN approvals, NEW k, Consent(a, k)
  PROVE  Consent(a, k)'
<1>1. PICK g \in agreed : g.approval = a /\ g.step = k /\ Outsider(g.by, a)
  BY DEF Consent
<1>2. g \in agreed' /\ Outsider(g.by, a)'
  BY <1>1, OutsiderKept DEF Keeps
<1> QED
  BY <1>1, <1>2 DEF Consent

LEMMA StepsAgreedKept ==
  ASSUME Typed, Keeps, NEW a \in DOMAIN approvals, NEW step, StepsAgreed(a, step)
  PROVE  StepsAgreed(a, step)'
<1>1. ASSUME NEW k \in Nat, k < step PROVE Consent(a, k)'
  BY <1>1, ConsentKept DEF StepsAgreed
<1> QED
  BY <1>1 DEF StepsAgreed

LEMMA AgreedKept ==
  ASSUME Typed, Keeps, AgreedSoFar,
         \A a \in DOMAIN approvals' : StepsAgreed(a, approvals[a].step)',
         \A v \in Workers : calls'[v].op \in Judging =>
           /\ calls'[v].approval \in DOMAIN approvals
           /\ Outsider(calls'[v].by, calls'[v].approval)
           /\ StepsAgreed(calls'[v].approval, calls'[v].step),
         \A s \in sent' : s.approval # 0 =>
           \/ s \in sent
           \/ /\ s.approval \in DOMAIN approvals
              /\ s.to = rows[approvals[s.approval].row].guest
              /\ \A k \in Steps(s.approval) : Consent(s.approval, k)'
  PROVE  AgreedSoFar'
<1>1. ASSUME NEW v \in Workers, calls'[v].op \in Judging
      PROVE  /\ Outsider(calls[v].by, calls[v].approval)'
             /\ StepsAgreed(calls[v].approval, calls[v].step)'
  <2> DEFINE a == calls'[v].approval
             user == calls'[v].by
             step == calls'[v].step
  <2>1. a \in DOMAIN approvals /\ Outsider(user, a) /\ StepsAgreed(a, step)
    BY <1>1
  <2>2. PICK b, u, n : b = a /\ u = user /\ n = step
    OBVIOUS
  <2>3. b \in DOMAIN approvals /\ Outsider(u, b) /\ StepsAgreed(b, n)
    BY <2>1, <2>2
  <2>4. Outsider(u, b)' /\ StepsAgreed(b, n)'
    BY <2>3, OutsiderKept, StepsAgreedKept
  <2> QED
    BY <2>2, <2>4
<1>2. ASSUME NEW s \in sent', s.approval # 0
      PROVE  /\ s.approval \in DOMAIN approvals'
             /\ s.to = rows'[approvals'[s.approval].row].guest
             /\ \A k \in Steps(s.approval)' : Consent(s.approval, k)'
  <2>1. PICK a : a = s.approval
    OBVIOUS
  <2>2. /\ a \in DOMAIN approvals /\ s.to = rows[approvals[a].row].guest
        /\ \A k \in Steps(a) : Consent(a, k)'
    <3>1. CASE s \in sent
      <4>1. /\ a \in DOMAIN approvals /\ s.to = rows[approvals[a].row].guest
            /\ \A k \in Steps(a) : Consent(a, k)
        BY <1>2, <2>1, <3>1 DEF AgreedSoFar
      <4> QED
        BY <4>1, ConsentKept
    <3> QED
      BY <1>2, <2>1, <3>1
  <2>3. /\ approvals'[a].by = approvals[a].by /\ approvals'[a].row = approvals[a].row
        /\ a \in DOMAIN approvals' /\ approvals[a].row \in DOMAIN rows
    BY <2>2 DEF Keeps, Grows, Typed, Grounded
  <2>4. rows'[approvals'[a].row].guest = rows[approvals[a].row].guest
    BY <2>3 DEF Keeps, Grows
  <2>5. Steps(a)' = Steps(a)
    BY <2>3 DEF Steps
  <2> QED
    BY <2>1, <2>2, <2>3, <2>4, <2>5
<1> QED
  BY <1>1, <1>2 DEF AgreedSoFar

(* The calls other than the one that steps.                                  *)
LEMMA JudgingCalls ==
  ASSUME Typed, AgreedSoFar, NEW w \in Workers, NEW call,
         calls' = [calls EXCEPT ![w] = call],
         call.op \in Judging => /\ call.approval \in DOMAIN approvals
                                /\ Outsider(call.by, call.approval)
                                /\ StepsAgreed(call.approval, call.step)
  PROVE  \A v \in Workers : calls'[v].op \in Judging =>
           /\ calls'[v].approval \in DOMAIN approvals
           /\ Outsider(calls'[v].by, calls'[v].approval)
           /\ StepsAgreed(calls'[v].approval, calls'[v].step)
<1>1. \A v \in Workers : calls'[v] = IF v = w THEN call ELSE calls[v]
  BY DEF Typed, TypeOK
<1>2. \A v \in Workers : calls[v].op \in Judging =>
        /\ calls[v].approval \in DOMAIN approvals
        /\ Outsider(calls[v].by, calls[v].approval)
        /\ StepsAgreed(calls[v].approval, calls[v].step)
  BY DEF Typed, Grounded, AgreedSoFar
<1> QED
  BY <1>1, <1>2

(* A step that moves no approval forward and sends no e-mail that needed one.*)
LEMMA AgreedQuiet ==
  ASSUME Typed, AgreedSoFar, Keeps, NEW w \in Workers, NEW call,
         calls' = [calls EXCEPT ![w] = call],
         call.op \in Judging => /\ call.approval \in DOMAIN approvals
                                /\ Outsider(call.by, call.approval)
                                /\ StepsAgreed(call.approval, call.step),
         \A s \in sent' : s.approval # 0 => s \in sent,
         \A a \in DOMAIN approvals' : \/ approvals'[a].step = 0
                                      \/ /\ a \in DOMAIN approvals
                                         /\ approvals'[a].step = approvals[a].step
  PROVE  AgreedSoFar'
<1>1. ASSUME NEW a \in DOMAIN approvals' PROVE StepsAgreed(a, approvals[a].step)'
  <2>1. CASE approvals'[a].step = 0
    <3>1. \A k \in Nat : ~(k < approvals'[a].step)
      BY <2>1
    <3> QED
      BY <3>1 DEF StepsAgreed
  <2>2. CASE a \in DOMAIN approvals /\ approvals'[a].step = approvals[a].step
    <3>1. PICK n : n = approvals[a].step
      OBVIOUS
    <3>2. StepsAgreed(a, n)
      BY <2>2, <3>1 DEF AgreedSoFar
    <3>3. StepsAgreed(a, n)'
      BY <2>2, <3>2, StepsAgreedKept
    <3>4. n = approvals'[a].step
      BY <2>2, <3>1
    <3> QED
      BY <3>3, <3>4
  <2> QED
    BY <2>1, <2>2
<1>2. \A v \in Workers : calls'[v].op \in Judging =>
        /\ calls'[v].approval \in DOMAIN approvals
        /\ Outsider(calls'[v].by, calls'[v].approval)
        /\ StepsAgreed(calls'[v].approval, calls'[v].step)
  BY JudgingCalls
<1> QED
  BY <1>1, <1>2, AgreedKept

LEMMA KeepsTables ==
  ASSUME UNCHANGED <<rows, approvals>>, agreed \subseteq agreed' PROVE Keeps
BY DEF Keeps, Grows

LEMMA StepsUnmoved ==
  ASSUME UNCHANGED approvals
  PROVE  \A a \in DOMAIN approvals' : \/ approvals'[a].step = 0
                                      \/ /\ a \in DOMAIN approvals
                                         /\ approvals'[a].step = approvals[a].step
OBVIOUS

LEMMA AgreedLoad == ASSUME Typed, AgreedSoFar, NEW w \in Workers, Load(w) PROVE AgreedSoFar'
<1>1. UNCHANGED <<rows, approvals, sent, agreed>>
  BY DEF Load, Invite, Judge, Deliver, Begin
<1>2. Keeps /\ \A s \in sent' : s.approval # 0 => s \in sent
  BY <1>1, KeepsTables
<1>3. PICK call : /\ calls' = [calls EXCEPT ![w] = call]
                  /\ call.op \in Judging => /\ call.approval \in DOMAIN approvals
                                            /\ Outsider(call.by, call.approval)
                                            /\ StepsAgreed(call.approval, call.step)
  <2> DEFINE Goal == \E call :
               /\ calls' = [calls EXCEPT ![w] = call]
               /\ call.op \in Judging => /\ call.approval \in DOMAIN approvals
                                         /\ Outsider(call.by, call.approval)
                                         /\ StepsAgreed(call.approval, call.step)
  <2>1. ASSUME NEW u \in People, NEW g \in Guests, Invite(w, u, g) PROVE Goal
    <3> WITNESS [op |-> "invite", by |-> u, guest |-> g]
    <3> QED
      BY <2>1 DEF Invite, Begin, Judging
  <2>2. ASSUME NEW u \in People, NEW a \in DOMAIN approvals, NEW v \in Verdicts,
               Judge(w, u, a, v)
        PROVE  Goal
    <3>1. Outsider(u, a) /\ StepsAgreed(a, approvals[a].step)
      BY <2>2 DEF Judge, Outsider, AgreedSoFar
    <3> WITNESS [op |-> v, by |-> u, approval |-> a, step |-> approvals[a].step]
    <3> QED
      BY <2>2, <3>1 DEF Judge, Begin
  <2>3. ASSUME NEW g \in Guests, Deliver(w, g) PROVE Goal
    <3>1. PICK i : Begin(w, [op |-> "signup", guest |-> g, row |-> i])
      BY <2>3 DEF Deliver
    <3> WITNESS [op |-> "signup", guest |-> g, row |-> i]
    <3> QED
      BY <3>1 DEF Begin, Judging
  <2> QED
    BY <2>1, <2>2, <2>3 DEF Load
<1> QED
  BY <1>1, <1>2, <1>3, StepsUnmoved, AgreedQuiet

(* The steps that end a call, apart from Advance.                            *)
LEMMA AgreedEnd ==
  ASSUME Typed, AgreedSoFar, NEW w \in Workers, Finish(w), Grows,
         UNCHANGED <<sent, agreed>>,
         \A a \in DOMAIN approvals' : \/ approvals'[a].step = 0
                                      \/ /\ a \in DOMAIN approvals
                                         /\ approvals'[a].step = approvals[a].step
  PROVE  AgreedSoFar'
<1>1. calls' = [calls EXCEPT ![w] = Idle] /\ Idle.op \notin Judging
  BY DEF Finish, Goto, Idle, Judging
<1>2. Keeps /\ \A s \in sent' : s.approval # 0 => s \in sent
  BY DEF Keeps
<1> QED
  BY <1>1, <1>2, AgreedQuiet

LEMMA AgreedSendDirect ==
  ASSUME Typed, AgreedSoFar, NEW w \in Workers, SendDirect(w)
  PROVE  AgreedSoFar'
<1> DEFINE call == [calls[w] EXCEPT !.op = "inviting"]
<1>1. calls[w] \in Invitation
  BY CallTypes DEF Typed, SendDirect
<1>2. call.op \notin Judging
  BY <1>1 DEF Invitation, Judging
<1>3. calls' = [calls EXCEPT ![w] = call] /\ UNCHANGED <<rows, approvals, agreed>>
  BY DEF SendDirect, Goto
<1>4. \A s \in sent' : s.approval # 0 => s \in sent
  BY DEF SendDirect
<1> HIDE DEF call
<1>5. Keeps
  BY <1>3, KeepsTables
<1> QED
  BY <1>2, <1>3, <1>4, <1>5, StepsUnmoved, AgreedQuiet

LEMMA AgreedAdded ==
  ASSUME Typed, AgreedSoFar, NEW w \in Workers, CommitDirect(w) \/ RequestApproval(w)
  PROVE  AgreedSoFar'
<1>1. CASE CommitDirect(w)
  <2>1. calls[w].guest \in Guests
    BY <1>1, CallTypes DEF Typed, CommitDirect, Invitation
  <2>2. DOMAIN rows \subseteq DOMAIN rows' /\ \A i \in DOMAIN rows : rows'[i] = rows[i]
    BY <1>1, <2>1, NewRowType DEF CommitDirect
  <2>3. Grows
    BY <1>1, <2>2 DEF Grows, CommitDirect
  <2> QED
    BY <1>1, <2>3, StepsUnmoved, AgreedEnd DEF CommitDirect
<1>2. CASE RequestApproval(w)
  <2> DEFINE n == Len(approvals) + 1
  <2>1. /\ DOMAIN rows \subseteq DOMAIN rows'
        /\ DOMAIN approvals' = DOMAIN approvals \cup {n}
        /\ \A j \in DOMAIN rows : rows'[j] = rows[j]
        /\ approvals'[n] = [row |-> Len(rows) + 1, by |-> calls[w].by, step |-> 0,
                            status |-> "pending"]
        /\ \A a \in DOMAIN approvals : approvals'[a] = approvals[a]
    BY <1>2, RequestEffect
  <2>2. approvals'[n].step = 0
    BY <2>1
  <2> HIDE DEF n
  <2>3. Grows
    BY <2>1 DEF Grows
  <2>4. \A a \in DOMAIN approvals' : \/ approvals'[a].step = 0
                                     \/ /\ a \in DOMAIN approvals
                                        /\ approvals'[a].step = approvals[a].step
    BY <2>1, <2>2
  <2> QED
    BY <1>2, <2>3, <2>4, AgreedEnd DEF RequestApproval
<1> QED
  BY <1>1, <1>2

LEMMA AgreedReread ==
  ASSUME Typed, AgreedSoFar, NEW w \in Workers, Reread(w)
  PROVE  AgreedSoFar'
<1> DEFINE c == calls[w]
           call == [c EXCEPT !.op = IF @ = "approve" THEN "advance" ELSE "remove",
                             !.step = approvals[c.approval].step]
<1>1. c \in Verdict /\ c.approval \in DOMAIN approvals
  BY VerdictGrounded DEF Reread, Verdicts, Judging
<1>2. Outsider(c.by, c.approval) /\ StepsAgreed(c.approval, approvals[c.approval].step)
  BY <1>1 DEF AgreedSoFar, Reread, Verdicts, Judging
<1>3. /\ call.by = c.by /\ call.approval = c.approval
      /\ call.step = approvals[c.approval].step
  BY <1>1 DEF Verdict
<1>4. calls' = [calls EXCEPT ![w] = call] /\ UNCHANGED <<rows, approvals, sent, agreed>>
  BY DEF Reread, Goto
<1> HIDE DEF call
<1>5. Keeps
  BY <1>4, KeepsTables
<1> QED
  BY <1>1, <1>2, <1>3, <1>4, <1>5, StepsUnmoved, AgreedQuiet

(* The approver of the call has agreed to its step.                          *)
LEMMA AgreeConsents ==
  ASSUME Typed, AgreedSoFar, NEW w \in Workers, calls[w].op = "advance",
         Keeps, Agree(calls[w]),
         NEW a, NEW n, a = calls[w].approval, n = calls[w].step
  PROVE  /\ n \in Nat /\ a \in DOMAIN approvals
         /\ \A k \in Nat : k < n + 1 => Consent(a, k)'
<1>1. n \in Nat /\ a \in DOMAIN approvals
  BY VerdictGrounded DEF Judging, Verdict
<1>2. PICK user : user = calls[w].by
  OBVIOUS
<1>3. Outsider(user, a) /\ StepsAgreed(a, n)
  BY <1>2 DEF AgreedSoFar, Judging
<1>4. ASSUME NEW k \in Nat, k < n + 1 PROVE Consent(a, k)'
  <2>1. CASE k < n
    BY <1>1, <1>3, <2>1, ConsentKept DEF StepsAgreed
  <2>2. CASE k = n
    <3> DEFINE g == [approval |-> a, step |-> n, by |-> user]
    <3>1. g \in agreed'
      BY <1>2 DEF Agree
    <3>2. g.approval = a /\ g.step = k /\ g.by = user
      BY <2>2
    <3>3. Outsider(user, a)'
      BY <1>1, <1>3, OutsiderKept
    <3> HIDE DEF g
    <3> QED
      BY <3>1, <3>2, <3>3 DEF Consent
  <2> QED
    BY <1>1, <1>4, <2>1, <2>2
<1> QED
  BY <1>1, <1>4

LEMMA AgreedAdvance ==
  ASSUME Typed, AgreedSoFar, NEW w \in Workers, Advance(w)
  PROVE  AgreedSoFar'
<1>1. PICK a, n : a = calls[w].approval /\ n = calls[w].step
  OBVIOUS
<1>2. /\ DOMAIN approvals' = DOMAIN approvals
      /\ \A b \in DOMAIN approvals : /\ approvals'[b].row = approvals[b].row
                                     /\ approvals'[b].by = approvals[b].by
      /\ \A b \in DOMAIN approvals : b # a => approvals'[b] = approvals[b]
      /\ approvals'[a].step = n + 1
  BY <1>1, AdvanceEffect
<1>3. Keeps
  BY <1>2 DEF Keeps, Grows, Advance, Agree
<1>4. \A k \in Nat : k < n + 1 => Consent(a, k)'
  BY <1>1, <1>3, AgreeConsents DEF Advance
<1>5. ASSUME NEW b \in DOMAIN approvals' PROVE StepsAgreed(b, approvals[b].step)'
  <2>1. CASE b = a
    BY <1>2, <1>4, <2>1 DEF StepsAgreed
  <2>2. CASE b # a
    <3>1. PICK m : m = approvals[b].step /\ m = approvals'[b].step
      BY <1>2, <2>2
    <3>2. StepsAgreed(b, m)
      BY <1>2, <3>1 DEF AgreedSoFar
    <3>3. StepsAgreed(b, m)'
      BY <1>2, <1>3, <3>2, StepsAgreedKept
    <3> QED
      BY <3>1, <3>3
  <2> QED
    BY <2>1, <2>2
<1>6. calls' = [calls EXCEPT ![w] = Idle] /\ Idle.op \notin Judging
  BY DEF Advance, Finish, Goto, Idle, Judging
<1>7. \A v \in Workers : calls'[v].op \in Judging =>
        /\ calls'[v].approval \in DOMAIN approvals
        /\ Outsider(calls'[v].by, calls'[v].approval)
        /\ StepsAgreed(calls'[v].approval, calls'[v].step)
  BY <1>6, JudgingCalls
<1>8. \A s \in sent' : s.approval # 0 => s \in sent
  BY DEF Advance
<1> QED
  BY <1>3, <1>5, <1>7, <1>8, AgreedKept

(* The e-mail leaves once the last step has been agreed to: the steps before *)
(* it were counted on the row.                                               *)
LEMMA AgreedConclude ==
  ASSUME Typed, AgreedSoFar, NEW w \in Workers, Conclude(w)
  PROVE  AgreedSoFar'
<1>1. PICK a, n : a = calls[w].approval /\ n = calls[w].step
  OBVIOUS
<1>2. UNCHANGED <<rows, approvals>> /\ agreed \subseteq agreed'
  BY DEF Conclude, Agree
<1>3. Keeps
  BY <1>2, KeepsTables
<1>4. n \in Nat /\ a \in DOMAIN approvals /\ \A k \in Nat : k < n + 1 => Consent(a, k)'
  BY <1>1, <1>3, AgreeConsents DEF Conclude
<1>5. ASSUME NEW k \in Steps(a) PROVE Consent(a, k)'
  <2> DEFINE last == Len(Path(approvals[a].by)) - 1
  <2>1. approvals[a].by \in People
    <3>1. approvals[a] \in Approval
      BY <1>4 DEF Typed, TypeOK
    <3> QED
      BY <3>1 DEF Approval
  <2>2. last \in Int
    BY <2>1, PathAssumption
  <2>3. n >= last
    BY <1>1 DEF Conclude, IsLast
  <2>4. k \in 0 .. last
    BY DEF Steps
  <2> HIDE DEF last
  <2>5. k \in Nat /\ k < n + 1
    BY <1>4, <2>2, <2>3, <2>4
  <2> QED
    BY <1>4, <2>5
<1>6. ASSUME NEW s \in sent', s.approval # 0
      PROVE  \/ s \in sent
             \/ /\ s.approval \in DOMAIN approvals
                /\ s.to = rows[approvals[s.approval].row].guest
                /\ \A k \in Steps(s.approval) : Consent(s.approval, k)'
  <2>1. CASE s \in sent
    BY <2>1
  <2>2. CASE s = [to |-> rows[approvals[a].row].guest, approval |-> a]
    <3>1. s.approval = a /\ s.to = rows[approvals[a].row].guest
      BY <2>2
    <3> QED
      BY <1>4, <1>5, <3>1
  <2> QED
    BY <1>1, <2>1, <2>2 DEF Conclude
<1>7. ASSUME NEW b \in DOMAIN approvals' PROVE StepsAgreed(b, approvals[b].step)'
  <2>1. PICK m : m = approvals[b].step /\ m = approvals'[b].step
    BY <1>2
  <2>2. StepsAgreed(b, m)
    BY <1>2, <2>1 DEF AgreedSoFar
  <2>3. StepsAgreed(b, m)'
    BY <1>2, <1>3, <2>2, StepsAgreedKept
  <2> QED
    BY <2>1, <2>3
<1>8. \A v \in Workers : calls'[v].op \in Judging =>
        /\ calls'[v].approval \in DOMAIN approvals
        /\ Outsider(calls'[v].by, calls'[v].approval)
        /\ StepsAgreed(calls'[v].approval, calls'[v].step)
  <2> DEFINE c == calls[w]
             call == [c EXCEPT !.op = "concluding"]
  <2>1. c \in Verdict /\ c.approval \in DOMAIN approvals
    BY VerdictGrounded DEF Conclude, Judging
  <2>2. Outsider(c.by, c.approval) /\ StepsAgreed(c.approval, c.step)
    BY DEF AgreedSoFar, Conclude, Judging
  <2>3. call.by = c.by /\ call.approval = c.approval /\ call.step = c.step
    BY <2>1 DEF Verdict
  <2>4. calls' = [calls EXCEPT ![w] = call]
    BY DEF Conclude, Goto
  <2> HIDE DEF call
  <2> QED
    BY <2>1, <2>2, <2>3, <2>4, JudgingCalls
<1> QED
  BY <1>3, <1>6, <1>7, <1>8, AgreedKept

LEMMA AgreedSettled ==
  ASSUME Typed, AgreedSoFar, NEW w \in Workers, CommitConclusion(w) \/ Remove(w)
  PROVE  AgreedSoFar'
<1> DEFINE a == calls[w].approval
<1>1. /\ DOMAIN approvals' = DOMAIN approvals
      /\ \A b \in DOMAIN approvals : /\ approvals'[b].row = approvals[b].row
                                     /\ approvals'[b].by = approvals[b].by
      /\ \A b \in DOMAIN approvals : b # a => approvals'[b] = approvals[b]
      /\ approvals'[a].step = approvals[a].step
  BY CommitEffect, RemoveEffect
<1>2. DOMAIN rows' = DOMAIN rows /\ \A j \in DOMAIN rows : rows'[j].guest = rows[j].guest
  BY RemoveEffect DEF CommitConclusion
<1> HIDE DEF a
<1>3. Grows
  BY <1>1, <1>2 DEF Grows
<1>4. \A b \in DOMAIN approvals' : \/ approvals'[b].step = 0
                                   \/ /\ b \in DOMAIN approvals
                                      /\ approvals'[b].step = approvals[b].step
  BY <1>1
<1> QED
  BY <1>3, <1>4, AgreedEnd DEF CommitConclusion, Remove

LEMMA AgreedSignUp ==
  ASSUME Typed, AgreedSoFar, NEW w \in Workers, Link(w) \/ Found(w) \/ Rollback(w)
  PROVE  AgreedSoFar'
<1>1. CASE Link(w)
  <2>1. DOMAIN rows' = DOMAIN rows /\ \A j \in DOMAIN rows : rows'[j].guest = rows[j].guest
    BY <1>1, LinkEffect
  <2>2. Grows
    BY <1>1, <2>1 DEF Grows, Link
  <2> QED
    BY <1>1, <2>2, StepsUnmoved, AgreedEnd DEF Link
<1>2. CASE Found(w) \/ Rollback(w)
  <2>1. Grows
    BY <1>2 DEF Grows, Found, Rollback
  <2> QED
    BY <1>2, <2>1, StepsUnmoved, AgreedEnd DEF Found, Rollback
<1> QED
  BY <1>1, <1>2

LEMMA AgreedAdminister ==
  ASSUME Typed, AgreedSoFar, NEW i, Administer(i)
  PROVE  AgreedSoFar'
<1>1. PICK status \in Assignable, archived \in BOOLEAN :
        i \in Present /\ Edit(i, status, archived)
  BY AdministerIsEdit
<1>2. status \in Statuses
  BY DEF Statuses
<1>3. DOMAIN rows' = DOMAIN rows /\ \A j \in DOMAIN rows : rows'[j].guest = rows[j].guest
  BY <1>1, <1>2, EditEffect
<1>4. UNCHANGED <<approvals, sent, agreed, calls>>
  BY <1>1 DEF Edit
<1>5. Keeps
  BY <1>3, <1>4 DEF Keeps, Grows
<1>6. ASSUME NEW b \in DOMAIN approvals' PROVE StepsAgreed(b, approvals[b].step)'
  <2>1. PICK m : m = approvals[b].step /\ m = approvals'[b].step
    BY <1>4
  <2>2. StepsAgreed(b, m)
    BY <1>4, <2>1 DEF AgreedSoFar
  <2>3. StepsAgreed(b, m)'
    BY <1>4, <1>5, <2>2, StepsAgreedKept
  <2> QED
    BY <2>1, <2>3
<1>7. \A v \in Workers : calls'[v].op \in Judging =>
        /\ calls'[v].approval \in DOMAIN approvals
        /\ Outsider(calls'[v].by, calls'[v].approval)
        /\ StepsAgreed(calls'[v].approval, calls'[v].step)
  BY <1>4 DEF Typed, Grounded, AgreedSoFar
<1> QED
  BY <1>4, <1>5, <1>6, <1>7, AgreedKept

LEMMA AgreedStep == ASSUME Typed, AgreedSoFar, NEW w \in Workers, Step(w) PROVE AgreedSoFar'
BY AgreedSendDirect, AgreedAdded, AgreedReread, AgreedAdvance, AgreedConclude,
   AgreedSettled, AgreedSignUp DEF Step

LEMMA AgreedNext == Typed /\ AgreedSoFar /\ [Next]_vars => AgreedSoFar'
<1> SUFFICES ASSUME Typed, AgreedSoFar, [Next]_vars PROVE AgreedSoFar'
  OBVIOUS
<1>1. CASE UNCHANGED vars
  <2> USE <1>1 DEF vars
  <2>1. \A user, a : Outsider(user, a)' <=> Outsider(user, a)
    BY DEF Outsider
  <2>2. \A a, k : Consent(a, k)' <=> Consent(a, k)
    BY <2>1 DEF Consent
  <2>3. \A a, step : StepsAgreed(a, step)' <=> StepsAgreed(a, step)
    BY <2>2 DEF StepsAgreed
  <2>4. \A a : Steps(a)' = Steps(a)
    BY DEF Steps
  <2> QED
    BY <2>1, <2>2, <2>3, <2>4 DEF AgreedSoFar
<1>2. CASE Next
  BY <1>2, AgreedLoad, AgreedStep, AgreedAdminister DEF Next
<1> QED
  BY <1>1, <1>2

LEMMA AgreedAlways == Spec => []AgreedSoFar
<1>1. Init => AgreedSoFar
  BY DEF Init, AgreedSoFar, Idle, Judging
<1> QED
  BY <1>1, TypedAlways, AgreedNext, PTL DEF Spec

(* Whatever two approvers of the same step overwrite, Clerk's e-mail for an  *)
(* invitation that needs approval leaves after somebody other than inviter   *)
(* and invited person agreed to each step: advanceApproval counts a step only*)
(* from the row it read, never ahead of it.                                  *)
THEOREM SentInvitationsWereAgreed == Spec => []SentWasAgreed
BY AgreedAlways, AgreedImplies, PTL

-----------------------------------------------------------------------------
(* Calls that do not overlap.  What a call has read is still so when it acts *)
(* on it: an approval is undecided and waits for the step the call decides,  *)
(* the user has the role that step asks for, and a seat is free for whoever  *)
(* is invited.                                                               *)
AtMostOne(S) == \A x, y \in S : x = y

CallHolds(call) ==
  /\ call.op \in Judging => /\ Undecided(call.approval)
                            /\ call.step = approvals[call.approval].step
                            /\ Qualifies(call.by, call.approval, call.step)
  /\ call.op \in {"invite", "inviting"} => Seats < MaxUsers

\* Somebody with the role step k of approval a asks for agreed to it.
Endorsed(a, k) ==
  \E g \in agreed : g.approval = a /\ g.step = k /\ Qualifies(g.by, a, k)

StepsEndorsed ==
  /\ \A a \in DOMAIN approvals : \A k \in Nat : k < approvals[a].step => Endorsed(a, k)
  /\ \A s \in sent : s.approval # 0 =>
       /\ s.approval \in DOMAIN approvals
       /\ \A k \in Steps(s.approval) : Endorsed(s.approval, k)

SerialInv ==
  slots = 1 => /\ AtMostOne(InFlight)
               /\ \A w \in Workers : CallHolds(calls[w])
               /\ StepsEndorsed

Serial == Typed /\ slots = 1 /\ SerialInv

LEMMA FewAreFinite ==
  ASSUME NEW S, AtMostOne(S)
  PROVE  IsFiniteSet(S) /\ Cardinality(S) \in {0, 1} /\ (Cardinality(S) = 0 => S = {})
<1>1. CASE S = {}
  BY <1>1, FS_EmptySet
<1>2. ASSUME NEW x \in S PROVE S = {x}
  BY <1>2 DEF AtMostOne
<1>3. ASSUME NEW x \in S
      PROVE  IsFiniteSet(S) /\ Cardinality(S) = 1
  BY <1>2, <1>3, FS_Singleton
<1> QED
  BY <1>1, <1>3

LEMMA AllIdle ==
  ASSUME Serial, SlotIsFree
  PROVE  \A w \in Workers : calls[w] = Idle
<1>1. Cardinality(InFlight) \in {0, 1} /\ (Cardinality(InFlight) = 0 => InFlight = {})
  BY FewAreFinite DEF Serial, SerialInv
<1>2. Cardinality(InFlight) < 1
  BY DEF Serial, SlotIsFree
<1>3. InFlight = {}
  BY <1>1, <1>2
<1> QED
  BY <1>3 DEF InFlight

LEMMA OthersIdle ==
  ASSUME Serial, NEW w \in Workers, calls[w].op # "idle"
  PROVE  /\ \A v \in Workers : v # w => calls[v] = Idle
         /\ CallHolds(calls[w])
<1>1. w \in InFlight
  BY DEF InFlight, Idle
<1> QED
  BY <1>1 DEF Serial, SerialInv, AtMostOne, InFlight

(* The call that steps is the only one before and after.                     *)
LEMMA SerialKept ==
  ASSUME Serial, NEW w \in Workers, NEW call, calls' = [calls EXCEPT ![w] = call],
         \A v \in Workers : v # w => calls[v] = Idle,
         CallHolds(call)', StepsEndorsed'
  PROVE  SerialInv'
<1>1. /\ calls'[w] = call
      /\ \A v \in Workers : v # w => calls'[v] = Idle
  BY DEF Serial, Typed, TypeOK
<1>2. AtMostOne(InFlight')
  BY <1>1 DEF AtMostOne, InFlight
<1>3. CallHolds(Idle)'
  BY DEF CallHolds, Idle, Judging
<1>4. ASSUME NEW v \in Workers PROVE CallHolds(calls[v])'
  <2>1. CASE v = w
    <3>1. calls'[v] = call
      BY <1>1, <2>1
    <3> QED
      BY <3>1 DEF CallHolds
  <2>2. CASE v # w
    <3>1. calls'[v] = Idle
      BY <1>1, <2>2
    <3> QED
      BY <1>3, <3>1
  <2> QED
    BY <2>1, <2>2
<1> QED
  BY <1>2, <1>4 DEF SerialInv, AtMostOne, InFlight

LEMMA EndorsedKept ==
  ASSUME Keeps, NEW a \in DOMAIN approvals, NEW k, Endorsed(a, k)
  PROVE  Endorsed(a, k)'
<1>1. PICK g \in agreed : g.approval = a /\ g.step = k /\ Qualifies(g.by, a, k)
  BY DEF Endorsed
<1>2. g \in agreed' /\ approvals'[a].by = approvals[a].by
  BY DEF Keeps, Grows
<1>3. Qualifies(g.by, a, k)'
  BY <1>1, <1>2 DEF Qualifies
<1> QED
  BY <1>1, <1>2, <1>3 DEF Endorsed

(* A step that moves no approval forward and sends no e-mail that needed one.*)
LEMMA EndorsedQuiet ==
  ASSUME StepsEndorsed, Keeps,
         \A s \in sent' : s.approval # 0 => s \in sent,
         \A a \in DOMAIN approvals' : \/ approvals'[a].step = 0
                                      \/ /\ a \in DOMAIN approvals
                                         /\ approvals'[a].step = approvals[a].step
  PROVE  StepsEndorsed'
<1>1. ASSUME NEW a \in DOMAIN approvals', NEW k \in Nat, k < approvals'[a].step
      PROVE  Endorsed(a, k)'
  <2>1. approvals'[a].step # 0
    BY <1>1
  <2>2. a \in DOMAIN approvals /\ k < approvals[a].step
    BY <1>1, <2>1
  <2>3. Endorsed(a, k)
    BY <2>2 DEF StepsEndorsed
  <2> QED
    BY <2>2, <2>3, EndorsedKept
<1>2. ASSUME NEW s \in sent', s.approval # 0
      PROVE  /\ s.approval \in DOMAIN approvals'
             /\ \A k \in Steps(s.approval)' : Endorsed(s.approval, k)'
  <2>1. PICK a : a = s.approval
    OBVIOUS
  <2>2. a \in DOMAIN approvals /\ \A k \in Steps(a) : Endorsed(a, k)
    BY <1>2, <2>1 DEF StepsEndorsed
  <2>3. a \in DOMAIN approvals' /\ Steps(a)' = Steps(a)
    BY <2>2 DEF Keeps, Grows, Steps
  <2>4. \A k \in Steps(a) : Endorsed(a, k)'
    BY <2>2, EndorsedKept
  <2> QED
    BY <2>1, <2>3, <2>4
<1> QED
  BY <1>1, <1>2 DEF StepsEndorsed

LEMMA SerialInit == Init => SerialInv
<1> SUFFICES ASSUME Init PROVE SerialInv
  OBVIOUS
<1>1. InFlight = {}
  BY DEF Init, InFlight
<1> QED
  BY <1>1 DEF Init, SerialInv, AtMostOne, CallHolds, StepsEndorsed, Idle, Judging

LEMMA SerialLoad == ASSUME Serial, NEW w \in Workers, Load(w) PROVE SerialInv'
<1>1. /\ SlotIsFree /\ UNCHANGED <<rows, approvals, sent, agreed>>
  BY DEF Load, Invite, Judge, Deliver, Begin
<1>2. \A v \in Workers : calls[v] = Idle
  BY <1>1, AllIdle
<1>3. StepsEndorsed'
  <2>1. Keeps /\ \A s \in sent' : s.approval # 0 => s \in sent
    BY <1>1, KeepsTables
  <2> QED
    BY <1>1, <2>1, StepsUnmoved, EndorsedQuiet DEF Serial, SerialInv
<1>4. ASSUME NEW u \in People, NEW g \in Guests, Invite(w, u, g) PROVE SerialInv'
  <2>1. PICK call : call = [op |-> "invite", by |-> u, guest |-> g]
    OBVIOUS
  <2>2. Seats' < MaxUsers
    BY <1>1, <1>4 DEF Invite, Seats, Seated, Present
  <2>3. CallHolds(call)'
    BY <2>1, <2>2 DEF CallHolds, Judging
  <2>4. calls' = [calls EXCEPT ![w] = call]
    BY <1>4, <2>1 DEF Invite, Begin
  <2> QED
    BY <1>2, <1>3, <2>3, <2>4, SerialKept
<1>5. ASSUME NEW u \in People, NEW a \in DOMAIN approvals, NEW v \in Verdicts,
             Judge(w, u, a, v)
      PROVE  SerialInv'
  <2>1. PICK call : call = [op |-> v, by |-> u, approval |-> a,
                            step |-> approvals[a].step]
    OBVIOUS
  <2>2. Undecided(a)' /\ Qualifies(u, a, approvals[a].step)'
    BY <1>1, <1>5 DEF Judge, Undecided, Qualifies
  <2>3. CallHolds(call)'
    BY <1>1, <2>1, <2>2 DEF CallHolds, Verdicts
  <2>4. calls' = [calls EXCEPT ![w] = call]
    BY <1>5, <2>1 DEF Judge, Begin
  <2> QED
    BY <1>2, <1>3, <2>3, <2>4, SerialKept
<1>6. ASSUME NEW g \in Guests, Deliver(w, g) PROVE SerialInv'
  <2>1. PICK i : Begin(w, [op |-> "signup", guest |-> g, row |-> i])
    BY <1>6 DEF Deliver
  <2>2. PICK call : call = [op |-> "signup", guest |-> g, row |-> i]
    OBVIOUS
  <2>3. CallHolds(call)'
    BY <2>2 DEF CallHolds, Judging
  <2>4. calls' = [calls EXCEPT ![w] = call]
    BY <2>1, <2>2 DEF Begin
  <2> QED
    BY <1>2, <1>3, <2>3, <2>4, SerialKept
<1> QED
  BY <1>4, <1>5, <1>6 DEF Load

(* The steps that end a call, apart from Advance.                            *)
LEMMA SerialEnd ==
  ASSUME Serial, NEW w \in Workers, Finish(w), calls[w].op # "idle", Grows,
         UNCHANGED <<sent, agreed>>,
         \A a \in DOMAIN approvals' : \/ approvals'[a].step = 0
                                      \/ /\ a \in DOMAIN approvals
                                         /\ approvals'[a].step = approvals[a].step
  PROVE  SerialInv'
<1>1. calls' = [calls EXCEPT ![w] = Idle] /\ CallHolds(Idle)'
  BY DEF Finish, Goto, Idle, CallHolds, Judging
<1>2. StepsEndorsed'
  BY EndorsedQuiet DEF Keeps, Serial, SerialInv
<1> QED
  BY <1>1, <1>2, OthersIdle, SerialKept

LEMMA SerialSendDirect ==
  ASSUME Serial, NEW w \in Workers, SendDirect(w)
  PROVE  SerialInv'
<1>1. PICK call : call = [calls[w] EXCEPT !.op = "inviting"]
  OBVIOUS
<1>2. calls[w] \in Invitation
  BY CallTypes DEF Serial, Typed, SendDirect
<1>3. /\ calls' = [calls EXCEPT ![w] = call] /\ UNCHANGED <<rows, approvals, agreed>>
      /\ \A s \in sent' : s.approval # 0 => s \in sent
  BY <1>1 DEF SendDirect, Goto
<1>4. Seats < MaxUsers /\ \A v \in Workers : v # w => calls[v] = Idle
  BY OthersIdle DEF SendDirect, CallHolds
<1>5. Seats' = Seats
  BY <1>3 DEF Seats, Seated, Present
<1>6. CallHolds(call)'
  BY <1>1, <1>2, <1>4, <1>5 DEF CallHolds, Invitation, Judging
<1>7. StepsEndorsed'
  BY <1>3, KeepsTables, StepsUnmoved, EndorsedQuiet DEF Serial, SerialInv
<1> QED
  BY <1>3, <1>4, <1>6, <1>7, SerialKept

LEMMA SerialAdded ==
  ASSUME Serial, NEW w \in Workers, CommitDirect(w) \/ RequestApproval(w)
  PROVE  SerialInv'
<1>1. CASE CommitDirect(w)
  <2>1. calls[w].guest \in Guests
    BY <1>1, CallTypes DEF Serial, Typed, CommitDirect, Invitation
  <2>2. DOMAIN rows \subseteq DOMAIN rows' /\ \A i \in DOMAIN rows : rows'[i] = rows[i]
    BY <1>1, <2>1, NewRowType DEF CommitDirect, Serial
  <2>3. Grows
    BY <1>1, <2>2 DEF Grows, CommitDirect
  <2> QED
    BY <1>1, <2>3, StepsUnmoved, SerialEnd DEF CommitDirect
<1>2. CASE RequestApproval(w)
  <2> DEFINE n == Len(approvals) + 1
  <2>1. /\ DOMAIN rows \subseteq DOMAIN rows'
        /\ DOMAIN approvals' = DOMAIN approvals \cup {n}
        /\ \A j \in DOMAIN rows : rows'[j] = rows[j]
        /\ approvals'[n] = [row |-> Len(rows) + 1, by |-> calls[w].by, step |-> 0,
                            status |-> "pending"]
        /\ \A a \in DOMAIN approvals : approvals'[a] = approvals[a]
    BY <1>2, RequestEffect DEF Serial
  <2>2. approvals'[n].step = 0
    BY <2>1
  <2> HIDE DEF n
  <2>3. Grows
    BY <2>1 DEF Grows
  <2>4. \A a \in DOMAIN approvals' : \/ approvals'[a].step = 0
                                     \/ /\ a \in DOMAIN approvals
                                        /\ approvals'[a].step = approvals[a].step
    BY <2>1, <2>2
  <2> QED
    BY <1>2, <2>3, <2>4, SerialEnd DEF RequestApproval
<1> QED
  BY <1>1, <1>2

LEMMA SerialReread ==
  ASSUME Serial, NEW w \in Workers, Reread(w)
  PROVE  SerialInv'
<1>1. PICK call : call = [calls[w] EXCEPT
                            !.op = IF @ = "approve" THEN "advance" ELSE "remove",
                            !.step = approvals[calls[w].approval].step]
  OBVIOUS
<1>2. calls[w] \in Verdict
  BY VerdictGrounded DEF Serial, Reread, Verdicts, Judging
<1>3. calls' = [calls EXCEPT ![w] = call] /\ UNCHANGED <<rows, approvals, sent, agreed>>
  BY <1>1 DEF Reread, Goto
<1>4. /\ \A v \in Workers : v # w => calls[v] = Idle
      /\ calls[w].op \in Judging => /\ Undecided(calls[w].approval)
                                    /\ calls[w].step = approvals[calls[w].approval].step
                                    /\ Qualifies(calls[w].by, calls[w].approval, calls[w].step)
  BY OthersIdle DEF Reread, Verdicts, CallHolds
<1>5. PICK a, user, n : a = calls[w].approval /\ user = calls[w].by /\ n = calls[w].step
  OBVIOUS
<1>6. /\ call.op \in {"advance", "remove"}
      /\ call.approval = a /\ call.by = user /\ call.step = approvals[a].step
  BY <1>1, <1>2, <1>5 DEF Verdict
<1>7. Undecided(a)' /\ Qualifies(user, a, n)' /\ n = approvals'[a].step
  BY <1>3, <1>4, <1>5 DEF Reread, Verdicts, Judging, Undecided, Qualifies
<1>8. CallHolds(call)'
  BY <1>3, <1>6, <1>7 DEF CallHolds
<1>9. StepsEndorsed'
  BY <1>3, KeepsTables, StepsUnmoved, EndorsedQuiet DEF Serial, SerialInv
<1> QED
  BY <1>3, <1>4, <1>8, <1>9, SerialKept

(* Whoever decides a step has the role it asks for.                          *)
LEMMA AgreeEndorses ==
  ASSUME Serial, NEW w \in Workers, calls[w].op = "advance", Keeps, Agree(calls[w]),
         NEW a, NEW n, a = calls[w].approval, n = calls[w].step
  PROVE  /\ n \in Nat /\ a \in DOMAIN approvals /\ n = approvals[a].step
         /\ Undecided(a) /\ Qualifies(calls[w].by, a, n)
         /\ \A v \in Workers : v # w => calls[v] = Idle
         /\ \A k \in Nat : k < n + 1 => Endorsed(a, k)'
<1>1. n \in Nat /\ a \in DOMAIN approvals
  BY VerdictGrounded DEF Serial, Judging, Verdict
<1>2. PICK user : user = calls[w].by
  OBVIOUS
<1>3. /\ n = approvals[a].step /\ Undecided(a) /\ Qualifies(user, a, n)
      /\ \A v \in Workers : v # w => calls[v] = Idle
  BY <1>2, OthersIdle DEF CallHolds, Judging
<1>4. ASSUME NEW k \in Nat, k < n + 1 PROVE Endorsed(a, k)'
  <2>1. CASE k < n
    <3>1. Endorsed(a, k)
      BY <1>1, <1>3, <2>1 DEF Serial, SerialInv, StepsEndorsed
    <3> QED
      BY <1>1, <3>1, EndorsedKept
  <2>2. CASE k = n
    <3> DEFINE g == [approval |-> a, step |-> n, by |-> user]
    <3>1. g \in agreed'
      BY <1>2 DEF Agree
    <3>2. g.approval = a /\ g.step = k /\ g.by = user
      BY <2>2
    <3>3. approvals'[a].by = approvals[a].by
      BY <1>1 DEF Keeps, Grows
    <3>4. Qualifies(user, a, k)'
      BY <1>3, <2>2, <3>3 DEF Qualifies
    <3> HIDE DEF g
    <3> QED
      BY <3>1, <3>2, <3>4 DEF Endorsed
  <2> QED
    BY <1>1, <1>4, <2>1, <2>2
<1> QED
  BY <1>1, <1>2, <1>3, <1>4

LEMMA SerialAdvance ==
  ASSUME Serial, NEW w \in Workers, Advance(w)
  PROVE  SerialInv'
<1>1. PICK a, n : a = calls[w].approval /\ n = calls[w].step
  OBVIOUS
<1>2. /\ DOMAIN approvals' = DOMAIN approvals
      /\ \A b \in DOMAIN approvals : /\ approvals'[b].row = approvals[b].row
                                     /\ approvals'[b].by = approvals[b].by
      /\ \A b \in DOMAIN approvals : b # a => approvals'[b] = approvals[b]
      /\ approvals'[a].step = n + 1
  BY <1>1, AdvanceEffect DEF Serial
<1>3. Keeps
  BY <1>2 DEF Keeps, Grows, Advance, Agree
<1>4. /\ \A k \in Nat : k < n + 1 => Endorsed(a, k)'
      /\ \A v \in Workers : v # w => calls[v] = Idle
  BY <1>1, <1>3, AgreeEndorses DEF Advance
<1>5. ASSUME NEW b \in DOMAIN approvals', NEW k \in Nat, k < approvals'[b].step
      PROVE  Endorsed(b, k)'
  <2>1. CASE b = a
    BY <1>2, <1>4, <1>5, <2>1
  <2>2. CASE b # a
    <3>1. b \in DOMAIN approvals /\ k < approvals[b].step
      BY <1>2, <1>5, <2>2
    <3>2. Endorsed(b, k)
      BY <3>1 DEF Serial, SerialInv, StepsEndorsed
    <3> QED
      BY <1>3, <3>1, <3>2, EndorsedKept
  <2> QED
    BY <2>1, <2>2
<1>6. ASSUME NEW s \in sent', s.approval # 0
      PROVE  /\ s.approval \in DOMAIN approvals'
             /\ \A k \in Steps(s.approval)' : Endorsed(s.approval, k)'
  <2>1. PICK b : b = s.approval
    OBVIOUS
  <2>2. b \in DOMAIN approvals /\ \A k \in Steps(b) : Endorsed(b, k)
    BY <1>6, <2>1 DEF Serial, SerialInv, StepsEndorsed, Advance
  <2>3. b \in DOMAIN approvals' /\ Steps(b)' = Steps(b)
    BY <1>2, <2>2 DEF Steps
  <2>4. \A k \in Steps(b) : Endorsed(b, k)'
    BY <1>3, <2>2, EndorsedKept
  <2> QED
    BY <2>1, <2>3, <2>4
<1>7. StepsEndorsed'
  BY <1>5, <1>6 DEF StepsEndorsed
<1>8. calls' = [calls EXCEPT ![w] = Idle] /\ CallHolds(Idle)'
  BY DEF Advance, Finish, Goto, Idle, CallHolds, Judging
<1> QED
  BY <1>4, <1>7, <1>8, SerialKept

LEMMA SerialConclude ==
  ASSUME Serial, NEW w \in Workers, Conclude(w)
  PROVE  SerialInv'
<1>1. PICK a, n, user, call : /\ a = calls[w].approval /\ n = calls[w].step
                              /\ user = calls[w].by
                              /\ call = [calls[w] EXCEPT !.op = "concluding"]
  OBVIOUS
<1>2. UNCHANGED <<rows, approvals>> /\ agreed \subseteq agreed'
      /\ calls' = [calls EXCEPT ![w] = call]
  BY <1>1 DEF Conclude, Agree, Goto
<1>3. Keeps
  BY <1>2, KeepsTables
<1>4. /\ n \in Nat /\ a \in DOMAIN approvals /\ n = approvals[a].step
      /\ Undecided(a) /\ Qualifies(user, a, n)
      /\ \A v \in Workers : v # w => calls[v] = Idle
      /\ \A k \in Nat : k < n + 1 => Endorsed(a, k)'
  BY <1>1, <1>3, AgreeEndorses DEF Conclude
<1>5. ASSUME NEW k \in Steps(a) PROVE Endorsed(a, k)'
  <2> DEFINE last == Len(Path(approvals[a].by)) - 1
  <2>1. approvals[a].by \in People
    <3>1. approvals[a] \in Approval
      BY <1>4 DEF Serial, Typed, TypeOK
    <3> QED
      BY <3>1 DEF Approval
  <2>2. last \in Int
    BY <2>1, PathAssumption
  <2>3. n >= last
    BY <1>1 DEF Conclude, IsLast
  <2>4. k \in 0 .. last
    BY DEF Steps
  <2> HIDE DEF last
  <2>5. k \in Nat /\ k < n + 1
    BY <1>4, <2>2, <2>3, <2>4
  <2> QED
    BY <1>4, <2>5
<1>6. ASSUME NEW b \in DOMAIN approvals', NEW k \in Nat, k < approvals'[b].step
      PROVE  Endorsed(b, k)'
  <2>1. b \in DOMAIN approvals /\ Endorsed(b, k)
    BY <1>2, <1>6 DEF Serial, SerialInv, StepsEndorsed
  <2> QED
    BY <1>3, <2>1, EndorsedKept
<1>7. ASSUME NEW s \in sent', s.approval # 0
      PROVE  /\ s.approval \in DOMAIN approvals'
             /\ \A k \in Steps(s.approval)' : Endorsed(s.approval, k)'
  <2>1. PICK b : b = s.approval
    OBVIOUS
  <2>2. b \in DOMAIN approvals /\ \A k \in Steps(b) : Endorsed(b, k)'
    <3>1. CASE s \in sent
      <4>1. b \in DOMAIN approvals /\ \A k \in Steps(b) : Endorsed(b, k)
        BY <1>7, <2>1, <3>1 DEF Serial, SerialInv, StepsEndorsed
      <4> QED
        BY <1>3, <4>1, EndorsedKept
    <3>2. CASE s = [to |-> rows[approvals[a].row].guest, approval |-> a]
      <4>1. b = a
        BY <2>1, <3>2
      <4> QED
        BY <1>4, <1>5, <4>1
    <3> QED
      BY <1>1, <3>1, <3>2 DEF Conclude
  <2>3. b \in DOMAIN approvals' /\ Steps(b)' = Steps(b)
    BY <1>2, <2>2 DEF Steps
  <2> QED
    BY <2>1, <2>2, <2>3
<1>8. StepsEndorsed'
  BY <1>6, <1>7 DEF StepsEndorsed
<1>9. CallHolds(call)'
  <2>1. calls[w] \in Verdict
    BY VerdictGrounded DEF Serial, Conclude, Judging
  <2>2. /\ call.op = "concluding" /\ call.approval = a /\ call.step = n /\ call.by = user
    BY <1>1, <2>1 DEF Verdict
  <2>3. Undecided(a)' /\ Qualifies(user, a, n)' /\ n = approvals'[a].step
    BY <1>2, <1>4 DEF Undecided, Qualifies
  <2> QED
    BY <2>2, <2>3 DEF CallHolds
<1> QED
  BY <1>2, <1>4, <1>8, <1>9, SerialKept

LEMMA SerialSettled ==
  ASSUME Serial, NEW w \in Workers, CommitConclusion(w) \/ Remove(w)
  PROVE  SerialInv'
<1> DEFINE a == calls[w].approval
<1>1. /\ DOMAIN approvals' = DOMAIN approvals
      /\ \A b \in DOMAIN approvals : /\ approvals'[b].row = approvals[b].row
                                     /\ approvals'[b].by = approvals[b].by
      /\ \A b \in DOMAIN approvals : b # a => approvals'[b] = approvals[b]
      /\ approvals'[a].step = approvals[a].step
  BY CommitEffect, RemoveEffect DEF Serial
<1>2. DOMAIN rows' = DOMAIN rows /\ \A j \in DOMAIN rows : rows'[j].guest = rows[j].guest
  BY RemoveEffect DEF CommitConclusion, Serial
<1> HIDE DEF a
<1>3. Grows
  BY <1>1, <1>2 DEF Grows
<1>4. \A b \in DOMAIN approvals' : \/ approvals'[b].step = 0
                                   \/ /\ b \in DOMAIN approvals
                                      /\ approvals'[b].step = approvals[b].step
  BY <1>1
<1> QED
  BY <1>3, <1>4, SerialEnd DEF CommitConclusion, Remove

LEMMA SerialSignUp ==
  ASSUME Serial, NEW w \in Workers, Link(w) \/ Found(w) \/ Rollback(w)
  PROVE  SerialInv'
<1>1. CASE Link(w)
  <2>1. DOMAIN rows' = DOMAIN rows /\ \A j \in DOMAIN rows : rows'[j].guest = rows[j].guest
    BY <1>1, LinkEffect DEF Serial
  <2>2. Grows
    BY <1>1, <2>1 DEF Grows, Link
  <2> QED
    BY <1>1, <2>2, StepsUnmoved, SerialEnd DEF Link
<1>2. CASE Found(w) \/ Rollback(w)
  <2>1. Grows
    BY <1>2 DEF Grows, Found, Rollback
  <2>2. calls[w].op # "idle"
    BY <1>2 DEF Found, Rollback, Serial, Typed, TypeOK, Idle, Invitation, Verdict, SignUp
  <2> QED
    BY <1>2, <2>1, <2>2, StepsUnmoved, SerialEnd DEF Found, Rollback
<1> QED
  BY <1>1, <1>2

LEMMA SerialStep == ASSUME Serial, NEW w \in Workers, Step(w) PROVE SerialInv'
BY SerialSendDirect, SerialAdded, SerialReread, SerialAdvance, SerialConclude,
   SerialSettled, SerialSignUp DEF Step

LEMMA SerialAdminister == ASSUME Serial, NEW i, Administer(i) PROVE SerialInv'
<1>1. PICK status \in Assignable, archived \in BOOLEAN :
        i \in Present /\ Edit(i, status, archived)
  BY AdministerIsEdit
<1>2. status \in Statuses
  BY DEF Statuses
<1>3. DOMAIN rows' = DOMAIN rows /\ \A j \in DOMAIN rows : rows'[j].guest = rows[j].guest
  BY <1>1, <1>2, EditEffect DEF Serial
<1>4. UNCHANGED <<approvals, sent, agreed, calls>> /\ SlotIsFree
  BY <1>1 DEF Edit
<1>5. Keeps
  BY <1>3, <1>4 DEF Keeps, Grows
<1>6. StepsEndorsed'
  BY <1>4, <1>5, StepsUnmoved, EndorsedQuiet DEF Serial, SerialInv
<1>7. \A v \in Workers : calls'[v] = Idle
  BY <1>4, AllIdle
<1>8. AtMostOne(InFlight')
  BY <1>7 DEF AtMostOne, InFlight
<1>9. \A v \in Workers : CallHolds(calls[v])'
  BY <1>7 DEF CallHolds, Idle, Judging
<1> QED
  BY <1>6, <1>8, <1>9 DEF SerialInv, AtMostOne, InFlight

LEMMA SlotsStay == [Next]_vars => UNCHANGED slots
<1>1. ASSUME NEW w \in Workers, Load(w) PROVE UNCHANGED slots
  BY <1>1 DEF Load, Invite, Judge, Deliver, Begin
<1>2. ASSUME NEW w \in Workers, Step(w) PROVE UNCHANGED slots
  BY <1>2 DEF Step, SendDirect, CommitDirect, RequestApproval, Reread, Advance, Conclude,
              CommitConclusion, Remove, Link, Found, Rollback, Finish, Goto
<1>3. ASSUME NEW i, Administer(i) PROVE UNCHANGED slots
  BY <1>3, AdministerIsEdit DEF Edit
<1> QED
  BY <1>1, <1>2, <1>3 DEF Next, vars

LEMMA SerialNext == Typed /\ SerialInv /\ [Next]_vars => SerialInv'
<1> SUFFICES ASSUME Typed, SerialInv, [Next]_vars PROVE SerialInv'
  OBVIOUS
<1>1. CASE slots # 1
  BY <1>1, SlotsStay DEF SerialInv
<1>2. CASE slots = 1
  <2>1. Serial
    BY <1>2 DEF Serial
  <2>2. CASE UNCHANGED vars
    <3> USE <2>2 DEF vars
    <3>1. InFlight' = InFlight /\ Seats' = Seats
      BY DEF InFlight, Seats, Seated, Present
    <3>2. \A v \in Workers : CallHolds(calls[v])'
      BY <1>2, <3>1 DEF SerialInv, CallHolds, Undecided, Qualifies
    <3>3. StepsEndorsed'
      BY <1>2, KeepsTables, StepsUnmoved, EndorsedQuiet DEF SerialInv
    <3> QED
      BY <1>2, <3>1, <3>2, <3>3 DEF SerialInv
  <2>3. CASE Next
    BY <2>1, <2>3, SerialLoad, SerialStep, SerialAdminister DEF Next
  <2> QED
    BY <2>2, <2>3
<1> QED
  BY <1>1, <1>2

LEMMA SerialAlways == Spec => []SerialInv
BY SerialInit, TypedAlways, SerialNext, PTL DEF Spec

(* With calls that do not overlap, Clerk's e-mail leaves after each step was *)
(* agreed to by somebody with its role: advanceApproval does not compare the *)
(* role itself and relies on the step not having moved since                 *)
(* assertCanApprove did.                                                     *)
THEOREM InvitationsAreQualified == Spec => []SeriallyQualified
<1>1. SerialInv => SeriallyQualified
  BY DEF SerialInv, StepsEndorsed, Endorsed, SeriallyQualified, SentWasQualified
<1> QED
  BY <1>1, SerialAlways, PTL

-----------------------------------------------------------------------------
(* A new row takes one seat.                                                 *)
LEMMA OneMoreSeat ==
  ASSUME Typed, NEW g \in Guests, rows' = Append(rows, NewRow(g)), Seats < MaxUsers
  PROVE  Seats' <= MaxUsers
<1> DEFINE n == Len(rows) + 1
<1>1. /\ DOMAIN rows' = DOMAIN rows \cup {n} /\ n \notin DOMAIN rows
      /\ rows'[n].status = "invited" /\ ~rows'[n].archived
      /\ \A i \in DOMAIN rows : rows'[i] = rows[i]
  BY NewRowType DEF NewRow
<1>2. Len(rows) \in Nat /\ DOMAIN rows = 1 .. Len(rows)
  BY DEF Typed, TypeOK
<1>3. IsFiniteSet(Seated)
  <2>1. IsFiniteSet(DOMAIN rows)
    BY <1>2, FS_Interval
  <2>2. Seated \in SUBSET DOMAIN rows
    BY DEF Seated, Present
  <2> QED
    BY <2>1, <2>2, FS_Subset
<1>4. n \notin Seated
  BY <1>1 DEF Seated, Present
<1> HIDE DEF n
<1>5. Seated' = Seated \cup {n}
  BY <1>1 DEF Seated, Present
<1>6. Cardinality(Seated') = Cardinality(Seated) + 1
  BY <1>3, <1>4, <1>5, FS_AddElement
<1>7. Cardinality(Seated) \in Nat /\ Cardinality(Staff) \in Nat /\ MaxUsers \in Nat
  BY <1>3, StaffAssumption, BoundsAssumption, FS_CardinalityType
<1> QED
  BY <1>6, <1>7 DEF Seats

(* With calls that do not overlap, an invitation takes a seat that is free:  *)
(* the count of assertCanAddUser is not repeated, and no constraint stands   *)
(* behind it, when the row is inserted.                                      *)
THEOREM InvitationsFit == Spec => SeriallyFits
<1>1. Typed /\ SerialInv /\ [Next]_vars => [slots = 1 => FitsThePlan]_vars
  <2> SUFFICES ASSUME Typed, SerialInv, Next, slots = 1, Len(rows') > Len(rows)
               PROVE  Seats' <= MaxUsers
    BY DEF FitsThePlan
  <2>1. Serial
    BY DEF Serial
  <2>2. ASSUME NEW w \in Workers, CommitDirect(w) \/ RequestApproval(w)
        PROVE  Seats' <= MaxUsers
    <3>1. calls[w].guest \in Guests
      BY <2>2, CallTypes DEF Typed, CommitDirect, RequestApproval, Invitation
    <3>2. Seats < MaxUsers
      BY <2>1, <2>2, OthersIdle DEF CommitDirect, RequestApproval, CallHolds
    <3> QED
      BY <2>2, <3>1, <3>2, OneMoreSeat DEF CommitDirect, RequestApproval
  <2>3. Len(rows) \in Nat /\ DOMAIN rows = 1 .. Len(rows)
    BY DEF Typed, TypeOK
  <2>4. DOMAIN rows' # DOMAIN rows \/ rows' \notin Seq(UserRow)
    BY <2>3
  <2>5. ASSUME NEW w \in Workers, Load(w) PROVE FALSE
    BY <2>3, <2>5 DEF Load, Invite, Judge, Deliver, Begin
  <2>6. ASSUME NEW i, Administer(i) PROVE FALSE
    <3>1. PICK status \in Assignable, archived \in BOOLEAN :
            i \in Present /\ Edit(i, status, archived)
      BY <2>6, AdministerIsEdit
    <3>2. status \in Statuses
      BY DEF Statuses
    <3> QED
      BY <2>4, <3>1, <3>2, EditEffect
  <2>7. ASSUME NEW w \in Workers, Remove(w) \/ Link(w) PROVE FALSE
    BY <2>4, <2>7, RemoveEffect, LinkEffect
  <2>8. ASSUME NEW w \in Workers,
               \/ SendDirect(w) \/ Reread(w) \/ Advance(w) \/ Conclude(w)
               \/ CommitConclusion(w) \/ Found(w) \/ Rollback(w)
        PROVE  FALSE
    BY <2>3, <2>8
       DEF SendDirect, Reread, Advance, Conclude, CommitConclusion, Found, Rollback
  <2> QED
    BY <2>2, <2>5, <2>6, <2>7, <2>8 DEF Next, Step
<1> QED
  BY <1>1, TypedAlways, SerialAlways, PTL DEF Spec, SeriallyFits
-----------------------------------------------------------------------------
(* The approval the comments promise.  The row waits for a step of the chain,*)
(* and an approval that is about to be committed has been sent.              *)
InChain ==
  /\ \A a \in DOMAIN approvals : approvals[a].step < Len(Path(approvals[a].by))
  /\ \A w \in Workers : calls[w].op = "concluding" =>
       \E s \in sent : s.approval = calls[w].approval

LEMMA InChainQuiet ==
  ASSUME InChain, sent \subseteq sent',
         \A a \in DOMAIN approvals' :
           \/ approvals'[a].step < Len(Path(approvals'[a].by))
           \/ /\ a \in DOMAIN approvals
              /\ approvals'[a].step = approvals[a].step
              /\ approvals'[a].by = approvals[a].by,
         \A w \in Workers : calls'[w].op = "concluding" =>
           \/ \E s \in sent' : s.approval = calls'[w].approval
           \/ calls'[w] = calls[w]
  PROVE  InChain'
<1>1. ASSUME NEW a \in DOMAIN approvals'
      PROVE  approvals'[a].step < Len(Path(approvals'[a].by))
  BY DEF InChain
<1>2. ASSUME NEW w \in Workers, calls'[w].op = "concluding"
      PROVE  \E s \in sent' : s.approval = calls'[w].approval
  BY <1>2 DEF InChain
<1> QED
  BY <1>1, <1>2 DEF InChain

LEMMA InChainLoad == ASSUME Typed, InChain, NEW w \in Workers, Load(w) PROVE InChain'
<1>1. UNCHANGED <<approvals, sent>>
  BY DEF Load, Invite, Judge, Deliver, Begin
<1>2. \A v \in Workers : calls'[v].op = "concluding" => calls'[v] = calls[v]
  <2>1. PICK call : Begin(w, call) /\ call.op # "concluding"
    <3>1. ASSUME NEW u \in People, NEW g \in Guests, Invite(w, u, g)
          PROVE  \E call : Begin(w, call) /\ call.op # "concluding"
      BY <3>1 DEF Invite
    <3>2. ASSUME NEW u \in People, NEW a \in DOMAIN approvals, NEW v \in Verdicts,
                 Judge(w, u, a, v)
          PROVE  \E call : Begin(w, call) /\ call.op # "concluding"
      BY <3>2 DEF Judge, Verdicts
    <3>3. ASSUME NEW g \in Guests, Deliver(w, g)
          PROVE  \E call : Begin(w, call) /\ call.op # "concluding"
      BY <3>3 DEF Deliver
    <3> QED
      BY <3>1, <3>2, <3>3 DEF Load
  <2>2. calls \in [Workers -> {Idle} \cup Invitation \cup Verdict \cup SignUp]
    BY DEF Typed, TypeOK
  <2> QED
    BY <2>1, <2>2 DEF Begin
<1> QED
  BY <1>1, <1>2, InChainQuiet

LEMMA InChainFinish ==
  ASSUME Typed, InChain, NEW w \in Workers, Finish(w), UNCHANGED sent,
         \A a \in DOMAIN approvals' :
           \/ approvals'[a].step < Len(Path(approvals'[a].by))
           \/ /\ a \in DOMAIN approvals
              /\ approvals'[a].step = approvals[a].step
              /\ approvals'[a].by = approvals[a].by
  PROVE  InChain'
<1>1. \A v \in Workers : calls'[v].op = "concluding" => calls'[v] = calls[v]
  BY DEF Typed, TypeOK, Finish, Goto, Idle
<1> QED
  BY <1>1, InChainQuiet

LEMMA InChainStep == ASSUME Typed, InChain, NEW w \in Workers, Step(w) PROVE InChain'
<1>1. CASE SendDirect(w) \/ Reread(w)
  <2>1. UNCHANGED approvals /\ sent \subseteq sent'
    BY <1>1 DEF SendDirect, Reread
  <2>2. PICK call : calls' = [calls EXCEPT ![w] = call] /\ call.op # "concluding"
    <3>1. CASE SendDirect(w)
      <4>1. calls[w] \in Invitation
        BY <3>1, CallTypes DEF Typed, SendDirect
      <4>2. PICK call : call = [calls[w] EXCEPT !.op = "inviting"]
        OBVIOUS
      <4>3. call.op = "inviting"
        BY <4>1, <4>2 DEF Invitation
      <4> QED
        BY <3>1, <4>2, <4>3 DEF SendDirect, Goto
    <3>2. CASE Reread(w)
      <4>1. calls[w] \in Verdict
        BY <3>2, VerdictGrounded DEF Reread, Verdicts, Judging
      <4>2. PICK call : call = [calls[w] EXCEPT
                                  !.op = IF @ = "approve" THEN "advance" ELSE "remove",
                                  !.step = approvals[calls[w].approval].step]
        OBVIOUS
      <4>3. call.op \in {"advance", "remove"}
        BY <4>1, <4>2 DEF Verdict
      <4> QED
        BY <3>2, <4>2, <4>3 DEF Reread, Goto
    <3> QED
      BY <1>1, <3>1, <3>2
  <2>3. \A v \in Workers : calls'[v].op = "concluding" => calls'[v] = calls[v]
    BY <2>2 DEF Typed, TypeOK
  <2> QED
    BY <2>1, <2>3, InChainQuiet
<1>2. CASE CommitDirect(w) \/ Link(w) \/ Found(w) \/ Rollback(w)
  BY <1>2, InChainFinish DEF CommitDirect, Link, Found, Rollback
<1>3. CASE RequestApproval(w)
  <2> DEFINE n == Len(approvals) + 1
  <2>1. /\ calls[w] \in Invitation
        /\ DOMAIN approvals' = DOMAIN approvals \cup {n}
        /\ approvals'[n] = [row |-> Len(rows) + 1, by |-> calls[w].by, step |-> 0,
                            status |-> "pending"]
        /\ \A a \in DOMAIN approvals : approvals'[a] = approvals[a]
    BY <1>3, RequestEffect
  <2>2. approvals'[n].step = 0 /\ approvals'[n].by = calls[w].by
    BY <2>1
  <2>3. Path(calls[w].by) \in Seq(STRING) /\ Path(calls[w].by) # <<>>
    BY <1>3, <2>1, PathAssumption DEF RequestApproval, Direct, Invitation
  <2>4. 0 < Len(Path(calls[w].by))
    BY <2>3
  <2> HIDE DEF n
  <2> QED
    BY <1>3, <2>1, <2>2, <2>4, InChainFinish DEF RequestApproval
<1>4. CASE Advance(w)
  <2> DEFINE a == calls[w].approval
  <2>1. /\ calls[w] \in Verdict /\ a \in DOMAIN approvals
        /\ DOMAIN approvals' = DOMAIN approvals
        /\ \A b \in DOMAIN approvals : approvals'[b].by = approvals[b].by
        /\ \A b \in DOMAIN approvals : b # a => approvals'[b] = approvals[b]
        /\ approvals'[a].step = calls[w].step + 1
    BY <1>4, AdvanceEffect
  <2>2. Path(approvals[a].by) \in Seq(STRING)
    <3>1. approvals[a] \in Approval
      BY <2>1 DEF Typed, TypeOK
    <3> QED
      BY <3>1, PathAssumption DEF Approval
  <2>3. calls[w].step + 1 < Len(Path(approvals[a].by))
    BY <1>4, <2>1, <2>2 DEF Advance, IsLast, Verdict
  <2> HIDE DEF a
  <2> QED
    BY <1>4, <2>1, <2>3, InChainFinish DEF Advance
<1>5. CASE Conclude(w)
  <2>1. PICK a, call, s : /\ a = calls[w].approval
                          /\ call = [calls[w] EXCEPT !.op = "concluding"]
                          /\ s = [to |-> rows[approvals[a].row].guest, approval |-> a]
    OBVIOUS
  <2>2. /\ UNCHANGED approvals /\ sent \subseteq sent' /\ s \in sent'
        /\ calls' = [calls EXCEPT ![w] = call]
    BY <1>5, <2>1 DEF Conclude, Goto
  <2>3. call.approval = a
    BY <1>5, <2>1, VerdictGrounded DEF Conclude, Judging, Verdict
  <2>4. s.approval = a
    BY <2>1
  <2>5. \A v \in Workers : v # w => calls'[v] = calls[v]
    BY <2>2 DEF Typed, TypeOK
  <2>6. calls'[w] = call
    BY <2>2 DEF Typed, TypeOK
  <2> QED
    BY <2>2, <2>3, <2>4, <2>5, <2>6, InChainQuiet
<1>6. CASE CommitConclusion(w) \/ Remove(w)
  <2> DEFINE a == calls[w].approval
  <2>1. /\ DOMAIN approvals' = DOMAIN approvals
        /\ \A b \in DOMAIN approvals : approvals'[b].by = approvals[b].by
        /\ \A b \in DOMAIN approvals : b # a => approvals'[b] = approvals[b]
        /\ approvals'[a].step = approvals[a].step
    BY <1>6, CommitEffect, RemoveEffect
  <2>2. \A b \in DOMAIN approvals : approvals'[b].step = approvals[b].step
    BY <2>1
  <2> HIDE DEF a
  <2> QED
    BY <1>6, <2>1, <2>2, InChainFinish DEF CommitConclusion, Remove
<1> QED
  BY <1>1, <1>2, <1>3, <1>4, <1>5, <1>6 DEF Step

LEMMA InChainNext == Typed /\ InChain /\ [Next]_vars => InChain'
<1> SUFFICES ASSUME Typed, InChain, [Next]_vars PROVE InChain'
  OBVIOUS
<1>1. CASE UNCHANGED vars
  BY <1>1, InChainQuiet DEF vars
<1>2. ASSUME NEW i, Administer(i) PROVE InChain'
  <2>1. UNCHANGED <<approvals, sent, calls>>
    BY <1>2, AdministerIsEdit DEF Edit
  <2> QED
    BY <2>1, InChainQuiet
<1> QED
  BY <1>1, <1>2, InChainLoad, InChainStep DEF Next

-----------------------------------------------------------------------------
(* What the promised approval sees of the rows.                              *)
Shown == [a \in DOMAIN approvals |-> [by |-> approvals[a].by,
                                     guest |-> rows[approvals[a].row].guest,
                                     step |-> approvals[a].step,
                                     status |-> approvals[a].status]]

Mailed == {s.approval : s \in sent} \ {0}

ShownApproval == [by : People, guest : Guests, step : Nat,
                  status : {"pending", "approved", "rejected"}]

LEMMA ShownType == ASSUME Typed PROVE Shown \in Seq(ShownApproval) /\ Len(Shown) = Len(approvals)
<1>1. ASSUME NEW a \in DOMAIN approvals PROVE Shown[a] \in ShownApproval
  <2>1. approvals[a] \in Approval /\ approvals[a].row \in DOMAIN rows
    BY DEF Typed, TypeOK, Grounded
  <2>2. rows[approvals[a].row] \in UserRow
    BY <2>1 DEF Typed, TypeOK
  <2> QED
    BY <2>1, <2>2 DEF Shown, ShownApproval, Approval, UserRow
<1>2. Len(approvals) \in Nat /\ DOMAIN approvals = 1 .. Len(approvals)
  BY DEF Typed, TypeOK
<1>3. DOMAIN Shown = 1 .. Len(approvals)
  BY <1>2 DEF Shown
<1>4. Shown \in [1 .. Len(approvals) -> ShownApproval]
  BY <1>1, <1>2 DEF Shown
<1> QED
  BY <1>2, <1>4

(* A call in flight that decides is one the promise allows.                  *)
LEMMA MayDecide ==
  ASSUME Serial, AgreedSoFar, NEW w \in Workers, calls[w].op \in Judging
  PROVE  /\ calls[w].by \in People
         /\ calls[w].approval \in DOMAIN approvals
         /\ calls[w].step = approvals[calls[w].approval].step
         /\ Promise!Decides(calls[w].by, calls[w].approval)
<1>1. PICK user, a, n : user = calls[w].by /\ a = calls[w].approval /\ n = calls[w].step
  OBVIOUS
<1>2. user \in People /\ a \in DOMAIN approvals /\ n \in Nat
  BY <1>1, VerdictGrounded DEF Serial, Verdict
<1>3. Undecided(a) /\ n = approvals[a].step /\ Qualifies(user, a, n)
  BY <1>1, OthersIdle DEF CallHolds, Judging
<1>4. Outsider(user, a)
  BY <1>1 DEF AgreedSoFar
<1>5. /\ Shown[a].status = "pending"
      /\ user \notin {Shown[a].by, Shown[a].guest}
      /\ Role[user] \in Bypass \cup {Path(Shown[a].by)[Shown[a].step + 1]}
  BY <1>2, <1>3, <1>4 DEF Shown, Undecided, Outsider, Qualifies
<1>6. Promise!Decides(user, a)
  BY <1>5 DEF Promise!Decides, Shown
<1> QED
  BY <1>1, <1>2, <1>3, <1>6

LEMMA Unseen ==
  ASSUME Typed, UNCHANGED <<approvals, agreed>>, Mailed' = Mailed,
         \A i \in DOMAIN rows : rows'[i].guest = rows[i].guest
  PROVE  UNCHANGED Promise!vars
<1>1. \A a \in DOMAIN approvals : approvals[a].row \in DOMAIN rows
  BY DEF Typed, Grounded
<1>2. Shown' = Shown
  BY <1>1 DEF Shown
<1> QED
  BY <1>2 DEF Promise!vars, Shown, Mailed

LEMMA PromiseQuiet ==
  ASSUME Typed, NEW w \in Workers,
         \/ Load(w) \/ SendDirect(w) \/ CommitDirect(w) \/ Reread(w)
         \/ Link(w) \/ Found(w) \/ Rollback(w)
  PROVE  UNCHANGED Promise!vars
<1>1. CASE Load(w) \/ Reread(w) \/ Found(w) \/ Rollback(w)
  <2>1. UNCHANGED <<rows, approvals, sent, agreed>>
    BY <1>1 DEF Load, Invite, Judge, Deliver, Begin, Reread, Found, Rollback
  <2> QED
    BY <2>1, Unseen DEF Mailed
<1>2. CASE SendDirect(w)
  <2>1. PICK s : s = [to |-> calls[w].guest, approval |-> 0]
    OBVIOUS
  <2>2. s.approval = 0 /\ sent' = sent \cup {s}
    BY <1>2, <2>1 DEF SendDirect
  <2>3. Mailed' = Mailed
    BY <2>2 DEF Mailed
  <2> QED
    BY <1>2, <2>3, Unseen DEF SendDirect
<1>3. CASE CommitDirect(w)
  <2>1. calls[w].guest \in Guests
    BY <1>3, CallTypes DEF Typed, CommitDirect, Invitation
  <2>2. \A i \in DOMAIN rows : rows'[i] = rows[i]
    BY <1>3, <2>1, NewRowType DEF CommitDirect
  <2> QED
    BY <1>3, <2>2, Unseen DEF CommitDirect, Mailed
<1>4. CASE Link(w)
  BY <1>4, LinkEffect, Unseen DEF Link, Mailed
<1> QED
  BY <1>1, <1>2, <1>3, <1>4

LEMMA PromiseAdministered ==
  ASSUME Typed, NEW i, Administer(i)
  PROVE  UNCHANGED Promise!vars
<1>1. PICK status \in Assignable, archived \in BOOLEAN :
        i \in Present /\ Edit(i, status, archived)
  BY AdministerIsEdit
<1>2. status \in Statuses
  BY DEF Statuses
<1>3. \A j \in DOMAIN rows : rows'[j].guest = rows[j].guest
  BY <1>1, <1>2, EditEffect
<1> QED
  BY <1>1, <1>3, Unseen DEF Edit, Mailed

LEMMA PromiseRequest ==
  ASSUME Typed, NEW w \in Workers, RequestApproval(w)
  PROVE  Promise!Next
<1> DEFINE n == Len(approvals) + 1
           i == Len(rows) + 1
<1>1. PICK by, guest : by = calls[w].by /\ guest = calls[w].guest
  OBVIOUS
<1>2. /\ DOMAIN approvals' = DOMAIN approvals \cup {n}
      /\ rows'[i] = NewRow(guest)
      /\ \A j \in DOMAIN rows : rows'[j] = rows[j]
      /\ approvals'[n] = [row |-> i, by |-> by, step |-> 0, status |-> "pending"]
      /\ \A a \in DOMAIN approvals : approvals'[a] = approvals[a]
      /\ by \in People /\ guest \in Guests
  BY <1>1, RequestEffect DEF Invitation
<1>3. /\ Len(approvals) \in Nat /\ DOMAIN approvals = 1 .. Len(approvals)
      /\ Shown \in Seq(ShownApproval) /\ Len(Shown) = Len(approvals)
  BY ShownType DEF Typed, TypeOK
<1>4. PICK new : new = [by |-> by, guest |-> guest, step |-> 0, status |-> "pending"]
  OBVIOUS
<1>5. new \in ShownApproval
  BY <1>2, <1>4 DEF ShownApproval
<1>6. Shown'[n] = new
  <2>1. rows'[i].guest = guest
    BY <1>2 DEF NewRow
  <2>2. approvals'[n].row = i
    BY <1>2
  <2> QED
    BY <1>2, <1>4, <2>1, <2>2 DEF Shown
<1>7. \A a \in DOMAIN approvals : Shown'[a] = Shown[a]
  BY <1>2 DEF Shown, Typed, Grounded
<1>8. DOMAIN approvals' = 1 .. n
  BY <1>2, <1>3
<1>9. \A j \in 1 .. n : Shown'[j] \in ShownApproval
  BY <1>2, <1>3, <1>5, <1>6, <1>7, <1>8
<1>10. Shown' \in Seq(ShownApproval) /\ Len(Shown') = n
  <2>1. Shown' = [j \in 1 .. n |-> Shown'[j]]
    BY <1>8 DEF Shown
  <2>2. Shown' \in [1 .. n -> ShownApproval]
    BY <1>9, <2>1
  <2> QED
    BY <1>3, <2>2
<1>11. Shown' = Append(Shown, new)
  BY <1>2, <1>3, <1>5, <1>6, <1>7, <1>10
<1>12. Path(by) # <<>> /\ UNCHANGED <<agreed, sent>>
  BY <1>1 DEF RequestApproval, Direct
<1> HIDE DEF n, i
<1>13. Promise!Request(by, guest)
  BY <1>4, <1>11, <1>12 DEF Promise!Request, Shown
<1> QED
  BY <1>2, <1>13 DEF Promise!Next

LEMMA ShownChange ==
  ASSUME Typed, NEW a \in DOMAIN approvals, DOMAIN approvals' = DOMAIN approvals,
         \A b \in DOMAIN approvals : /\ approvals'[b].row = approvals[b].row
                                     /\ approvals'[b].by = approvals[b].by,
         \A b \in DOMAIN approvals : b # a => approvals'[b] = approvals[b],
         \A j \in DOMAIN rows : rows'[j].guest = rows[j].guest
  PROVE  Shown' = [Shown EXCEPT ![a] = [by |-> Shown[a].by, guest |-> Shown[a].guest,
                                        step |-> approvals'[a].step,
                                        status |-> approvals'[a].status]]
<1>1. \A b \in DOMAIN approvals : approvals[b].row \in DOMAIN rows
  BY DEF Typed, Grounded
<1>2. \A b \in DOMAIN approvals : b # a => Shown'[b] = Shown[b]
  BY <1>1 DEF Shown
<1>3. Shown'[a] = [by |-> Shown[a].by, guest |-> Shown[a].guest,
                   step |-> approvals'[a].step, status |-> approvals'[a].status]
  <2>1. Shown[a].by = approvals'[a].by /\ Shown[a].guest = rows'[approvals'[a].row].guest
    BY <1>1 DEF Shown
  <2> QED
    BY <2>1 DEF Shown
<1>4. DOMAIN Shown = DOMAIN approvals
  BY DEF Shown
<1>5. Shown' = [b \in DOMAIN approvals |-> Shown'[b]]
  BY DEF Shown
<1>6. Shown = [b \in DOMAIN approvals |-> Shown[b]]
  BY DEF Shown
<1> QED
  BY <1>2, <1>3, <1>4, <1>5, <1>6

(* The step a call agrees to is the last one for it exactly if it is the last*)
(* one for the promise.                                                      *)
LEMMA SameLast ==
  ASSUME Typed, InChain, NEW a \in DOMAIN approvals
  PROVE  Promise!IsLast(a) <=> IsLast(a, approvals[a].step)
<1>1. approvals[a] \in Approval
  BY DEF Typed, TypeOK
<1>2. approvals[a].step \in Nat /\ Path(approvals[a].by) \in Seq(STRING)
  BY <1>1, PathAssumption DEF Approval
<1>3. Len(Path(approvals[a].by)) \in Nat
  BY <1>2
<1>4. approvals[a].step < Len(Path(approvals[a].by))
  BY DEF InChain
<1>5. /\ Shown[a].step = approvals[a].step
      /\ Shown[a].by = approvals[a].by
  BY DEF Shown
<1>6. Promise!IsLast(a) <=> Shown[a].step + 1 = Len(Path(Shown[a].by))
  BY DEF Promise!IsLast, Shown
<1> QED
  BY <1>2, <1>3, <1>4, <1>5, <1>6 DEF IsLast

LEMMA PromiseAdvance ==
  ASSUME Serial, AgreedSoFar, InChain, NEW w \in Workers, Advance(w)
  PROVE  Promise!Next
<1>1. PICK user, a, n : user = calls[w].by /\ a = calls[w].approval /\ n = calls[w].step
  OBVIOUS
<1>2. /\ user \in People /\ a \in DOMAIN approvals /\ n = approvals[a].step
      /\ Promise!Decides(user, a)
  BY <1>1, MayDecide DEF Advance, Judging
<1>3. ~Promise!IsLast(a)
  BY <1>1, <1>2, SameLast DEF Advance, Serial
<1>4. Shown' = [Shown EXCEPT ![a] = [by |-> Shown[a].by, guest |-> Shown[a].guest,
                                     step |-> approvals'[a].step,
                                     status |-> approvals'[a].status]]
      /\ approvals'[a].step = n + 1 /\ approvals'[a].status = approvals[a].status
  BY <1>1, <1>2, AdvanceEffect, ShownChange DEF Advance, Serial
<1>5. /\ a \in DOMAIN Shown /\ Shown[a].step = n /\ Shown[a].status = approvals[a].status
      /\ Shown[a] = [by |-> Shown[a].by, guest |-> Shown[a].guest,
                     step |-> n, status |-> approvals[a].status]
  BY <1>2 DEF Shown
<1>6. Shown' = [Shown EXCEPT ![a].step = @ + 1]
  BY <1>4, <1>5
<1>7. agreed' = agreed \cup {[approval |-> a, step |-> Shown[a].step, by |-> user]}
  BY <1>1, <1>5 DEF Advance, Agree
<1>8. Promise!Agrees(user, a)
  BY <1>2, <1>7 DEF Promise!Agrees, Shown
<1>9. Promise!Advance(user, a)
  BY <1>3, <1>6, <1>8 DEF Promise!Advance, Shown, Advance
<1>10. a \in DOMAIN Shown
  BY <1>5
<1> QED
  BY <1>2, <1>9, <1>10 DEF Promise!Next, Shown

LEMMA PromiseSend ==
  ASSUME Serial, AgreedSoFar, InChain, NEW w \in Workers, Conclude(w)
  PROVE  Promise!Next
<1>1. PICK user, a, n, s : /\ user = calls[w].by /\ a = calls[w].approval
                           /\ n = calls[w].step
                           /\ s = [to |-> rows[approvals[a].row].guest, approval |-> a]
  OBVIOUS
<1>2. /\ user \in People /\ a \in DOMAIN approvals /\ n = approvals[a].step
      /\ Promise!Decides(user, a)
  BY <1>1, MayDecide DEF Conclude, Judging
<1>3. Promise!IsLast(a)
  BY <1>1, <1>2, SameLast DEF Conclude, Serial
<1>4. UNCHANGED <<approvals, rows>> /\ sent' = sent \cup {s}
  BY <1>1 DEF Conclude
<1>5. Shown' = Shown /\ Shown[a].step = n /\ a \in DOMAIN Shown
  BY <1>2, <1>4 DEF Shown
<1>6. a # 0
  BY <1>2 DEF Serial, Typed, TypeOK
<1>7. Mailed' = Mailed \cup {a}
  BY <1>1, <1>4, <1>6 DEF Mailed
<1>8. agreed' = agreed \cup {[approval |-> a, step |-> Shown[a].step, by |-> user]}
  BY <1>1, <1>5 DEF Conclude, Agree
<1>9. Promise!Agrees(user, a)
  BY <1>2, <1>8 DEF Promise!Agrees, Shown
<1>10. Promise!Send(user, a)
  BY <1>3, <1>5, <1>7, <1>9 DEF Promise!Send, Shown, Mailed
<1> QED
  BY <1>2, <1>5, <1>10 DEF Promise!Next, Shown

LEMMA PromiseSettled ==
  ASSUME Serial, AgreedSoFar, InChain, NEW w \in Workers, CommitConclusion(w) \/ Remove(w)
  PROVE  Promise!Next
<1>1. PICK user, a : user = calls[w].by /\ a = calls[w].approval
  OBVIOUS
<1>2. user \in People /\ a \in DOMAIN approvals /\ Promise!Decides(user, a)
  BY <1>1, MayDecide DEF CommitConclusion, Remove, Judging
<1>3. /\ Shown' = [Shown EXCEPT ![a] = [by |-> Shown[a].by, guest |-> Shown[a].guest,
                                        step |-> approvals'[a].step,
                                        status |-> approvals'[a].status]]
      /\ approvals'[a].step = approvals[a].step
  BY <1>1, <1>2, CommitEffect, RemoveEffect, ShownChange DEF CommitConclusion, Serial
<1>4. /\ a \in DOMAIN Shown
      /\ Shown[a] = [by |-> Shown[a].by, guest |-> Shown[a].guest,
                     step |-> approvals[a].step, status |-> Shown[a].status]
  BY <1>2 DEF Shown
<1>5. \A status : approvals'[a].status = status =>
        Shown' = [Shown EXCEPT ![a].status = status]
  <2> SUFFICES ASSUME NEW status, approvals'[a].status = status
               PROVE  Shown' = [Shown EXCEPT ![a].status = status]
    OBVIOUS
  <2>1. Shown[a].step = approvals'[a].step
    BY <1>3, <1>4
  <2>2. [Shown[a] EXCEPT !.status = status]
          = [by |-> Shown[a].by, guest |-> Shown[a].guest,
             step |-> approvals'[a].step, status |-> approvals'[a].status]
    BY <1>4, <2>1
  <2> QED
    BY <1>3, <2>2
<1>6. Mailed' = Mailed /\ UNCHANGED agreed
  BY DEF CommitConclusion, Remove, Mailed
<1>7. CASE CommitConclusion(w)
  <2>1. Shown' = [Shown EXCEPT ![a].status = "approved"]
    BY <1>1, <1>5, <1>7, CommitEffect DEF Serial
  <2>2. Shown[a].status = "pending"
    BY <1>2 DEF Promise!Decides, Shown
  <2>3. a \in Mailed
    <3>1. PICK s \in sent : s.approval = a
      BY <1>1, <1>7 DEF InChain, CommitConclusion
    <3>2. a # 0
      BY <1>2 DEF Serial, Typed, TypeOK
    <3> QED
      BY <3>1, <3>2 DEF Mailed
  <2>4. Promise!Approve(a)
    BY <1>6, <2>1, <2>2, <2>3 DEF Promise!Approve, Shown, Mailed
  <2> QED
    BY <1>4, <2>4 DEF Promise!Next, Shown
<1>8. CASE Remove(w)
  <2>1. Shown' = [Shown EXCEPT ![a].status = "rejected"]
    BY <1>1, <1>5, <1>8, RemoveEffect DEF Serial
  <2>2. Promise!Reject(user, a)
    BY <1>2, <1>6, <2>1 DEF Promise!Reject, Shown, Mailed
  <2> QED
    BY <1>2, <1>4, <2>2 DEF Promise!Next, Shown
<1> QED
  BY <1>7, <1>8

(* With calls that do not overlap, the requests keep what the comments on    *)
(* assertCanApprove, advanceApproval and rejectApproval promise: the chain is*)
(* walked step by step by outsiders with the roles it asks for, the e-mail   *)
(* leaves with the last step and a decision is final.                        *)
THEOREM ApprovalsKeepTheirPromise == Spec => SeriallyApproved
<1>1. Init => InChain /\ Promise!Init
  <2> SUFFICES ASSUME Init PROVE InChain /\ Promise!Init
    OBVIOUS
  <2>1. InChain
    BY DEF Init, InChain, Idle
  <2>2. DOMAIN approvals = {} /\ Shown = <<>>
    BY DEF Init, Shown
  <2>3. Mailed = {}
    BY DEF Init, Mailed
  <2> QED
    BY <2>1, <2>2, <2>3 DEF Init, Promise!Init, Shown, Mailed
<1>2. Typed /\ SerialInv /\ AgreedSoFar /\ InChain /\ [Next]_vars
        => [slots = 1 => [Promise!Next]_(Promise!vars)]_vars
  <2> SUFFICES ASSUME Typed, SerialInv, AgreedSoFar, InChain, Next, slots = 1
               PROVE  Promise!Next \/ UNCHANGED Promise!vars
    OBVIOUS
  <2>1. Serial
    BY DEF Serial
  <2>2. ASSUME NEW w \in Workers, Load(w) \/ Step(w)
        PROVE  Promise!Next \/ UNCHANGED Promise!vars
    BY <2>1, <2>2, PromiseQuiet, PromiseRequest, PromiseAdvance, PromiseSend,
       PromiseSettled DEF Step
  <2> QED
    BY <2>2, PromiseAdministered DEF Next
<1> QED
  BY <1>1, <1>2, InChainNext, TypedAlways, AgreedAlways, SerialAlways, PTL
     DEF Spec, SeriallyApproved
=============================================================================
