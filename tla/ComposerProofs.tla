----------------------------- MODULE ComposerProofs ----------------------------
(* Proofs about Attachments and Composer, for any users, files, comments,    *)
(* quota and number of open transactions, and any number of lost answers:    *)
(* the rows keep their shape, the storage counter and the mention notices    *)
(* are exact, version chains are linked, and the composer's queue can be     *)
(* posted.                                                                   *)
EXTENDS Composer, FiniteSetTheorems, TLAPS

-----------------------------------------------------------------------------
(* Type correctness.  A transaction writes rows that existed when it read    *)
(* them; none is ever deleted.                                               *)
FileExists(f) == files[f] # Absent
CommentExists(c) == comments[c] # Absent

CallsGrounded ==
  \A call \in calls :
    /\ call.op = "complete" => FileExists(call.file) /\ call.file \in bucket
    /\ call.op = "post" => \A f \in call.attach : files[f].status = "uploaded"
    /\ call.op = "edit" => CommentExists(call.comment)

StagesGrounded == \A f \in Files : stage[f] \in {"stored", "completing", "done"} => f \in bucket

Typed == TypeOK /\ CallsGrounded /\ StagesGrounded /\ Uploaded \subseteq bucket

LEMMA Rows ==
  ASSUME TypeOK
  PROVE  /\ \A f \in Files : /\ FileExists(f) <=> files[f] \in FileRow
                             /\ FileExists(f) <=> files[f].status # "absent"
                             /\ FileExists(f) <=> files[f].status \in {"pending", "uploaded"}
         /\ \A c \in Comments : /\ CommentExists(c) <=> comments[c] \in CommentRow
                                /\ CommentExists(c) <=> comments[c].status # "absent"
BY DEF TypeOK, ServerTypeOK, FileExists, CommentExists, Absent, FileRow, CommentRow

LEMMA TypedInit == Init => Typed
<1> SUFFICES ASSUME Init PROVE Typed
  OBVIOUS
<1>1. TypeOK
  BY DEF Init, ServerInit, TypeOK, ServerTypeOK, Stages
<1> QED
  BY <1>1 DEF Init, ServerInit, Typed, CallsGrounded, StagesGrounded, Uploaded, Absent

\* What the trigger adds is a number, whatever rows an update writes.
LEMMA UsedIsNat ==
  ASSUME TypeOK, NEW rows
  PROVE  UsedAfter(rows) \in Nat
<1> DEFINE N == {f \in Files : rows[f].status = "uploaded" /\ files[f].status # "uploaded"}
<1>1. IsFiniteSet(N)
  BY FilesAssumption, FS_Subset
<1>2. Cardinality(N) \in Nat
  BY <1>1, FS_CardinalityType
<1> QED
  BY <1>2 DEF UsedAfter, TypeOK, ServerTypeOK

LEMMA TypedStep == Typed /\ [Next]_vars => Typed'
<1> SUFFICES ASSUME Typed, [Next]_vars PROVE Typed'
  OBVIOUS
<1> USE DEF Typed
<1>1. ASSUME NEW u \in Writers, NEW f \in Files, NEW p \in Purposes,
             NEW prev \in Files \cup {None}, Start(u, f, p, prev)
      PROVE  Typed'
  <2> DEFINE row == [status |-> "pending", uploader |-> u, purpose |-> p,
                     owner |-> OwnerAtUpload(p), previous |-> prev,
                     version |-> IF prev = None THEN 1 ELSE files[prev].version + 1]
  <2>1. /\ ~FileExists(f) /\ files' = [files EXCEPT ![f] = row]
        /\ prev # None => FileExists(prev) /\ prev \in Files
        /\ UNCHANGED <<used, logo, comments, told, calls, slots, bucket, queue, sending,
                       faults, edits>>
        /\ stage' = [stage EXCEPT ![f] = "uploading"]
    BY <1>1 DEF Start, UploadIntent, Moves, FileExists
  <2>2. row \in FileRow
    <3>1. prev # None => files[prev].version \in Nat
      BY <2>1, Rows DEF FileRow
    <3>2. OwnerAtUpload(p) \in {"task", "company", None}
      BY PurposesAssumption DEF OwnerAtUpload
    <3> QED
      BY <3>1, <3>2, WritersAssumption DEF FileRow
  <2>3. row.status = "pending" /\ row # Absent
    BY DEF Absent
  <2> HIDE DEF row
  <2>4. TypeOK'
    BY <2>1, <2>2 DEF TypeOK, ServerTypeOK, Stages
  <2>5. CallsGrounded'
    BY <2>1, <2>3, Rows DEF CallsGrounded, FileExists, CommentExists, TypeOK, ServerTypeOK, Call
  <2>6. StagesGrounded' /\ (Uploaded \subseteq bucket)'
    BY <2>1, <2>3 DEF StagesGrounded, Uploaded, TypeOK, ServerTypeOK
  <2> QED
    BY <2>4, <2>5, <2>6
<1>2. ASSUME NEW f \in Files, Put(f) \/ PutFails(f) PROVE Typed'
  <2>1. /\ UNCHANGED server /\ UNCHANGED <<queue, sending, faults, edits>>
        /\ \/ bucket' = bucket \cup {f} /\ stage' = [stage EXCEPT ![f] = "stored"]
           \/ bucket' \in {bucket, bucket \cup {f}} /\ stage' = [stage EXCEPT ![f] = "gone"]
    BY <1>2 DEF Put, PutFails, Moves
  <2>2. bucket' \subseteq Files /\ bucket \subseteq bucket'
    BY <2>1 DEF TypeOK
  <2> QED
    BY <2>1, <2>2 DEF server, TypeOK, ServerTypeOK, Stages, CallsGrounded, StagesGrounded, Uploaded,
                FileExists, CommentExists
<1>3. ASSUME NEW f \in Files, Complete(f) \/ CompleteAgain(f) PROVE Typed'
  <2>1. PICK again \in BOOLEAN :
        /\ stage[f] \in {"stored", "completing"} /\ files[f].status = "pending"
        /\ calls' = calls \cup {[op |-> "complete", file |-> f, again |-> again]}
        /\ stage' = [stage EXCEPT ![f] = "completing"]
        /\ faults' \in Nat
        /\ UNCHANGED <<files, used, logo, comments, told, slots, bucket, queue, sending, edits>>
    <3>1. CASE Complete(f)
      BY <3>1 DEF Complete, LoadComplete, Begin, Moves, TypeOK
    <3>2. CASE CompleteAgain(f)
      <4>1. stage' = [stage EXCEPT ![f] = "completing"]
        BY <3>2 DEF CompleteAgain, TypeOK
      <4>2. /\ stage[f] = "completing"
            /\ faults' \in Nat /\ UNCHANGED <<bucket, queue, sending, edits>>
        BY <3>2 DEF CompleteAgain, Fault, TypeOK
      <4>3. calls' = calls \cup {[op |-> "complete", file |-> f, again |-> TRUE]}
        BY <3>2 DEF CompleteAgain, LoadComplete, Begin
      <4>4. /\ files[f].status = "pending"
            /\ UNCHANGED <<files, used, logo, comments, told, slots>>
        BY <3>2 DEF CompleteAgain, LoadComplete
      <4> QED
        BY <4>1, <4>2, <4>3, <4>4
    <3> QED
      BY <1>3, <3>1, <3>2
  <2>2. f \in bucket /\ FileExists(f)
    BY <2>1, Rows DEF StagesGrounded
  <2>3. [op |-> "complete", file |-> f, again |-> again] \in Call
    BY DEF Call
  <2>4. TypeOK'
    BY <2>1, <2>3 DEF TypeOK, ServerTypeOK, Stages
  <2> QED
    BY <2>1, <2>2, <2>4 DEF CallsGrounded, StagesGrounded, Uploaded, FileExists, CommentExists,
                            TypeOK
<1>4. ASSUME NEW f \in Files, Completed(f) \/ CompleteLost(f) PROVE Typed'
  <2>1. /\ UNCHANGED server /\ UNCHANGED <<bucket, sending, edits>>
        /\ stage[f] = "completing" /\ faults' \in Nat
        /\ \E s \in {"done", "gone"} : stage' = [stage EXCEPT ![f] = s]
        /\ queue' \in [Users -> SUBSET Files]
    BY <1>4 DEF Completed, CompleteLost, Moves, Fault, TypeOK, ServerTypeOK
  <2> QED
    BY <2>1 DEF server, TypeOK, ServerTypeOK, Stages, CallsGrounded, StagesGrounded, Uploaded,
                FileExists, CommentExists
<1>5. ASSUME NEW u \in Writers, NEW c \in Comments, NEW body \in Bodies, Post(u, c, body)
      PROVE  Typed'
  <2> DEFINE call == [op |-> "post", comment |-> c, author |-> u, body |-> body,
                      attach |-> queue[u]]
  <2>1. /\ \A f \in queue[u] : Claimable(u, f)
        /\ calls' = calls \cup {call}
        /\ sending' = [sending EXCEPT ![u] = c]
        /\ UNCHANGED <<files, used, logo, comments, told, slots, bucket, stage, queue,
                       faults, edits>>
    BY <1>5 DEF Post, LoadPost, Begin
  <2>2. u \in Users /\ queue[u] \subseteq Files
    BY WritersAssumption DEF TypeOK
  <2>3. call \in Call
    BY <2>2 DEF Call
  <2>4. call.op = "post" /\ \A f \in call.attach : files[f].status = "uploaded"
    BY <2>1 DEF Claimable
  <2> HIDE DEF call
  <2>5. TypeOK'
    BY <2>1, <2>2, <2>3 DEF TypeOK, ServerTypeOK
  <2> QED
    BY <2>1, <2>4, <2>5 DEF CallsGrounded, StagesGrounded, Uploaded, FileExists, CommentExists
<1>6. ASSUME NEW u \in Writers, NEW c \in Comments, NEW body \in Bodies, Edit(u, c, body)
      PROVE  Typed'
  <2> DEFINE call == [op |-> "edit", comment |-> c, body |-> body, seen |-> comments[c].mentions]
  <2>1. /\ comments[c].status = "posted"
        /\ calls' = calls \cup {call} /\ edits' \in Nat
        /\ UNCHANGED <<files, used, logo, comments, told, slots, bucket, stage, queue,
                       sending, faults>>
    BY <1>6 DEF Edit, LoadEdit, Begin, TypeOK
  <2>2. CommentExists(c) /\ comments[c].mentions \subseteq Users
    BY <2>1, Rows DEF CommentRow
  <2>3. call \in Call
    BY <2>2 DEF Call
  <2>4. call.op = "edit" /\ call.comment = c
    OBVIOUS
  <2> HIDE DEF call
  <2>5. TypeOK'
    BY <2>1, <2>3 DEF TypeOK, ServerTypeOK
  <2> QED
    BY <2>1, <2>2, <2>4, <2>5 DEF CallsGrounded, StagesGrounded, Uploaded, FileExists,
                                  CommentExists
<1>7. ASSUME NEW u \in Writers, Posted(u) \/ PostLost(u) PROVE Typed'
  <2>1. /\ UNCHANGED server /\ UNCHANGED <<bucket, stage, edits>>
        /\ sending' = [sending EXCEPT ![u] = None] /\ faults' \in Nat
        /\ queue' \in [Users -> SUBSET Files]
    BY <1>7 DEF Posted, PostLost, ClearsQueue, Fault, TypeOK
  <2> QED
    BY <2>1 DEF server, TypeOK, ServerTypeOK, CallsGrounded, StagesGrounded, Uploaded,
                FileExists, CommentExists
<1>8. ASSUME NEW c \in Comments, Ages(c) \/ \E u \in Writers : Delete(u, c) PROVE Typed'
  <2>1. /\ CommentExists(c)
        /\ \/ comments' = [comments EXCEPT ![c].status = "deleted"]
           \/ comments' = [comments EXCEPT ![c].fresh = FALSE]
        /\ UNCHANGED <<files, used, logo, told, calls, slots>> /\ UNCHANGED client
    BY <1>8, Rows DEF Ages, Age, Delete, Remove, CommentExists
  <2>2. comments[c] \in CommentRow
    BY <2>1, Rows
  <2>3. comments'[c] \in CommentRow
    <3>1. [comments[c] EXCEPT !.status = "deleted"] \in CommentRow
      BY <2>2 DEF CommentRow
    <3>2. [comments[c] EXCEPT !.fresh = FALSE] \in CommentRow
      BY <2>2 DEF CommentRow
    <3> QED
      BY <2>1, <3>1, <3>2 DEF TypeOK, ServerTypeOK
  <2>4. comments' \in [Comments -> CommentRow \cup {Absent}]
    BY <2>1, <2>3 DEF TypeOK, ServerTypeOK
  <2>5. TypeOK'
    BY <2>1, <2>4 DEF TypeOK, ServerTypeOK, client
  <2>6. comments'[c] # Absent
    BY <2>3 DEF CommentRow, Absent
  <2>7. \A d \in Comments : CommentExists(d) => CommentExists(d)'
    BY <2>1, <2>6 DEF CommentExists, TypeOK, ServerTypeOK
  <2>8. CallsGrounded'
    BY <2>1, <2>7 DEF CallsGrounded, FileExists, client, TypeOK, ServerTypeOK, Call
  <2> QED
    BY <2>1, <2>5, <2>8 DEF StagesGrounded, Uploaded, client
<1>9. ASSUME NEW call \in calls, WriteComplete(call), UNCHANGED client PROVE Typed'
  <2> DEFINE f == call.file
  <2>1. f \in Files /\ FileExists(f) /\ f \in bucket
    BY <1>9 DEF WriteComplete, CallsGrounded, TypeOK, ServerTypeOK, Call
  <2>2. /\ files' = [files EXCEPT ![f].status = "uploaded"] /\ used' = UsedAfter(files')
        /\ logo' \in {f, logo} /\ calls' = calls \ {call} /\ UNCHANGED <<comments, told, slots>>
    BY <1>9 DEF WriteComplete
  <2>3. files[f] \in FileRow
    BY <2>1, Rows
  <2> HIDE DEF f
  <2>4. files'[f] \in FileRow /\ files'[f].status = "uploaded"
        /\ \A g \in Files : g # f => files'[g] = files[g]
    BY <2>1, <2>2, <2>3 DEF TypeOK, ServerTypeOK, FileRow
  <2>5. TypeOK'
    BY <1>9, <2>1, <2>2, <2>4, UsedIsNat DEF TypeOK, ServerTypeOK, client
  <2>6. files'[f] # Absent
    BY <2>4 DEF FileRow, Absent
  <2>7. CallsGrounded'
    BY <1>9, <2>2, <2>4, <2>6 DEF CallsGrounded, FileExists, CommentExists, client, TypeOK,
                                 ServerTypeOK, Call
  <2> QED
    BY <1>9, <2>1, <2>2, <2>4, <2>5, <2>7 DEF StagesGrounded, Uploaded, client
<1>10. ASSUME NEW call \in calls, WritePost(call), UNCHANGED client PROVE Typed'
  <2> DEFINE new == [status |-> "posted", author |-> call.author, fresh |-> TRUE,
                     body |-> call.body, mentions |-> call.body, sent |-> call.attach]
  <2>1. /\ call.op = "post" /\ call.comment \in Comments /\ call.author \in Users
        /\ call.body \in Bodies /\ call.attach \subseteq Files
        /\ \A f \in call.attach : files[f].status = "uploaded"
    BY <1>10 DEF WritePost, CallsGrounded, TypeOK, ServerTypeOK, Call
  <2>2. /\ comments' = [comments EXCEPT ![call.comment] = new]
        /\ told' = told \cup Notices(call.comment, call.author, call.body)
        /\ files' = [f \in Files |-> IF f \in call.attach
                                       THEN [files[f] EXCEPT !.owner = call.comment]
                                       ELSE files[f]]
        /\ used' = UsedAfter(files') /\ calls' = calls \ {call} /\ UNCHANGED <<logo, slots>>
    BY <1>10 DEF WritePost
  <2>3. new \in CommentRow /\ new # Absent
    BY <2>1, BodiesAssumption DEF CommentRow, Absent
  <2> HIDE DEF new
  <2>4. \A f \in call.attach : /\ [files[f] EXCEPT !.owner = call.comment] \in FileRow
                               /\ [files[f] EXCEPT !.owner = call.comment].status = "uploaded"
    <3> SUFFICES ASSUME NEW f \in call.attach
                 PROVE  /\ [files[f] EXCEPT !.owner = call.comment] \in FileRow
                        /\ [files[f] EXCEPT !.owner = call.comment].status = "uploaded"
      OBVIOUS
    <3>1. files[f] \in FileRow /\ files[f].status = "uploaded"
      BY <2>1, Rows
    <3> QED
      BY <2>1, <3>1 DEF FileRow
  <2>5. /\ files' \in [Files -> FileRow \cup {Absent}]
        /\ \A f \in Files : files'[f].status = files[f].status
        /\ \A f \in Files : FileExists(f) => files'[f] # Absent
    BY <2>1, <2>2, <2>4 DEF TypeOK, ServerTypeOK, FileExists, FileRow, Absent
  <2>6. told' \subseteq [to : Users, comment : Comments]
    BY <2>1, <2>2, BodiesAssumption DEF Notices, TypeOK, ServerTypeOK
  <2>7. comments' \in [Comments -> CommentRow \cup {Absent}]
        /\ \A c \in Comments : CommentExists(c) => comments'[c] # Absent
    BY <2>1, <2>2, <2>3 DEF TypeOK, ServerTypeOK, CommentExists
  <2>8. TypeOK'
    BY <1>10, <2>2, <2>5, <2>6, <2>7, UsedIsNat DEF TypeOK, ServerTypeOK, client
  <2>9. CallsGrounded'
    BY <1>10, <2>2, <2>5, <2>7 DEF CallsGrounded, FileExists, CommentExists, client, TypeOK,
                                  ServerTypeOK, Call
  <2> QED
    BY <1>10, <2>5, <2>8, <2>9 DEF StagesGrounded, Uploaded, client
<1>11. ASSUME NEW call \in calls, WriteEdit(call), UNCHANGED client PROVE Typed'
  <2> DEFINE c == call.comment
             new == [comments[c] EXCEPT !.body = call.body,
                       !.mentions = (@ \ (call.seen \ call.body)) \cup (call.body \ call.seen)]
  <2>1. /\ c \in Comments /\ CommentExists(c) /\ call.body \in Bodies
        /\ call.body \subseteq Users
    BY <1>11, BodiesAssumption DEF WriteEdit, CallsGrounded, TypeOK, ServerTypeOK, Call
  <2>2. comments[c] \in CommentRow
    BY <2>1, Rows
  <2>3. /\ comments' = [comments EXCEPT ![c] = new]
        /\ told' = told \cup NewNotices(call) /\ calls' = calls \ {call}
        /\ UNCHANGED <<files, used, logo, slots>>
    BY <1>11, <2>1 DEF WriteEdit, TypeOK, ServerTypeOK
  <2>4. new \in CommentRow /\ new # Absent
    BY <2>1, <2>2 DEF CommentRow, Absent
  <2>5. NewNotices(call) \subseteq [to : Users, comment : Comments]
    BY <2>1 DEF NewNotices, Notices
  <2> HIDE DEF c, new
  <2>6. comments' \in [Comments -> CommentRow \cup {Absent}]
        /\ \A d \in Comments : CommentExists(d) => comments'[d] # Absent
    BY <2>1, <2>3, <2>4 DEF TypeOK, ServerTypeOK, CommentExists
  <2>7. TypeOK'
    BY <1>11, <2>3, <2>5, <2>6 DEF TypeOK, ServerTypeOK, client
  <2>8. CallsGrounded'
    BY <1>11, <2>3, <2>6 DEF CallsGrounded, FileExists, CommentExists, client, TypeOK,
                            ServerTypeOK, Call
  <2> QED
    BY <1>11, <2>3, <2>7, <2>8 DEF StagesGrounded, Uploaded, client
<1>12. ASSUME NEW call \in calls, Rollback(call), UNCHANGED client PROVE Typed'
  BY <1>12 DEF Rollback, client, TypeOK, ServerTypeOK, CallsGrounded, StagesGrounded, Uploaded,
               FileExists, CommentExists
<1>13. CASE UNCHANGED vars
  BY <1>13 DEF vars, server, client, TypeOK, ServerTypeOK, CallsGrounded, StagesGrounded,
               Uploaded, FileExists, CommentExists
<1> QED
  BY <1>1, <1>2, <1>3, <1>4, <1>5, <1>6, <1>7, <1>8, <1>9, <1>10, <1>11, <1>12, <1>13
     DEF Next, Commits

LEMMA TypedAlways == Spec => []Typed
<1> QED
  BY TypedInit, TypedStep, PTL DEF Spec

\* Rows, notices, the counter and what the browsers hold keep their shape.
THEOREM TypeCorrect == Spec => []TypeOK
<1>1. Typed => TypeOK
  BY DEF Typed
<1> QED
  BY <1>1, TypedAlways, PTL

-----------------------------------------------------------------------------
(* How a step treats the files rows: it adds a pending row, completes the    *)
(* row of a call, gives rows an owner, or leaves them alone.                 *)
Added(f, u, p, prev) ==
  /\ ~FileExists(f) /\ stage[f] = "none"
  /\ prev # None => FileExists(prev) /\ files[prev].purpose = p
  /\ files' = [files EXCEPT ![f] =
       [status |-> "pending", uploader |-> u, purpose |-> p,
        owner |-> OwnerAtUpload(p), previous |-> prev,
        version |-> IF prev = None THEN 1 ELSE files[prev].version + 1]]

Marked(f) == FileExists(f) /\ files' = [files EXCEPT ![f].status = "uploaded"]

Claimed(attach, c) ==
  /\ \A f \in attach : files[f].status = "uploaded"
  /\ files' = [f \in Files |-> IF f \in attach THEN [files[f] EXCEPT !.owner = c] ELSE files[f]]

LEMMA FileSteps ==
  ASSUME Typed, [Next]_vars
  PROVE  \/ UNCHANGED <<files, used>>
         \/ /\ UNCHANGED used
            /\ \E f \in Files, u \in Writers, p \in Purposes, prev \in Files \cup {None} :
                  Added(f, u, p, prev)
         \/ /\ used' = UsedAfter(files')
            /\ \/ \E f \in Files : Marked(f)
               \/ \E attach \in SUBSET Files, c \in Comments : Claimed(attach, c)
<1>1. ASSUME NEW call \in calls, WriteComplete(call)
      PROVE  \E f \in Files : Marked(f) /\ used' = UsedAfter(files')
  BY <1>1 DEF WriteComplete, Marked, Typed, CallsGrounded, TypeOK, ServerTypeOK, Call
<1>2. ASSUME NEW call \in calls, WritePost(call)
      PROVE  /\ used' = UsedAfter(files')
             /\ \E attach \in SUBSET Files, c \in Comments : Claimed(attach, c)
  BY <1>2 DEF WritePost, Claimed, Typed, CallsGrounded, TypeOK, ServerTypeOK, Call
<1>3. ASSUME NEW u \in Writers, NEW f \in Files, NEW p \in Purposes,
             NEW prev \in Files \cup {None}, Start(u, f, p, prev)
      PROVE  Added(f, u, p, prev) /\ UNCHANGED used
  BY <1>3 DEF Start, UploadIntent, Added, FileExists
<1> QED
  BY <1>1, <1>2, <1>3
     DEF Next, Commits, Put, PutFails, Complete, CompleteAgain, LoadComplete, Completed,
         CompleteLost, Post, LoadPost, Edit, LoadEdit, Posted, PostLost, Ages, Age, Delete, Remove, WriteEdit,
         Rollback, server, vars

\* Rows stay, with what they were uploaded for.
LEMMA FilesStay ==
  ASSUME Typed, [Next]_vars, NEW f \in Files, FileExists(f)
  PROVE  /\ FileExists(f)'
         /\ files'[f].purpose = files[f].purpose
         /\ files'[f].uploader = files[f].uploader
         /\ files'[f].previous = files[f].previous
         /\ files'[f].version = files[f].version
         /\ files[f].status = "uploaded" => files'[f].status = "uploaded"
<1>1. files[f] \in FileRow /\ TypeOK
  BY Rows DEF Typed
<1>2. /\ files'[f].purpose = files[f].purpose
      /\ files'[f].uploader = files[f].uploader
      /\ files'[f].previous = files[f].previous
      /\ files'[f].version = files[f].version
      /\ files'[f].status \in {files[f].status, "uploaded"}
  <2>1. CASE UNCHANGED files
    BY <2>1, <1>1 DEF FileRow
  <2>2. ASSUME NEW g \in Files, NEW u \in Writers, NEW p \in Purposes,
               NEW prev \in Files \cup {None}, Added(g, u, p, prev)
        PROVE  files'[f] = files[f]
    BY <2>2, <1>1 DEF Added, TypeOK, ServerTypeOK, FileExists
  <2>3. ASSUME NEW g \in Files, Marked(g)
        PROVE  files'[f] \in {files[f], [files[f] EXCEPT !.status = "uploaded"]}
    BY <2>3, <1>1 DEF Marked, TypeOK, ServerTypeOK
  <2>4. ASSUME NEW attach \in SUBSET Files, NEW c \in Comments, Claimed(attach, c)
        PROVE  files'[f] \in {files[f], [files[f] EXCEPT !.owner = c]}
    BY <2>4, <1>1 DEF Claimed, TypeOK, ServerTypeOK
  <2> QED
    BY <1>1, <2>1, <2>2, <2>3, <2>4, FileSteps DEF FileRow
<1>3. files'[f].status # "absent"
  BY <1>1, <1>2 DEF FileRow
<1> QED
  BY <1>1, <1>2, <1>3 DEF FileExists, Absent, FileRow

-----------------------------------------------------------------------------
(* The storage counter.                                                      *)
Counted == used = Cardinality(Uploaded)

LEMMA CountedInit == Init => Counted
<1> SUFFICES ASSUME Init PROVE used = Cardinality(Uploaded)
  BY DEF Counted
<1>1. Uploaded = {}
  BY DEF Init, ServerInit, Uploaded, Absent
<1> QED
  BY <1>1, FS_EmptySet DEF Init, ServerInit

LEMMA CountedStep == Typed /\ Counted /\ [Next]_vars => Counted'
<1> SUFFICES ASSUME Typed, used = Cardinality(Uploaded), [Next]_vars
             PROVE  used' = Cardinality(Uploaded')
  BY DEF Counted
<1>1. CASE UNCHANGED <<files, used>>
  BY <1>1 DEF Uploaded
<1>2. ASSUME NEW f \in Files, NEW u \in Writers, NEW p \in Purposes,
             NEW prev \in Files \cup {None}, Added(f, u, p, prev), UNCHANGED used
      PROVE  used' = Cardinality(Uploaded')
  <2>1. Uploaded' = Uploaded
    BY <1>2 DEF Added, Uploaded, FileExists, Absent, Typed, TypeOK, ServerTypeOK
  <2> QED
    BY <1>2, <2>1
<1>3. CASE used' = UsedAfter(files')
  <2> DEFINE new == {f \in Files : files'[f].status = "uploaded" /\ files[f].status # "uploaded"}
  <2>1. \A f \in Uploaded : FileExists(f)
    BY DEF Uploaded, FileExists, Absent
  <2>2. Uploaded \subseteq Uploaded'
    BY <2>1, FilesStay DEF Uploaded
  <2>3. Uploaded' = Uploaded \cup new /\ Uploaded \cap new = {}
    BY <2>2 DEF Uploaded
  <2>4. Uploaded \subseteq Files /\ new \subseteq Files
    BY DEF Uploaded
  <2>5. IsFiniteSet(Uploaded) /\ IsFiniteSet(new)
    BY <2>4, FilesAssumption, FS_Subset
  <2>6. used' = Cardinality(Uploaded) + Cardinality(new)
    BY <1>3 DEF UsedAfter
  <2> HIDE DEF new
  <2>7. Cardinality(Uploaded \cup new)
          = Cardinality(Uploaded) + Cardinality(new) - Cardinality(Uploaded \cap new)
    BY <2>5, FS_Union
  <2>8. Cardinality(Uploaded \cap new) = 0
    BY <2>3, FS_EmptySet
  <2>9. Cardinality(Uploaded) \in Nat /\ Cardinality(new) \in Nat
    BY <2>5, FS_CardinalityType
  <2> QED
    BY <2>3, <2>6, <2>7, <2>8, <2>9
<1> QED
  BY <1>1, <1>2, <1>3, FileSteps

(* companies.storage_used_bytes counts each uploaded row once, and the       *)
(* object store has its bytes, however uploads, completions, claims, lost    *)
(* answers and roll-backs interleave.                                        *)
THEOREM StorageExact == Spec => []StorageIsExact
<1>1. Typed /\ Counted => StorageIsExact
  BY DEF Typed, Counted, StorageIsExact
<1> QED
  BY <1>1, CountedInit, CountedStep, TypedAlways, PTL DEF Spec

-----------------------------------------------------------------------------
(* Version chains.                                                           *)
LEMMA LinkedInit == Init => VersionsAreLinked
BY DEF Init, ServerInit, VersionsAreLinked

LEMMA LinkedStep == Typed /\ VersionsAreLinked /\ [Next]_vars => VersionsAreLinked'
<1> SUFFICES ASSUME Typed, VersionsAreLinked, [Next]_vars, NEW f \in Files, NEW g,
                    files'[f] # Absent, g = files'[f].previous, g # None
             PROVE  /\ files'[g] # Absent
                    /\ files'[g].purpose = files'[f].purpose
                    /\ files'[f].version = files'[g].version + 1
  BY DEF VersionsAreLinked
<1>1. CASE FileExists(f)
  <2>1. files[f] \in FileRow
    BY <1>1, Rows DEF Typed
  <2>2. g = files[f].previous
    BY <1>1, FilesStay
  <2>3. g \in Files
    BY <2>1, <2>2 DEF FileRow
  <2>4. /\ FileExists(g) /\ files[g].purpose = files[f].purpose
        /\ files[f].version = files[g].version + 1
    BY <1>1, <2>2 DEF VersionsAreLinked, FileExists
  <2>5. /\ files'[g] # Absent /\ files'[g].purpose = files[g].purpose
        /\ files'[g].version = files[g].version
    BY <2>3, <2>4, FilesStay DEF FileExists
  <2>6. files'[f].purpose = files[f].purpose /\ files'[f].version = files[f].version
    BY <1>1, FilesStay
  <2> QED
    BY <2>2, <2>4, <2>5, <2>6
<1>2. CASE ~FileExists(f)
  <2>1. PICK u \in Writers, p \in Purposes, prev \in Files \cup {None} : Added(f, u, p, prev)
    <3>1. ~UNCHANGED files
      BY <1>2 DEF FileExists
    <3>2. ASSUME NEW h \in Files, NEW u \in Writers, NEW p \in Purposes,
                 NEW prev \in Files \cup {None}, Added(h, u, p, prev)
          PROVE  h = f
      BY <1>2, <3>2 DEF Added, FileExists, Typed, TypeOK, ServerTypeOK
    <3>3. ASSUME NEW h \in Files, Marked(h) PROVE FALSE
      BY <1>2, <3>3 DEF Marked, FileExists, Typed, TypeOK, ServerTypeOK
    <3>4. ASSUME NEW attach \in SUBSET Files, NEW c \in Comments, Claimed(attach, c) PROVE FALSE
      BY <1>2, <3>4 DEF Claimed, FileExists, Absent
    <3> QED
      BY <3>1, <3>2, <3>3, <3>4, FileSteps
  <2>2. /\ files'[f].previous = prev /\ files'[f].purpose = p
        /\ prev # None => files'[f].version = files[prev].version + 1
    BY <2>1 DEF Added, Typed, TypeOK, ServerTypeOK
  <2>3. prev \in Files /\ FileExists(prev) /\ files[prev].purpose = p
    BY <2>1, <2>2 DEF Added
  <2>4. /\ files'[prev] # Absent /\ files'[prev].purpose = p
        /\ files'[prev].version = files[prev].version
    BY <2>3, FilesStay DEF FileExists
  <2> QED
    BY <2>2, <2>3, <2>4
<1> QED
  BY <1>1, <1>2

(* A new version has the purpose of the row it supersedes and the next       *)
(* number, whatever happens to either row later.                             *)
THEOREM VersionsLinked == Spec => []VersionsAreLinked
<1> QED
  BY LinkedInit, LinkedStep, TypedAlways, PTL DEF Spec

-----------------------------------------------------------------------------
(* Mentions and notifications.                                               *)
LEMMA ToldInit == Init => MentionedAreTold
BY DEF Init, ServerInit, MentionedAreTold

LEMMA ToldStep == Typed /\ MentionedAreTold /\ [Next]_vars => MentionedAreTold'
<1> SUFFICES ASSUME Typed, MentionedAreTold, [Next]_vars PROVE MentionedAreTold'
  OBVIOUS
<1> USE DEF Typed, TypeOK, ServerTypeOK
<1>1. ASSUME NEW call \in calls, WritePost(call) PROVE MentionedAreTold'
  <2>1. call.comment \in Comments
    BY <1>1 DEF WritePost, Call
  <2>2. /\ comments'[call.comment].mentions = call.body
        /\ comments'[call.comment].author = call.author
        /\ \A c \in Comments : c # call.comment => comments'[c] = comments[c]
        /\ told' = told \cup {[to |-> v, comment |-> call.comment] : v \in call.body \ {call.author}}
    BY <1>1, <2>1 DEF WritePost, Notices
  <2> QED
    BY <2>1, <2>2 DEF MentionedAreTold
<1>2. ASSUME NEW call \in calls, WriteEdit(call) PROVE MentionedAreTold'
  <2> DEFINE c == call.comment
  <2>1. c \in Comments /\ CommentExists(c)
    BY <1>2 DEF WriteEdit, Call, CallsGrounded
  <2>2. comments[c] \in CommentRow
    BY <2>1, Rows
  <2>3. /\ comments'[c].mentions
              = (comments[c].mentions \ (call.seen \ call.body)) \cup (call.body \ call.seen)
        /\ comments'[c].author = comments[c].author
        /\ \A d \in Comments : d # c => comments'[d] = comments[d]
    BY <1>2, <2>1, <2>2 DEF WriteEdit, CommentRow
  <2>4. told' = told \cup {[to |-> v, comment |-> c] :
                             v \in (call.body \ call.seen) \ {comments[c].author}}
    BY <1>2 DEF WriteEdit, NewNotices, Notices
  <2> HIDE DEF c
  <2> QED
    BY <2>1, <2>3, <2>4 DEF MentionedAreTold, CommentExists
<1>3. ASSUME NEW c \in Comments, comments[c] # Absent, UNCHANGED told,
             \/ comments' = [comments EXCEPT ![c].status = "deleted"]
             \/ comments' = [comments EXCEPT ![c].fresh = FALSE]
      PROVE  MentionedAreTold'
  <2>1. comments[c] \in CommentRow
    BY <1>3
  <2>2. comments'[c].mentions = comments[c].mentions /\ comments'[c].author = comments[c].author
    BY <1>3, <2>1 DEF CommentRow
  <2> QED
    BY <1>3, <2>2 DEF MentionedAreTold
<1>4. CASE UNCHANGED <<comments, told>>
  BY <1>4 DEF MentionedAreTold
<1>5. ASSUME NEW u \in Writers, NEW c \in Comments, Delete(u, c) PROVE MentionedAreTold'
  <2>1. comments[c] # Absent
    BY <1>5 DEF Delete, Remove, Absent
  <2>2. UNCHANGED told /\ comments' = [comments EXCEPT ![c].status = "deleted"]
    BY <1>5 DEF Delete, Remove
  <2> QED
    BY <1>3, <2>1, <2>2
<1>6. ASSUME NEW c \in Comments, Ages(c) PROVE MentionedAreTold'
  BY <1>3, <1>6 DEF Ages, Age
<1> QED
  BY <1>1, <1>2, <1>4, <1>5, <1>6
     DEF Next, Commits, Start, UploadIntent, Put, PutFails, Complete, CompleteAgain,
         LoadComplete, Completed, CompleteLost, Post, LoadPost, Edit, LoadEdit, Posted, PostLost, WriteComplete,
         Rollback, server, vars

(* Whoever has a mention row in somebody else's comment was notified of it,  *)
(* whatever posts, edits and deletions overlap.                              *)
THEOREM MentionsTold == Spec => []MentionedAreTold
<1> QED
  BY ToldInit, ToldStep, TypedAlways, PTL DEF Spec

-----------------------------------------------------------------------------
(* The composer's queue.  A queued file is its user's and its upload is over;*)
(* an upload that is not over is nobody's.  While no answer is lost, a post  *)
(* is under way only while its author's composer waits for it; so a queue    *)
(* whose composer waits for nothing, or for a comment that does not exist,   *)
(* is unclaimed.                                                             *)
Held(u, f) == stage[f] = "done" /\ FileExists(f) /\ files[f].uploader = u

Unclaimed(u) == \A f \in queue[u] : Claimable(u, f)

Queued ==
  /\ \A u \in Users : \A f \in queue[u] : Held(u, f)
  /\ \A call \in calls : call.op = "post" => \A f \in call.attach : Held(call.author, f)
  /\ \A f \in Files :
       FileExists(f) /\ files[f].purpose = "comment_attachment" /\ stage[f] # "done" =>
         files[f].owner = None
  /\ faults = 0 =>
       /\ \A call \in calls : call.op = "post" => sending[call.author] = call.comment
       /\ \A u \in Users :
            sending[u] = None \/ comments[sending[u]] = Absent => Unclaimed(u)

LEMMA QueuedInit == Init => Queued
BY DEF Init, ServerInit, Queued, Held, Unclaimed, FileExists

(* What a step that leaves the files alone, or adds to them, keeps.          *)
LEMMA HeldStays ==
  ASSUME Typed, [Next]_vars, NEW u \in Users, NEW f \in Files, Held(u, f),
         stage'[f] = "done"
  PROVE  Held(u, f)'
BY FilesStay DEF Held

LEMMA DoneStays ==
  ASSUME Typed, [Next]_vars, NEW f \in Files, stage[f] = "done"
  PROVE  stage'[f] = "done"
BY DEF Next, Commits, Start, Put, PutFails, Complete, CompleteAgain, Completed, CompleteLost,
       Post, Edit, Posted, PostLost, Ages, Delete, Moves, client, vars, Typed, TypeOK

\* A row that exists keeps its claimability unless a post claims it.
LEMMA ClaimableStays ==
  ASSUME Typed, NEW u \in Users, NEW f \in Files, Claimable(u, f),
         \/ UNCHANGED files
         \/ \E g \in Files, v \in Writers, p \in Purposes, prev \in Files \cup {None} :
              Added(g, v, p, prev)
         \/ \E g \in Files : Marked(g)
  PROVE  Claimable(u, f)'
<1>1. FileExists(f) /\ files[f] \in FileRow
  BY Rows DEF Claimable, Typed
<1>2. CASE UNCHANGED files
  BY <1>2 DEF Claimable
<1>3. ASSUME NEW g \in Files, NEW v \in Writers, NEW p \in Purposes,
             NEW prev \in Files \cup {None}, Added(g, v, p, prev)
      PROVE  files'[f] = files[f]
  BY <1>1, <1>3 DEF Added, Typed, TypeOK, ServerTypeOK
<1>4. ASSUME NEW g \in Files, Marked(g)
      PROVE  files'[f] \in {files[f], [files[f] EXCEPT !.status = "uploaded"]}
  BY <1>1, <1>4 DEF Marked, Typed, TypeOK, ServerTypeOK
<1> QED
  BY <1>1, <1>2, <1>3, <1>4 DEF Claimable, FileRow

LEMMA QueuedStep == Typed /\ Queued /\ [Next]_vars => Queued'
<1> SUFFICES ASSUME Typed, Queued, [Next]_vars PROVE Queued'
  OBVIOUS
<1>0. /\ \A u \in Users, f \in Files : Held(u, f) => Held(u, f)'
      /\ TypeOK /\ TypeOK'
  BY HeldStays, DoneStays, TypedStep DEF Held, Typed
\* What is not about the files, when neither posts nor queues change.
<1>1. ASSUME UNCHANGED <<queue, sending>>,
             \A call \in calls' : call.op = "post" => call \in calls,
             \A c \in Comments : comments'[c] = Absent => comments[c] = Absent,
             \A u \in Users, f \in Files : Claimable(u, f) => Claimable(u, f)',
             \A f \in Files : FileExists(f)' /\ files'[f].purpose = "comment_attachment"
                                /\ stage'[f] # "done" => files'[f].owner = None,
             faults' = 0 => faults = 0
      PROVE  Queued'
  <2>1. \A u \in Users : \A f \in queue'[u] : Held(u, f)'
    BY <1>0, <1>1 DEF Queued, TypeOK
  <2>2. \A call \in calls' : call.op = "post" => \A f \in call.attach : Held(call.author, f)'
    BY <1>0, <1>1 DEF Queued, TypeOK, ServerTypeOK, Call
  <2>3. ASSUME faults' = 0 PROVE \A call \in calls' : call.op = "post" =>
                                   sending'[call.author] = call.comment
    BY <1>1, <2>3 DEF Queued
  <2>4. ASSUME faults' = 0, NEW u \in Users, sending'[u] = None \/ comments'[sending'[u]] = Absent
        PROVE  Unclaimed(u)'
    <3>1. sending[u] = None \/ comments[sending[u]] = Absent
      BY <1>0, <1>1, <2>4 DEF TypeOK
    <3>2. Unclaimed(u)
      BY <1>1, <2>4, <3>1 DEF Queued
    <3> QED
      BY <1>0, <1>1, <3>2 DEF Unclaimed, TypeOK
  <2> QED
    BY <1>1, <2>1, <2>2, <2>3, <2>4 DEF Queued
<1>2. ASSUME NEW u \in Writers, NEW f \in Files, NEW p \in Purposes,
             NEW prev \in Files \cup {None}, Start(u, f, p, prev)
      PROVE  Queued'
  <2>1. Added(f, u, p, prev) /\ stage' = [stage EXCEPT ![f] = "uploading"]
        /\ UNCHANGED <<queue, sending, calls, comments, faults>>
    BY <1>2 DEF Start, UploadIntent, Added, Moves, FileExists
  <2>2. \A v \in Users, g \in Files : Claimable(v, g) => Claimable(v, g)'
    BY <2>1, ClaimableStays
  <2>3. files'[f].owner = OwnerAtUpload(p) /\ files'[f].purpose = p
        /\ \A g \in Files : g # f => files'[g] = files[g] /\ stage'[g] = stage[g]
    BY <1>0, <2>1 DEF Added, TypeOK, ServerTypeOK
  <2>4. \A g \in Files : FileExists(g)' /\ files'[g].purpose = "comment_attachment"
                           /\ stage'[g] # "done" => files'[g].owner = None
    BY <2>3 DEF Queued, FileExists, OwnerAtUpload
  <2> QED
    BY <1>1, <2>1, <2>2, <2>4
<1>3. ASSUME NEW f \in Files,
             Put(f) \/ PutFails(f) \/ Complete(f) \/ CompleteAgain(f) \/ CompleteLost(f)
      PROVE  Queued'
  <2>1. /\ UNCHANGED <<queue, sending, comments, files>>
        /\ calls' \subseteq calls \cup {[op |-> "complete", file |-> f, again |-> FALSE],
                                       [op |-> "complete", file |-> f, again |-> TRUE]}
        /\ stage[f] # "done" /\ \E s \in Stages : stage' = [stage EXCEPT ![f] = s]
        /\ faults' = 0 => faults = 0
    BY <1>0, <1>3 DEF Put, PutFails, Complete, CompleteAgain, CompleteLost, LoadComplete,
                      Begin, Moves, Fault, Stages, server, TypeOK
  <2>2. \A g \in Files : stage'[g] # "done" => stage[g] # "done"
    BY <1>0, <2>1 DEF TypeOK
  <2> QED
    BY <1>1, <2>1, <2>2 DEF Queued, FileExists, Claimable
<1>4. ASSUME NEW f \in Files, Completed(f) PROVE Queued'
  <2>1. /\ UNCHANGED <<files, comments, calls, sending, faults>>
        /\ stage[f] = "completing"
    BY <1>4 DEF Completed, server
  <2>2. CASE files[f].status = "uploaded" /\ files[f].purpose = "comment_attachment"
    <3>0. FileExists(f) /\ files[f].uploader \in Users
      BY <1>0, <2>2, Rows DEF FileRow, Absent, FileExists
    <3>1. PICK u \in Users : u = files[f].uploader
      BY <3>0
    <3>2. files[f].owner = None
      BY <2>1, <2>2, <3>0 DEF Queued
    <3>3. /\ queue' = [queue EXCEPT ![u] = @ \cup {f}]
          /\ stage' = [stage EXCEPT ![f] = "done"]
      BY <1>4, <2>2, <3>1 DEF Completed, Moves
    <3>4. Held(u, f)' /\ Claimable(u, f)'
      BY <1>0, <2>1, <2>2, <3>0, <3>1, <3>2, <3>3 DEF Held, Claimable, FileExists, TypeOK
    <3>5. \A v \in Users : \A g \in queue'[v] : Held(v, g)'
      BY <1>0, <3>1, <3>3, <3>4 DEF Queued, TypeOK
    <3>6. \A call \in calls' : call.op = "post" => \A g \in call.attach : Held(call.author, g)'
      BY <1>0, <2>1 DEF Queued, TypeOK, ServerTypeOK, Call
    <3>7. \A v \in Users : Unclaimed(v) => Unclaimed(v)'
      BY <1>0, <2>1, <3>1, <3>3, <3>4 DEF Unclaimed, Claimable, TypeOK
    <3>8. \A g \in Files : stage'[g] # "done" => stage[g] # "done"
      BY <1>0, <2>1, <3>3 DEF TypeOK
    <3> QED
      BY <2>1, <3>5, <3>6, <3>7, <3>8 DEF Queued, FileExists
  <2>3. CASE ~(files[f].status = "uploaded" /\ files[f].purpose = "comment_attachment")
    <3>1. UNCHANGED queue /\ \E s \in Stages : stage' = [stage EXCEPT ![f] = s]
      BY <1>4, <2>3 DEF Completed, Moves, Stages
    <3>2. \A g \in Files : stage'[g] # "done" => stage[g] # "done"
      BY <1>0, <2>1, <3>1 DEF TypeOK
    <3>3. \A v \in Users, g \in Files : Claimable(v, g) => Claimable(v, g)'
      BY <2>1 DEF Claimable
    <3>4. \A g \in Files : FileExists(g)' /\ files'[g].purpose = "comment_attachment"
                             /\ stage'[g] # "done" => files'[g].owner = None
      BY <2>1, <3>2 DEF Queued, FileExists
    <3> QED
      BY <1>1, <2>1, <3>1, <3>3, <3>4
  <2> QED
    BY <2>2, <2>3
<1>5. ASSUME NEW u \in Writers, NEW c \in Comments, NEW body \in Bodies, Post(u, c, body)
      PROVE  Queued'
  <2> DEFINE new == [op |-> "post", comment |-> c, author |-> u, body |-> body,
                     attach |-> queue[u]]
  <2>1. /\ sending[u] = None /\ \A f \in queue[u] : Claimable(u, f)
        /\ calls' = calls \cup {new} /\ sending' = [sending EXCEPT ![u] = c]
        /\ UNCHANGED <<files, comments, stage, queue, faults>>
        /\ u \in Users
    BY <1>5, WritersAssumption DEF Post, LoadPost, Begin
  <2>2. new.author = u /\ new.comment = c /\ new.attach = queue[u]
    OBVIOUS
  <2> HIDE DEF new
  <2>3. \A v \in Users : \A f \in queue'[v] : Held(v, f)'
    BY <2>1 DEF Queued, Held, FileExists
  <2>4. \A call \in calls' : call.op = "post" => \A f \in call.attach : Held(call.author, f)'
    BY <2>1, <2>2 DEF Queued, Held, FileExists
  <2>5. \A f \in Files : FileExists(f)' /\ files'[f].purpose = "comment_attachment"
                           /\ stage'[f] # "done" => files'[f].owner = None
    BY <2>1 DEF Queued, FileExists
  <2>6. ASSUME faults' = 0, NEW call \in calls', call.op = "post"
        PROVE  sending'[call.author] = call.comment
    <3>1. CASE call = new
      BY <1>0, <2>1, <2>2, <3>1 DEF TypeOK
    <3>2. CASE call # new
      <4>1. call \in calls /\ sending[call.author] = call.comment
        BY <2>1, <2>6, <3>2 DEF Queued
      <4>2. call.author \in Users /\ call.comment \in Comments
        BY <1>0, <2>6, <4>1 DEF TypeOK, ServerTypeOK, Call
      <4>3. call.author # u
        BY <2>1, <4>1, <4>2, NoneAssumption
      <4> QED
        BY <1>0, <2>1, <4>1, <4>2, <4>3 DEF TypeOK
    <3> QED
      BY <3>1, <3>2
  <2>7. ASSUME faults' = 0, NEW v \in Users, sending'[v] = None \/ comments'[sending'[v]] = Absent
        PROVE  Unclaimed(v)'
    <3>1. CASE v = u
      BY <2>1, <3>1 DEF Unclaimed, Claimable
    <3>2. CASE v # u
      BY <1>0, <2>1, <2>7, <3>2 DEF Unclaimed, Claimable, Queued, TypeOK
    <3> QED
      BY <3>1, <3>2
  <2> QED
    BY <2>3, <2>4, <2>5, <2>6, <2>7 DEF Queued
<1>6. ASSUME NEW u \in Writers, Posted(u) PROVE Queued'
  <2>1. /\ sending[u] # None /\ ~InFlight("post", sending[u])
        /\ queue' = IF comments[sending[u]] # Absent THEN [queue EXCEPT ![u] = {}] ELSE queue
        /\ sending' = [sending EXCEPT ![u] = None]
        /\ UNCHANGED <<files, comments, calls, stage, faults>>
        /\ u \in Users
    BY <1>6, WritersAssumption DEF Posted, ClearsQueue, server
  <2>2. \A v \in Users : queue'[v] \subseteq queue[v]
    BY <1>0, <2>1 DEF TypeOK
  <2>3. \A v \in Users : \A f \in queue'[v] : Held(v, f)'
    BY <2>1, <2>2 DEF Queued, Held, FileExists
  <2>4. \A call \in calls' : call.op = "post" => \A f \in call.attach : Held(call.author, f)'
    BY <2>1 DEF Queued, Held, FileExists
  <2>5. \A f \in Files : FileExists(f)' /\ files'[f].purpose = "comment_attachment"
                           /\ stage'[f] # "done" => files'[f].owner = None
    BY <2>1 DEF Queued, FileExists
  <2>6. ASSUME faults' = 0, NEW call \in calls', call.op = "post"
        PROVE  sending'[call.author] = call.comment
    <3>1. call \in calls /\ sending[call.author] = call.comment
      BY <2>1, <2>6 DEF Queued
    <3>2. call.author \in Users
      BY <1>0, <2>6, <3>1 DEF TypeOK, ServerTypeOK, Call
    <3>3. call.author # u
      BY <2>1, <2>6, <3>1 DEF InFlight
    <3> QED
      BY <1>0, <2>1, <3>1, <3>2, <3>3 DEF TypeOK
  <2>7. ASSUME faults' = 0, NEW v \in Users, sending'[v] = None \/ comments'[sending'[v]] = Absent
        PROVE  Unclaimed(v)'
    <3>1. CASE v = u /\ comments[sending[u]] # Absent
      <4>1. queue'[u] = {}
        BY <1>0, <2>1, <3>1 DEF TypeOK
      <4> QED
        BY <3>1, <4>1 DEF Unclaimed
    <3>2. CASE v = u /\ comments[sending[u]] = Absent
      <4>1. Unclaimed(v)
        BY <2>1, <2>7, <3>2 DEF Queued
      <4> QED
        BY <2>1, <3>2, <4>1 DEF Unclaimed, Claimable
    <3>3. CASE v # u
      <4>1. Unclaimed(v)
        BY <1>0, <2>1, <2>7, <3>3 DEF Queued, TypeOK
      <4> QED
        BY <2>1, <2>2, <4>1 DEF Unclaimed, Claimable
    <3> QED
      BY <3>1, <3>2, <3>3
  <2> QED
    BY <2>3, <2>4, <2>5, <2>6, <2>7 DEF Queued
<1>7. ASSUME NEW u \in Writers, PostLost(u) PROVE Queued'
  <2>1. /\ UNCHANGED <<files, comments, calls, stage, queue>>
        /\ faults' # 0
    BY <1>0, <1>7 DEF PostLost, Fault, server, TypeOK
  <2> QED
    BY <2>1 DEF Queued, Held, FileExists
<1>8. ASSUME NEW call \in calls, WriteComplete(call), UNCHANGED client PROVE Queued'
  <2>1. Marked(call.file) /\ call.file \in Files /\ calls' \subseteq calls
        /\ UNCHANGED <<comments, queue, sending, stage, faults>>
    BY <1>0, <1>8 DEF WriteComplete, Marked, Typed, CallsGrounded, TypeOK, ServerTypeOK, Call, client
  <2>2. \A v \in Users, g \in Files : Claimable(v, g) => Claimable(v, g)'
    BY <2>1, ClaimableStays
  <2>3. files[call.file] \in FileRow
    BY <1>0, <2>1, Rows DEF Marked
  <2>4. \A g \in Files : FileExists(g)' /\ files'[g].purpose = "comment_attachment"
                           /\ stage'[g] # "done" => files'[g].owner = None
    BY <1>0, <2>1, <2>3 DEF Queued, FileExists, Marked, FileRow, TypeOK, ServerTypeOK
  <2> QED
    BY <1>1, <2>1, <2>2, <2>4
<1>9. ASSUME NEW call \in calls, WritePost(call), UNCHANGED client PROVE Queued'
  <2>1. /\ call.op = "post" /\ call \in Call /\ call.author \in Users /\ call.comment \in Comments
    BY <1>0, <1>9 DEF WritePost, TypeOK, ServerTypeOK, Call
  <2>2. /\ calls' = calls \ {call} /\ UNCHANGED <<queue, sending, stage, faults>>
        /\ files' = [f \in Files |-> IF f \in call.attach
                                       THEN [files[f] EXCEPT !.owner = call.comment]
                                       ELSE files[f]]
        /\ comments'[call.comment] # Absent
        /\ \A c \in Comments : c # call.comment => comments'[c] = comments[c]
    BY <1>0, <1>9, <2>1 DEF WritePost, Absent, client, TypeOK, ServerTypeOK
  <2>3. \A f \in call.attach : Held(call.author, f)
    BY <2>1 DEF Queued
  <2>4. \A v \in Users : \A f \in queue'[v] : Held(v, f)'
    BY <1>0, <2>2 DEF Queued, TypeOK
  <2>5. \A k \in calls' : k.op = "post" => \A f \in k.attach : Held(k.author, f)'
    BY <1>0, <2>2 DEF Queued, TypeOK, ServerTypeOK, Call
  <2>6. ASSUME NEW f \in Files, FileExists(f)', files'[f].purpose = "comment_attachment",
               stage'[f] # "done"
        PROVE  files'[f].owner = None
    <3>1. f \notin call.attach
      BY <2>2, <2>3, <2>6 DEF Held
    <3>2. files'[f] = files[f]
      BY <2>2, <3>1
    <3> QED
      BY <2>2, <2>6, <3>2 DEF Queued, FileExists
  <2>7. ASSUME faults' = 0, NEW v \in Users, sending'[v] = None \/ comments'[sending'[v]] = Absent
        PROVE  Unclaimed(v)'
    <3>1. sending[call.author] = call.comment
      BY <2>1, <2>2, <2>7 DEF Queued
    <3>2. v # call.author
      BY <2>1, <2>2, <2>7, <3>1, NoneAssumption
    <3>3. Unclaimed(v)
      BY <1>0, <2>2, <2>7 DEF Queued, TypeOK
    <3>4. \A f \in queue[v] : f \in Files /\ f \notin call.attach
      BY <1>0, <2>3, <3>2 DEF Queued, Held, TypeOK
    <3>5. \A f \in queue[v] : files'[f] = files[f]
      BY <2>2, <3>4
    <3> QED
      BY <2>2, <3>3, <3>5 DEF Unclaimed, Claimable
  <2>8. ASSUME faults' = 0, NEW k \in calls', k.op = "post"
        PROVE  sending'[k.author] = k.comment
    BY <2>2, <2>8 DEF Queued
  <2> QED
    BY <2>4, <2>5, <2>6, <2>7, <2>8 DEF Queued
\* The other steps leave the files, the queues and the posts alone.
<1>10. ASSUME UNCHANGED <<files, stage, queue, sending, faults>>,
              \A call \in calls' : call.op = "post" => call \in calls,
              \A c \in Comments : comments'[c] = Absent => comments[c] = Absent
       PROVE  Queued'
  BY <1>1, <1>10 DEF Queued, FileExists, Claimable
<1>11. ASSUME NEW u \in Writers, NEW c \in Comments, NEW body \in Bodies, Edit(u, c, body)
       PROVE  Queued'
  BY <1>10, <1>11 DEF Edit, LoadEdit, Begin
<1>12. ASSUME NEW c \in Comments, \/ Ages(c)
                                  \/ \E u \in Writers : Delete(u, c)
       PROVE  Queued'
  <2>1. /\ UNCHANGED <<files, stage, queue, sending, faults, calls>>
        /\ \/ comments' = [comments EXCEPT ![c].fresh = FALSE]
           \/ comments' = [comments EXCEPT ![c].status = "deleted"]
        /\ comments[c] # Absent
    BY <1>12 DEF Ages, Age, Delete, Remove, client, Absent
  <2>2. comments[c] \in CommentRow
    BY <1>0, <2>1 DEF TypeOK, ServerTypeOK
  <2>3. /\ comments'[c] \in {[comments[c] EXCEPT !.fresh = FALSE],
                              [comments[c] EXCEPT !.status = "deleted"]}
        /\ \A d \in Comments : d # c => comments'[d] = comments[d]
    BY <1>0, <2>1 DEF TypeOK, ServerTypeOK
  <2>4. \A d \in Comments : comments'[d] = Absent => comments[d] = Absent
    BY <2>1, <2>2, <2>3 DEF CommentRow, Absent
  <2> QED
    BY <1>10, <2>1, <2>4
<1>13. ASSUME NEW call \in calls, WriteEdit(call) \/ Rollback(call), UNCHANGED client
       PROVE  Queued'
  <2>1. UNCHANGED <<files, stage, queue, sending, faults>> /\ calls' \subseteq calls
    BY <1>13 DEF WriteEdit, Rollback, client
  <2>2. \A d \in Comments : CommentExists(d) => CommentExists(d)'
    <3>1. CASE Rollback(call)
      BY <3>1 DEF Rollback, CommentExists
    <3>2. CASE WriteEdit(call)
      <4>1. call.comment \in Comments /\ CommentExists(call.comment)
        BY <1>0, <3>2 DEF WriteEdit, Typed, CallsGrounded, TypeOK, ServerTypeOK, Call
      <4>2. comments[call.comment] \in CommentRow
        BY <1>0, <4>1, Rows
      <4>3. /\ comments'[call.comment].status = comments[call.comment].status
            /\ \A d \in Comments : d # call.comment => comments'[d] = comments[d]
        BY <1>0, <3>2, <4>1, <4>2 DEF WriteEdit, CommentRow, TypeOK, ServerTypeOK
      <4> QED
        BY <1>0, <4>1, <4>2, <4>3, Rows DEF CommentExists, CommentRow, Absent
    <3> QED
      BY <1>13, <3>1, <3>2
  <2> QED
    BY <1>10, <2>1, <2>2 DEF CommentExists
<1>14. CASE UNCHANGED vars
  BY <1>10, <1>14 DEF vars, server, client
<1> QED
  BY <1>2, <1>3, <1>4, <1>5, <1>6, <1>7, <1>8, <1>9, <1>11, <1>12, <1>13, <1>14
     DEF Next, Commits

(* While no answer is lost, the queue of a composer that waits for no answer *)
(* can be posted: its files are its user's, uploaded, and claimed by no      *)
(* comment, with any number of posts and uploads in flight.                  *)
THEOREM QueueClaimable == Spec => []QueuedIsClaimable
<1>1. Queued => QueuedIsClaimable
  BY DEF Queued, QueuedIsClaimable, Unclaimed
<1> QED
  BY <1>1, QueuedInit, QueuedStep, TypedAlways, PTL DEF Spec

-----------------------------------------------------------------------------
(* Transactions that do not overlap: what one has read is still so when it   *)
(* writes.                                                                   *)
AtMostOne(S) == \A x, y \in S : x = y

Belongs(f, c) == FileExists(f) /\ files[f].owner = c

CommentHolds(c) ==
  CommentExists(c) => /\ comments[c].mentions = comments[c].body
                      /\ \A f \in comments[c].sent : Belongs(f, c)

CallHolds(call) ==
  /\ call.op = "post" => \A f \in call.attach : Claimable(call.author, f)
  /\ call.op = "edit" => call.seen = comments[call.comment].mentions

Whole ==
  slots = 1 => /\ AtMostOne(calls)
               /\ \A call \in calls : CallHolds(call)
               /\ \A c \in Comments : CommentHolds(c)

LEMMA WholeInit == Init => Whole
BY DEF Init, ServerInit, Whole, AtMostOne, CommentHolds, CommentExists

LEMMA FewAreFinite ==
  ASSUME NEW S, AtMostOne(S)
  PROVE  IsFiniteSet(S) /\ Cardinality(S) \in {0, 1} /\ (Cardinality(S) = 0 => S = {})
<1>1. CASE S = {}
  BY <1>1, FS_EmptySet
<1>2. ASSUME NEW x \in S PROVE S = {x}
  BY <1>2 DEF AtMostOne
<1>3. ASSUME NEW x \in S
      PROVE  IsFiniteSet(S) /\ Cardinality(S) = 1
  BY <1>2, <1>3, FS_Singleton
<1> QED
  BY <1>1, <1>3

LEMMA BeginsAlone ==
  ASSUME Whole, slots = 1, NEW call, Begin(call)
  PROVE  calls = {} /\ calls' = {call}
<1>1. Cardinality(calls) \in {0, 1} /\ (Cardinality(calls) = 0 => calls = {})
  BY FewAreFinite DEF Whole
<1>2. Cardinality(calls) < 1
  BY DEF Begin
<1> QED
  BY <1>1, <1>2 DEF Begin

\* A row that exists keeps its owner unless a post claims it.
LEMMA BelongsStays ==
  ASSUME Typed, NEW f \in Files, NEW c, Belongs(f, c),
         \/ UNCHANGED files
         \/ \E g \in Files, v \in Writers, p \in Purposes, prev \in Files \cup {None} :
              Added(g, v, p, prev)
         \/ \E g \in Files : Marked(g)
  PROVE  Belongs(f, c)'
<1>1. FileExists(f) /\ files[f] \in FileRow /\ files[f].owner = c
  BY Rows DEF Belongs, Typed
<1>2. files'[f] \in {files[f], [files[f] EXCEPT !.status = "uploaded"]}
  BY <1>1 DEF Added, Marked, Typed, TypeOK, ServerTypeOK, FileExists
<1>3. files'[f] \in FileRow /\ files'[f].owner = c
  BY <1>1, <1>2 DEF FileRow
<1> QED
  BY <1>3 DEF Belongs, FileExists, FileRow, Absent

\* The comments keep, unless a post claims files or an edit changes mentions.
LEMMA CommentsKept ==
  ASSUME Typed, NEW c \in Comments, CommentHolds(c), CommentExists(c)' => CommentExists(c),
         comments'[c].mentions = comments[c].mentions, comments'[c].body = comments[c].body,
         comments'[c].sent = comments[c].sent,
         \/ UNCHANGED files
         \/ \E g \in Files, v \in Writers, p \in Purposes, prev \in Files \cup {None} :
              Added(g, v, p, prev)
         \/ \E g \in Files : Marked(g)
  PROVE  CommentHolds(c)'
<1> SUFFICES ASSUME CommentExists(c)'
             PROVE  /\ comments'[c].mentions = comments'[c].body
                    /\ \A f \in comments'[c].sent : Belongs(f, c)'
  BY DEF CommentHolds
<1>1. comments[c] \in CommentRow
  BY Rows DEF Typed
<1>2. comments[c].sent \subseteq Files
  BY <1>1 DEF CommentRow
<1>3. \A f \in comments[c].sent : Belongs(f, c)
  BY DEF CommentHolds
<1>4. \A f \in comments[c].sent : Belongs(f, c)'
  BY <1>2, <1>3, BelongsStays
<1> QED
  BY <1>4 DEF CommentHolds

LEMMA WholeStep == Typed /\ Whole /\ [Next]_vars => Whole'
<1> SUFFICES ASSUME Typed, Whole, [Next]_vars PROVE Whole'
  OBVIOUS
<1>0. UNCHANGED slots
  BY DEF Next, Commits, Start, UploadIntent, Put, PutFails, Complete, CompleteAgain,
         LoadComplete, Completed, CompleteLost, Post, LoadPost, Edit, LoadEdit, Posted, PostLost, Ages, Age, Delete,
         Remove, WriteComplete, WritePost, WriteEdit, Rollback, server, vars
<1> SUFFICES ASSUME slots = 1 PROVE Whole'
  BY <1>0 DEF Whole
<1>1. /\ AtMostOne(calls) /\ \A call \in calls : CallHolds(call) /\ call \in Call
      /\ \A c \in Comments : CommentHolds(c)
      /\ TypeOK
  BY DEF Whole, Typed, TypeOK, ServerTypeOK
(* The steps of the browser, and the upload intent.                          *)
<1>2. ASSUME UNCHANGED <<comments, calls>>,
             \/ UNCHANGED files
             \/ \E g \in Files, v \in Writers, p \in Purposes, prev \in Files \cup {None} :
                  Added(g, v, p, prev)
      PROVE  Whole'
  <2>1. \A c \in Comments : CommentHolds(c)'
    BY <1>1, <1>2, CommentsKept DEF CommentExists
  <2>2. ASSUME NEW call \in calls PROVE CallHolds(call)'
    <3>1. CallHolds(call) /\ call \in Call
      BY <1>1
    <3>2. call.op = "post" => \A f \in call.attach : Claimable(call.author, f)'
      BY <1>2, <3>1, ClaimableStays DEF CallHolds, Call
    <3> QED
      BY <1>2, <3>1, <3>2 DEF CallHolds
  <2> QED
    BY <1>1, <1>2, <2>1, <2>2 DEF Whole, AtMostOne
<1>3. ASSUME NEW u \in Writers, NEW f \in Files, NEW p \in Purposes,
             NEW prev \in Files \cup {None}, Start(u, f, p, prev)
      PROVE  Whole'
  BY <1>2, <1>3 DEF Start, UploadIntent, Added, FileExists
<1>4. ASSUME NEW f \in Files, Put(f) \/ PutFails(f) \/ Completed(f) \/ CompleteLost(f)
      PROVE  Whole'
  BY <1>2, <1>4 DEF Put, PutFails, Completed, CompleteLost, server
<1>5. ASSUME NEW u \in Writers, Posted(u) \/ PostLost(u) PROVE Whole'
  BY <1>2, <1>5 DEF Posted, PostLost, server
(* Transactions that begin.                                                  *)
<1>6. ASSUME NEW new, Begin(new), CallHolds(new)', UNCHANGED <<files, comments>>
      PROVE  Whole'
  <2>1. calls' = {new}
    BY <1>6, BeginsAlone
  <2>2. \A c \in Comments : CommentHolds(c)'
    BY <1>1, <1>6, CommentsKept DEF CommentExists
  <2> QED
    BY <1>6, <2>1, <2>2 DEF Whole, AtMostOne
<1>7. ASSUME NEW f \in Files, Complete(f) \/ CompleteAgain(f) PROVE Whole'
  <2>1. PICK new : /\ new.op = "complete"
                   /\ Begin(new) /\ UNCHANGED <<files, comments>>
    BY <1>7 DEF Complete, CompleteAgain, LoadComplete
  <2>2. CallHolds(new)'
    BY <2>1 DEF CallHolds
  <2> QED
    BY <1>6, <2>1, <2>2
<1>8. ASSUME NEW u \in Writers, NEW c \in Comments, NEW body \in Bodies, Post(u, c, body)
      PROVE  Whole'
  <2>1. PICK new : new = [op |-> "post", comment |-> c, author |-> u, body |-> body,
                          attach |-> queue[u]]
    OBVIOUS
  <2>2. /\ \A f \in queue[u] : Claimable(u, f)
        /\ Begin(new) /\ UNCHANGED <<files, comments>>
    BY <1>8, <2>1 DEF Post, LoadPost
  <2>3. CallHolds(new)'
    BY <2>1, <2>2 DEF CallHolds, Claimable
  <2> QED
    BY <1>6, <2>2, <2>3
<1>9. ASSUME NEW u \in Writers, NEW c \in Comments, NEW body \in Bodies, Edit(u, c, body)
      PROVE  Whole'
  <2>1. PICK new : new = [op |-> "edit", comment |-> c, body |-> body,
                          seen |-> comments[c].mentions]
    OBVIOUS
  <2>2. Begin(new) /\ UNCHANGED <<files, comments>>
    BY <1>9, <2>1 DEF Edit, LoadEdit
  <2>3. CallHolds(new)'
    BY <2>1, <2>2 DEF CallHolds
  <2> QED
    BY <1>6, <2>2, <2>3
(* Transactions that end: there is no other.                                 *)
<1>10. ASSUME NEW call \in calls, calls' = calls \ {call}, \A c \in Comments : CommentHolds(c)'
       PROVE  Whole'
  <2>1. calls' = {}
    BY <1>1, <1>10 DEF AtMostOne
  <2> QED
    BY <1>10, <2>1 DEF Whole, AtMostOne
<1>11. ASSUME NEW call \in calls, WriteComplete(call) PROVE Whole'
  <2>1. Marked(call.file) /\ call.file \in Files /\ UNCHANGED comments
    BY <1>1, <1>11 DEF WriteComplete, Marked, Typed, CallsGrounded, Call
  <2>2. \A c \in Comments : CommentHolds(c)'
    BY <1>1, <2>1, CommentsKept DEF CommentExists
  <2> QED
    BY <1>10, <1>11, <2>2 DEF WriteComplete
<1>12. ASSUME NEW call \in calls, WritePost(call) PROVE Whole'
  <2>1. /\ call.op = "post" /\ call.comment \in Comments /\ call.attach \subseteq Files
        /\ \A f \in call.attach : Claimable(call.author, f)
    BY <1>1, <1>12 DEF WritePost, Call, CallHolds
  <2>2. /\ comments'[call.comment].mentions = call.body
        /\ comments'[call.comment].body = call.body
        /\ comments'[call.comment].sent = call.attach
        /\ \A c \in Comments : c # call.comment => comments'[c] = comments[c]
        /\ files' = [f \in Files |-> IF f \in call.attach
                                       THEN [files[f] EXCEPT !.owner = call.comment]
                                       ELSE files[f]]
    BY <1>1, <1>12, <2>1 DEF WritePost, TypeOK, ServerTypeOK
  <2>3. \A f \in call.attach : Belongs(f, call.comment)'
    <3> SUFFICES ASSUME NEW f \in call.attach PROVE Belongs(f, call.comment)'
      OBVIOUS
    <3>1. files[f] \in FileRow
      BY <1>1, <2>1, Rows DEF Claimable
    <3>2. files'[f] = [files[f] EXCEPT !.owner = call.comment]
      BY <2>1, <2>2
    <3>3. files'[f].owner = call.comment /\ files'[f].status = files[f].status
      BY <3>1, <3>2 DEF FileRow
    <3> QED
      BY <3>1, <3>3 DEF Belongs, FileExists, FileRow, Absent
  <2>4. ASSUME NEW c \in Comments PROVE CommentHolds(c)'
    <3>1. CASE c = call.comment
      <4>1. \A f \in comments'[c].sent : Belongs(f, c)'
        BY <2>2, <2>3, <3>1
      <4> QED
        BY <2>2, <3>1, <4>1 DEF CommentHolds
    <3>2. CASE c # call.comment
      <4> SUFFICES ASSUME CommentExists(c)
                   PROVE  /\ comments[c].mentions = comments[c].body
                          /\ \A f \in comments[c].sent : Belongs(f, c)'
        BY <2>2, <3>2 DEF CommentHolds, CommentExists
      <4>1. comments[c] \in CommentRow /\ CommentHolds(c)
        BY <1>1, Rows
      <4>2. ASSUME NEW f \in comments[c].sent PROVE Belongs(f, c)'
        <5>1. f \in Files /\ Belongs(f, c)
          BY <4>1, <4>2 DEF CommentHolds, CommentRow
        <5>2. f \notin call.attach
          BY <2>1, <5>1, NoneAssumption DEF Belongs, Claimable
        <5> QED
          BY <2>2, <5>1, <5>2 DEF Belongs, FileExists
      <4> QED
        BY <4>1, <4>2 DEF CommentHolds
    <3> QED
      BY <3>1, <3>2
  <2> QED
    BY <1>10, <1>12, <2>4 DEF WritePost
<1>13. ASSUME NEW call \in calls, WriteEdit(call) PROVE Whole'
  <2>1. PICK c : c = call.comment
    OBVIOUS
  <2>2. /\ c \in Comments /\ CommentExists(c) /\ call.seen = comments[c].mentions
        /\ UNCHANGED files
    BY <1>1, <1>13, <2>1 DEF WriteEdit, Typed, CallsGrounded, Call, CallHolds
  <2>3. comments[c] \in CommentRow /\ CommentHolds(c)
    BY <1>1, <2>2, Rows
  <2>4. /\ comments'[c].body = call.body
        /\ comments'[c].mentions =
             (comments[c].mentions \ (call.seen \ call.body)) \cup (call.body \ call.seen)
        /\ comments'[c].sent = comments[c].sent
        /\ \A d \in Comments : d # c => comments'[d] = comments[d]
    BY <1>1, <1>13, <2>1, <2>2, <2>3 DEF WriteEdit, TypeOK, ServerTypeOK, CommentRow
  <2>5. comments'[c].mentions = call.body
    BY <2>2, <2>4
  <2>6. \A f \in comments'[c].sent : Belongs(f, c)'
    BY <2>2, <2>3, <2>4 DEF CommentHolds, Belongs, FileExists
  <2>7. \A d \in Comments : d # c => CommentHolds(d)'
    BY <1>1, <2>2, <2>4, CommentsKept DEF CommentExists
  <2>8. CommentHolds(c)'
    BY <2>4, <2>5, <2>6 DEF CommentHolds
  <2> QED
    BY <1>10, <1>13, <2>7, <2>8 DEF WriteEdit
<1>14. ASSUME NEW call \in calls, Rollback(call) PROVE Whole'
  <2>1. \A c \in Comments : CommentHolds(c)'
    BY <1>1, <1>14, CommentsKept DEF Rollback, CommentExists
  <2> QED
    BY <1>10, <1>14, <2>1 DEF Rollback
<1>15. ASSUME NEW c \in Comments, Ages(c) \/ \E u \in Writers : Delete(u, c) PROVE Whole'
  <2>1. /\ CommentExists(c) /\ UNCHANGED <<files, calls>>
        /\ \/ comments' = [comments EXCEPT ![c].status = "deleted"]
           \/ comments' = [comments EXCEPT ![c].fresh = FALSE]
    BY <1>1, <1>15, Rows DEF Ages, Age, Delete, Remove, CommentExists
  <2>2. comments[c] \in CommentRow
    BY <1>1, <2>1, Rows
  <2>3. /\ comments'[c].mentions = comments[c].mentions
        /\ comments'[c].body = comments[c].body
        /\ comments'[c].sent = comments[c].sent
        /\ \A d \in Comments : d # c => comments'[d] = comments[d]
    BY <1>1, <2>1, <2>2 DEF CommentRow, TypeOK, ServerTypeOK
  <2>4. \A d \in Comments : CommentHolds(d)'
    BY <1>1, <2>1, <2>3, CommentsKept DEF CommentExists
  <2>5. ASSUME NEW call \in calls PROVE CallHolds(call)'
    <3>1. CallHolds(call) /\ call \in Call
      BY <1>1
    <3>2. call.op = "edit" => comments'[call.comment].mentions = comments[call.comment].mentions
      BY <2>3, <3>1 DEF Call
    <3> QED
      BY <2>1, <3>1, <3>2 DEF CallHolds, Claimable
  <2> QED
    BY <1>1, <2>1, <2>4, <2>5 DEF Whole, AtMostOne
<1>16. CASE UNCHANGED vars
  BY <1>2, <1>16 DEF vars, server
<1>17. ASSUME NEW call \in calls, Commits(call) PROVE Whole'
  BY <1>11, <1>12, <1>13, <1>14, <1>17 DEF Commits
<1> QED
  BY <1>3, <1>4, <1>5, <1>7, <1>8, <1>9, <1>15, <1>16, <1>17 DEF Next

(* With one transaction at a time a comment keeps what it was posted with:   *)
(* the claim of the attachments updates the rows by id and the edit applies  *)
(* the difference to the mentions it read (comments.service.ts), so both     *)
(* rely on nothing having come in between.                                   *)
THEOREM CommentsAreWhole == Spec => []CommentIsWhole
<1>1. Whole => CommentIsWhole
  BY DEF Whole, CommentIsWhole, CommentHolds, CommentExists, Belongs
<1> QED
  BY <1>1, WholeInit, WholeStep, TypedAlways, PTL DEF Spec
=============================================================================
