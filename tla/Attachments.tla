------------------------------ MODULE Attachments ------------------------------
(* Uploaded files and task comments, as the API keeps them.                  *)
(*                                                                           *)
(* A file is a row that is pending until its uploader reports the upload as  *)
(* complete.  A comment attachment is uploaded while its author still types: *)
(* its row has no owner until POST /tasks/:id/comments claims it.  The       *)
(* handlers of complete, post and edit read, decide and write in one READ    *)
(* COMMITTED transaction without locking what they read, so each is a Load   *)
(* and a Write; slots says how many transactions are open at a time.         *)
(*                                                                           *)
(* Sizes are abstracted to one unit per file.  A mention is the user it      *)
(* names: the set of users a body mentions stands for the body.              *)
EXTENDS Naturals, FiniteSets

CONSTANTS Users,     \* users of the tenant
          Writers,   \* those who upload and write comments
          Bodies,    \* texts, each the set of users it mentions
          Files,     \* ids of files rows
          Comments,  \* ids of comments rows
          None,      \* SQL NULL
          Purposes,  \* the purposes uploads are made for
          Quota,     \* units the plan lets the tenant store
          MaxOpen    \* transactions open at the same time, at most

VARIABLES files,     \* files rows
          used,      \* companies.storage_used_bytes, kept by a trigger on files
          logo,      \* companies.logo_file_id
          comments,  \* comments rows with their comment_mentions rows
          told,      \* comment_mentioned notifications
          calls,     \* transactions between their reads and their writes
          slots      \* how many may be open in this behaviour

server == <<files, used, logo, comments, told, calls, slots>>

ASSUME WritersAssumption == Writers \subseteq Users
ASSUME BodiesAssumption == Bodies \subseteq SUBSET Users
ASSUME NoneAssumption == None \notin Users \cup Files \cup Comments
ASSUME FilesAssumption == IsFiniteSet(Files)
ASSUME PurposesAssumption ==
  Purposes \subseteq {"task_attachment", "company_logo", "comment_attachment"}
ASSUME QuotaAssumption == Quota \in Nat

-----------------------------------------------------------------------------
(* The owner a new row of a purpose gets.                                    *)
OwnerAtUpload(p) == CASE p = "task_attachment" -> "task"
                      [] p = "company_logo" -> "company"
                      [] p = "comment_attachment" -> None

Absent == [status |-> "absent"]
FileRow == [status : {"pending", "uploaded"}, uploader : Users, purpose : Purposes,
            owner : {"task", "company", None} \cup Comments,
            previous : Files \cup {None}, version : Nat]

\* body: the users the text mentions; sent: the attachment ids of the request.
CommentRow == [status : {"posted", "deleted"}, author : Users, fresh : BOOLEAN,
               body : Bodies, mentions : SUBSET Users, sent : SUBSET Files]

Call == [op : {"complete"}, file : Files, again : BOOLEAN]
        \cup [op : {"post"}, comment : Comments, author : Users,
              body : Bodies, attach : SUBSET Files]
        \cup [op : {"edit"}, comment : Comments, body : Bodies,
              seen : SUBSET Users]

Uploaded == {f \in Files : files[f].status = "uploaded"}

ServerTypeOK ==
  /\ files \in [Files -> FileRow \cup {Absent}]
  /\ used \in Nat
  /\ logo \in Files \cup {None}
  /\ comments \in [Comments -> CommentRow \cup {Absent}]
  /\ told \subseteq [to : Users, comment : Comments]
  /\ calls \subseteq Call
  /\ slots \in Nat

ServerInit ==
  /\ files = [f \in Files |-> Absent]
  /\ used = 0
  /\ logo = None
  /\ comments = [c \in Comments |-> Absent]
  /\ told = {}
  /\ calls = {}
  /\ slots \in 1..MaxOpen

Begin(call) == /\ Cardinality(calls) < slots
               /\ calls' = calls \cup {call}

-----------------------------------------------------------------------------
(* POST /files/upload-intent.  What it reads it does not write, and nobody   *)
(* can name the new row before the answer: the handler is one step at the    *)
(* instant of its reads.                                                     *)
UploadIntent(u, f, p, prev) ==
  /\ files[f] = Absent
  /\ prev # None => /\ files[prev] # Absent
                    /\ files[prev].purpose = p
                    /\ files[prev].owner = OwnerAtUpload(p)
  /\ used + 1 <= Quota
  /\ files' = [files EXCEPT ![f] =
       [status |-> "pending", uploader |-> u, purpose |-> p,
        owner |-> OwnerAtUpload(p), previous |-> prev,
        version |-> IF prev = None THEN 1 ELSE files[prev].version + 1]]
  /\ UNCHANGED <<used, logo, comments, told, calls, slots>>

(* POST /files/:id/complete.  The uploader calls it; a row already uploaded  *)
(* is answered and left alone.  A client that sends its request again may    *)
(* have both read the row as pending.                                        *)
LoadComplete(u, f, again) ==
  LET call == [op |-> "complete", file |-> f, again |-> again] IN
  /\ files[f].status = "pending"
  /\ files[f].uploader = u
  /\ call \notin calls
  /\ Begin(call)
  /\ UNCHANGED <<files, used, logo, comments, told, slots>>

\* Mutant: the trigger counts every update of an uploaded row.
CountsUpdates(rows) ==
  used + Cardinality({f \in Files : rows[f].status = "uploaded" /\ rows[f] # files[f]})

(* trg_files_storage_used: an update counts a row that becomes uploaded, and *)
(* compares the row before and after, not what the handler once read.        *)
UsedAfter(rows) ==
  used + Cardinality({f \in Files : /\ rows[f].status = "uploaded"
                                    /\ files[f].status # "uploaded"})

WriteComplete(call) ==
  LET f == call.file IN
  /\ call \in calls
  /\ call.op = "complete"
  /\ files' = [files EXCEPT ![f].status = "uploaded"]
  /\ used' = UsedAfter(files')
  /\ logo' = IF files[f].purpose = "company_logo" THEN f ELSE logo
  /\ calls' = calls \ {call}
  /\ UNCHANGED <<comments, told, slots>>

-----------------------------------------------------------------------------
\* Mutant: the claim does not look at the owner the row already has.
ClaimableTwice(u, f) == /\ files[f].status = "uploaded"
                        /\ files[f].uploader = u
                        /\ files[f].purpose = "comment_attachment"

Claimable(u, f) == /\ files[f].status = "uploaded"
                   /\ files[f].uploader = u
                   /\ files[f].purpose = "comment_attachment"
                   /\ files[f].owner = None

(* POST /tasks/:id/comments: every attachment of the request must be         *)
(* claimable when it is read.                                                *)
LoadPost(u, c, body, attach) ==
  /\ comments[c] = Absent
  /\ \A call \in calls : call.op = "post" => call.comment # c
  /\ \A f \in attach : Claimable(u, f)
  /\ Begin([op |-> "post", comment |-> c, author |-> u, body |-> body,
            attach |-> attach])
  /\ UNCHANGED <<files, used, logo, comments, told, slots>>

Notices(c, author, users) == {[to |-> v, comment |-> c] : v \in users \ {author}}

(* The comment, its mentions with their notifications, and the claim.  The   *)
(* claim updates the rows by id: what was verified is not repeated.          *)
WritePost(call) ==
  /\ call \in calls
  /\ call.op = "post"
  /\ comments' = [comments EXCEPT ![call.comment] =
       [status |-> "posted", author |-> call.author, fresh |-> TRUE,
        body |-> call.body, mentions |-> call.body, sent |-> call.attach]]
  /\ told' = told \cup Notices(call.comment, call.author, call.body)
  /\ files' = [f \in Files |-> IF f \in call.attach
                                 THEN [files[f] EXCEPT !.owner = call.comment]
                                 ELSE files[f]]
  /\ used' = UsedAfter(files')
  /\ calls' = calls \ {call}
  /\ UNCHANGED <<logo, slots>>

(* PATCH /comments/:id, by the author and within the edit window.            *)
LoadEdit(u, c, body) ==
  /\ comments[c].status = "posted"
  /\ comments[c].author = u
  /\ comments[c].fresh
  /\ Begin([op |-> "edit", comment |-> c, body |-> body,
            seen |-> comments[c].mentions])
  /\ UNCHANGED <<files, used, logo, comments, told, slots>>

\* Mutant: an edit notifies only the users that were mentioned before.
EditNotices(call) == Notices(call.comment, comments[call.comment].author,
                             call.body \cap call.seen)

(* The mention rows are changed by the difference to the rows read at the    *)
(* start, and those added are told.  A row that exists by now breaks the     *)
(* unique index: the transaction fails.                                      *)
NewNotices(call) == Notices(call.comment, comments[call.comment].author,
                            call.body \ call.seen)

WriteEdit(call) ==
  LET c == call.comment
      added == call.body \ call.seen
      gone == call.seen \ call.body
  IN
  /\ call \in calls
  /\ call.op = "edit"
  /\ added \cap comments[c].mentions = {}
  /\ comments' = [comments EXCEPT ![c].body = call.body,
                                  ![c].mentions = (@ \ gone) \cup added]
  /\ told' = told \cup NewNotices(call)
  /\ calls' = calls \ {call}
  /\ UNCHANGED <<files, used, logo, slots>>

(* DELETE /comments/:id keeps the row, its mentions and its files.           *)
Remove(u, c) ==
  /\ comments[c].status = "posted"
  /\ comments[c].author = u
  /\ comments' = [comments EXCEPT ![c].status = "deleted"]
  /\ UNCHANGED <<files, used, logo, told, calls, slots>>

(* Fifteen minutes pass.                                                     *)
Age(c) ==
  /\ comments[c] # Absent
  /\ comments[c].fresh
  /\ comments' = [comments EXCEPT ![c].fresh = FALSE]
  /\ UNCHANGED <<files, used, logo, told, calls, slots>>

(* The transaction fails, or its insert of a mention row does.               *)
Rollback(call) ==
  /\ call \in calls
  /\ calls' = calls \ {call}
  /\ UNCHANGED <<files, used, logo, comments, told, slots>>
=============================================================================
