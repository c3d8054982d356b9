-------------------------------- MODULE Composer -------------------------------
(* The comment composer and the upload widget of the web client, over the    *)
(* API of Attachments.                                                       *)
(*                                                                           *)
(* An upload asks for an upload URL, PUTs the bytes to the object store and  *)
(* reports completion; the composer then queues the file id.  Posting sends  *)
(* the whole queue and empties it when the answer says yes, whatever was     *)
(* queued since.  A request whose answer is lost looks like one that failed; *)
(* on the server it may be finished, under way or rolled back.               *)
EXTENDS Attachments

CONSTANTS MaxFaults,   \* bound: answers lost and requests repeated
          MaxEdits     \* bound: edits begun in a behaviour

VARIABLES bucket,    \* files whose bytes the object store holds
          stage,     \* where the widget is with each upload
          queue,     \* per user, attachmentIds of the composer
          sending,   \* per user, the comment the pending mutation is creating
          faults,    \* answers lost and requests repeated so far
          edits      \* edits begun so far

client == <<bucket, stage, queue, sending, faults, edits>>
vars == <<server, client>>

ASSUME MaxFaultsAssumption == MaxFaults \in Nat
ASSUME MaxEditsAssumption == MaxEdits \in Nat

Stages == {"none", "uploading", "stored", "completing", "done", "gone"}

TypeOK ==
  /\ ServerTypeOK
  /\ bucket \subseteq Files
  /\ stage \in [Files -> Stages]
  /\ queue \in [Users -> SUBSET Files]
  /\ sending \in [Users -> Comments \cup {None}]
  /\ faults \in Nat
  /\ edits \in Nat

Init ==
  /\ ServerInit
  /\ bucket = {}
  /\ stage = [f \in Files |-> "none"]
  /\ queue = [u \in Users |-> {}]
  /\ sending = [u \in Users |-> None]
  /\ faults = 0
  /\ edits = 0

Fault == faults < MaxFaults /\ faults' = faults + 1
Moves(f, s) == stage' = [stage EXCEPT ![f] = s]

-----------------------------------------------------------------------------
(* startUpload, step 1.                                                      *)
Start(u, f, p, prev) ==
  /\ stage[f] = "none"
  /\ UploadIntent(u, f, p, prev)
  /\ Moves(f, "uploading")
  /\ UNCHANGED <<bucket, queue, sending, faults, edits>>

(* Step 2, the PUT: stored, or stored or not and reported as an error (or    *)
(* cancelled: the widget forgets the item and does not go on to complete).   *)
Put(f) ==
  /\ stage[f] = "uploading"
  /\ bucket' = bucket \cup {f}
  /\ Moves(f, "stored")
  /\ UNCHANGED <<server, queue, sending, faults, edits>>

PutFails(f) ==
  /\ stage[f] = "uploading"
  /\ bucket' \in {bucket, bucket \cup {f}}
  /\ Moves(f, "gone")
  /\ UNCHANGED <<server, queue, sending, faults, edits>>

(* Step 4.  A cancel from here on takes the item off the screen and changes  *)
(* nothing else: the completion goes through and is queued.                  *)
Complete(f) ==
  /\ stage[f] = "stored"
  /\ LoadComplete(files[f].uploader, f, FALSE)
  /\ Moves(f, "completing")
  /\ UNCHANGED <<bucket, queue, sending, faults, edits>>

(* Whatever is between the widget and the API sends the request again before *)
(* there is an answer.                                                       *)
CompleteAgain(f) ==
  /\ stage[f] = "completing"
  /\ LoadComplete(files[f].uploader, f, TRUE)
  /\ Fault
  /\ UNCHANGED <<bucket, stage, queue, sending, edits>>

InFlight(op, id) ==
  \E call \in calls : /\ call.op = op
                      /\ id = (IF op = "complete" THEN call.file ELSE call.comment)

(* The answer to complete, of a request sent twice either of the two.        *)
(* onUploaded hands the file to the composer.                                *)
Completed(f) ==
  LET u == files[f].uploader
      ok == files[f].status = "uploaded"
  IN
  /\ stage[f] = "completing"
  /\ ok \/ ~InFlight("complete", f)
  /\ Moves(f, IF ok THEN "done" ELSE "gone")
  /\ queue' = IF ok /\ files[f].purpose = "comment_attachment"
                THEN [queue EXCEPT ![u] = @ \cup {f}]
                ELSE queue
  /\ UNCHANGED <<server, bucket, sending, faults, edits>>

CompleteLost(f) ==
  /\ stage[f] = "completing"
  /\ Fault
  /\ Moves(f, "gone")
  /\ UNCHANGED <<server, bucket, queue, sending, edits>>

-----------------------------------------------------------------------------
(* The submit button, disabled while a mutation is pending.                  *)
Post(u, c, body) ==
  /\ sending[u] = None
  /\ LoadPost(u, c, body, queue[u])
  /\ sending' = [sending EXCEPT ![u] = c]
  /\ UNCHANGED <<bucket, stage, queue, faults, edits>>

\* Mutant: onSuccess keeps what it sent.
KeepsQueue(u) == queue

(* onSuccess: setAttachmentIds([]).                                          *)
ClearsQueue(u) == [queue EXCEPT ![u] = {}]

(* The answer: success empties the queue, failure keeps it.                  *)
Posted(u) ==
  /\ sending[u] # None
  /\ ~InFlight("post", sending[u])
  /\ queue' = IF comments[sending[u]] # Absent THEN ClearsQueue(u) ELSE queue
  /\ sending' = [sending EXCEPT ![u] = None]
  /\ UNCHANGED <<server, bucket, stage, faults, edits>>

PostLost(u) ==
  /\ sending[u] # None
  /\ Fault
  /\ sending' = [sending EXCEPT ![u] = None]
  /\ UNCHANGED <<server, bucket, stage, queue, edits>>

(* Edits and deletions of the comment rows, and the server's own steps.      *)
Edit(u, c, body) == /\ edits < MaxEdits
                    /\ LoadEdit(u, c, body)
                    /\ edits' = edits + 1
                    /\ UNCHANGED <<bucket, stage, queue, sending, faults>>
Delete(u, c) == Remove(u, c) /\ UNCHANGED client
Ages(c) == Age(c) /\ UNCHANGED client
Commits(call) == /\ \/ WriteComplete(call)
                    \/ WritePost(call)
                    \/ WriteEdit(call)
                    \/ Rollback(call)
                 /\ UNCHANGED client

Next ==
  \/ \E u \in Writers, f \in Files, p \in Purposes, prev \in Files \cup {None} :
       Start(u, f, p, prev)
  \/ \E f \in Files : \/ Put(f)
                      \/ PutFails(f)
                      \/ Complete(f)
                      \/ CompleteAgain(f)
                      \/ Completed(f)
                      \/ CompleteLost(f)
  \/ \E u \in Writers, c \in Comments, body \in Bodies :
       \/ Post(u, c, body)
       \/ Edit(u, c, body)
  \/ \E u \in Writers : \/ Posted(u)
                      \/ PostLost(u)
  \/ \E u \in Writers, c \in Comments : Delete(u, c)
  \/ \E c \in Comments : Ages(c)
  \/ \E call \in calls : Commits(call)

Spec == Init /\ [][Next]_vars

-----------------------------------------------------------------------------
\* companies.storage_used_bytes is exactly what the uploaded rows occupy, each
\* counted once however completions, two of the same file among them, claims and
\* failures interleave, and the object store has the bytes of each of them: the
\* client reports an upload as complete only after its PUT.
StorageIsExact == /\ used = Cardinality(Uploaded)
                  /\ Uploaded \subseteq bucket

\* A version has the purpose of the one before it and the next number.
VersionsAreLinked ==
  \A f \in Files :
    files[f] # Absent /\ files[f].previous # None =>
      /\ files[files[f].previous] # Absent
      /\ files[files[f].previous].purpose = files[f].purpose
      /\ files[f].version = files[files[f].previous].version + 1

\* Whoever has a mention row in a comment, its author aside, was notified,
\* whatever posts, edits and deletions overlap.
MentionedAreTold ==
  \A c \in Comments :
    comments[c] # Absent =>
      \A u \in comments[c].mentions \ {comments[c].author} :
        [to |-> u, comment |-> c] \in told

\* With one transaction at a time a comment keeps what it was posted with: its
\* attachments belong to it and its mention rows are those of its text.
CommentIsWhole ==
  slots = 1 =>
    \A c \in Comments :
      comments[c] # Absent =>
        /\ comments[c].mentions = comments[c].body
        /\ \A f \in comments[c].sent : files[f].owner = c

\* As long as no answer was lost and no request repeated, what the composer has queued and is not just
\* sending can be posted: the author is not left with a queue that every
\* attempt is refused for.
QueuedIsClaimable ==
  faults = 0 =>
    \A u \in Users : sending[u] = None =>
      \A f \in queue[u] : Claimable(u, f)
=============================================================================
