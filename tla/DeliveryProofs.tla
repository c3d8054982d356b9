----------------------------- MODULE DeliveryProofs ----------------------------
(* Theorems about Delivery for any users, browsers, notifications, attempts  *)
(* and numbers of requests and faults.                                       *)
EXTENDS Delivery, TLAPS

(* A request has written the rows it remembers, and no other request has; a  *)
(* job is created with its row, and one that may still run has an attempt    *)
(* and a stall left.                                                         *)
WritesAreOpen ==
  /\ \A call \in calls : \A n \in call.wrote : rows[n].state = "open"
  /\ \A c, d \in calls : c # d => c.wrote \cap d.wrote = {}

JobsAreBounded ==
  \A n \in Ids :
    /\ rows[n] = Absent => jobs[n].state = "none"
    /\ jobs[n].state \in {"none", "adding", "queued", "active"} =>
         jobs[n].tried < Attempts /\ jobs[n].stalls < 2

Typed == TypeOK /\ WritesAreOpen /\ JobsAreBounded

LEMMA RowStates ==
  ASSUME TypeOK, NEW n \in Ids
  PROVE  /\ rows[n] # Absent <=> rows[n] \in Row
         /\ rows[n] # Absent <=> rows[n].state # "absent"
BY DEF TypeOK, Row, Absent

LEMMA TypedInit == Init => Typed
<1> SUFFICES ASSUME Init PROVE Typed
  OBVIOUS
<1>1. [state |-> "none", tried |-> 0, stalls |-> 0] \in Job
  BY BoundsAssumption DEF Job
<1>2. \A p \in {"idle", "asked"} : [phase |-> p, items |-> {}] \in Fetch
  BY DEF Fetch
<1>3. TypeOK
  BY <1>1, <1>2, PushingAssumption DEF Init, TypeOK
<1> QED
  BY <1>3, BoundsAssumption DEF Init, Typed, WritesAreOpen, JobsAreBounded, Absent

-----------------------------------------------------------------------------
(* How a step treats the rows: it opens one, or it changes the state of rows *)
(* from one of some states to one of others, or a row expires.               *)
Opens(call, n, v) ==
  /\ call \in calls /\ rows[n] = Absent
  /\ rows' = [rows EXCEPT ![n] = [state |-> "open", to |-> v, expired |-> FALSE]]

Moved(S, from, to) ==
  /\ \A n \in S : rows[n].state = from
  /\ rows' = [n \in Ids |-> IF n \in S THEN [rows[n] EXCEPT !.state = to] ELSE rows[n]]

LEMMA MovedRows ==
  ASSUME TypeOK, NEW S, NEW from, NEW to \in {"unread", "read", "deleted"},
         from # "absent", Moved(S, from, to)
  PROVE  /\ rows' \in [Ids -> Row \cup {Absent}]
         /\ \A n \in Ids \ S : rows'[n] = rows[n]
         /\ \A n \in Ids \cap S : /\ rows'[n] \in Row /\ rows'[n].state = to
                                  /\ rows'[n].to = rows[n].to
                                  /\ rows'[n].expired = rows[n].expired
<1>1. \A n \in Ids \ S : rows'[n] = rows[n]
  BY DEF Moved
<1>2. ASSUME NEW n \in Ids \cap S
      PROVE  /\ rows'[n] \in Row /\ rows'[n].state = to
             /\ rows'[n].to = rows[n].to /\ rows'[n].expired = rows[n].expired
  <2>1. rows[n] \in Row
    BY RowStates DEF Moved
  <2>2. rows'[n] = [rows[n] EXCEPT !.state = to]
    BY DEF Moved
  <2> QED
    BY <2>1, <2>2 DEF Row
<1>3. \A n \in Ids : rows'[n] \in Row \cup {Absent}
  BY <1>1, <1>2 DEF TypeOK
<1>4. rows' = [n \in Ids |-> rows'[n]]
  BY DEF Moved
<1> QED
  BY <1>1, <1>2, <1>3, <1>4

LEMMA CommitMoves ==
  ASSUME Typed, NEW call \in calls, Commit(call) \/ Rollback(call)
  PROVE  \E to \in {"unread", "deleted"} : Moved(call.wrote, "open", to)
BY DEF Commit, Rollback, Moved, Typed, WritesAreOpen

LEMMA MarkMoves ==
  ASSUME NEW v, NEW ids, MarkRead(v, ids)
  PROVE  Moved(ids \cap Unread(v), "unread", "read")
BY DEF MarkRead, Moved, Unread

LEMMA SweepMoves ==
  ASSUME Sweep
  PROVE  Moved({n \in Ids : Swept(n)}, "read", "deleted")
BY DEF Sweep, Moved, Swept

LEMMA ExpiryEffect ==
  ASSUME TypeOK, NEW n \in Ids, Expire(n)
  PROVE  /\ rows' \in [Ids -> Row \cup {Absent}]
         /\ \A m \in Ids : m # n => rows'[m] = rows[m]
         /\ rows'[n] \in Row /\ rows'[n].state = rows[n].state
         /\ rows'[n].to = rows[n].to /\ rows'[n].expired
<1>1. rows[n] \in Row
  BY RowStates DEF Expire
<1>2. [rows[n] EXCEPT !.expired = TRUE] \in Row
  BY <1>1 DEF Row
<1> QED
  BY <1>1, <1>2 DEF Expire, TypeOK, Row

-----------------------------------------------------------------------------
(* Type correctness, one group of steps at a time.                           *)
LEMMA CallTypes ==
  ASSUME TypeOK, NEW call \in calls
  PROVE  call \in Call /\ call.todo \subseteq Users /\ call.wrote \subseteq Ids
BY DEF TypeOK, Call

LEMMA NotifyEffect ==
  ASSUME Typed, NEW call \in calls, NEW v \in Users, NEW n \in Ids, Notify(call, v, n)
  PROVE  \E new \in Call :
           /\ calls' = (calls \ {call}) \cup {new}
           /\ \/ new.wrote = call.wrote /\ UNCHANGED <<rows, pushes, jobs>>
              \/ /\ new.wrote = call.wrote \cup {n} /\ Opens(call, n, v)
                 /\ pushes' = pushes \cup {n}
                 /\ UNCHANGED jobs \/ jobs' = [jobs EXCEPT ![n].state = "adding"]
<1>1. call \in Call
  BY CallTypes DEF Typed
<1>2. CASE "in_app" \in SeenBy(call.actor, v)
  <2>1. PICK new : new = [call EXCEPT !.todo = @ \ {v}]
    OBVIOUS
  <2>2. new \in Call /\ new.wrote = call.wrote
    BY <1>1, <2>1 DEF Call
  <2> QED
    BY <1>2, <2>1, <2>2 DEF Notify
<1>3. CASE "in_app" \notin SeenBy(call.actor, v)
  <2>1. PICK new : new = [call EXCEPT !.todo = @ \ {v}, !.wrote = @ \cup {n}]
    OBVIOUS
  <2>2. new \in Call /\ new.wrote = call.wrote \cup {n}
    BY <1>1, <2>1 DEF Call
  <2>3. calls' = (calls \ {call}) \cup {new}
    BY <1>3, <2>1 DEF Notify
  <2>4. Opens(call, n, v) /\ pushes' = pushes \cup {n}
    BY <1>3 DEF Notify, Opens
  <2>5. UNCHANGED jobs \/ jobs' = [jobs EXCEPT ![n].state = "adding"]
    BY <1>3 DEF Notify
  <2> QED
    BY <2>2, <2>3, <2>4, <2>5
<1> QED
  BY <1>2, <1>3

LEMMA TypedNotify ==
  ASSUME Typed, NEW call \in calls, NEW v \in Users, NEW n \in Ids, Notify(call, v, n)
  PROVE  Typed'
<1>1. PICK new \in Call :
        /\ calls' = (calls \ {call}) \cup {new}
        /\ \/ new.wrote = call.wrote /\ UNCHANGED <<rows, pushes, jobs>>
           \/ /\ new.wrote = call.wrote \cup {n} /\ Opens(call, n, v)
              /\ pushes' = pushes \cup {n}
              /\ UNCHANGED jobs \/ jobs' = [jobs EXCEPT ![n].state = "adding"]
  BY NotifyEffect
<1>2. UNCHANGED <<prefs, mails, browser, counters>>
  BY DEF Notify
<1>3. CASE new.wrote = call.wrote /\ UNCHANGED <<rows, pushes, jobs>>
  <2>1. TypeOK'
    BY <1>1, <1>2, <1>3 DEF Typed, TypeOK, browser, counters
  <2>2. WritesAreOpen' /\ JobsAreBounded'
    BY <1>1, <1>3 DEF Typed, WritesAreOpen, JobsAreBounded
  <2> QED
    BY <2>1, <2>2 DEF Typed
<1>4. CASE /\ new.wrote = call.wrote \cup {n} /\ Opens(call, n, v)
           /\ pushes' = pushes \cup {n}
           /\ UNCHANGED jobs \/ jobs' = [jobs EXCEPT ![n].state = "adding"]
  <2>1. [state |-> "open", to |-> v, expired |-> FALSE] \in Row
    BY DEF Row
  <2>2. /\ rows' \in [Ids -> Row \cup {Absent}] /\ rows'[n] # Absent
        /\ rows[n].state = "absent" /\ rows'[n].state = "open"
        /\ \A m \in Ids : m # n => rows'[m] = rows[m]
    BY <1>4, <2>1 DEF Opens, Typed, TypeOK, Absent
  <2>3. /\ jobs[n].state = "none" /\ jobs[n] \in Job
        /\ jobs[n].tried < Attempts /\ jobs[n].stalls < 2
    BY <1>4 DEF Opens, Typed, TypeOK, JobsAreBounded
  <2>4. /\ jobs' \in [Ids -> Job]
        /\ jobs'[n].tried < Attempts /\ jobs'[n].stalls < 2
        /\ \A m \in Ids : m # n => jobs'[m] = jobs[m]
    BY <1>4, <2>3 DEF Typed, TypeOK, Job
  <2>5. TypeOK'
    BY <1>1, <1>2, <1>4, <2>2, <2>4 DEF Typed, TypeOK, browser, counters
  <2>6. JobsAreBounded'
    BY <2>2, <2>4 DEF Typed, JobsAreBounded
  <2>7. \A c \in calls : n \notin c.wrote /\ c.wrote \subseteq Ids
    BY <2>2, CallTypes DEF Typed, WritesAreOpen
  <2>8. \A c \in calls : \A m \in c.wrote : rows'[m].state = "open"
    BY <2>2, <2>7 DEF Typed, WritesAreOpen
  <2>9. WritesAreOpen'
    BY <1>1, <1>4, <2>2, <2>7, <2>8 DEF Typed, WritesAreOpen
  <2> QED
    BY <2>5, <2>6, <2>9 DEF Typed
<1> QED
  BY <1>1, <1>3, <1>4

(* A request ends; the rows of the others stay open.                         *)
LEMMA TypedEnd ==
  ASSUME Typed, NEW call \in calls, Commit(call) \/ Rollback(call)
  PROVE  Typed'
<1>1. PICK to \in {"unread", "deleted"} : Moved(call.wrote, "open", to)
  BY CommitMoves
<1>2. /\ calls' = calls \ {call} /\ UNCHANGED <<prefs, pushes, jobs, mails, browser, counters>>
  BY DEF Commit, Rollback, mail
<1>3. /\ rows' \in [Ids -> Row \cup {Absent}]
      /\ \A n \in Ids \ call.wrote : rows'[n] = rows[n]
      /\ \A n \in Ids \cap call.wrote : rows'[n] \in Row
  BY <1>1, MovedRows DEF Typed
<1>4. TypeOK'
  BY <1>2, <1>3 DEF Typed, TypeOK, browser, counters
<1>5. JobsAreBounded'
  BY <1>2, <1>3 DEF Typed, JobsAreBounded, Row, Absent
<1>6. ASSUME NEW c \in calls', NEW n \in c.wrote PROVE rows'[n].state = "open"
  <2>1. c \in calls /\ n \in Ids /\ n \notin call.wrote
    BY <1>2, <1>6, CallTypes DEF Typed, WritesAreOpen
  <2> QED
    BY <1>3, <2>1 DEF Typed, WritesAreOpen
<1> QED
  BY <1>2, <1>4, <1>5, <1>6 DEF Typed, WritesAreOpen

(* Steps that change rows in no request.                                     *)
LEMMA TypedRows ==
  ASSUME Typed, UNCHANGED <<calls, jobs>>, TypeOK',
         \A n \in Ids : rows'[n].state # rows[n].state => rows[n].state \in {"unread", "read"},
         \A n \in Ids : rows'[n] = Absent <=> rows[n] = Absent
  PROVE  Typed'
<1>1. WritesAreOpen'
  <2>1. ASSUME NEW c \in calls, NEW n \in c.wrote PROVE rows'[n].state = "open"
    <3>1. n \in Ids /\ rows[n].state = "open"
      BY CallTypes DEF Typed, WritesAreOpen
    <3> QED
      BY <3>1
  <2> QED
    BY <2>1 DEF Typed, WritesAreOpen
<1>2. JobsAreBounded'
  BY DEF Typed, JobsAreBounded
<1> QED
  BY <1>1, <1>2 DEF Typed

LEMMA TypedMoved ==
  ASSUME Typed, NEW S, NEW from \in {"unread", "read"}, NEW to \in {"read", "deleted"},
         Moved(S, from, to), UNCHANGED <<prefs, calls, pushes, jobs, mails, bell, fetch, fresh>>,
         marks' \subseteq Watchers, requests' \in Nat, UNCHANGED <<faults, push, lost>>
  PROVE  Typed'
<1>1. /\ rows' \in [Ids -> Row \cup {Absent}]
      /\ \A n \in Ids \ S : rows'[n] = rows[n]
      /\ \A n \in Ids \cap S : rows'[n] \in Row
  BY MovedRows DEF Typed
<1>2. TypeOK'
  BY <1>1 DEF Typed, TypeOK
<1>3. \A n \in Ids \cap S : rows[n].state = from /\ rows[n] # Absent
  BY DEF Moved, Absent
<1>4. \A n \in Ids : rows'[n].state # rows[n].state => rows[n].state \in {"unread", "read"}
  BY <1>1, <1>3
<1>5. \A n \in Ids : rows'[n] = Absent <=> rows[n] = Absent
  BY <1>1, <1>3 DEF Row, Absent
<1> QED
  BY <1>2, <1>4, <1>5, TypedRows

LEMMA TypedExpiry ==
  ASSUME Typed, \/ Sweep
                \/ \E n \in Ids : Expire(n)
  PROVE  Typed'
<1>1. CASE Sweep
  <2>1. Moved({n \in Ids : Swept(n)}, "read", "deleted")
    BY <1>1, SweepMoves
  <2>2. UNCHANGED <<prefs, calls, pushes, jobs, mails, bell, fetch, fresh, marks, requests,
                    faults, push, lost>>
    BY <1>1 DEF Sweep, mail, browser, counters
  <2> QED
    BY <2>1, <2>2, TypedMoved DEF Typed, TypeOK
<1>2. ASSUME NEW n \in Ids, Expire(n) PROVE Typed'
  <2>1. /\ rows' \in [Ids -> Row \cup {Absent}]
        /\ \A m \in Ids : m # n => rows'[m] = rows[m]
        /\ rows'[n] \in Row /\ rows'[n].state = rows[n].state
    BY <1>2, ExpiryEffect DEF Typed
  <2>2. UNCHANGED <<prefs, calls, pushes, jobs, mails, browser, counters>>
    BY <1>2 DEF Expire, mail
  <2>3. TypeOK'
    BY <2>1, <2>2 DEF Typed, TypeOK, browser, counters
  <2>4. rows[n] # Absent /\ rows'[n] # Absent
    BY <1>2, <2>1 DEF Expire, Absent, Row
  <2> QED
    BY <2>1, <2>2, <2>3, <2>4, TypedRows
<1> QED
  BY <1>1, <1>2

(* Steps of the browser and of pushes.                                       *)
LEMMA TypedBrowser ==
  ASSUME Typed, UNCHANGED <<prefs, rows, calls, jobs, mails, requests, push>>,
         pushes' \subseteq pushes, bell' \in [Watchers -> SUBSET Ids],
         fetch' \in [Watchers -> Fetch], fresh' \subseteq fresh, marks' \subseteq Watchers,
         faults' \in Nat, lost' \in BOOLEAN
  PROVE  Typed'
<1>1. TypeOK'
  BY DEF Typed, TypeOK
<1> QED
  BY <1>1, TypedRows

LEMMA RefetchType ==
  ASSUME Typed, NEW v \in Watchers, Refetch(v)
  PROVE  /\ fetch' \in [Watchers -> Fetch]
         /\ fetch'[v] = IF v \in fresh THEN fetch[v] ELSE [phase |-> "asked", items |-> {}]
         /\ \A u \in Watchers : u # v => fetch'[u] = fetch[u]
<1>1. [phase |-> "asked", items |-> {}] \in Fetch
  BY DEF Fetch
<1> QED
  BY <1>1 DEF Refetch, Typed, TypeOK

LEMMA TypedPush ==
  ASSUME Typed, NEW n \in Ids, DeliverPush(n) \/ LosePush(n)
  PROVE  Typed'
<1>1. CASE DeliverPush(n)
  <2>1. fetch' \in [Watchers -> Fetch]
    BY <1>1, RefetchType DEF DeliverPush, Typed, TypeOK
  <2>2. /\ UNCHANGED <<prefs, rows, calls, jobs, mails, requests, push, bell, fresh, marks, faults>>
        /\ pushes' \subseteq pushes /\ lost' \in BOOLEAN
    BY <1>1 DEF DeliverPush, mail, Typed, TypeOK
  <2> QED
    BY <2>1, <2>2, TypedBrowser DEF Typed, TypeOK
<1>2. CASE LosePush(n)
  <2>1. /\ UNCHANGED <<prefs, rows, calls, jobs, mails, requests, push, bell, fetch, fresh, marks>>
        /\ pushes' \subseteq pushes /\ faults' = faults + 1 /\ lost' = TRUE
    BY <1>2 DEF LosePush, Fault, mail, browser
  <2> QED
    BY <2>1, TypedBrowser DEF Typed, TypeOK
<1> QED
  BY <1>1, <1>2

LEMMA TypedBell ==
  ASSUME Typed, NEW v \in Watchers, Bell(v) \/ LoseAnswer(v)
  PROVE  Typed'
<1>1. CASE Answer(v)
  <2>1. Listed(v) \subseteq Ids
    BY DEF Listed, Unread
  <2>2. [phase |-> "answered", items |-> Listed(v)] \in Fetch
    BY <2>1 DEF Fetch
  <2>3. fetch' \in [Watchers -> Fetch]
    BY <1>1, <2>2 DEF Answer, Typed, TypeOK
  <2>4. UNCHANGED <<prefs, rows, calls, jobs, mails, requests, push, pushes, bell, fresh, marks,
                    faults, lost>>
    BY <1>1 DEF Answer, mail, counters
  <2> QED
    BY <2>3, <2>4, TypedBrowser DEF Typed, TypeOK
<1>2. CASE Receive(v)
  <2>1. fetch[v] \in Fetch /\ [phase |-> "idle", items |-> {}] \in Fetch
    BY DEF Typed, TypeOK, Fetch
  <2>2. fetch' \in [Watchers -> Fetch] /\ bell' \in [Watchers -> SUBSET Ids]
    BY <1>2, <2>1 DEF Receive, Typed, TypeOK, Fetch
  <2>3. /\ UNCHANGED <<prefs, rows, calls, jobs, mails, requests, push, pushes, marks, faults, lost>>
        /\ fresh' \subseteq fresh
    BY <1>2 DEF Receive, mail, counters
  <2> QED
    BY <2>2, <2>3, TypedBrowser DEF Typed, TypeOK
<1>3. CASE MarkAnswered(v)
  <2>1. fetch' \in [Watchers -> Fetch] /\ marks' \subseteq Watchers
    BY <1>3, RefetchType DEF MarkAnswered, Typed, TypeOK
  <2>2. UNCHANGED <<prefs, rows, calls, jobs, mails, requests, push, pushes, bell, fresh, faults,
                    lost>>
    BY <1>3 DEF MarkAnswered, mail, counters
  <2> QED
    BY <2>1, <2>2, TypedBrowser DEF Typed, TypeOK
<1>4. CASE LoseAnswer(v)
  <2>1. /\ UNCHANGED <<prefs, rows, calls, jobs, mails, requests, push, pushes, bell, fetch, fresh>>
        /\ marks' \subseteq Watchers /\ faults' = faults + 1 /\ lost' = TRUE
    BY <1>4 DEF LoseAnswer, Fault, mail, Typed, TypeOK
  <2> QED
    BY <2>1, TypedBrowser DEF Typed, TypeOK
<1>5. ASSUME NEW ids, MarkRead(v, ids) PROVE Typed'
  <2>1. Moved(ids \cap Unread(v), "unread", "read")
    BY <1>5, MarkMoves
  <2>2. /\ UNCHANGED <<prefs, calls, pushes, jobs, mails, bell, fetch, fresh, faults, push, lost>>
        /\ marks' \subseteq Watchers /\ requests' \in Nat
    BY <1>5 DEF MarkRead, Request, mail, Typed, TypeOK
  <2> QED
    BY <2>1, <2>2, TypedMoved
<1> QED
  BY <1>1, <1>2, <1>3, <1>4, <1>5 DEF Bell

LEMMA TypedAsked ==
  ASSUME Typed, Asked
  PROVE  Typed'
<1>1. ASSUME NEW u \in Users, NEW off \in SUBSET Channels, SetPreferences(u, off) PROVE Typed'
  <2>1. /\ UNCHANGED <<rows, calls, pushes, jobs, mails, browser, faults, push, lost>>
        /\ requests' \in Nat /\ prefs' \in [Users -> SUBSET Channels]
    BY <1>1 DEF SetPreferences, Request, mail, Typed, TypeOK
  <2>2. TypeOK'
    BY <2>1 DEF Typed, TypeOK, browser
  <2> QED
    BY <2>1, <2>2, TypedRows
<1>2. ASSUME NEW u \in Users, NEW to \in SUBSET Users, Announce(u, to) PROVE Typed'
  <2>1. PICK new : new = [actor |-> u, todo |-> to, wrote |-> {}]
    OBVIOUS
  <2>2. new \in Call /\ new.wrote = {}
    BY <2>1 DEF Call
  <2>3. /\ UNCHANGED <<prefs, rows, pushes, jobs, mails, browser, faults, push, lost>>
        /\ requests' \in Nat /\ calls' = calls \cup {new}
    BY <1>2, <2>1 DEF Announce, Request, mail, Typed, TypeOK
  <2>4. TypeOK'
    BY <2>2, <2>3 DEF Typed, TypeOK, browser
  <2>5. WritesAreOpen' /\ JobsAreBounded'
    BY <2>2, <2>3 DEF Typed, WritesAreOpen, JobsAreBounded
  <2> QED
    BY <2>4, <2>5 DEF Typed
<1> QED
  BY <1>1, <1>2 DEF Asked

-----------------------------------------------------------------------------
(* The e-mail job of a notification, and what each of its steps makes of it. *)
LEMMA JobTypes ==
  ASSUME Typed, NEW n \in Ids
  PROVE  /\ jobs[n] \in Job /\ mails[n] \in Nat
         /\ jobs[n].tried \in 0..Attempts /\ jobs[n].stalls \in 0..2
         /\ jobs[n].state \in {"adding", "queued", "active"} =>
              /\ rows[n] # Absent
              /\ jobs[n].tried + 1 \in 0..Attempts /\ jobs[n].stalls \in 0..1
BY BoundsAssumption DEF Typed, TypeOK, JobsAreBounded, Job

LEMMA JobSteps ==
  ASSUME Typed, NEW n \in Ids, MailStep(n) \/ NotEnqueued(n)
  PROVE  \E job \in Job :
           /\ jobs' = [jobs EXCEPT ![n] = job]
           /\ mails' \in {mails, Mailed(n)}
           /\ rows[n] # Absent
           /\ jobs[n].state \in {"adding", "queued", "active"}
           /\ job.state \in {"none", "adding", "queued", "active"} =>
                job.tried < Attempts /\ job.stalls < 2
           /\ job.state = "failed" => job.tried = Attempts \/ job.stalls = 2
           /\ job.state = "done" => mails' = Mailed(n)
<1> DEFINE Changes(new) ==
             /\ jobs[n].state \in {"adding", "queued", "active"}
             /\ jobs' = [jobs EXCEPT ![n] = new]
             /\ mails' \in {mails, Mailed(n)}
<1>1. ASSUME NEW s \in {"none", "queued", "active"}, Changes([jobs[n] EXCEPT !.state = s])
      PROVE  \E job \in Job :
               /\ Changes(job) /\ job.state = s
               /\ job.tried < Attempts /\ job.stalls < 2
  <2>1. PICK new : new = [jobs[n] EXCEPT !.state = s]
    OBVIOUS
  <2>2. /\ new \in Job /\ new.state = s /\ new.tried = jobs[n].tried
        /\ new.stalls = jobs[n].stalls
    BY <2>1, JobTypes DEF Job
  <2>3. Changes(new) /\ new.tried < Attempts /\ new.stalls < 2
    BY <1>1, <2>1, <2>2 DEF Typed, JobsAreBounded
  <2> QED
    BY <2>2, <2>3
<1>2. CASE Enqueued(n) \/ Take(n) \/ NotEnqueued(n)
  <2>1. \E s \in {"none", "queued", "active"} : Changes([jobs[n] EXCEPT !.state = s])
    BY <1>2 DEF Enqueued, Take, NotEnqueued, Becomes
  <2> QED
    BY <1>1, <2>1, JobTypes
<1>3. CASE Sent(n)
  <2>1. PICK new : new = [jobs[n] EXCEPT !.state = "done"]
    OBVIOUS
  <2>2. new \in Job /\ new.state = "done"
    BY <2>1, JobTypes DEF Job
  <2>3. Changes(new) /\ mails' = Mailed(n)
    BY <1>3, <2>1 DEF Sent, Becomes
  <2> QED
    BY <2>2, <2>3, JobTypes
<1>4. CASE Refused(n)
  <2>1. PICK new : new = [jobs[n] EXCEPT !.state = "refused"]
    OBVIOUS
  <2>2. new \in Job /\ new.state = "refused"
    BY <2>1, JobTypes DEF Job
  <2>3. Changes(new)
    BY <1>4, <2>1 DEF Refused, Becomes
  <2> QED
    BY <2>2, <2>3, JobTypes
<1>5. CASE TransientFailure(n)
  <2>1. PICK new : new = Retried(jobs[n])
    OBVIOUS
  <2>2. Changes(new) /\ jobs[n].state = "active"
    BY <1>5, <2>1 DEF TransientFailure, Becomes
  <2>3. /\ new.tried = jobs[n].tried + 1 /\ new.stalls = jobs[n].stalls
        /\ new.state = IF jobs[n].tried + 1 < Attempts THEN "queued" ELSE "failed"
        /\ new \in Job
    BY <2>1, <2>2, JobTypes DEF Retried, Job
  <2>4. IF new.state = "failed" THEN new.tried = Attempts
                                ELSE new.tried < Attempts /\ new.stalls < 2
    BY <2>2, <2>3, JobTypes, BoundsAssumption
  <2>5. new.state \in {"queued", "failed"}
    BY <2>3
  <2> QED
    BY <2>2, <2>3, <2>4, <2>5, JobTypes
<1>6. CASE Stall(n)
  <2>1. PICK new : new = [jobs[n] EXCEPT !.stalls = @ + 1,
                                         !.state = IF jobs[n].stalls = 0 THEN "queued"
                                                                         ELSE "failed"]
    OBVIOUS
  <2>2. Changes(new) /\ jobs[n].state = "active"
    BY <1>6, <2>1 DEF Stall, Becomes
  <2>3. jobs[n].stalls + 1 \in 0..2 /\ jobs[n].tried < Attempts
    BY <2>2, JobTypes DEF Typed, JobsAreBounded
  <2>4. /\ new.tried = jobs[n].tried /\ new.stalls = jobs[n].stalls + 1
        /\ new.state = IF jobs[n].stalls = 0 THEN "queued" ELSE "failed"
        /\ new \in Job
    BY <2>1, <2>3, JobTypes DEF Job
  <2>5. IF new.state = "failed" THEN new.stalls = 2
                                ELSE new.tried < Attempts /\ new.stalls < 2
    BY <2>2, <2>3, <2>4, JobTypes
  <2>6. new.state \in {"queued", "failed"}
    BY <2>4
  <2> QED
    BY <2>2, <2>4, <2>5, <2>6, JobTypes
<1> QED
  BY <1>2, <1>3, <1>4, <1>5, <1>6 DEF MailStep

LEMMA MailedEffect ==
  ASSUME Typed, NEW n \in Ids, mails' \in {mails, Mailed(n)}
  PROVE  /\ mails' \in [Ids -> Nat]
         /\ \A m \in Ids : m # n => mails'[m] = mails[m]
         /\ mails[n] # 0 => mails'[n] = mails[n]
         /\ mails'[n] \in {0, 1} \/ mails'[n] = mails[n]
         /\ mails' = Mailed(n) => mails'[n] # 0
BY DEF Mailed, Typed, TypeOK

LEMMA TypedJob ==
  ASSUME Typed, NEW n \in Ids, MailStep(n) \/ NotEnqueued(n)
  PROVE  Typed'
<1>1. PICK job \in Job :
        /\ jobs' = [jobs EXCEPT ![n] = job]
        /\ mails' \in {mails, Mailed(n)}
        /\ rows[n] # Absent
        /\ job.state \in {"none", "adding", "queued", "active"} =>
             job.tried < Attempts /\ job.stalls < 2
  BY JobSteps
<1>2. UNCHANGED <<prefs, rows, calls, pushes, browser, requests, push, lost>> /\ faults' \in Nat
  BY DEF MailStep, NotEnqueued, Enqueued, Take, Sent, Refused, TransientFailure, Stall, MailOnly,
         counters, Fault, Typed, TypeOK
<1>3. TypeOK'
  BY <1>1, <1>2, MailedEffect DEF Typed, TypeOK, browser
<1>4. JobsAreBounded'
  BY <1>1, <1>2 DEF Typed, TypeOK, JobsAreBounded
<1>5. WritesAreOpen'
  BY <1>2 DEF Typed, WritesAreOpen
<1> QED
  BY <1>3, <1>4, <1>5 DEF Typed

LEMMA TypedNext ==
  ASSUME Typed, [Next]_vars
  PROVE  Typed'
<1>1. CASE UNCHANGED vars
  BY <1>1 DEF vars, mail, browser, counters, Typed, TypeOK, WritesAreOpen, JobsAreBounded
<1>2. ASSUME NEW call \in calls, Finish(call) PROVE Typed'
  BY <1>2, TypedNotify, TypedEnd DEF Finish
<1>3. ASSUME NEW n \in Ids, \/ DeliverPush(n) \/ LosePush(n)
                            \/ Expire(n) \/ MailStep(n) \/ NotEnqueued(n)
      PROVE  Typed'
  BY <1>3, TypedPush, TypedExpiry, TypedJob
<1> QED
  BY <1>1, <1>2, <1>3, TypedAsked, TypedBell, TypedExpiry DEF Next

LEMMA TypedAlways == Spec => []Typed
BY TypedInit, TypedNext, PTL DEF Spec

(* The variables keep their types: in particular the attempts and stalls of  *)
(* an e-mail job stay within what BullMQ allows it.                          *)
THEOREM TypeCorrect == Spec => []TypeOK
<1>1. Typed => TypeOK
  BY DEF Typed
<1> QED
  BY <1>1, TypedAlways, PTL

-----------------------------------------------------------------------------
(* The e-mail: one for a notification, and no job ends without a reason.     *)
MailInv == Typed /\ MailIsAccountedFor

LEMMA MailInvInit == Init => MailInv
BY TypedInit DEF Init, MailInv, MailIsAccountedFor

LEMMA MailInvJob ==
  ASSUME MailInv, NEW n \in Ids, MailStep(n) \/ NotEnqueued(n)
  PROVE  MailIsAccountedFor'
<1> USE DEF MailInv
<1>1. PICK job \in Job :
        /\ jobs' = [jobs EXCEPT ![n] = job]
        /\ mails' \in {mails, Mailed(n)}
        /\ job.state = "failed" => job.tried = Attempts \/ job.stalls = 2
        /\ job.state = "done" => mails' = Mailed(n)
  BY JobSteps
<1>2. /\ mails' \in [Ids -> Nat] /\ mails'[n] \in {0, 1}
      /\ \A m \in Ids : m # n => mails'[m] = mails[m] /\ jobs'[m] = jobs[m]
      /\ jobs'[n] = job
  BY <1>1, MailedEffect DEF MailIsAccountedFor, Typed, TypeOK
<1>3. job.state = "done" => mails'[n] = 1
  BY <1>1, <1>2, MailedEffect
<1> QED
  BY <1>1, <1>2, <1>3 DEF MailIsAccountedFor

LEMMA MailInvNext ==
  ASSUME MailInv, [Next]_vars
  PROVE  MailInv'
<1> USE DEF MailInv
<1>1. Typed'
  BY TypedNext
<1>2. ASSUME UNCHANGED <<jobs, mails>> PROVE MailIsAccountedFor'
  BY <1>2 DEF MailIsAccountedFor
<1>3. ASSUME NEW call \in calls, NEW v \in Users, NEW n \in Ids, Notify(call, v, n)
      PROVE  MailIsAccountedFor'
  <2>1. jobs' = jobs \/ jobs' = [jobs EXCEPT ![n].state = "adding"]
    BY <1>3, NotifyEffect
  <2>2. UNCHANGED mails
    BY <1>3 DEF Notify
  <2>3. \A m \in Ids : jobs'[m] = jobs[m] \/ jobs'[m].state = "adding"
    BY <2>1 DEF Typed, TypeOK, Job
  <2> QED
    BY <2>2, <2>3 DEF MailIsAccountedFor
<1>4. CASE UNCHANGED vars
  BY <1>1, <1>2, <1>4 DEF vars, mail
<1>5. CASE Asked
  BY <1>1, <1>2, <1>5 DEF Asked, SetPreferences, Announce, mail
<1>6. ASSUME NEW call \in calls, Finish(call) PROVE MailIsAccountedFor'
  BY <1>2, <1>3, <1>6 DEF Finish, Commit, Rollback, mail
<1>7. ASSUME NEW v \in Watchers, Bell(v) \/ LoseAnswer(v)
      PROVE  MailIsAccountedFor'
  BY <1>2, <1>7 DEF Bell, Answer, Receive, MarkAnswered, MarkRead, LoseAnswer, mail
<1>8. ASSUME NEW n \in Ids, DeliverPush(n) \/ LosePush(n) \/ Expire(n)
      PROVE  MailIsAccountedFor'
  BY <1>2, <1>8 DEF DeliverPush, LosePush, Expire, mail
<1>9. CASE Sweep
  BY <1>1, <1>2, <1>9 DEF Sweep, mail
<1> QED
  BY <1>1, <1>4, <1>5, <1>6, <1>7, <1>8, <1>9, MailInvJob DEF Next

LEMMA MailInvAlways == Spec => []MailInv
BY MailInvInit, MailInvNext, PTL DEF Spec

(* However many attempts and workers a job gets, and whatever is lost on the *)
(* way, its recipient gets at most one e-mail; and no job ends for a reason  *)
(* the processor does not know: one that is done has mailed, and one that    *)
(* failed has used up its attempts or two workers.                           *)
THEOREM MailsAreAccountedFor == Spec => []MailIsAccountedFor
<1>1. MailInv => MailIsAccountedFor
  BY DEF MailInv
<1> QED
  BY <1>1, MailInvAlways, PTL

-----------------------------------------------------------------------------
(* The bell.  What is written and not committed is still to be pushed, and   *)
(* what the browser shows or is about to show lacks only what is still to be *)
(* pushed and holds only what is unread, unless a mark is on its way.        *)
IsCurrent(items, v) ==
  /\ Listed(v) \ items \subseteq pushes
  /\ v \notin marks => items \subseteq Unread(v)

Follows(v) ==
  /\ fetch[v].phase = "answered" => IsCurrent(fetch[v].items, v)
  /\ fetch[v].phase = "idle" => IsCurrent(bell[v], v)

(* A browser whose first list is on its way shows nothing to mark.           *)
FirstLoads ==
  \A v \in fresh : /\ fetch[v].phase # "idle"
                    /\ bell[v] = {} /\ v \notin marks

BellInv ==
  push = "afterCommit" /\ ~lost =>
    /\ \A n \in Ids : rows[n].state = "open" => n \in pushes
    /\ \A v \in Watchers : Follows(v)

LEMMA BellInvInit == Init => BellInv
<1> SUFFICES ASSUME Init PROVE BellInv
  OBVIOUS
<1>1. \A n \in Ids : rows[n].state = "absent"
  BY DEF Init, Absent
<1>2. \A v \in Watchers : /\ Listed(v) = {} /\ bell[v] = {}
                          /\ fetch[v].phase # "answered"
  BY <1>1 DEF Init, Listed, Unread
<1> QED
  BY <1>1, <1>2 DEF BellInv, Follows, IsCurrent

LEMMA FirstLoadsInit == Init => FirstLoads
BY DEF Init, FirstLoads

LEMMA FirstLoadsNext ==
  ASSUME Typed, FirstLoads, [Next]_vars
  PROVE  FirstLoads'
<1>1. ASSUME UNCHANGED browser PROVE FirstLoads'
  BY <1>1 DEF FirstLoads, browser
<1>2. ASSUME UNCHANGED <<bell, fresh>>,
             \A v \in fresh : v \notin marks' /\ fetch'[v].phase # "idle"
      PROVE  FirstLoads'
  BY <1>2 DEF FirstLoads
<1>3. CASE UNCHANGED vars \/ Asked \/ Sweep
  BY <1>1, <1>3 DEF vars, Asked, SetPreferences, Announce, Sweep
<1>4. ASSUME NEW call \in calls, Finish(call) PROVE FirstLoads'
  BY <1>1, <1>4 DEF Finish, Notify, Commit, Rollback
<1>5. ASSUME NEW n \in Ids, LosePush(n) \/ Expire(n) \/ MailStep(n) \/ NotEnqueued(n)
      PROVE  FirstLoads'
  BY <1>1, <1>5 DEF LosePush, Expire, MailStep, NotEnqueued, Enqueued, Take, Sent,
                    TransientFailure, Refused, Stall, MailOnly
<1>6. ASSUME NEW n \in Ids, DeliverPush(n) PROVE FirstLoads'
  <2>1. \A v \in fresh : v \in Watchers /\ fetch'[v] = fetch[v]
    BY <1>6, RefetchType DEF DeliverPush, Typed, TypeOK
  <2> QED
    BY <1>2, <1>6, <2>1 DEF DeliverPush, FirstLoads
<1>7. ASSUME NEW v \in Watchers, Answer(v) PROVE FirstLoads'
  <2>1. \A u \in fresh : fetch'[u].phase # "idle"
    BY <1>7 DEF Answer, FirstLoads, Typed, TypeOK
  <2> QED
    BY <1>2, <1>7, <2>1 DEF Answer, FirstLoads
<1>8. ASSUME NEW v \in Watchers, Receive(v) PROVE FirstLoads'
  <2>1. /\ fresh' = fresh \ {v} /\ UNCHANGED marks
        /\ \A u \in Watchers \ {v} : fetch'[u] = fetch[u] /\ bell'[u] = bell[u]
    BY <1>8 DEF Receive, Typed, TypeOK
  <2> QED
    BY <2>1 DEF FirstLoads, Typed, TypeOK
<1>9. ASSUME NEW v \in Watchers, NEW ids, MarkRead(v, ids) PROVE FirstLoads'
  BY <1>2, <1>9 DEF MarkRead, FirstLoads
<1>10. ASSUME NEW v \in Watchers, MarkAnswered(v) PROVE FirstLoads'
  <2>1. \A u \in fresh : u \in Watchers /\ u # v
    BY <1>10 DEF MarkAnswered, FirstLoads, Typed, TypeOK
  <2>2. \A u \in fresh : fetch'[u] = fetch[u]
    BY <1>10, <2>1, RefetchType DEF MarkAnswered
  <2> QED
    BY <1>2, <1>10, <2>2 DEF MarkAnswered, FirstLoads
<1>11. ASSUME NEW v \in Watchers, LoseAnswer(v) PROVE FirstLoads'
  BY <1>2, <1>11 DEF LoseAnswer, FirstLoads
<1> QED
  BY <1>3, <1>4, <1>5, <1>6, <1>7, <1>8, <1>9, <1>10, <1>11 DEF Next, Bell

(* A step that touches no browser keeps the invariant if it pushes what it   *)
(* writes, lists nothing new but what is to be pushed, and takes away from   *)
(* what is unread only where it also leaves a mark.                          *)
LEMMA BellKept ==
  ASSUME BellInv, UNCHANGED <<bell, fetch, push, lost>>,
         pushes \subseteq pushes', marks \subseteq marks',
         push = "afterCommit" /\ ~lost =>
           /\ \A n \in Ids : rows'[n].state = "open" => n \in pushes'
           /\ \A v \in Watchers : /\ Listed(v)' \subseteq Listed(v) \cup pushes'
                                  /\ v \notin marks' => Unread(v) \subseteq Unread(v)'
  PROVE  BellInv'
<1> SUFFICES ASSUME push = "afterCommit", ~lost, NEW v \in Watchers
             PROVE  Follows(v)'
  BY DEF BellInv
<1>1. /\ Listed(v)' \subseteq Listed(v) \cup pushes'
      /\ v \notin marks' => v \notin marks /\ Unread(v) \subseteq Unread(v)'
  OBVIOUS
<1>2. CASE fetch[v].phase = "answered"
  BY <1>1, <1>2 DEF BellInv, Follows, IsCurrent
<1>3. CASE fetch[v].phase = "idle"
  BY <1>1, <1>3 DEF BellInv, Follows, IsCurrent
<1> QED
  BY <1>2, <1>3 DEF Follows

LEMMA BellFinish ==
  ASSUME Typed, BellInv, NEW call \in calls, Finish(call)
  PROVE  BellInv'
<1>1. ASSUME NEW v \in Users, NEW n \in Ids, Notify(call, v, n) PROVE BellInv'
  <2>1. UNCHANGED <<bell, fetch, marks, push, lost>>
    BY <1>1 DEF Notify, browser, counters
  <2>2. \/ UNCHANGED <<rows, pushes>>
        \/ Opens(call, n, v) /\ pushes' = pushes \cup {n}
    BY <1>1, NotifyEffect
  <2>3. CASE UNCHANGED <<rows, pushes>>
    BY <2>1, <2>3, BellKept DEF BellInv, Listed, Unread
  <2>4. CASE Opens(call, n, v) /\ pushes' = pushes \cup {n}
    <3>1. /\ rows[n].state = "absent" /\ rows'[n].state = "open"
          /\ \A m \in Ids : m # n => rows'[m] = rows[m]
      BY <2>4 DEF Opens, Typed, TypeOK, Absent
    <3>2. \A u \in Watchers : Unread(u)' = Unread(u) /\ Listed(u)' \subseteq Listed(u)
      BY <3>1 DEF Listed, Unread
    <3> QED
      BY <2>1, <2>4, <3>1, <3>2, BellKept DEF BellInv
  <2> QED
    BY <2>2, <2>3, <2>4
<1>2. CASE Commit(call) \/ Rollback(call)
  <2>1. PICK to \in {"unread", "deleted"} : Moved(call.wrote, "open", to)
    BY <1>2, CommitMoves
  <2>2. UNCHANGED <<bell, fetch, marks, pushes, push, lost>>
    BY <1>2 DEF Commit, Rollback, browser, counters
  <2>3. /\ \A n \in Ids \ call.wrote : rows'[n] = rows[n]
        /\ \A n \in Ids \cap call.wrote : rows[n].state = "open" /\ rows'[n].state = to
    BY <2>1, MovedRows DEF Typed, Moved
  <2>4. \A u \in Watchers : Unread(u) \subseteq Unread(u)'
    BY <2>3 DEF Unread
  <2>5. ASSUME push = "afterCommit", ~lost
        PROVE  /\ \A n \in Ids : rows'[n].state = "open" => n \in pushes
               /\ \A u \in Watchers : Listed(u)' \subseteq Listed(u) \cup pushes
    BY <2>3, <2>5 DEF BellInv, Listed, Unread
  <2> QED
    BY <2>2, <2>4, <2>5, BellKept
<1> QED
  BY <1>1, <1>2 DEF Finish

(* A row that is marked, expires or is swept away.                           *)
LEMMA BellExpiry ==
  ASSUME Typed, BellInv, \/ Sweep
                         \/ \E n \in Ids : Expire(n)
  PROVE  BellInv'
<1>1. UNCHANGED <<bell, fetch, marks, pushes, push, lost>>
  BY DEF Sweep, Expire, browser, counters
<1>2. CASE Sweep
  <2>1. /\ \A n \in Ids : ~Swept(n) => rows'[n] = rows[n]
        /\ \A n \in Ids : Swept(n) => rows'[n].state = "deleted"
    BY <1>2, SweepMoves, MovedRows DEF Typed
  <2>2. \A n \in Ids : Swept(n) => rows[n].state = "read"
    BY DEF Swept
  <2>3. \A u \in Watchers : Unread(u)' = Unread(u) /\ Listed(u)' \subseteq Listed(u)
    BY <2>1, <2>2 DEF Unread, Listed
  <2>4. push = "afterCommit" /\ ~lost =>
          \A n \in Ids : rows'[n].state = "open" => n \in pushes
    BY <2>1, <2>2 DEF BellInv
  <2> QED
    BY <1>1, <2>3, <2>4, BellKept
<1>3. ASSUME NEW n \in Ids, Expire(n) PROVE BellInv'
  <2>1. /\ \A m \in Ids : m # n => rows'[m] = rows[m]
        /\ rows'[n].state = rows[n].state /\ rows'[n].to = rows[n].to /\ rows'[n].expired
    BY <1>3, ExpiryEffect DEF Typed
  <2>2. \A u \in Watchers : Unread(u)' = Unread(u) /\ Listed(u)' \subseteq Listed(u)
    BY <2>1 DEF Unread, Listed
  <2>3. push = "afterCommit" /\ ~lost =>
          \A m \in Ids : rows'[m].state = "open" => m \in pushes
    BY <2>1 DEF BellInv
  <2> QED
    BY <1>1, <2>2, <2>3, BellKept
<1> QED
  BY <1>2, <1>3

LEMMA BellMark ==
  ASSUME Typed, BellInv, NEW v \in Watchers, NEW ids, MarkRead(v, ids)
  PROVE  BellInv'
<1> DEFINE S == ids \cap Unread(v)
<1>1. Moved(S, "unread", "read")
  BY MarkMoves
<1>2. UNCHANGED <<bell, fetch, pushes, push, lost>> /\ marks' = marks \cup {v}
  BY DEF MarkRead, Request
<1>3. /\ \A n \in Ids \ S : rows'[n] = rows[n]
      /\ \A n \in Ids \cap S : /\ rows'[n].state = "read"
                               /\ rows[n].to = v
  BY <1>1, MovedRows DEF Typed, Unread
<1>4. \A u \in Watchers : Listed(u)' \subseteq Listed(u)
  BY <1>3 DEF Listed, Unread
<1>5. \A u \in Watchers : u # v => Unread(u) \subseteq Unread(u)'
  BY <1>3 DEF Unread
<1>6. push = "afterCommit" /\ ~lost =>
        \A n \in Ids : rows'[n].state = "open" => n \in pushes
  BY <1>3 DEF BellInv
<1> QED
  BY <1>2, <1>4, <1>5, <1>6, BellKept

(* The steps of the browser itself: one browser's list changes.              *)
LEMMA BellChanges ==
  ASSUME BellInv, UNCHANGED <<rows, push, lost>>, NEW v \in Watchers,
         \A u \in Watchers : u # v => /\ fetch'[u] = fetch[u] /\ bell'[u] = bell[u]
                                      /\ u \in marks => u \in marks',
         push = "afterCommit" /\ ~lost =>
           /\ \A n \in pushes : n \in pushes' \/ (rows[n].to = v /\ rows[n].state # "open")
           /\ Follows(v)'
  PROVE  BellInv'
<1> SUFFICES ASSUME push = "afterCommit", ~lost
             PROVE  /\ \A n \in Ids : rows'[n].state = "open" => n \in pushes'
                    /\ \A u \in Watchers : Follows(u)'
  BY DEF BellInv
<1>1. \A n \in Ids : rows'[n].state = "open" => n \in pushes'
  BY DEF BellInv
<1>2. ASSUME NEW u \in Watchers
      PROVE  Follows(u)'
  <2>1. CASE u = v
    BY <2>1
  <2>2. CASE u # v
    <3>1. \A n \in Listed(u) : n \in pushes => n \in pushes'
      BY <2>2 DEF Listed, Unread
    <3>2. Listed(u)' = Listed(u) /\ Unread(u)' = Unread(u)
      BY DEF Listed, Unread
    <3>3. CASE fetch[u].phase = "answered"
      BY <2>2, <3>1, <3>2, <3>3 DEF BellInv, Follows, IsCurrent
    <3>4. CASE fetch[u].phase = "idle"
      BY <2>2, <3>1, <3>2, <3>4 DEF BellInv, Follows, IsCurrent
    <3> QED
      BY <2>2, <3>3, <3>4 DEF Follows
  <2> QED
    BY <2>1, <2>2
<1> QED
  BY <1>1, <1>2

LEMMA BellBrowser ==
  ASSUME Typed, FirstLoads, BellInv, NEW v \in Watchers,
         Answer(v) \/ Receive(v) \/ MarkAnswered(v)
  PROVE  BellInv'
<1>1. CASE Answer(v)
  <2>1. UNCHANGED <<rows, pushes, bell, marks, push, lost>>
    BY <1>1 DEF Answer, counters
  <2>2. /\ fetch'[v] = [phase |-> "answered", items |-> Listed(v)]
        /\ \A u \in Watchers : u # v => fetch'[u] = fetch[u]
    BY <1>1 DEF Answer, Typed, TypeOK
  <2>3. Listed(v)' = Listed(v) /\ Unread(v)' = Unread(v) /\ Listed(v) \subseteq Unread(v)
    BY <2>1 DEF Listed, Unread
  <2>4. Follows(v)'
    BY <2>2, <2>3 DEF Follows, IsCurrent
  <2> QED
    BY <2>1, <2>2, <2>4, BellChanges
<1>2. CASE Receive(v)
  <2>1. UNCHANGED <<rows, pushes, marks, push, lost>>
    BY <1>2 DEF Receive, counters
  <2>2. /\ fetch[v].phase = "answered"
        /\ fetch'[v].phase = "idle" /\ bell'[v] = fetch[v].items
        /\ \A u \in Watchers : u # v => fetch'[u] = fetch[u] /\ bell'[u] = bell[u]
    BY <1>2 DEF Receive, Typed, TypeOK
  <2>3. Listed(v)' = Listed(v) /\ Unread(v)' = Unread(v)
    BY <2>1 DEF Listed, Unread
  <2>4. push = "afterCommit" /\ ~lost => Follows(v)'
    BY <2>1, <2>2, <2>3 DEF BellInv, Follows, IsCurrent
  <2> QED
    BY <2>1, <2>2, <2>4, BellChanges
<1>3. CASE MarkAnswered(v)
  <2>1. UNCHANGED <<rows, pushes, bell, push, lost>> /\ marks' = marks \ {v}
    BY <1>3 DEF MarkAnswered, counters
  <2>2. /\ fetch'[v] = [phase |-> "asked", items |-> {}]
        /\ \A u \in Watchers : u # v => fetch'[u] = fetch[u]
    BY <1>3, RefetchType DEF MarkAnswered, FirstLoads
  <2>3. Follows(v)'
    BY <2>2 DEF Follows
  <2> QED
    BY <2>1, <2>2, <2>3, BellChanges
<1> QED
  BY <1>1, <1>2, <1>3

(* After the commit, the push of a row of a watcher makes him ask again.     *)
LEMMA BellPush ==
  ASSUME Typed, FirstLoads, BellInv, NEW n \in Ids, DeliverPush(n)
  PROVE  BellInv'
<1>1. /\ UNCHANGED <<rows, bell, marks, push>> /\ pushes' = pushes \ {n}
      /\ push = "afterCommit" => rows[n].state # "open"
      /\ lost' = (lost \/ TooEarly(n))
  BY DEF DeliverPush
<1>2. CASE rows[n].to \in Watchers
  <2>1. PICK v \in Watchers : v = rows[n].to
    BY <1>2
  <2>2. Refetch(v)
    BY <1>2, <2>1 DEF DeliverPush
  <2>3. /\ fetch'[v] = IF v \in fresh THEN fetch[v] ELSE [phase |-> "asked", items |-> {}]
        /\ \A u \in Watchers : u # v => fetch'[u] = fetch[u]
    BY <2>2, RefetchType
  <2>4. CASE TooEarly(n)
    <3>1. lost' = TRUE
      BY <1>1, <2>4
    <3> QED
      BY <3>1 DEF BellInv
  <2>5. CASE ~TooEarly(n)
    <3>1. UNCHANGED lost
      BY <1>1, <2>5 DEF Typed, TypeOK
    <3>2. v \in fresh => fetch[v].phase \notin {"idle", "answered"}
      BY <2>1, <2>5 DEF TooEarly, FirstLoads
    <3>3. Follows(v)'
      BY <2>3, <3>2 DEF Follows
    <3> QED
      BY <1>1, <2>1, <2>3, <3>1, <3>3, BellChanges
  <2> QED
    BY <2>4, <2>5
<1>3. CASE rows[n].to \notin Watchers
  <2>1. UNCHANGED <<fetch, lost>>
    BY <1>1, <1>3 DEF DeliverPush, TooEarly, Typed, TypeOK
  <2>2. \A u \in Watchers : /\ Listed(u)' = Listed(u) /\ Unread(u)' = Unread(u)
                            /\ n \notin Listed(u)
    BY <1>1, <1>3 DEF Listed, Unread
  <2>3. ASSUME push = "afterCommit", ~lost, NEW u \in Watchers
        PROVE  Follows(u)'
    <3>1. CASE fetch[u].phase = "answered"
      BY <1>1, <2>1, <2>2, <2>3, <3>1 DEF BellInv, Follows, IsCurrent
    <3>2. CASE fetch[u].phase = "idle"
      BY <1>1, <2>1, <2>2, <2>3, <3>2 DEF BellInv, Follows, IsCurrent
    <3> QED
      BY <2>1, <3>1, <3>2 DEF Follows
  <2>4. push = "afterCommit" /\ ~lost =>
          \A m \in Ids : rows'[m].state = "open" => m \in pushes'
    BY <1>1 DEF BellInv
  <2> QED
    BY <1>1, <2>1, <2>3, <2>4 DEF BellInv
<1> QED
  BY <1>2, <1>3

LEMMA BellInvNext ==
  ASSUME Typed, FirstLoads, BellInv, [Next]_vars
  PROVE  BellInv'
<1>1. ASSUME UNCHANGED <<rows, pushes, browser, push, lost>> PROVE BellInv'
  BY <1>1 DEF BellInv, Follows, IsCurrent, Listed, Unread, browser
<1>2. CASE UNCHANGED vars
  BY <1>1, <1>2 DEF vars, counters
<1>3. CASE Asked
  BY <1>1, <1>3 DEF Asked, SetPreferences, Announce, Request
<1>4. ASSUME NEW v \in Watchers, Bell(v) \/ LoseAnswer(v) PROVE BellInv'
  <2>1. CASE LoseAnswer(v)
    BY <2>1 DEF LoseAnswer, BellInv
  <2> QED
    BY <1>4, <2>1, BellBrowser, BellMark DEF Bell
<1>5. ASSUME NEW n \in Ids, LosePush(n) PROVE BellInv'
  BY <1>5 DEF LosePush, BellInv
<1>6. ASSUME NEW n \in Ids, MailStep(n) \/ NotEnqueued(n) PROVE BellInv'
  <2>1. UNCHANGED <<rows, pushes, browser, push, lost>>
    BY <1>6 DEF MailStep, NotEnqueued, Enqueued, Take, Sent, Refused, TransientFailure, Stall,
                MailOnly, counters, Fault
  <2> QED
    BY <1>1, <2>1
<1> QED
  BY <1>2, <1>3, <1>4, <1>5, <1>6, BellFinish, BellPush, BellExpiry DEF Next

(* As long as nothing to the browser is lost, no push comes between the read *)
(* of the first list and its arrival, and none overtakes the commit it       *)
(* belongs to, a browser that waits for no push, no list and no answer to a  *)
(* mark shows all that is unread and nothing else, whichever requests,       *)
(* marks, expiries and refetches overlapped on the way there.                *)
THEOREM TheBellIsCurrent == Spec => []BellIsCurrentAtRest
<1>1. BellInv => BellIsCurrentAtRest
  <2> SUFFICES ASSUME BellInv, push = "afterCommit", ~lost, NEW v \in Watchers, AtRest(v)
               PROVE  Listed(v) \subseteq bell[v] /\ bell[v] \subseteq Unread(v)
    BY DEF BellIsCurrentAtRest
  <2>1. IsCurrent(bell[v], v) /\ v \notin marks
    BY DEF BellInv, Follows, AtRest
  <2>2. \A n \in Listed(v) : n \notin pushes
    BY DEF AtRest, Listed, Unread
  <2> QED
    BY <2>1, <2>2 DEF IsCurrent
<1>2. Typed /\ FirstLoads /\ BellInv /\ [Next]_vars => FirstLoads' /\ BellInv'
  BY FirstLoadsNext, BellInvNext
<1> QED
  BY <1>1, <1>2, FirstLoadsInit, BellInvInit, TypedAlways, PTL DEF Spec
=============================================================================
