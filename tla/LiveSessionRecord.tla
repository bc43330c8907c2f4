--------------------------- MODULE LiveSessionRecord ---------------------------
(***************************************************************************)
(* The persisted live session: the rows the backend keeps and the one      *)
(* record the renderer caches.                                             *)
(*                                                                         *)
(* Every call of liveSessions/currentLiveSession.ts is an HTTP request     *)
(* whose answer is written into the cache when it arrives, whatever was    *)
(* called meanwhile: nothing relates an answer to the session that asked.  *)
(* The controller runs one start, restore, retirement or end at a time,    *)
(* but it can give one up while its request is in flight; resumption       *)
(* updates and settings changes go out beside it.  Requests are served in  *)
(* any order, may fail, or may be served and their answer lost; the        *)
(* renderer may be reloaded at any time.                                   *)
(***************************************************************************)
EXTENDS Integers, FiniteSets

CONSTANTS MaxRows,      \* rows of the chat (bound)
          MaxSessions,  \* sessions the controller goes through (bound)
          Updaters,     \* updates in flight at once (bound)
          MaxUpdates,   \* updates sent (bound)
          MaxLeft       \* calls left in flight when a session is given up (bound)

ASSUME RecordAssumption ==
    /\ MaxRows \in Nat \ {0} /\ MaxSessions \in Nat \ {0}
    /\ MaxLeft \in Nat /\ MaxUpdates \in Nat
    /\ "controller" \notin Updaters /\ "nobody" \notin Updaters

VARIABLES
    row,      \* live_sessions: row[i] is the i-th created
    cache,    \* activeLiveSession: the id of its row (0: null) and a copy of it
    ctl,      \* what the session controller is doing
    own,      \* the row of the session it runs, 0 when there is none
    session,  \* how many sessions it has begun to run
    sent,     \* how many updates it has sent beside the controller's
    requests, \* requests the backend has not served
    answers,  \* answers the renderer has not handled
    crossed   \* history: a request or an answer of a past session or record took
              \* effect, or a start overtook the end before it

backend  == row
renderer == <<cache, ctl, own, session, sent>>
network  == <<requests, answers>>
vars == <<row, cache, ctl, own, session, sent, requests, answers, crossed>>

Rows == 1..MaxRows
RowStates == [status : {"absent", "active", "ended"},
              restorable : BOOLEAN, handle : BOOLEAN, invalidated : BOOLEAN]
Absent == [status |-> "absent", restorable |-> FALSE, handle |-> FALSE, invalidated |-> FALSE]

Records == [id : 0..MaxRows, copy : RowStates]
Null == [id |-> 0, copy |-> Absent]

\* then: what the caller goes on with; by: who waits for the answer, nobody once
\* the window that asked was reloaded.
Requests == [op : {"create", "list", "update", "end", "skip"}, row : 0..MaxRows,
             restorable : BOOLEAN, handle : BOOLEAN,
             then : {"nothing", "end", "create"},
             by : Updaters \cup {"controller", "nobody"}, session : 1..MaxSessions]
Answers == [to : Requests, ok : BOOLEAN, record : Records, skipped : SUBSET Rows]

Controls == {"off", "restoring", "skipping", "dialing", "retiring", "creating", "up", "ending"}

TypeOK ==
    /\ row \in [Rows -> RowStates]
    /\ cache \in Records
    /\ ctl \in Controls
    /\ own \in 0..MaxRows
    /\ session \in 1..MaxSessions /\ sent \in 0..MaxUpdates
    /\ requests \subseteq Requests /\ answers \subseteq Answers
    /\ crossed \in BOOLEAN

Init ==
    /\ row = [i \in Rows |-> Absent]
    /\ cache = Null
    /\ ctl = "off" /\ own = 0
    /\ session = 1 /\ sent = 0
    /\ requests = {} /\ answers = {}
    /\ crossed = FALSE
-----------------------------------------------------------------------------
(* The rows.                                                               *)

\* createLiveSession: always active and not restorable.
Created == [status |-> "active", restorable |-> FALSE, handle |-> FALSE, invalidated |-> FALSE]

\* buildUpdatedLiveSessionRecord for the resumption requests the renderer sends.
Updated(r, restorable, handle) ==
    [r EXCEPT !.restorable = restorable, !.handle = restorable /\ handle,
              !.invalidated = ~restorable]

\* buildEndedLiveSessionRecord; "ended" stands for 'ended' and 'failed'.
Ended(r) ==
    [r EXCEPT !.status = "ended", !.restorable = FALSE, !.handle = FALSE, !.invalidated = TRUE]

IsRestoreCandidate(r) == r.restorable /\ r.handle /\ ~r.invalidated

\* Mutant: active rows are not looked for when nothing can be restored.
SkipsNothing(r) == FALSE

\* isSkippedActiveNonRestorableSession.
IsSkipped(r) == r.status = "active" /\ ~r.restorable

Exists(i) == row[i].status # "absent"
Candidates == {i \in Rows : Exists(i) /\ IsRestoreCandidate(row[i])}
IsNewest(i) == i \in Candidates /\ \A j \in Candidates : j <= i
Skipped == {i \in Rows : IsSkipped(row[i])}
-----------------------------------------------------------------------------
(* What the renderer sends.                                                *)

Ask(op) == [op |-> op, row |-> 0, restorable |-> FALSE, handle |-> FALSE,
            then |-> "nothing", by |-> "controller", session |-> session]

EndOf(i, then) == [Ask("end") EXCEPT !.row = i, !.then = then]
InvalidationOf(i, then) == [Ask("update") EXCEPT !.row = i, !.then = then]

Send(ms) == requests' = requests \cup ms

\* The session the controller runs is over: what is still in flight is of the past.
NextSession == session < MaxSessions /\ session' = session + 1

FewLeft == Cardinality(requests) + Cardinality(answers) <= MaxLeft

\* startCurrentLiveSession: a cached record is taken for the new session's.
Create ==
    IF cache'.id # 0
    THEN ctl' = "up" /\ own' = cache'.id /\ UNCHANGED requests
    ELSE ctl' = "creating" /\ own' = 0 /\ Send({Ask("create")})

\* restoreCurrentLiveSession answered record: it is dialed when it has a handle,
\* else it is invalidated, ended and replaced.
Restored(record) ==
    /\ own' = record.id
    /\ IF record.copy.restorable /\ record.copy.handle
       THEN ctl' = "dialing" /\ UNCHANGED requests
       ELSE ctl' = "retiring" /\ Send({InvalidationOf(record.id, "end")})

\* endCurrentLiveSession by the session controller; ms are the requests in flight.
Finish(ms) ==
    IF cache.id = 0
    THEN ctl' = "off" /\ own' = 0 /\ NextSession /\ requests' = ms
    ELSE /\ ctl' = "ending" /\ UNCHANGED <<own, session>>
         /\ requests' = ms \cup {EndOf(cache.id, "nothing")}
-----------------------------------------------------------------------------
(* The session controller's calls.                                         *)

\* startSessionInternal's restore.
Start ==
    /\ ctl = "off" /\ session < MaxSessions
    /\ IF cache.id # 0
       THEN Restored(cache)
       ELSE ctl' = "restoring" /\ Send({Ask("list")}) /\ UNCHANGED own
    /\ UNCHANGED <<backend, cache, session, sent, answers, crossed>>

\* The mode is inactive while a failed session is still being ended: a start
\* overtakes the end.
StartOverEnd ==
    /\ ctl = "ending" /\ FewLeft
    /\ ctl' = "off" /\ own' = 0 /\ NextSession
    /\ crossed' = TRUE
    /\ UNCHANGED <<backend, cache, sent, network>>

Connect ==
    /\ ctl = "dialing"
    /\ ctl' = "up"
    /\ UNCHANGED <<backend, cache, own, session, sent, network, crossed>>

\* connectRestoredSession fails, or the resume of a running session does
\* (fallbackToNewSession): the record is invalidated, ended and replaced.
Retire ==
    /\ ctl \in {"dialing", "up"}
    /\ IF cache.id = 0
       THEN cache' = cache /\ Create
       ELSE /\ ctl' = "retiring" /\ Send({InvalidationOf(cache.id, "end")})
            /\ UNCHANGED <<cache, own>>
    /\ UNCHANGED <<backend, session, sent, answers, crossed>>

\* The session ends, by the user or by an error.
End ==
    /\ ctl = "up"
    /\ Finish(requests)
    /\ UNCHANGED <<backend, cache, sent, answers, crossed>>

\* The user ends, or an error settles, before the session is up.  The calls in
\* flight go on, and what they answer is of the past.
GiveUp ==
    /\ ctl \in {"restoring", "skipping", "dialing", "retiring", "creating"}
    /\ NextSession /\ session' < MaxSessions /\ FewLeft
    /\ own' = 0
    /\ IF cache.id = 0
       THEN ctl' = "off" /\ UNCHANGED requests
       ELSE /\ ctl' = "ending"
            /\ Send({[EndOf(cache.id, "nothing") EXCEPT !.session = session']})
    /\ UNCHANGED <<backend, cache, sent, answers, crossed>>

\* The window is reloaded: the cache is empty, the requests are still served.
Reload ==
    /\ NextSession /\ FewLeft
    /\ cache' = Null /\ ctl' = "off" /\ own' = 0
    /\ requests' = {[m EXCEPT !.by = "nobody"] : m \in requests}
    /\ answers' = {}
    /\ UNCHANGED <<backend, sent, crossed>>
-----------------------------------------------------------------------------
(* Updates beside the controller.                                          *)

Free(u) == /\ \A m \in requests : m.by # u
           /\ \A a \in answers : a.to.by # u

\* updateCurrentLiveSession: nothing is sent without a cached record.
Update(u, restorable, handle) ==
    /\ cache.id # 0 /\ Free(u)
    /\ sent < MaxUpdates /\ sent' = sent + 1
    /\ Send({[Ask("update") EXCEPT !.row = cache.id, !.by = u,
                                   !.restorable = restorable, !.handle = handle]})
    /\ UNCHANGED <<backend, cache, ctl, own, session, answers, crossed>>

\* persistLiveSessionResumption: the server sent a new handle, or called the session
\* not resumable.
UpdateResumption(u, restorable, handle) ==
    ctl = "up" /\ Update(u, restorable, handle)

\* invalidateCurrentLiveSessionResumption: a setting needs a new session.
InvalidateResumption(u) == ctl # "off" /\ Update(u, FALSE, FALSE)
-----------------------------------------------------------------------------
(* The backend.                                                            *)

Past(m) == m.session < session
Late(m) == Past(m) \/ (m.op = "update" /\ row[m.row].status # "active")

Reply(m, ok, record, skipped) ==
    /\ requests' = requests \ {m}
    /\ answers' = IF m.by = "nobody" THEN answers
                  ELSE answers \cup {[to |-> m, ok |-> ok, record |-> record, skipped |-> skipped]}

\* A served request; its answer may be lost on the way.
Answer(m, ok, record, skipped) ==
    /\ IF ok THEN Reply(m, TRUE, record, skipped) ELSE Reply(m, FALSE, Null, {})
    /\ crossed' = (crossed \/ Late(m))
    /\ UNCHANGED renderer

ServeCreate(m, ok) ==
    /\ m.op = "create"
    /\ \E i \in Rows :
          /\ ~Exists(i) /\ \A j \in 1..(i - 1) : Exists(j)
          /\ row' = [row EXCEPT ![i] = Created]
          /\ Answer(m, ok, [id |-> i, copy |-> Created], {})

ServeList(m, ok) ==
    /\ m.op = "list"
    /\ \/ Candidates = {} /\ Answer(m, ok, Null, Skipped)
       \/ \E i \in Rows : IsNewest(i) /\ Answer(m, ok, [id |-> i, copy |-> row[i]], {})
    /\ UNCHANGED row

ServeUpdate(m, ok) ==
    /\ m.op = "update"
    /\ row' = [row EXCEPT ![m.row] = Updated(@, m.restorable, m.handle)]
    /\ Answer(m, ok, [id |-> m.row, copy |-> row'[m.row]], {})

ServeEnd(m, ok) ==
    /\ m.op \in {"end", "skip"}
    /\ row' = [row EXCEPT ![m.row] = Ended(@)]
    /\ Answer(m, ok, [id |-> m.row, copy |-> row'[m.row]], {})

\* The request does not reach the backend, or is refused.
Refuse(m) ==
    /\ Reply(m, FALSE, Null, {})
    /\ UNCHANGED <<backend, renderer, crossed>>
-----------------------------------------------------------------------------
(* Answers in the renderer.                                                *)

\* The answer of an update finds another record cached than the one it is of.
Misplaced(a) == a.to.op = "update" /\ a.ok /\ a.record.id # cache.id

Take(a) ==
    /\ answers' = answers \ {a}
    /\ crossed' = (crossed \/ Past(a.to) \/ Misplaced(a))
    /\ UNCHANGED <<backend, sent>>

Ignored == UNCHANGED <<ctl, own, session, requests>>

\* An error of a call of the controller: the session it runs ends as failed, even
\* when the call is of a past one.  ms are the requests in flight.
Fails(ms) ==
    IF ctl = "off" /\ cache.id = 0 THEN requests' = ms /\ UNCHANGED <<ctl, own, session>>
    ELSE Finish(ms)

OnCreated(a) ==
    /\ a.to.op = "create" /\ Take(a)
    /\ cache' = IF a.ok THEN a.record ELSE cache
    /\ IF Past(a.to) THEN Ignored
       ELSE IF a.ok THEN ctl' = "up" /\ own' = a.record.id /\ UNCHANGED <<session, requests>>
       ELSE Fails(requests)

\* A list with a candidate, or with nothing to skip, settles the restore.
OnListed(a) ==
    /\ a.to.op = "list" /\ a.ok /\ a.skipped = {}
    /\ Take(a) /\ UNCHANGED session
    /\ cache' = a.record
    /\ IF Past(a.to) THEN UNCHANGED <<ctl, own, requests>>
       ELSE IF a.record.id # 0 THEN Restored(a.record) ELSE Create

\* The rows to skip are ended at once, each by a request of its own.
OnListedSkipping(a) ==
    /\ a.to.op = "list" /\ a.ok /\ a.skipped # {}
    /\ Take(a) /\ UNCHANGED <<cache, own, session>>
    /\ ctl' = IF Past(a.to) THEN ctl ELSE "skipping"
    /\ Send({[a.to EXCEPT !.op = "skip", !.row = i, !.then = "create"] : i \in a.skipped})

\* Promise.all over the skipped rows: the last answer settles the restore.
AwaitedWith(m) == {n \in requests \cup {a.to : a \in answers} :
                     n # m /\ n.op = "skip" /\ n.then = "create" /\ n.session = m.session}

OnSkipped(a) ==
    /\ a.to.op = "skip" /\ a.to.then = "create" /\ a.ok
    /\ Take(a) /\ UNCHANGED session
    /\ IF AwaitedWith(a.to) # {} THEN UNCHANGED <<cache, ctl, own, requests>>
       ELSE /\ cache' = Null
            /\ IF Past(a.to) THEN UNCHANGED <<ctl, own, requests>> ELSE Create

\* The first failure rejects Promise.all: nobody waits for the other rows any more.
Unawaited(m, first) ==
    IF m.op = "skip" /\ m.session = first.session THEN [m EXCEPT !.then = "nothing"] ELSE m

OnRestoreFailed(a) ==
    /\ a.to.op = "list" \/ (a.to.op = "skip" /\ a.to.then = "create")
    /\ ~a.ok
    /\ answers' = {[b EXCEPT !.to = Unawaited(@, a.to)] : b \in answers \ {a}}
    /\ crossed' = (crossed \/ Past(a.to))
    /\ UNCHANGED <<backend, cache, sent>>
    /\ Fails({Unawaited(m, a.to) : m \in requests})

OnUnawaited(a) ==
    /\ a.to.op = "skip" /\ a.to.then = "nothing"
    /\ Take(a) /\ UNCHANGED cache /\ Ignored

\* The answer of an update replaces the cached record, whichever it is by now.
\* The update of a retirement goes on to end that record.
OnUpdated(a) ==
    /\ a.to.op = "update" /\ a.ok
    /\ Take(a) /\ UNCHANGED <<ctl, own, session>>
    /\ cache' = a.record
    /\ IF a.to.then = "end"
       THEN Send({[EndOf(a.record.id, "create") EXCEPT !.session = a.to.session]})
       ELSE UNCHANGED requests

\* An update beside the controller fails silently; a retirement fails its session,
\* a past one only if it was part of a start.
OnUpdateFailed(a) ==
    /\ a.to.op = "update" /\ ~a.ok
    /\ Take(a) /\ UNCHANGED cache
    /\ \/ a.to.then = "nothing" /\ Ignored
       \/ a.to.then = "end" /\ Fails(requests)
       \/ a.to.then = "end" /\ Past(a.to) /\ Ignored

\* Mutant: a failed end leaves the record cached.
OnEndedKeeping(a) ==
    /\ a.to.op = "end" /\ Take(a)
    /\ cache' = IF a.ok THEN Null ELSE cache
    /\ \/ Past(a.to) /\ Ignored
       \/ ~Past(a.to) /\ a.ok /\ a.to.then = "create" /\ Create /\ UNCHANGED session
       \/ /\ IF Past(a.to) THEN a.to.then = "create" /\ ~a.ok /\ ctl # "off"
             ELSE a.to.then = "nothing" \/ ~a.ok
          /\ ctl' = "off" /\ own' = 0 /\ NextSession /\ UNCHANGED requests

\* An end forgets the cached record, whether or not it succeeded.
OnEnded(a) ==
    /\ a.to.op = "end" /\ Take(a)
    /\ cache' = Null
    /\ \/ Past(a.to) /\ Ignored
       \/ ~Past(a.to) /\ a.ok /\ a.to.then = "create" /\ Create /\ UNCHANGED session
       \/ /\ IF Past(a.to) THEN a.to.then = "create" /\ ~a.ok /\ ctl # "off"
             ELSE a.to.then = "nothing" \/ ~a.ok
          /\ ctl' = "off" /\ own' = 0 /\ NextSession /\ UNCHANGED requests
-----------------------------------------------------------------------------
Serve(m) == \/ \E ok \in BOOLEAN : ServeCreate(m, ok) \/ ServeList(m, ok)
                                   \/ ServeUpdate(m, ok) \/ ServeEnd(m, ok)
            \/ Refuse(m)

Handle(a) == \/ OnCreated(a) \/ OnListed(a) \/ OnListedSkipping(a) \/ OnSkipped(a)
             \/ OnRestoreFailed(a) \/ OnUnawaited(a) \/ OnUpdated(a) \/ OnUpdateFailed(a)
             \/ OnEnded(a)

Next ==
    \/ Start \/ StartOverEnd \/ Connect \/ Retire \/ End \/ GiveUp \/ Reload
    \/ \E u \in Updaters :
          \/ \E restorable, handle \in BOOLEAN : UpdateResumption(u, restorable, handle)
          \/ InvalidateResumption(u)
    \/ \E m \in requests : Serve(m)
    \/ \E a \in answers : Handle(a)

Spec == Init /\ [][Next]_vars
-----------------------------------------------------------------------------
(* Properties.                                                             *)

\* A row keeps a handle only while it is restorable, and a restorable row is not
\* invalidated (the CHECK constraint of the table); so does every copy of a row
\* that is cached or on its way.
Consistent(r) == (r.handle => r.restorable) /\ (r.restorable => ~r.invalidated)

RowsConsistent ==
    /\ \A i \in Rows : Consistent(row[i])
    /\ Consistent(cache.copy)
    /\ \A a \in answers : Consistent(a.record.copy)

\* While a session is up, the cached record is the one of its own row and the row
\* is active, so its updates and its end reach the right row: unless sessions
\* crossed.  The code has no guard against that.
OwnRecord ==
    ~crossed /\ ctl = "up" => cache.id = own /\ row[own].status = "active"

\* A restorable row without a handle (the server called the session resumable and
\* sent no handle) is neither restored nor skipped by a later start.
Stranded(r) == r.restorable /\ ~r.handle

\* Failed requests and lost answers leave rows active behind them, and the next
\* start ends or restores them: beside stranded rows the chat never has two active
\* ones, unless sessions crossed.
OneActiveRow ==
    LET left == {i \in Rows : row[i].status = "active" /\ ~Stranded(row[i])}
    IN ~crossed => \A i, j \in left : i = j
=============================================================================
