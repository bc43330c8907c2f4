------------------------ MODULE LiveSessionRecordProofs ------------------------
(***************************************************************************)
(* Proofs about the persisted live session, for every number of rows,      *)
(* sessions and updates: the type invariant and the consistency of the     *)
(* rows and of every copy of them, whatever crosses whatever; and, unless  *)
(* sessions cross, that the controller, its cached record and the rows     *)
(* agree, from which OwnRecord and OneActiveRow follow.                    *)
(***************************************************************************)
EXTENDS LiveSessionRecord, TLAPS

---------------------------------------------------------------------------
(* The inductive invariant *)

\* A request about a row names one, and so does the answer to a served update.
Addressed ==
  /\ \A m \in requests : m.op \in {"update", "end", "skip"} => m.row \in Rows
  /\ \A a \in answers : a.to.op = "update" /\ a.ok => a.record.id \in Rows

IInv == TypeOK /\ RowsConsistent /\ Addressed

\* What a state says of the requests and the answers alone.
RequestOK(m) == m \in Requests /\ (m.op \in {"update", "end", "skip"} => m.row \in Rows)
AnswerOK(a) ==
  /\ a \in Answers
  /\ a.to.op = "update" /\ a.ok => a.record.id \in Rows
  /\ Consistent(a.record.copy)
RecordOK(c) == c \in Records /\ Consistent(c.copy)
RowOK(r) == r \in RowStates /\ Consistent(r)

RowPart == row \in [Rows -> RowStates] /\ \A i \in Rows : Consistent(row[i])
RequestPart == \A m \in requests : RequestOK(m)
AnswerPart == \A a \in answers : AnswerOK(a)
RestPart == /\ RecordOK(cache) /\ ctl \in Controls /\ own \in 0..MaxRows
            /\ session \in 1..MaxSessions /\ sent \in 0..MaxUpdates /\ crossed \in BOOLEAN

LEMMA Parts == IInv <=> RowPart /\ RequestPart /\ AnswerPart /\ RestPart
<1>1. IInv => RowPart /\ RequestPart /\ AnswerPart /\ RestPart
  BY DEF IInv, TypeOK, RowsConsistent, Addressed, RowPart, RequestPart, AnswerPart, RestPart,
         RequestOK, AnswerOK, RecordOK
<1>2. RowPart /\ RequestPart /\ AnswerPart /\ RestPart => IInv
  BY DEF IInv, TypeOK, RowsConsistent, Addressed, RowPart, RequestPart, AnswerPart, RestPart,
         RequestOK, AnswerOK, RecordOK
<1> QED BY <1>1, <1>2

LEMMA PartsPrimed == RowPart' /\ RequestPart' /\ AnswerPart' /\ RestPart' => IInv'
  BY DEF IInv, TypeOK, RowsConsistent, Addressed, RowPart, RequestPart, AnswerPart, RestPart,
         RequestOK, AnswerOK, RecordOK

---------------------------------------------------------------------------
(* Rows *)

LEMMA NewRowsOK == RowOK(Created) /\ RowOK(Absent)
  BY DEF RowOK, Created, Absent, RowStates, Consistent

LEMMA UpdatedOK ==
  ASSUME NEW r \in RowStates, NEW restorable \in BOOLEAN, NEW handle \in BOOLEAN
  PROVE  RowOK(Updated(r, restorable, handle))
  BY DEF RowOK, Updated, RowStates, Consistent

LEMMA EndedOK ==
  ASSUME NEW r \in RowStates
  PROVE  RowOK(Ended(r))
  BY DEF RowOK, Ended, RowStates, Consistent

LEMMA NullOK == RecordAssumption => RecordOK(Null)
  BY DEF RecordAssumption, RecordOK, Null, Absent, Records, RowStates, Consistent

---------------------------------------------------------------------------
(* Requests *)

LEMMA AskOK ==
  ASSUME RecordAssumption, session \in 1..MaxSessions, NEW op \in {"create", "list", "update", "end"}
  PROVE  /\ Ask(op) \in Requests /\ Ask(op).op = op
         /\ op \in {"create", "list"} => RequestOK(Ask(op))
  BY DEF RecordAssumption, RequestOK, Requests, Ask

LEMMA RowsInRange == RecordAssumption => \A i \in Rows : i \in 0..MaxRows /\ i # 0
  BY DEF RecordAssumption, Rows

LEMMA EndOK ==
  ASSUME RecordAssumption, session \in 1..MaxSessions, NEW i \in Rows, NEW s \in 1..MaxSessions,
         NEW next \in {"nothing", "create"}
  PROVE  RequestOK(EndOf(i, next)) /\ RequestOK([EndOf(i, next) EXCEPT !.session = s])
<1>1. Ask("end") \in Requests /\ i \in 0..MaxRows
  BY AskOK, RowsInRange
<1>2. EndOf(i, next) \in Requests /\ EndOf(i, next).row = i
  BY <1>1 DEF EndOf, Requests
<1>3. /\ [EndOf(i, next) EXCEPT !.session = s] \in Requests
      /\ [EndOf(i, next) EXCEPT !.session = s].row = i
  BY <1>2 DEF Requests
<1> QED BY <1>2, <1>3 DEF RequestOK

LEMMA InvalidationOK ==
  ASSUME RecordAssumption, session \in 1..MaxSessions, NEW i \in Rows
  PROVE  RequestOK(InvalidationOf(i, "end"))
<1>1. Ask("update") \in Requests /\ i \in 0..MaxRows
  BY AskOK, RowsInRange
<1>2. InvalidationOf(i, "end") \in Requests /\ InvalidationOf(i, "end").row = i
  BY <1>1 DEF InvalidationOf, Requests
<1> QED BY <1>2 DEF RequestOK

LEMMA UpdateOK ==
  ASSUME RecordAssumption, session \in 1..MaxSessions, NEW i \in Rows, NEW u \in Updaters,
         NEW restorable \in BOOLEAN, NEW handle \in BOOLEAN
  PROVE  RequestOK([Ask("update") EXCEPT !.row = i, !.by = u,
                                         !.restorable = restorable, !.handle = handle])
<1> DEFINE m == [Ask("update") EXCEPT !.row = i, !.by = u,
                                      !.restorable = restorable, !.handle = handle]
<1>1. Ask("update") \in Requests /\ i \in 0..MaxRows
  BY AskOK, RowsInRange
<1>2. m \in Requests /\ m.row = i
  BY <1>1 DEF Requests
<1> QED BY <1>2 DEF RequestOK

LEMMA SkipOK ==
  ASSUME RecordAssumption, NEW m \in Requests, NEW i \in Rows
  PROVE  RequestOK([m EXCEPT !.op = "skip", !.row = i, !.then = "create"])
<1> DEFINE n == [m EXCEPT !.op = "skip", !.row = i, !.then = "create"]
<1>1. i \in 0..MaxRows
  BY RowsInRange
<1>2. n \in Requests /\ n.row = i
  BY <1>1 DEF Requests
<1> QED BY <1>2 DEF RequestOK

LEMMA DeafOK ==
  ASSUME NEW m, RequestOK(m)
  PROVE  RequestOK([m EXCEPT !.by = "nobody"])
  BY DEF RequestOK, Requests

LEMMA UnawaitedOK ==
  ASSUME NEW m, RequestOK(m), NEW first
  PROVE  RequestOK(Unawaited(m, first)) /\ Unawaited(m, first).op = m.op
  BY DEF RequestOK, Requests, Unawaited

\* More requests in flight.
LEMMA SendOK ==
  ASSUME RequestPart, NEW ms, \A m \in ms : RequestOK(m), Send(ms)
  PROVE  RequestPart'
  BY DEF RequestPart, Send, RequestOK, Requests, Rows

\* What the controller's own variables must satisfy.
ControlPart == ctl \in Controls /\ own \in 0..MaxRows /\ session \in 1..MaxSessions

LEMMA NextSessionOK ==
  ASSUME RecordAssumption, session \in 1..MaxSessions, NextSession
  PROVE  session' \in 1..MaxSessions
  BY DEF RecordAssumption, NextSession

LEMMA CreateOK ==
  ASSUME RecordAssumption, RequestPart, session \in 1..MaxSessions, RecordOK(cache'), Create
  PROVE  RequestPart' /\ ctl' \in Controls /\ own' \in 0..MaxRows
<1>1. CASE cache'.id # 0
  BY <1>1 DEF Create, RequestPart, RecordOK, Records, Controls
<1>2. CASE cache'.id = 0
  <2>1. Send({Ask("create")}) /\ ctl' = "creating" /\ own' = 0
    BY <1>2 DEF Create
  <2>2. RequestPart'
    BY <2>1, SendOK, AskOK
  <2> QED BY <2>1, <2>2 DEF Controls, RecordAssumption
<1> QED BY <1>1, <1>2

LEMMA RestoredOK ==
  ASSUME RecordAssumption, RequestPart, session \in 1..MaxSessions,
         NEW record \in Records, record.id # 0, Restored(record)
  PROVE  RequestPart' /\ ctl' \in Controls /\ own' \in 0..MaxRows
<1>1. record.id \in Rows
  BY DEF Records, Rows, RecordAssumption
<1>2. CASE record.copy.restorable /\ record.copy.handle
  BY <1>2 DEF Restored, RequestPart, Records, Controls
<1>3. CASE ~(record.copy.restorable /\ record.copy.handle)
  <2>1. Send({InvalidationOf(record.id, "end")}) /\ ctl' = "retiring" /\ own' = record.id
    BY <1>3 DEF Restored
  <2>2. RequestPart'
    BY <1>1, <2>1, SendOK, InvalidationOK
  <2> QED BY <2>1, <2>2 DEF Controls, Records
<1> QED BY <1>2, <1>3

LEMMA FinishOK ==
  ASSUME RecordAssumption, ControlPart, RecordOK(cache), NEW ms, \A m \in ms : RequestOK(m),
         Finish(ms)
  PROVE  RequestPart' /\ ControlPart'
<1>1. CASE cache.id = 0
  <2>1. ctl' = "off" /\ own' = 0 /\ NextSession /\ requests' = ms
    BY <1>1 DEF Finish
  <2>2. session' \in 1..MaxSessions
    BY <2>1, NextSessionOK DEF ControlPart
  <2> QED BY <2>1, <2>2 DEF ControlPart, Controls, RequestPart, RequestOK, Requests, Rows, RecordAssumption
<1>2. CASE cache.id # 0
  <2>1. /\ ctl' = "ending" /\ UNCHANGED <<own, session>>
        /\ requests' = ms \cup {EndOf(cache.id, "nothing")}
    BY <1>2 DEF Finish
  <2>2. cache.id \in Rows
    BY <1>2 DEF RecordOK, Records, Rows, RecordAssumption
  <2>3. RequestOK(EndOf(cache.id, "nothing"))
    BY <2>2, EndOK DEF ControlPart
  <2> QED BY <2>1, <2>3 DEF ControlPart, Controls, RequestPart, RequestOK, Requests, Rows
<1> QED BY <1>1, <1>2

LEMMA FailsOK ==
  ASSUME RecordAssumption, ControlPart, RecordOK(cache), NEW ms, \A m \in ms : RequestOK(m),
         Fails(ms)
  PROVE  RequestPart' /\ ControlPart'
<1>1. CASE ctl = "off" /\ cache.id = 0
  BY <1>1 DEF Fails, ControlPart, RequestPart, RequestOK, Requests, Rows
<1>2. CASE ~(ctl = "off" /\ cache.id = 0)
  BY <1>2, FinishOK DEF Fails
<1> QED BY <1>1, <1>2

---------------------------------------------------------------------------
(* The controller's steps *)

\* The rows and the answers are left alone.
LEMMA QuietPart ==
  ASSUME RowPart, AnswerPart, UNCHANGED <<row, answers>>
  PROVE  RowPart' /\ AnswerPart'
  BY DEF RowPart, AnswerPart, AnswerOK, Answers, Requests, Rows

LEMMA StartStep == RecordAssumption /\ IInv /\ Start => IInv'
<1> SUFFICES ASSUME RecordAssumption, RowPart, RequestPart, AnswerPart, RestPart, Start
             PROVE  RowPart' /\ RequestPart' /\ AnswerPart' /\ RestPart'
  BY Parts, PartsPrimed
<1>1. RowPart' /\ AnswerPart' /\ UNCHANGED <<cache, session, sent, crossed>>
  BY QuietPart DEF Start, backend
<1>2. RequestPart' /\ ctl' \in Controls /\ own' \in 0..MaxRows
  <2>1. CASE cache.id # 0
    BY <2>1, RestoredOK DEF Start, RestPart, RecordOK
  <2>2. CASE cache.id = 0
    <3>1. ctl' = "restoring" /\ Send({Ask("list")}) /\ own' = own
      BY <2>2 DEF Start
    <3>2. RequestPart'
      BY <3>1, SendOK, AskOK DEF RestPart
    <3> QED BY <3>1, <3>2 DEF RestPart, Controls
  <2> QED BY <2>1, <2>2
<1> QED BY <1>1, <1>2 DEF RestPart, RecordOK

LEMMA StartOverEndStep == RecordAssumption /\ IInv /\ StartOverEnd => IInv'
<1> SUFFICES ASSUME RecordAssumption, RowPart, RequestPart, AnswerPart, RestPart, StartOverEnd
             PROVE  RowPart' /\ RequestPart' /\ AnswerPart' /\ RestPart'
  BY Parts, PartsPrimed
<1>1. RowPart' /\ AnswerPart' /\ RequestPart'
  BY QuietPart DEF StartOverEnd, backend, network, RequestPart
<1>2. session' \in 1..MaxSessions
  BY NextSessionOK DEF StartOverEnd, RestPart
<1> QED BY <1>1, <1>2 DEF StartOverEnd, RestPart, RecordOK, Controls, RecordAssumption

LEMMA ConnectStep == RecordAssumption /\ IInv /\ Connect => IInv'
<1> SUFFICES ASSUME RowPart, RequestPart, AnswerPart, RestPart, Connect
             PROVE  RowPart' /\ RequestPart' /\ AnswerPart' /\ RestPart'
  BY Parts, PartsPrimed
<1>1. RowPart' /\ AnswerPart' /\ RequestPart'
  BY QuietPart DEF Connect, backend, network, RequestPart
<1> QED BY <1>1 DEF Connect, RestPart, RecordOK, Controls

LEMMA RetireStep == RecordAssumption /\ IInv /\ Retire => IInv'
<1> SUFFICES ASSUME RecordAssumption, RowPart, RequestPart, AnswerPart, RestPart, Retire
             PROVE  RowPart' /\ RequestPart' /\ AnswerPart' /\ RestPart'
  BY Parts, PartsPrimed
<1>1. RowPart' /\ AnswerPart' /\ UNCHANGED <<cache, session, sent, crossed>>
  BY QuietPart DEF Retire, backend
<1>2. RequestPart' /\ ctl' \in Controls /\ own' \in 0..MaxRows
  <2>1. CASE cache.id = 0
    <3>1. Create
      BY <2>1 DEF Retire
    <3>2. RecordOK(cache')
      BY <1>1 DEF RestPart, RecordOK
    <3> QED BY <3>1, <3>2, CreateOK DEF RestPart
  <2>2. CASE cache.id # 0
    <3>1. ctl' = "retiring" /\ own' = own /\ Send({InvalidationOf(cache.id, "end")})
      BY <2>2 DEF Retire
    <3>2. cache.id \in Rows
      BY <2>2 DEF RestPart, RecordOK, Records, Rows, RecordAssumption
    <3>3. RequestPart'
      BY <3>1, <3>2, SendOK, InvalidationOK DEF RestPart
    <3> QED BY <3>1, <3>3 DEF RestPart, Controls
  <2> QED BY <2>1, <2>2
<1> QED BY <1>1, <1>2 DEF RestPart, RecordOK

LEMMA EndStep == RecordAssumption /\ IInv /\ End => IInv'
<1> SUFFICES ASSUME RecordAssumption, RowPart, RequestPart, AnswerPart, RestPart, End
             PROVE  RowPart' /\ RequestPart' /\ AnswerPart' /\ RestPart'
  BY Parts, PartsPrimed
<1>1. RowPart' /\ AnswerPart'
  BY QuietPart DEF End, backend
<1>2. RequestPart' /\ ControlPart'
  BY FinishOK DEF End, RestPart, ControlPart, RequestPart
<1> QED BY <1>1, <1>2 DEF End, RestPart, ControlPart, RecordOK

LEMMA GiveUpStep == RecordAssumption /\ IInv /\ GiveUp => IInv'
<1> SUFFICES ASSUME RecordAssumption, RowPart, RequestPart, AnswerPart, RestPart, GiveUp
             PROVE  RowPart' /\ RequestPart' /\ AnswerPart' /\ RestPart'
  BY Parts, PartsPrimed
<1>1. RowPart' /\ AnswerPart' /\ UNCHANGED <<cache, sent, crossed>> /\ own' = 0
  BY QuietPart DEF GiveUp, backend
<1>2. session' \in 1..MaxSessions
  BY NextSessionOK DEF GiveUp, RestPart
<1>3. RequestPart' /\ ctl' \in Controls
  <2>1. CASE cache.id = 0
    BY <2>1 DEF GiveUp, RequestPart, Controls
  <2>2. CASE cache.id # 0
    <3>1. ctl' = "ending" /\ Send({[EndOf(cache.id, "nothing") EXCEPT !.session = session']})
      BY <2>2 DEF GiveUp
    <3>2. cache.id \in Rows
      BY <2>2 DEF RestPart, RecordOK, Records, Rows, RecordAssumption
    <3>3. RequestOK([EndOf(cache.id, "nothing") EXCEPT !.session = session'])
      BY <1>2, <3>2, EndOK DEF RestPart
    <3> QED BY <3>1, <3>3, SendOK DEF Controls
  <2> QED BY <2>1, <2>2
<1> QED BY <1>1, <1>2, <1>3 DEF RestPart, RecordOK, RecordAssumption

LEMMA ReloadStep == RecordAssumption /\ IInv /\ Reload => IInv'
<1> SUFFICES ASSUME RecordAssumption, RowPart, RequestPart, AnswerPart, RestPart, Reload
             PROVE  RowPart' /\ RequestPart' /\ AnswerPart' /\ RestPart'
  BY Parts, PartsPrimed
<1>1. RowPart' /\ AnswerPart'
  BY DEF Reload, backend, RowPart, AnswerPart
<1>2. RequestPart'
  BY DeafOK DEF Reload, RequestPart, RequestOK
<1>3. RecordOK(cache')
  BY NullOK DEF Reload, RecordOK
<1>4. session' \in 1..MaxSessions
  BY NextSessionOK DEF Reload, RestPart
<1> QED BY <1>1, <1>2, <1>3, <1>4 DEF Reload, RestPart, RecordOK, Controls, RecordAssumption

LEMMA UpdateStep ==
  ASSUME NEW u \in Updaters, NEW restorable \in BOOLEAN, NEW handle \in BOOLEAN
  PROVE  RecordAssumption /\ IInv /\ Update(u, restorable, handle) => IInv'
<1> SUFFICES ASSUME RecordAssumption, RowPart, RequestPart, AnswerPart, RestPart,
                    Update(u, restorable, handle)
             PROVE  RowPart' /\ RequestPart' /\ AnswerPart' /\ RestPart'
  BY Parts, PartsPrimed
<1>1. RowPart' /\ AnswerPart'
  BY QuietPart DEF Update, backend
<1>2. cache.id \in Rows
  BY DEF Update, RestPart, RecordOK, Records, Rows, RecordAssumption
<1>3. RequestPart'
  <2> DEFINE m == [Ask("update") EXCEPT !.row = cache.id, !.by = u,
                                        !.restorable = restorable, !.handle = handle]
  <2>1. RequestOK(m)
    BY <1>2, UpdateOK DEF RestPart
  <2>2. Send({m})
    BY DEF Update
  <2> HIDE DEF m
  <2> QED BY <2>1, <2>2, SendOK
<1>4. sent' \in 0..MaxUpdates
  BY DEF Update, RestPart, RecordAssumption
<1> QED BY <1>1, <1>3, <1>4 DEF Update, RestPart, RecordOK

---------------------------------------------------------------------------
(* The backend's steps *)

LEMMA ReplyOK ==
  ASSUME RecordAssumption, RequestPart, AnswerPart, NEW m \in requests, NEW ok \in BOOLEAN,
         NEW record, RecordOK(record), m.op = "update" /\ ok => record.id \in Rows,
         NEW skipped \in SUBSET Rows, Reply(m, ok, record, skipped)
  PROVE  RequestPart' /\ AnswerPart'
<1>1. RequestPart'
  BY DEF Reply, RequestPart, RequestOK, Requests, Rows
<1>2. AnswerOK([to |-> m, ok |-> ok, record |-> record, skipped |-> skipped])
  BY DEF AnswerOK, Answers, RecordOK, RequestPart, RequestOK
<1>3. AnswerPart'
  BY <1>2 DEF Reply, AnswerPart, AnswerOK, Answers, Requests, Rows
<1> QED BY <1>1, <1>3

LEMMA RefusedOK ==
  ASSUME RecordAssumption, RequestPart, AnswerPart, NEW m \in requests, Reply(m, FALSE, Null, {})
  PROVE  RequestPart' /\ AnswerPart'
<1>1. RequestPart'
  BY DEF Reply, RequestPart, RequestOK, Requests, Rows
<1>2. AnswerOK([to |-> m, ok |-> FALSE, record |-> Null, skipped |-> {}])
  BY NullOK DEF AnswerOK, Answers, RecordOK, RequestPart, RequestOK
<1>3. AnswerPart'
  BY <1>2 DEF Reply, AnswerPart, AnswerOK, Answers, Requests, Rows
<1> QED BY <1>1, <1>3

LEMMA AnswerStep ==
  ASSUME RecordAssumption, RequestPart, AnswerPart, RestPart, NEW m \in requests,
         NEW ok \in BOOLEAN, NEW record, RecordOK(record), m.op = "update" => record.id \in Rows,
         NEW skipped \in SUBSET Rows, Answer(m, ok, record, skipped)
  PROVE  RequestPart' /\ AnswerPart' /\ RestPart'
<1>1. RestPart'
  BY DEF Answer, RestPart, renderer, RecordOK
<1>2. RequestPart' /\ AnswerPart'
  <2>1. CASE ok
    BY <2>1, ReplyOK DEF Answer
  <2>2. CASE ~ok
    <3>1. Reply(m, FALSE, Null, {})
      BY <2>2 DEF Answer
    <3> QED BY <3>1, RefusedOK
  <2> QED BY <2>1, <2>2
<1> QED BY <1>1, <1>2

LEMMA ServeStep ==
  ASSUME NEW m \in requests
  PROVE  RecordAssumption /\ IInv /\ Serve(m) => IInv'
<1> SUFFICES ASSUME RecordAssumption, RowPart, RequestPart, AnswerPart, RestPart, Serve(m)
             PROVE  RowPart' /\ RequestPart' /\ AnswerPart' /\ RestPart'
  BY Parts, PartsPrimed
<1>1. \A i \in Rows : RowOK(row[i])
  BY DEF RowPart, RowOK
<1>2. m \in Requests /\ (m.op \in {"update", "end", "skip"} => m.row \in Rows)
  BY DEF RequestPart, RequestOK
<1>3. ASSUME NEW ok \in BOOLEAN, ServeCreate(m, ok)
      PROVE  RowPart' /\ RequestPart' /\ AnswerPart' /\ RestPart'
  <2>1. PICK i \in Rows : /\ row' = [row EXCEPT ![i] = Created]
                          /\ Answer(m, ok, [id |-> i, copy |-> Created], {})
    BY <1>3 DEF ServeCreate
  <2>2. RecordOK([id |-> i, copy |-> Created])
    BY NewRowsOK, RowsInRange DEF RecordOK, Records, RowOK
  <2>3. RowPart'
    BY <2>1, NewRowsOK DEF RowPart, RowOK
  <2>4. m.op # "update"
    BY <1>3 DEF ServeCreate
  <2> QED BY <2>1, <2>2, <2>3, <2>4, AnswerStep
<1>4. ASSUME NEW ok \in BOOLEAN, ServeList(m, ok)
      PROVE  RowPart' /\ RequestPart' /\ AnswerPart' /\ RestPart'
  <2>1. RowPart' /\ m.op # "update"
    BY <1>4 DEF ServeList, RowPart
  <2>2. CASE Answer(m, ok, Null, Skipped)
    BY <2>1, <2>2, NullOK, AnswerStep DEF Skipped
  <2>3. ASSUME NEW i \in Rows, Answer(m, ok, [id |-> i, copy |-> row[i]], {})
        PROVE  RequestPart' /\ AnswerPart' /\ RestPart'
    <3>1. RecordOK([id |-> i, copy |-> row[i]])
      BY <1>1, RowsInRange DEF RecordOK, Records, RowOK
    <3> QED BY <2>1, <2>3, <3>1, AnswerStep
  <2> QED BY <1>4, <2>1, <2>2, <2>3 DEF ServeList
<1>5. ASSUME NEW ok \in BOOLEAN, ServeUpdate(m, ok)
      PROVE  RowPart' /\ RequestPart' /\ AnswerPart' /\ RestPart'
  <2> DEFINE r == Updated(row[m.row], m.restorable, m.handle)
  <2>1. m.row \in Rows /\ m.op = "update" /\ m.restorable \in BOOLEAN /\ m.handle \in BOOLEAN
    BY <1>2, <1>5 DEF ServeUpdate, Requests
  <2>2. RowOK(r)
    BY <1>1, <2>1, UpdatedOK DEF RowOK
  <2>3. row' = [row EXCEPT ![m.row] = r] /\ Answer(m, ok, [id |-> m.row, copy |-> row'[m.row]], {})
    BY <1>5 DEF ServeUpdate
  <2> HIDE DEF r
  <2>4. RowPart' /\ row'[m.row] = r
    BY <2>1, <2>2, <2>3 DEF RowPart, RowOK
  <2>5. RecordOK([id |-> m.row, copy |-> row'[m.row]])
    BY <2>1, <2>2, <2>4, RowsInRange DEF RecordOK, Records, RowOK
  <2> QED BY <2>1, <2>3, <2>4, <2>5, AnswerStep
<1>6. ASSUME NEW ok \in BOOLEAN, ServeEnd(m, ok)
      PROVE  RowPart' /\ RequestPart' /\ AnswerPart' /\ RestPart'
  <2> DEFINE r == Ended(row[m.row])
  <2>1. m.row \in Rows /\ m.op # "update"
    BY <1>2, <1>6 DEF ServeEnd
  <2>2. RowOK(r)
    BY <1>1, <2>1, EndedOK DEF RowOK
  <2>3. row' = [row EXCEPT ![m.row] = r] /\ Answer(m, ok, [id |-> m.row, copy |-> row'[m.row]], {})
    BY <1>6 DEF ServeEnd
  <2> HIDE DEF r
  <2>4. RowPart' /\ row'[m.row] = r
    BY <2>1, <2>2, <2>3 DEF RowPart, RowOK
  <2>5. RecordOK([id |-> m.row, copy |-> row'[m.row]])
    BY <2>1, <2>2, <2>4, RowsInRange DEF RecordOK, Records, RowOK
  <2> QED BY <2>1, <2>3, <2>4, <2>5, AnswerStep
<1>7. CASE Refuse(m)
  <2>1. Reply(m, FALSE, Null, {}) /\ UNCHANGED <<row, renderer, crossed>>
    BY <1>7 DEF Refuse, backend
  <2>2. RequestPart' /\ AnswerPart'
    BY <2>1, RefusedOK
  <2> QED BY <2>1, <2>2 DEF RowPart, RestPart, renderer, RecordOK
<1> QED BY <1>3, <1>4, <1>5, <1>6, <1>7 DEF Serve

---------------------------------------------------------------------------
(* The answers *)

LEMMA TakeOK ==
  ASSUME RowPart, AnswerPart, RestPart, NEW a \in answers, Take(a)
  PROVE  RowPart' /\ AnswerPart' /\ sent' = sent /\ crossed' \in BOOLEAN
  BY DEF Take, backend, RowPart, AnswerPart, RestPart

LEMMA AnswerFacts ==
  ASSUME AnswerPart, NEW a \in answers
  PROVE  /\ RecordOK(a.record) /\ a.to \in Requests /\ a.skipped \in SUBSET Rows
         /\ a.to.op = "update" /\ a.ok => a.record.id \in Rows
  BY DEF AnswerPart, AnswerOK, Answers, RecordOK

LEMMA IgnoredOK ==
  ASSUME RequestPart, RestPart, Ignored
  PROVE  RequestPart' /\ ControlPart'
  BY DEF RequestPart, RestPart, Ignored, ControlPart

LEMMA OnCreatedStep ==
  ASSUME NEW a \in answers
  PROVE  RecordAssumption /\ IInv /\ OnCreated(a) => IInv'
<1> SUFFICES ASSUME RecordAssumption, RowPart, RequestPart, AnswerPart, RestPart, OnCreated(a)
             PROVE  RowPart' /\ RequestPart' /\ AnswerPart' /\ RestPart'
  BY Parts, PartsPrimed
<1>1. RowPart' /\ AnswerPart' /\ sent' = sent /\ crossed' \in BOOLEAN
  BY TakeOK DEF OnCreated
<1>2. RecordOK(cache')
  BY AnswerFacts DEF OnCreated, RestPart, RecordOK
<1>3. RequestPart' /\ ControlPart'
  <2>1. CASE Past(a.to)
    BY <2>1, IgnoredOK DEF OnCreated
  <2>2. CASE ~Past(a.to) /\ a.ok
    BY <2>2, AnswerFacts
    DEF OnCreated, RequestPart, RestPart, ControlPart, Controls, RecordOK, Records
  <2>3. CASE ~Past(a.to) /\ ~a.ok
    <3>1. Fails(requests)
      BY <2>3 DEF OnCreated
    <3> QED BY <3>1, FailsOK DEF RestPart, ControlPart, RequestPart
  <2> QED BY <2>1, <2>2, <2>3
<1> QED BY <1>1, <1>2, <1>3 DEF RestPart, ControlPart

LEMMA OnListedStep ==
  ASSUME NEW a \in answers
  PROVE  RecordAssumption /\ IInv /\ OnListed(a) => IInv'
<1> SUFFICES ASSUME RecordAssumption, RowPart, RequestPart, AnswerPart, RestPart, OnListed(a)
             PROVE  RowPart' /\ RequestPart' /\ AnswerPart' /\ RestPart'
  BY Parts, PartsPrimed
<1>1. RowPart' /\ AnswerPart' /\ sent' = sent /\ crossed' \in BOOLEAN
  BY TakeOK DEF OnListed
<1>2. RecordOK(cache') /\ cache' = a.record /\ session' = session
  BY AnswerFacts DEF OnListed
<1>3. RequestPart' /\ ctl' \in Controls /\ own' \in 0..MaxRows
  <2>1. CASE Past(a.to)
    BY <2>1 DEF OnListed, RequestPart, RestPart
  <2>2. CASE ~Past(a.to) /\ a.record.id # 0
    <3>1. Restored(a.record) /\ a.record \in Records
      BY <2>2, AnswerFacts DEF OnListed, RecordOK
    <3> QED BY <2>2, <3>1, RestoredOK DEF RestPart
  <2>3. CASE ~Past(a.to) /\ a.record.id = 0
    <3>1. Create
      BY <2>3 DEF OnListed
    <3> QED BY <1>2, <3>1, CreateOK DEF RestPart
  <2> QED BY <2>1, <2>2, <2>3
<1> QED BY <1>1, <1>2, <1>3 DEF RestPart

LEMMA OnListedSkippingStep ==
  ASSUME NEW a \in answers
  PROVE  RecordAssumption /\ IInv /\ OnListedSkipping(a) => IInv'
<1> SUFFICES ASSUME RecordAssumption, RowPart, RequestPart, AnswerPart, RestPart, OnListedSkipping(a)
             PROVE  RowPart' /\ RequestPart' /\ AnswerPart' /\ RestPart'
  BY Parts, PartsPrimed
<1>1. RowPart' /\ AnswerPart' /\ sent' = sent /\ crossed' \in BOOLEAN
  BY TakeOK DEF OnListedSkipping
<1>2. RequestPart'
  <2> DEFINE ms == {[a.to EXCEPT !.op = "skip", !.row = i, !.then = "create"] : i \in a.skipped}
  <2>1. ASSUME NEW i \in a.skipped
        PROVE  RequestOK([a.to EXCEPT !.op = "skip", !.row = i, !.then = "create"])
    <3>1. a.to \in Requests /\ i \in Rows
      BY AnswerFacts
    <3> QED BY <3>1, SkipOK
  <2>2. Send(ms)
    BY DEF OnListedSkipping
  <2>3. \A m \in ms : RequestOK(m)
    BY <2>1
  <2> HIDE DEF ms
  <2> QED BY <2>2, <2>3, SendOK
<1> QED BY <1>1, <1>2 DEF OnListedSkipping, RestPart, RecordOK, Controls

LEMMA OnSkippedStep ==
  ASSUME NEW a \in answers
  PROVE  RecordAssumption /\ IInv /\ OnSkipped(a) => IInv'
<1> SUFFICES ASSUME RecordAssumption, RowPart, RequestPart, AnswerPart, RestPart, OnSkipped(a)
             PROVE  RowPart' /\ RequestPart' /\ AnswerPart' /\ RestPart'
  BY Parts, PartsPrimed
<1>1. RowPart' /\ AnswerPart' /\ sent' = sent /\ crossed' \in BOOLEAN
  BY TakeOK DEF OnSkipped
<1>2. CASE AwaitedWith(a.to) # {}
  BY <1>1, <1>2 DEF OnSkipped, RequestPart, RestPart, RecordOK
<1>3. CASE AwaitedWith(a.to) = {}
  <2>1. RecordOK(cache') /\ session' = session
    BY <1>3, NullOK DEF OnSkipped, RecordOK
  <2>2. RequestPart' /\ ctl' \in Controls /\ own' \in 0..MaxRows
    <3>1. CASE Past(a.to)
      BY <1>3, <3>1 DEF OnSkipped, RequestPart, RestPart
    <3>2. CASE ~Past(a.to)
      <4>1. Create
        BY <1>3, <3>2 DEF OnSkipped
      <4> QED BY <2>1, <4>1, CreateOK DEF RestPart
    <3> QED BY <3>1, <3>2
  <2> QED BY <1>1, <2>1, <2>2 DEF RestPart
<1> QED BY <1>2, <1>3

LEMMA OnRestoreFailedStep ==
  ASSUME NEW a \in answers
  PROVE  RecordAssumption /\ IInv /\ OnRestoreFailed(a) => IInv'
<1> SUFFICES ASSUME RecordAssumption, RowPart, RequestPart, AnswerPart, RestPart, OnRestoreFailed(a)
             PROVE  RowPart' /\ RequestPart' /\ AnswerPart' /\ RestPart'
  BY Parts, PartsPrimed
<1>1. RowPart'
  BY DEF OnRestoreFailed, backend, RowPart
<1>2. AnswerPart'
  <2>1. ASSUME NEW b \in answers
        PROVE  AnswerOK([b EXCEPT !.to = Unawaited(@, a.to)])
    <3>1. b.to.op = "update" /\ b.ok => b.record.id \in Rows
      BY <2>1 DEF AnswerPart, AnswerOK
    <3>2. b \in Answers /\ Consistent(b.record.copy)
      BY <2>1 DEF AnswerPart, AnswerOK
    <3>3. Unawaited(b.to, a.to) \in Requests /\ Unawaited(b.to, a.to).op = b.to.op
      BY <3>2 DEF Answers, Requests, Unawaited
    <3> HIDE DEF Unawaited
    <3> QED BY <3>1, <3>2, <3>3 DEF AnswerOK, Answers
  <2>2. answers' = {[b EXCEPT !.to = Unawaited(@, a.to)] : b \in answers \ {a}}
    BY DEF OnRestoreFailed
  <2> QED BY <2>1, <2>2 DEF AnswerPart, AnswerOK, Answers, Requests, Rows
<1>3. UNCHANGED <<cache, sent>> /\ crossed' \in BOOLEAN
  BY DEF OnRestoreFailed, RestPart
<1>4. RequestPart' /\ ControlPart'
  <2> DEFINE ms == {Unawaited(m, a.to) : m \in requests}
  <2>1. \A m \in ms : RequestOK(m)
    BY UnawaitedOK DEF RequestPart
  <2>2. Fails(ms)
    BY DEF OnRestoreFailed
  <2> HIDE DEF ms
  <2> QED BY <2>1, <2>2, FailsOK DEF RestPart, ControlPart
<1> QED BY <1>1, <1>2, <1>3, <1>4 DEF RestPart, ControlPart, RecordOK

LEMMA OnUnawaitedStep ==
  ASSUME NEW a \in answers
  PROVE  RecordAssumption /\ IInv /\ OnUnawaited(a) => IInv'
<1> SUFFICES ASSUME RecordAssumption, RowPart, RequestPart, AnswerPart, RestPart, OnUnawaited(a)
             PROVE  RowPart' /\ RequestPart' /\ AnswerPart' /\ RestPart'
  BY Parts, PartsPrimed
<1>1. RowPart' /\ AnswerPart' /\ sent' = sent /\ crossed' \in BOOLEAN
  BY TakeOK DEF OnUnawaited
<1>2. RequestPart' /\ ControlPart'
  BY IgnoredOK DEF OnUnawaited
<1> QED BY <1>1, <1>2 DEF OnUnawaited, RestPart, ControlPart, RecordOK

LEMMA OnUpdatedStep ==
  ASSUME NEW a \in answers
  PROVE  RecordAssumption /\ IInv /\ OnUpdated(a) => IInv'
<1> SUFFICES ASSUME RecordAssumption, RowPart, RequestPart, AnswerPart, RestPart, OnUpdated(a)
             PROVE  RowPart' /\ RequestPart' /\ AnswerPart' /\ RestPart'
  BY Parts, PartsPrimed
<1>1. RowPart' /\ AnswerPart' /\ sent' = sent /\ crossed' \in BOOLEAN
  BY TakeOK DEF OnUpdated
<1>2. RecordOK(cache') /\ UNCHANGED <<ctl, own, session>> /\ a.record.id \in Rows
  BY AnswerFacts DEF OnUpdated
<1>3. RequestPart'
  <2> DEFINE m == [EndOf(a.record.id, "create") EXCEPT !.session = a.to.session]
  <2>1. RequestOK(m)
    <3>1. a.to.session \in 1..MaxSessions
      BY AnswerFacts DEF Requests
    <3> QED BY <1>2, <3>1, EndOK DEF RestPart
  <2>2. Send({m}) \/ UNCHANGED requests
    BY DEF OnUpdated
  <2> HIDE DEF m
  <2>3. CASE Send({m})
    BY <2>1, <2>3, SendOK
  <2>4. CASE UNCHANGED requests
    BY <2>4 DEF RequestPart
  <2> QED BY <2>2, <2>3, <2>4
<1> QED BY <1>1, <1>2, <1>3 DEF RestPart

LEMMA OnUpdateFailedStep ==
  ASSUME NEW a \in answers
  PROVE  RecordAssumption /\ IInv /\ OnUpdateFailed(a) => IInv'
<1> SUFFICES ASSUME RecordAssumption, RowPart, RequestPart, AnswerPart, RestPart, OnUpdateFailed(a)
             PROVE  RowPart' /\ RequestPart' /\ AnswerPart' /\ RestPart'
  BY Parts, PartsPrimed
<1>1. RowPart' /\ AnswerPart' /\ sent' = sent /\ crossed' \in BOOLEAN
  BY TakeOK DEF OnUpdateFailed
<1>2. RequestPart' /\ ControlPart'
  <2>1. CASE Ignored
    BY <2>1, IgnoredOK
  <2>2. CASE Fails(requests)
    BY <2>2, FailsOK DEF RestPart, ControlPart, RequestPart
  <2> QED BY <2>1, <2>2 DEF OnUpdateFailed
<1> QED BY <1>1, <1>2 DEF OnUpdateFailed, RestPart, ControlPart, RecordOK

LEMMA OnEndedStep ==
  ASSUME NEW a \in answers
  PROVE  RecordAssumption /\ IInv /\ OnEnded(a) => IInv'
<1> SUFFICES ASSUME RecordAssumption, RowPart, RequestPart, AnswerPart, RestPart, OnEnded(a)
             PROVE  RowPart' /\ RequestPart' /\ AnswerPart' /\ RestPart'
  BY Parts, PartsPrimed
<1>1. RowPart' /\ AnswerPart' /\ sent' = sent /\ crossed' \in BOOLEAN
  BY TakeOK DEF OnEnded
<1>2. RecordOK(cache')
  BY NullOK DEF OnEnded, RecordOK
<1>3. RequestPart' /\ ControlPart'
  <2>1. CASE Ignored
    BY <2>1, IgnoredOK
  <2>2. CASE Create /\ UNCHANGED session
    BY <1>2, <2>2, CreateOK DEF RestPart, ControlPart
  <2>3. CASE ctl' = "off" /\ own' = 0 /\ NextSession /\ UNCHANGED requests
    <3>1. session' \in 1..MaxSessions
      BY <2>3, NextSessionOK DEF RestPart
    <3> QED BY <2>3, <3>1 DEF RequestPart, ControlPart, Controls, RecordAssumption
  <2> QED BY <2>1, <2>2, <2>3 DEF OnEnded
<1> QED BY <1>1, <1>2, <1>3 DEF RestPart, ControlPart

---------------------------------------------------------------------------
(* The theorems *)

LEMMA InitIInv == RecordAssumption /\ Init => IInv
<1> SUFFICES ASSUME RecordAssumption, Init
             PROVE  RowPart /\ RequestPart /\ AnswerPart /\ RestPart
  BY Parts
<1>1. RowPart
  BY NewRowsOK DEF Init, RowPart, RowOK
<1>2. RequestPart /\ AnswerPart
  BY DEF Init, RequestPart, AnswerPart
<1>3. RecordOK(cache)
  BY NullOK DEF Init
<1>4. /\ 0 \in 0..MaxRows /\ 1 \in 1..MaxSessions /\ 0 \in 0..MaxUpdates
  BY DEF RecordAssumption
<1>5. ctl \in Controls /\ crossed \in BOOLEAN
  BY DEF Init, Controls
<1>6. own = 0 /\ session = 1 /\ sent = 0
  BY DEF Init
<1> QED BY <1>1, <1>2, <1>3, <1>4, <1>5, <1>6 DEF RestPart

LEMMA StepIInv == RecordAssumption /\ IInv /\ [Next]_vars => IInv'
<1> SUFFICES ASSUME RecordAssumption, IInv, [Next]_vars PROVE IInv'
  OBVIOUS
<1>1. CASE Start \/ StartOverEnd \/ Connect \/ Retire \/ End \/ GiveUp \/ Reload
  BY <1>1, StartStep, StartOverEndStep, ConnectStep, RetireStep, EndStep, GiveUpStep, ReloadStep
<1>2. ASSUME NEW u \in Updaters, NEW restorable \in BOOLEAN, NEW handle \in BOOLEAN,
             UpdateResumption(u, restorable, handle)
      PROVE  IInv'
  BY <1>2, UpdateStep DEF UpdateResumption
<1>3. ASSUME NEW u \in Updaters, InvalidateResumption(u)
      PROVE  IInv'
  <2>1. Update(u, FALSE, FALSE)
    BY <1>3 DEF InvalidateResumption
  <2> QED BY <2>1, UpdateStep, Zenon
<1>4. ASSUME NEW m \in requests, Serve(m)
      PROVE  IInv'
  BY <1>4, ServeStep
<1>5. ASSUME NEW a \in answers, Handle(a)
      PROVE  IInv'
  BY <1>5, OnCreatedStep, OnListedStep, OnListedSkippingStep, OnSkippedStep, OnRestoreFailedStep,
     OnUnawaitedStep, OnUpdatedStep, OnUpdateFailedStep, OnEndedStep
  DEF Handle
<1>6. CASE UNCHANGED vars
  BY <1>6, Parts, PartsPrimed
  DEF vars, RowPart, RequestPart, AnswerPart, RestPart, RecordOK
<1> QED BY <1>1, <1>2, <1>3, <1>4, <1>5, <1>6 DEF Next

LEMMA RecordInvariant == Spec => []IInv
<1>1. RecordAssumption
  BY RecordAssumption
<1> QED BY <1>1, InitIInv, StepIInv, PTL DEF Spec

\* The variables have their types and the bounds hold in every reachable state.
THEOREM RecordTyped == Spec => []TypeOK
<1>1. IInv => TypeOK
  BY DEF IInv
<1> QED BY <1>1, RecordInvariant, PTL

\* However requests, answers, failures and reloads interleave, no row, no cached
\* record and no answer on its way holds a handle without being restorable, or is
\* restorable and invalidated at once.
THEOREM RecordConsistent == Spec => []RowsConsistent
<1>1. IInv => RowsConsistent
  BY DEF IInv
<1> QED BY <1>1, RecordInvariant, PTL

---------------------------------------------------------------------------
(* One session at a time: the inductive invariant *)

\* The rows OneActiveRow counts.
Left == {i \in Rows : row[i].status = "active" /\ ~Stranded(row[i])}

\* Requests whose answer has not been handled.
Pending == requests \cup {a.to : a \in answers}

PendingOK == \A p \in Pending :
  /\ p.session <= session
  /\ p.by = "nobody" => p.session < session
  /\ p.by \in Updaters => p.op = "update" /\ p.then = "nothing"

\* The controller's calls for the present session.
Ours(p) == p.session = session /\ p.by = "controller"
OnlyOurs(p) == \A n \in requests : Ours(n) => n = p
Answered == {a \in answers : Ours(a.to)}

\* A record is cached exactly while there is a session to update or to end.
CacheFits ==
  /\ ctl \in {"off", "restoring", "skipping", "creating"} => cache.id = 0
  /\ ctl \in {"dialing", "up", "retiring"} => cache.id # 0 /\ own = cache.id
  /\ ctl = "ending" => cache.id # 0

\* What the controller awaits is what it is doing.
Fits(p) ==
  \/ ctl = "restoring" /\ p.op = "list"
  \/ ctl = "skipping" /\ p.op = "skip" /\ p.then = "create"
  \/ ctl = "creating" /\ p.op = "create"
  \/ /\ ctl = "retiring" /\ p.row = own
     /\ (p.op = "update" /\ p.then = "end") \/ (p.op = "end" /\ p.then = "create")
  \/ ctl = "ending" /\ p.op = "end" /\ p.then = "nothing"
CallsFit == \A p \in Pending : Ours(p) => Fits(p)

\* One call at a time, but for the rows to skip; each is answered once.
CalledOnce ==
  /\ ctl # "skipping" => \A p, q \in Pending : Ours(p) /\ Ours(q) => p = q
  /\ \A a \in Answered : a.to \notin requests
  /\ \A a, b \in Answered : a.to = b.to => a = b

\* An update beside the controller is for the cached record, or for one that is over.
Beside == \A p \in Pending : p.session = session /\ p.by \in Updaters =>
            p.row \in Rows /\ (p.row = cache.id \/ row[p.row].status = "ended")

RestorableActive == \A i \in Rows : row[i].restorable => row[i].status = "active"
LeftCached == cache.id # 0 => Left \subseteq {cache.id}
LeftOne == \A i, j \in Left : i = j
OwnActive == ctl \in {"dialing", "up"} => row[own].status = "active"
RowsKept == RestorableActive /\ LeftCached /\ LeftOne /\ OwnActive

\* What the answers that wait to be handled tell is still true.
AnswersOwn == \A a \in Answered : a.ok /\ a.to.op = "update" => a.record.id = a.to.row
ListTold == ctl = "restoring" => \A a \in Answered : a.ok =>
  /\ a.record.id = 0 => Left = a.skipped
  /\ a.record.id # 0 => /\ Left = {a.record.id} /\ a.skipped = {}
                        /\ a.record.copy.restorable /\ a.record.copy.handle
SkipsTold == ctl = "skipping" => \A i \in Left :
  \/ \E m \in requests : Ours(m) /\ m.row = i
  \/ \E a \in Answered : ~a.ok /\ a.to.row = i
CreateTold == ctl = "creating" =>
  /\ (\E m \in requests : Ours(m)) => Left = {}
  /\ \A a \in Answered : a.ok =>
       /\ a.record.id \in Rows /\ Left \subseteq {a.record.id}
       /\ row[a.record.id].status = "active"
RetireTold == ctl = "retiring" => \A a \in Answered :
  a.ok /\ a.to.op = "end" => row[own].status = "ended"
Told == AnswersOwn /\ ListTold /\ SkipsTold /\ CreateTold /\ RetireTold

\* Unless sessions crossed, the controller's calls, the cached record and the rows
\* agree.
OneSession == CacheFits /\ CallsFit /\ CalledOnce /\ Beside /\ RowsKept /\ Told
SInv == PendingOK /\ (~crossed => OneSession)
Kept == PendingOK' /\ (~crossed' => OneSession')

---------------------------------------------------------------------------
(* Calls, and what is pending *)

LEMMA PendingIs == \A p : p \in Pending <=> p \in requests \/ \E a \in answers : p = a.to
  BY DEF Pending
LEMMA PendingWillBe == \A p : p \in Pending' <=> p \in requests' \/ \E a \in answers' : p = a.to
  BY DEF Pending

LEMMA PendingTypes ==
  ASSUME IInv
  PROVE  /\ \A p \in Pending : p \in Requests /\ p.session \in Nat
         /\ session \in Nat
  BY PendingIs DEF IInv, TypeOK, Answers, Requests

LEMMA AskIs == ASSUME NEW op
  PROVE  LET m == Ask(op) IN
         /\ m.op = op /\ m.row = 0 /\ m.then = "nothing" /\ m.by = "controller"
         /\ m.session = session
  BY DEF Ask

LEMMA EndIs == ASSUME NEW i, NEW next
  PROVE  LET m == EndOf(i, next) IN
         /\ m.op = "end" /\ m.row = i /\ m.then = next /\ m.by = "controller"
         /\ m.session = session
  BY DEF EndOf, Ask

LEMMA EndOfAnotherIs == ASSUME NEW i, NEW next, NEW s
  PROVE  LET m == [EndOf(i, next) EXCEPT !.session = s] IN
         /\ m.op = "end" /\ m.row = i /\ m.then = next /\ m.by = "controller" /\ m.session = s
  BY DEF EndOf, Ask

\* The end that a session which is given up leaves to be made.
LEMMA LastEndIs ==
  LET m == [EndOf(cache.id, "nothing") EXCEPT !.session = session'] IN
  /\ m.op = "end" /\ m.row = cache.id /\ m.then = "nothing" /\ m.by = "controller"
  /\ m.session = session'
  BY DEF EndOf, Ask

LEMMA InvalidationIs == ASSUME NEW i, NEW next
  PROVE  LET m == InvalidationOf(i, next) IN
         /\ m.op = "update" /\ m.row = i /\ m.then = next /\ m.by = "controller"
         /\ m.session = session
  BY DEF InvalidationOf, Ask

\* The cached record changes when there was none, or when its row is over.
LEMMA BesideMoves ==
  ASSUME OneSession, session' = session, "controller" \notin Updaters,
         \A i \in Rows : row[i].status = "ended" => row'[i].status = "ended",
         \A p \in Pending' : p.by \in Updaters => p \in Pending,
         \/ cache'.id = cache.id \/ cache.id = 0 \/ row[cache.id].status = "ended"
  PROVE  Beside'
  BY DEF OneSession, Beside, Rows

\* The controller calls once, after nothing it awaited.
LEMMA CallBegins ==
  ASSUME OneSession, NEW m, Ours(m), session' = session, row' = row,
         requests' = requests \cup {m}, answers' \subseteq answers,
         \A n \in requests : ~Ours(n), \A b \in answers' : ~Ours(b.to),
         Fits(m)', "controller" \notin Updaters,
         \/ cache'.id = cache.id \/ cache.id = 0 \/ row[cache.id].status = "ended"
  PROVE  CallsFit' /\ CalledOnce' /\ Beside' /\ Answered' = {}
<1>1. \A p \in Pending' : p \in Pending \/ p = m BY PendingIs, PendingWillBe
<1>2. \A p : Ours(p)' <=> Ours(p) BY DEF Ours
<1>3. \A p \in Pending' : Ours(p) => p = m BY PendingWillBe
<1>4. Answered' = {} BY <1>2 DEF Answered
<1>5. CallsFit' BY <1>2, <1>3 DEF CallsFit
<1>6. CalledOnce' BY <1>2, <1>3, <1>4 DEF CalledOnce
<1>7. Beside' BY <1>1, BesideMoves DEF Ours
<1> QED BY <1>4, <1>5, <1>6, <1>7

\* A request that was pending goes on, with whom it is for or its continuation
\* forgotten, or it is a call of the controller's.
Follows(p, q) ==
  /\ p.session = q.session
  /\ p.by = "nobody" => q.by = "nobody" \/ session' = session + 1
  /\ p.by \in Updaters => q.by = p.by /\ p.op = q.op /\ p.then \in {q.then, "nothing"}
Called(p) == p.by = "controller" /\ p.session <= session'

PendingStep ==
  /\ session' \in {session, session + 1}
  /\ \A p \in Pending' : Called(p) \/ \E q \in Pending : Follows(p, q)

LEMMA PendingKept ==
  ASSUME RecordAssumption, IInv, PendingOK, PendingStep
  PROVE  PendingOK'
<1>1. session \in Nat /\ \A q \in Pending : q.session \in Nat BY PendingTypes
<1>2. "controller" # "nobody" /\ "controller" \notin Updaters BY DEF RecordAssumption
<1> SUFFICES ASSUME NEW p \in Pending'
             PROVE  /\ p.session <= session' /\ (p.by = "nobody" => p.session < session')
                    /\ p.by \in Updaters => p.op = "update" /\ p.then = "nothing"
  BY DEF PendingOK
<1>3. CASE Called(p) BY <1>2, <1>3 DEF Called
<1>4. ASSUME NEW q \in Pending, Follows(p, q)
      PROVE  /\ p.session <= session' /\ (p.by = "nobody" => p.session < session')
             /\ p.by \in Updaters => p.op = "update" /\ p.then = "nothing"
  BY <1>1, <1>4 DEF Follows, PendingOK, PendingStep
<1> QED BY <1>3, <1>4 DEF PendingStep

LEMMA PendingSent ==
  ASSUME session' \in {session, session + 1},
         \A n \in requests' : n \in Pending \/ Called(n),
         \A b \in answers' : b.to \in Pending
  PROVE  PendingStep
<1>1. \A p : Follows(p, p) BY DEF Follows
<1>2. \A p \in Pending' : Called(p) \/ p \in Pending BY PendingWillBe
<1> QED BY <1>1, <1>2 DEF PendingStep

LEMMA CreateSends ==
  ASSUME IInv, session' = session, Create
  PROVE  \A n \in requests' : n \in requests \/ Called(n)
  BY PendingTypes, AskIs DEF Create, Send, Called

LEMMA RestoredSends ==
  ASSUME IInv, session' = session, NEW record, Restored(record)
  PROVE  \A n \in requests' : n \in requests \/ Called(n)
  BY PendingTypes, InvalidationIs DEF Restored, Send, Called

LEMMA FinishSends ==
  ASSUME IInv, NEW ms, Finish(ms)
  PROVE  /\ session' \in {session, session + 1}
         /\ \A n \in requests' : n \in ms \/ Called(n)
  BY PendingTypes, EndIs DEF Finish, NextSession, Called

LEMMA FailsSends ==
  ASSUME IInv, NEW ms, Fails(ms)
  PROVE  /\ session' \in {session, session + 1}
         /\ \A n \in requests' : n \in ms \/ Called(n)
  BY FinishSends DEF Fails

LEMMA PendingInIt ==
  (\A m \in requests : m \in Pending) /\ (\A a \in answers : a.to \in Pending)
  BY DEF Pending

LEMMA ControllerPending ==
  ASSUME RecordAssumption, IInv,
         Start \/ StartOverEnd \/ Connect \/ Retire \/ End \/ GiveUp
  PROVE  PendingStep
<1>1. answers' = answers
  BY DEF Start, StartOverEnd, Connect, Retire, End, GiveUp, network
<1>2. session \in Nat BY PendingTypes
<1>3. CASE Start
  <2>1. session' = session BY <1>3 DEF Start
  <2>2. CASE cache.id # 0 BY <1>1, <1>3, <2>1, <2>2, RestoredSends, PendingInIt, PendingSent DEF Start
  <2>3. CASE cache.id = 0
    BY <1>1, <1>2, <1>3, <2>1, <2>3, AskIs, PendingInIt, PendingSent DEF Start, Send, Called
  <2> QED BY <2>2, <2>3
<1>4. CASE StartOverEnd \/ Connect
  BY <1>1, <1>4, PendingInIt, PendingSent DEF StartOverEnd, Connect, network, NextSession
<1>5. CASE Retire
  <2>1. session' = session BY <1>5 DEF Retire
  <2>2. CASE cache.id = 0 BY <1>1, <1>5, <2>1, <2>2, CreateSends, PendingInIt, PendingSent DEF Retire
  <2>3. CASE cache.id # 0
    BY <1>1, <1>2, <1>5, <2>1, <2>3, InvalidationIs, PendingInIt, PendingSent DEF Retire, Send, Called
  <2> QED BY <2>2, <2>3
<1>6. CASE End BY <1>1, <1>6, FinishSends, PendingInIt, PendingSent DEF End
<1>7. CASE GiveUp
  <2>1. session' = session + 1 BY <1>7 DEF GiveUp, NextSession
  <2>2. \A n \in requests' : n \in requests \/ Called(n)
    <3> DEFINE m == [EndOf(cache.id, "nothing") EXCEPT !.session = session']
    <3>1. m.by = "controller" /\ m.session = session' BY LastEndIs
    <3>2. requests' = requests \/ requests' = requests \cup {m} BY <1>7 DEF GiveUp, Send
    <3>3. session' <= session' BY <1>2, <2>1
    <3> HIDE DEF m
    <3> QED BY <3>1, <3>2, <3>3 DEF Called
  <2> QED BY <1>1, <2>1, <2>2, PendingInIt, PendingSent
<1> QED BY <1>3, <1>4, <1>5, <1>6, <1>7

LEMMA ReloadPending ==
  ASSUME IInv, Reload
  PROVE  PendingStep /\ \A p \in Pending' : \E q \in Pending : Follows(p, q)
<1>1. session' = session + 1 /\ answers' = {} BY DEF Reload, NextSession
<1>2. requests' = {[m EXCEPT !.by = "nobody"] : m \in requests} BY DEF Reload
<1>3. ASSUME NEW m \in requests
      PROVE  Follows([m EXCEPT !.by = "nobody"], m)
  <2>1. m \in Requests /\ "nobody" \notin Updaters BY RecordAssumption DEF IInv, TypeOK, RecordAssumption
  <2>2. /\ [m EXCEPT !.by = "nobody"].session = m.session
        /\ [m EXCEPT !.by = "nobody"].by = "nobody"
    BY <2>1 DEF Requests
  <2> QED BY <1>1, <2>1, <2>2 DEF Follows
<1>4. \A p \in Pending' : \E q \in Pending : Follows(p, q)
  BY <1>1, <1>2, <1>3, PendingInIt, PendingWillBe
<1> QED BY <1>1, <1>4 DEF PendingStep

LEMMA UpdatePending ==
  ASSUME RecordAssumption, IInv, PendingOK, NEW u \in Updaters, NEW restorable, NEW handle,
         Update(u, restorable, handle)
  PROVE  PendingOK'
<1> DEFINE m == [Ask("update") EXCEPT !.row = cache.id, !.by = u,
                                      !.restorable = restorable, !.handle = handle]
<1>1. m.op = "update" /\ m.row = cache.id /\ m.then = "nothing" /\ m.by = u /\ m.session = session
  BY DEF Ask
<1>2. u # "nobody" /\ u # "controller" BY DEF RecordAssumption
<1>3. session' = session /\ requests' = requests \cup {m} /\ answers' = answers
  BY DEF Update, Send
<1> HIDE DEF m
<1>4. \A p \in Pending' : p \in Pending \/ p = m BY <1>3, PendingInIt, PendingWillBe
<1>5. session \in Nat BY PendingTypes
<1> QED BY <1>1, <1>2, <1>3, <1>4, <1>5 DEF PendingOK
\* When a session is over nothing is pending for the next one.
LEMMA NonePending ==
  ASSUME IInv, PendingOK, session' = session + 1, NEW p, NEW q \in Pending, Follows(p, q)
  PROVE  p.session # session'
<1>1. session \in Nat /\ q.session \in Nat BY PendingTypes
<1> QED BY <1>1 DEF Follows, PendingOK

LEMMA Untold ==
  ASSUME \A a \in answers' : ~Ours(a.to)'
  PROVE  /\ Answered' = {} /\ AnswersOwn' /\ ListTold' /\ RetireTold'
         /\ ctl' # "skipping" => SkipsTold'
         /\ ctl' # "creating" => CreateTold'
  BY DEF Answered, AnswersOwn, ListTold, RetireTold, SkipsTold, CreateTold

\* No session, and nothing pending.
LEMMA NowOff ==
  ASSUME OneSession, row' = row, ctl' = "off", cache'.id = 0,
         \A p \in Pending' : p.session # session'
  PROVE  OneSession'
<1>1. \A p \in Pending' : ~Ours(p)' BY DEF Ours
<1>2. /\ Told' /\ Answered' = {}
  <2>1. \A a \in answers' : ~Ours(a.to)' BY <1>1, PendingWillBe
  <2> QED BY <1>1, <2>1, Untold DEF Told
<1>3. CacheFits' BY DEF CacheFits
<1>4. CallsFit' BY <1>1 DEF CallsFit
<1>5. CalledOnce' BY <1>1, <1>2 DEF CalledOnce
<1>6. Beside' BY DEF Beside
<1>7. RowsKept'
  BY DEF OneSession, RowsKept, RestorableActive, LeftCached, LeftOne, OwnActive, Left
<1> QED BY <1>2, <1>3, <1>4, <1>5, <1>6, <1>7 DEF OneSession

LEMMA SessionEnds ==
  ASSUME RecordAssumption, IInv, PendingOK, ~crossed => OneSession, session' = session + 1,
         row' = row, ctl' = "off", ~crossed' => ~crossed /\ cache'.id = 0,
         PendingStep, \A p \in Pending' : \E q \in Pending : Follows(p, q)
  PROVE  Kept
<1>1. PendingOK' BY PendingKept
<1>2. \A p \in Pending' : p.session # session' BY NonePending
<1> QED BY <1>1, <1>2, NowOff DEF Kept

\* Where the controller awaits nothing.
LEMMA NoCall ==
  ASSUME OneSession, ctl \in {"off", "dialing", "up"}
  PROVE  \A p \in Pending : ~Ours(p)
  BY DEF OneSession, CallsFit, Fits

LEMMA RowsSame ==
  ASSUME OneSession, row' = row
  PROVE  RestorableActive' /\ LeftOne' /\ Left' = Left
  BY DEF OneSession, RowsKept, RestorableActive, LeftOne, Left
---------------------------------------------------------------------------

---------------------------------------------------------------------------
(* One session: the controller's steps *)

\* A new call of the controller, with the rows as they are.
LEMMA CallKeeps ==
  ASSUME OneSession, NEW m, Ours(m), session' = session, row' = row,
         requests' = requests \cup {m}, answers' \subseteq answers,
         \A n \in requests : ~Ours(n), \A b \in answers' : ~Ours(b.to),
         Fits(m)', CacheFits', "controller" \notin Updaters,
         ctl' \in {"restoring", "creating", "retiring", "ending"},
         \/ cache'.id = cache.id \/ cache.id = 0 \/ row[cache.id].status = "ended",
         LeftCached', ctl' = "creating" => Left = {}
  PROVE  OneSession'
<1>1. \A p : Ours(p)' <=> Ours(p) BY DEF Ours
<1>2. \A p \in Pending' : p.by \in Updaters => p \in Pending
  BY PendingIs, PendingWillBe DEF Ours
<1>3. CallsFit' /\ CalledOnce' /\ Beside' /\ Answered' = {} BY <1>2, CallBegins
<1>4. Left' = Left /\ RowsKept' BY RowsSame DEF RowsKept, OwnActive
<1>5. Told'
  BY <1>1, <1>3, <1>4 DEF Told, AnswersOwn, ListTold, SkipsTold, CreateTold, RetireTold, Answered
<1> QED BY <1>3, <1>4, <1>5 DEF OneSession

\* The controller awaits nothing any more.
LEMMA QuietKeeps ==
  ASSUME OneSession, session' = session, row' = row,
         requests' \subseteq requests, answers' \subseteq answers,
         \A n \in requests' : ~Ours(n), \A b \in answers' : ~Ours(b.to),
         CacheFits', "controller" \notin Updaters, ctl' \in {"dialing", "up"},
         cache'.id = cache.id \/ cache.id = 0, LeftCached', OwnActive'
  PROVE  OneSession'
<1>1. \A p : Ours(p)' <=> Ours(p) BY DEF Ours
<1>2. \A p \in Pending' : ~Ours(p) /\ p \in Pending BY PendingIs, PendingWillBe
<1>3. Told' /\ Answered' = {} BY <1>1, Untold DEF Told
<1>4. CallsFit' /\ CalledOnce' BY <1>1, <1>2, <1>3 DEF CallsFit, CalledOnce
<1>5. Beside' BY <1>2, BesideMoves
<1>6. RowsKept' BY RowsSame DEF RowsKept
<1> QED BY <1>3, <1>4, <1>5, <1>6 DEF OneSession

LEMMA ControllerOne ==
  ASSUME RecordAssumption, IInv, SInv, Start \/ StartOverEnd \/ Connect \/ Retire \/ End
  PROVE  Kept
<1>1. PendingOK' BY ControllerPending, PendingKept DEF SInv
<1> SUFFICES ASSUME ~crossed' PROVE OneSession'
  BY <1>1 DEF Kept
<1>2. ~StartOverEnd BY DEF StartOverEnd
<1>3. OneSession /\ UNCHANGED <<row, session, answers>> /\ cache' = cache
  <2>1. crossed' = crossed BY <1>2 DEF Start, Connect, Retire, End
  <2>2. OneSession BY <2>1 DEF SInv
  <2>3. row' = row /\ answers' = answers BY <1>2 DEF Start, Connect, Retire, End, backend, network
  <2>4. cache' = cache BY <1>2 DEF Start, Connect, Retire, End
  <2>5. CASE Start \/ Connect \/ Retire
    <3>1. session' = session BY <2>5 DEF Start, Connect, Retire
    <3> QED BY <2>2, <2>3, <2>4, <3>1
  <2>6. CASE End
    <3>1. cache.id # 0 BY <2>2, <2>6 DEF End, OneSession, CacheFits
    <3>2. session' = session BY <2>6, <3>1 DEF End, Finish
    <3> QED BY <2>2, <2>3, <2>4, <3>2
  <2> QED BY <1>2, <2>5, <2>6
<1>4. "controller" \notin Updaters BY DEF RecordAssumption
<1>5. Left' = Left /\ LeftCached'
  BY <1>3, RowsSame DEF OneSession, RowsKept, LeftCached
<1>6. ctl \in {"off", "dialing", "up"} => (\A n \in requests : ~Ours(n)) /\ \A b \in answers : ~Ours(b.to)
  BY <1>3, NoCall, PendingInIt
<1>7. CASE Start
  <2>1. cache.id = 0 /\ ctl = "off" BY <1>3, <1>7 DEF Start, OneSession, CacheFits
  <2>2. PICK m : m = Ask("list") OBVIOUS
  <2>3. ctl' = "restoring" /\ requests' = requests \cup {m}
    BY <1>7, <2>1, <2>2 DEF Start, Send
  <2>4. Ours(m) /\ m.op = "list" BY <2>2, AskIs DEF Ours
  <2>5. CacheFits' BY <1>3, <2>1, <2>3 DEF CacheFits
  <2>6. Fits(m)' BY <2>3, <2>4 DEF Fits
  <2> QED BY <1>3, <1>4, <1>5, <1>6, <2>1, <2>3, <2>4, <2>5, <2>6, CallKeeps
<1>8. CASE Connect
  <2>1. ctl = "dialing" /\ ctl' = "up" /\ own' = own /\ requests' = requests
    BY <1>8 DEF Connect, network
  <2>2. CacheFits' /\ OwnActive'
    BY <1>3, <2>1 DEF OneSession, CacheFits, RowsKept, OwnActive
  <2> QED BY <1>3, <1>4, <1>5, <1>6, <2>1, <2>2, QuietKeeps
<1>9. CASE Retire
  <2>1. cache.id # 0 /\ own = cache.id /\ ctl \in {"dialing", "up"}
    BY <1>3, <1>9 DEF Retire, OneSession, CacheFits
  <2>2. PICK m : m = InvalidationOf(cache.id, "end") OBVIOUS
  <2>3. ctl' = "retiring" /\ own' = own /\ requests' = requests \cup {m}
    BY <1>9, <2>1, <2>2 DEF Retire, Send
  <2>4. Ours(m) /\ m.op = "update" /\ m.then = "end" /\ m.row = cache.id
    BY <2>2, InvalidationIs DEF Ours
  <2>5. CacheFits' BY <1>3, <2>1, <2>3 DEF CacheFits
  <2>6. Fits(m)' BY <2>1, <2>3, <2>4 DEF Fits
  <2> QED BY <1>3, <1>4, <1>5, <1>6, <2>1, <2>3, <2>4, <2>5, <2>6, CallKeeps
<1>10. CASE End
  <2>1. cache.id # 0 /\ ctl = "up"
    BY <1>3, <1>10 DEF End, OneSession, CacheFits
  <2>2. PICK m : m = EndOf(cache.id, "nothing") OBVIOUS
  <2>3. ctl' = "ending" /\ own' = own /\ requests' = requests \cup {m}
    BY <1>10, <2>1, <2>2 DEF End, Finish
  <2>4. Ours(m) /\ m.op = "end" /\ m.then = "nothing"
    BY <2>2, EndIs DEF Ours
  <2>5. CacheFits' BY <1>3, <2>1, <2>3 DEF CacheFits
  <2>6. Fits(m)' BY <2>3, <2>4 DEF Fits
  <2> QED BY <1>3, <1>4, <1>5, <1>6, <2>1, <2>3, <2>4, <2>5, <2>6, CallKeeps
<1> QED BY <1>2, <1>7, <1>8, <1>9, <1>10

\* A session that is given up leaves its record to be ended, by a call of the next one.
LEMMA GiveUpOne ==
  ASSUME RecordAssumption, IInv, SInv, GiveUp
  PROVE  Kept
<1>1. PendingOK' BY ControllerPending, PendingKept DEF SInv
<1> SUFFICES ASSUME ~crossed' PROVE OneSession'
  BY <1>1 DEF Kept
<1>2. /\ OneSession /\ PendingOK /\ UNCHANGED <<row, answers>> /\ cache' = cache
      /\ session' = session + 1
  BY DEF SInv, GiveUp, backend, NextSession
<1>3. \A p \in Pending : p.session # session'
  <2>1. \A p : Follows(p, p) BY DEF Follows
  <2> QED BY <1>2, <2>1, NonePending
<1>4. CASE cache.id = 0
  <2>1. ctl' = "off" /\ requests' = requests BY <1>4 DEF GiveUp
  <2>2. Pending' = Pending BY <1>2, <2>1 DEF Pending
  <2> QED BY <1>2, <1>3, <1>4, <2>1, <2>2, NowOff
<1>5. CASE cache.id # 0
  <2>1. PICK m : m = [EndOf(cache.id, "nothing") EXCEPT !.session = session'] OBVIOUS
  <2>2. ctl' = "ending" /\ requests' = requests \cup {m} BY <1>5, <2>1 DEF GiveUp, Send
  <2>3. m.op = "end" /\ m.then = "nothing" /\ m.by = "controller" BY <2>1, LastEndIs
  <2>4. \A p \in Pending' : Ours(p)' => p = m
    BY <1>2, <1>3, <2>2, PendingInIt, PendingWillBe DEF Ours
  <2>5. \A a \in answers' : ~Ours(a.to)'
    BY <1>2, <1>3, PendingInIt DEF Ours
  <2>6. Told' /\ Answered' = {} BY <2>2, <2>5, Untold DEF Told
  <2>7. CacheFits' /\ CallsFit'
    BY <1>2, <1>5, <2>2, <2>3, <2>4 DEF CacheFits, CallsFit, Fits
  <2>8. CalledOnce' BY <2>4, <2>6 DEF CalledOnce
  <2>9. Beside'
    <3>1. \A p \in Pending' : p.session = session' => p = m
      BY <1>2, <1>3, <2>2, PendingInIt, PendingWillBe
    <3> QED BY <2>3, <3>1 DEF Beside, RecordAssumption
  <2>10. RowsKept'
    BY <1>2, <2>2, RowsSame DEF RowsKept, OneSession, LeftCached, OwnActive
  <2> QED BY <2>6, <2>7, <2>8, <2>9, <2>10 DEF OneSession
<1> QED BY <1>4, <1>5

LEMMA ReloadOne ==
  ASSUME RecordAssumption, IInv, SInv, Reload
  PROVE  Kept
<1>1. /\ row' = row /\ crossed' = crossed /\ ctl' = "off" /\ session' = session + 1
      /\ cache'.id = 0
  BY DEF Reload, backend, NextSession, Null
<1> QED BY <1>1, ReloadPending, SessionEnds DEF SInv

LEMMA UpdateOne ==
  ASSUME RecordAssumption, IInv, SInv, NEW u \in Updaters, NEW restorable, NEW handle,
         Update(u, restorable, handle)
  PROVE  Kept
<1>1. PendingOK' BY UpdatePending DEF SInv
<1> SUFFICES ASSUME ~crossed' PROVE OneSession'
  BY <1>1 DEF Kept
<1>2. PICK m : m = [Ask("update") EXCEPT !.row = cache.id, !.by = u,
                                         !.restorable = restorable, !.handle = handle]
  OBVIOUS
<1>3. m.by = u /\ m.row = cache.id BY <1>2 DEF Ask
<1>4. /\ requests' = requests \cup {m}
      /\ UNCHANGED <<row, cache, ctl, own, session, answers, crossed>>
  BY <1>2 DEF Update, Send, backend
<1>5. OneSession /\ cache.id # 0 BY <1>4 DEF SInv, Update
<1>6. ~Ours(m) BY <1>3 DEF Ours, RecordAssumption
<1>7. \A p : Ours(p)' <=> Ours(p) BY <1>4 DEF Ours
<1>8. \A p \in Pending' : p \in Pending \/ p = m BY <1>4, PendingIs, PendingWillBe
<1>9. Answered' = Answered BY <1>4, <1>7 DEF Answered
<1>10. CacheFits' BY <1>4, <1>5 DEF OneSession, CacheFits
<1>11. CallsFit' BY <1>4, <1>5, <1>6, <1>7, <1>8 DEF OneSession, CallsFit, Fits
<1>12. CalledOnce'
  <2>1. ctl' # "skipping" => \A p, q \in Pending' : Ours(p)' /\ Ours(q)' => p = q
    BY <1>4, <1>5, <1>6, <1>7, <1>8 DEF OneSession, CalledOnce
  <2>2. \A a \in Answered : a.to # m BY <1>6 DEF Answered
  <2> QED BY <1>4, <1>5, <1>9, <2>1, <2>2 DEF OneSession, CalledOnce
<1>13. Beside'
  <2>1. cache.id \in Rows BY <1>5 DEF IInv, TypeOK, Records, Rows
  <2> QED BY <1>3, <1>4, <1>5, <1>8, <2>1 DEF OneSession, Beside
<1>14. RowsKept' /\ Left' = Left
  BY <1>4, <1>5, RowsSame DEF OneSession, RowsKept, LeftCached, OwnActive
<1>15. Told'
  <2>1. \A n \in requests' : Ours(n)' <=> Ours(n) /\ n \in requests BY <1>4, <1>6, <1>7
  <2> QED BY <1>4, <1>5, <1>9, <1>14, <2>1
          DEF OneSession, Told, AnswersOwn, ListTold, SkipsTold, CreateTold, RetireTold
<1> QED BY <1>10, <1>11, <1>12, <1>13, <1>14, <1>15 DEF OneSession
---------------------------------------------------------------------------
(* One session: the backend's steps *)

\* A request that is not late is the controller's or an update beside it.
LEMMA Prompt ==
  ASSUME RecordAssumption, IInv, PendingOK, NEW m \in requests, ~Past(m)
  PROVE  /\ m.session = session /\ m.by # "nobody"
         /\ Ours(m) \/ (m.by \in Updaters /\ m.op = "update" /\ m.then = "nothing")
<1>1. m \in Pending BY PendingInIt
<1>2. m \in Requests /\ m.session \in Nat /\ session \in Nat BY <1>1, PendingTypes
<1>3. m.session = session /\ m.by # "nobody" BY <1>1, <1>2 DEF Past, PendingOK
<1>4. m.by = "controller" \/ m.by \in Updaters BY <1>2, <1>3 DEF Requests
<1> QED BY <1>1, <1>3, <1>4 DEF PendingOK, Ours

\* Request m is answered by x, unless nobody waits for it.
Answers1(m, x) ==
  /\ x.to = m /\ requests' = requests \ {m}
  /\ IF m.by = "nobody" THEN answers' = answers ELSE answers' = answers \cup {x}

LEMMA ReplyIs ==
  ASSUME NEW m, NEW x, x.to = m, requests' = requests \ {m},
         answers' = IF m.by = "nobody" THEN answers ELSE answers \cup {x}
  PROVE  Answers1(m, x)
  BY DEF Answers1

LEMMA AnswerIs ==
  ASSUME NEW m, NEW ok \in BOOLEAN, NEW record, NEW skipped, Answer(m, ok, record, skipped)
  PROVE  /\ \E x : Answers1(m, x) /\ x.ok = ok /\ (ok => x.record = record /\ x.skipped = skipped)
         /\ UNCHANGED <<cache, ctl, own, session>>
         /\ ~crossed' => ~crossed /\ ~Past(m) /\ (m.op = "update" => row[m.row].status = "active")
<1>1. /\ UNCHANGED <<cache, ctl, own, session>>
      /\ ~crossed' => ~crossed /\ ~Past(m) /\ (m.op = "update" => row[m.row].status = "active")
  BY DEF Answer, renderer, Late
<1>2. CASE ok
  <2>1. PICK x : x = [to |-> m, ok |-> TRUE, record |-> record, skipped |-> skipped] OBVIOUS
  <2>2. x.to = m /\ x.ok = ok /\ x.record = record /\ x.skipped = skipped BY <1>2, <2>1
  <2>3. /\ requests' = requests \ {m}
        /\ answers' = IF m.by = "nobody" THEN answers ELSE answers \cup {x}
    BY <1>2, <2>1 DEF Answer, Reply
  <2> QED BY <1>1, <2>2, <2>3, ReplyIs
<1>3. CASE ~ok
  <2>1. PICK x : x = [to |-> m, ok |-> FALSE, record |-> Null, skipped |-> {}] OBVIOUS
  <2>2. x.to = m /\ x.ok = ok BY <1>3, <2>1
  <2>3. /\ requests' = requests \ {m}
        /\ answers' = IF m.by = "nobody" THEN answers ELSE answers \cup {x}
    BY <1>3, <2>1 DEF Answer, Reply
  <2> QED BY <1>1, <1>3, <2>2, <2>3, ReplyIs
<1> QED BY <1>2, <1>3

LEMMA ServedPending ==
  ASSUME NEW m \in requests, NEW x, Answers1(m, x), session' = session
  PROVE  PendingStep
<1>1. \A n \in requests' : n \in Pending BY PendingInIt DEF Answers1
<1>2. \A b \in answers' : b.to \in Pending BY PendingInIt DEF Answers1
<1> QED BY <1>1, <1>2, PendingSent

\* Serving a request leaves what is awaited as it is.
LEMMA ServedCalls ==
  ASSUME RecordAssumption, OneSession, NEW m \in requests, NEW x, Answers1(m, x),
         UNCHANGED <<cache, ctl, own, session>>,
         \A i \in Rows : row[i].status = "ended" => row'[i].status = "ended"
  PROVE  /\ CacheFits' /\ CallsFit' /\ CalledOnce' /\ Beside'
         /\ Answered' \subseteq Answered \cup {x}
         /\ Ours(m) => Answered' = Answered \cup {x}
         /\ \A p : Ours(p)' <=> Ours(p)
<1>1. \A p : Ours(p)' <=> Ours(p) BY DEF Ours
<1>2. \A p \in Pending' : p \in Pending BY PendingIs, PendingWillBe DEF Answers1
<1>3. Answered' \subseteq Answered \cup {x} BY <1>1 DEF Answered, Answers1
<1>4. ASSUME Ours(m) PROVE Answered' = Answered \cup {x}
  BY <1>1, <1>4 DEF Answered, Answers1, Ours
<1>5. CacheFits' BY DEF CacheFits, OneSession
<1>6. CallsFit' BY <1>1, <1>2 DEF CallsFit, OneSession, Fits
<1>7. CalledOnce'
  <2>1. ctl' # "skipping" => \A p, q \in Pending' : Ours(p)' /\ Ours(q)' => p = q
    BY <1>1, <1>2 DEF OneSession, CalledOnce
  <2>2. \A a \in Answered' : a.to \notin requests'
    BY <1>3 DEF OneSession, CalledOnce, Answers1
  <2>3. \A a, b \in Answered' : a.to = b.to => a = b
    BY <1>3 DEF OneSession, CalledOnce, Answers1
  <2> QED BY <2>1, <2>2, <2>3 DEF CalledOnce
<1>8. Beside' BY <1>2, BesideMoves DEF RecordAssumption
<1> QED BY <1>1, <1>3, <1>4, <1>5, <1>6, <1>7, <1>8

LEMMA RefuseOne ==
  ASSUME RecordAssumption, IInv, SInv, NEW m \in requests, Refuse(m)
  PROVE  Kept
<1>1. UNCHANGED <<row, cache, ctl, own, session, crossed>> BY DEF Refuse, backend, renderer
<1>2. PICK x : Answers1(m, x) /\ x.ok = FALSE
  <2>1. PICK x : x = [to |-> m, ok |-> FALSE, record |-> Null, skipped |-> {}] OBVIOUS
  <2>2. x.to = m /\ x.ok = FALSE BY <2>1
  <2>3. /\ requests' = requests \ {m}
        /\ answers' = IF m.by = "nobody" THEN answers ELSE answers \cup {x}
    BY <2>1 DEF Refuse, Reply
  <2> QED BY <2>2, <2>3, ReplyIs
<1>3. PendingOK' BY <1>1, <1>2, ServedPending, PendingKept DEF SInv
<1> SUFFICES ASSUME ~crossed' PROVE OneSession'
  BY <1>3 DEF Kept
<1>4. OneSession BY <1>1 DEF SInv
<1>5. /\ CacheFits' /\ CallsFit' /\ CalledOnce' /\ Beside'
      /\ Answered' \subseteq Answered \cup {x} /\ (Ours(m) => Answered' = Answered \cup {x})
      /\ \A p : Ours(p)' <=> Ours(p)
  BY <1>1, <1>2, <1>4, ServedCalls
<1>6. RowsKept' /\ Left' = Left
  BY <1>1, <1>4, RowsSame DEF OneSession, RowsKept, LeftCached, OwnActive
<1>7. Told BY <1>4 DEF OneSession
<1>8. requests' = requests \ {m} /\ x.to = m BY <1>2 DEF Answers1
<1>9. AnswersOwn' /\ RetireTold'
  BY <1>1, <1>2, <1>5, <1>7 DEF Told, AnswersOwn, RetireTold
<1>10. ListTold' BY <1>1, <1>2, <1>5, <1>6, <1>7 DEF Told, ListTold
<1>11. CreateTold' BY <1>1, <1>2, <1>5, <1>6, <1>7, <1>8 DEF Told, CreateTold
<1>12. SkipsTold'
  <2> SUFFICES ASSUME ctl = "skipping", NEW i \in Left
               PROVE  \/ \E n \in requests' : Ours(n)' /\ n.row = i
                      \/ \E a \in Answered' : ~a.ok /\ a.to.row = i
    BY <1>1, <1>6 DEF SkipsTold
  <2>1. CASE \E n \in requests : Ours(n) /\ n.row = i
    <3>1. PICK n \in requests : Ours(n) /\ n.row = i BY <2>1
    <3>2. CASE n = m BY <1>2, <1>5, <1>8, <3>1, <3>2
    <3>3. CASE n # m BY <1>5, <1>8, <3>1, <3>3
    <3> QED BY <3>2, <3>3
  <2>2. CASE \E a \in Answered : ~a.ok /\ a.to.row = i
    <3>1. PICK a \in Answered : ~a.ok /\ a.to.row = i BY <2>2
    <3>2. a \in Answered' BY <1>2, <1>5, <3>1 DEF Answered, Answers1
    <3> QED BY <3>1, <3>2
  <2> QED BY <1>7, <2>1, <2>2 DEF Told, SkipsTold
<1> QED BY <1>5, <1>6, <1>9, <1>10, <1>11, <1>12 DEF OneSession, Told

\* What a row that changes does to the rows that are left.
LEMMA RowChanges ==
  ASSUME IInv, OneSession, NEW i \in Rows, NEW r \in RowStates, row' = [row EXCEPT ![i] = r],
         r.restorable => r.status = "active"
  PROVE  /\ RestorableActive'
         /\ Left' \subseteq Left \cup {i}
         /\ r.status # "active" => Left' = Left \ {i}
         /\ \A j \in Rows \ {i} : row'[j] = row[j]
         /\ row'[i] = r
<1>1. row \in [Rows -> RowStates] BY DEF IInv, TypeOK
<1>2. row'[i] = r /\ \A j \in Rows \ {i} : row'[j] = row[j] BY <1>1
<1>3. RestorableActive' BY <1>2 DEF OneSession, RowsKept, RestorableActive
<1>4. Left' \subseteq Left \cup {i} BY <1>2 DEF Left
<1>5. ASSUME r.status # "active" PROVE Left' = Left \ {i} BY <1>2, <1>5 DEF Left
<1> QED BY <1>2, <1>3, <1>4, <1>5

LEMMA ServeCreateOne ==
  ASSUME RecordAssumption, IInv, SInv, NEW m \in requests, NEW ok \in BOOLEAN, ServeCreate(m, ok)
  PROVE  Kept
<1>1. PICK i \in Rows : /\ ~Exists(i) /\ row' = [row EXCEPT ![i] = Created]
                        /\ Answer(m, ok, [id |-> i, copy |-> Created], {})
  BY DEF ServeCreate
<1>2. PICK r : r = [id |-> i, copy |-> Created] OBVIOUS
<1>3. Answer(m, ok, r, {}) BY <1>1, <1>2
<1>4. PICK x : Answers1(m, x) /\ x.ok = ok /\ (ok => x.record = r /\ x.skipped = {})
  BY <1>3, AnswerIs
<1>5. /\ UNCHANGED <<cache, ctl, own, session>>
      /\ ~crossed' => ~crossed /\ ~Past(m)
  BY <1>3, AnswerIs
<1>6. PendingOK' BY <1>4, <1>5, ServedPending, PendingKept DEF SInv
<1> SUFFICES ASSUME ~crossed' PROVE OneSession'
  BY <1>6 DEF Kept
<1>7. OneSession /\ PendingOK /\ ~Past(m) BY <1>5 DEF SInv
<1>8. Ours(m) /\ m.op = "create" BY <1>7, Prompt DEF ServeCreate
<1>9. ctl = "creating" /\ cache.id = 0 BY <1>7, <1>8, PendingInIt DEF OneSession, CallsFit, Fits, CacheFits
<1>10. Created \in RowStates /\ Created.status = "active" /\ ~Created.restorable
  BY DEF Created, RowStates
<1>11. /\ RestorableActive' /\ Left' \subseteq Left \cup {i} /\ row'[i] = Created
       /\ \A j \in Rows \ {i} : row'[j] = row[j]
  BY <1>1, <1>7, <1>10, RowChanges
<1>12. \A j \in Rows : row[j].status = "ended" => row'[j].status = "ended"
  BY <1>1, <1>11 DEF Exists, Created
<1>13. /\ CacheFits' /\ CallsFit' /\ CalledOnce' /\ Beside'
       /\ Answered' = Answered \cup {x} /\ \A p : Ours(p)' <=> Ours(p)
  BY <1>4, <1>5, <1>7, <1>8, <1>12, ServedCalls
<1>14. \A p \in Pending : Ours(p) => p = m
  BY <1>7, <1>8, <1>9, PendingInIt DEF OneSession, CalledOnce
<1>15. Answered = {}
  BY <1>7, <1>14, PendingInIt DEF OneSession, CalledOnce, Answered
<1>16. \A n \in requests' : ~Ours(n)' BY <1>4, <1>13, <1>14, PendingInIt DEF Answers1
<1>17. Left = {} BY <1>7, <1>8, <1>9 DEF OneSession, Told, CreateTold
<1>18. RowsKept'
  BY <1>5, <1>9, <1>11, <1>17 DEF RowsKept, LeftCached, LeftOne, OwnActive
<1>19. CreateTold'
  <2>1. ok => x.record.id = i BY <1>2, <1>4
  <2> QED BY <1>4, <1>10, <1>11, <1>13, <1>15, <1>16, <1>17, <2>1 DEF CreateTold
<1>20. AnswersOwn' /\ ListTold' /\ SkipsTold' /\ RetireTold'
  <2>1. x.to.op = "create" BY <1>4, <1>8 DEF Answers1
  <2> QED BY <1>5, <1>9, <1>13, <1>15, <2>1 DEF AnswersOwn, ListTold, SkipsTold, RetireTold
<1> QED BY <1>13, <1>18, <1>19, <1>20 DEF OneSession, Told

LEMMA ServeListOne ==
  ASSUME RecordAssumption, IInv, SInv, NEW m \in requests, NEW ok \in BOOLEAN, ServeList(m, ok)
  PROVE  Kept
<1>1. PICK r, s : /\ Answer(m, ok, r, s)
                  /\ \/ Candidates = {} /\ r = Null /\ s = Skipped
                     \/ \E i \in Rows : IsNewest(i) /\ r = [id |-> i, copy |-> row[i]] /\ s = {}
  <2>1. CASE Candidates = {} /\ Answer(m, ok, Null, Skipped)
    <3>1. PICK r, s : r = Null /\ s = Skipped OBVIOUS
    <3>2. Answer(m, ok, r, s) BY <2>1, <3>1
    <3> QED BY <2>1, <3>1, <3>2
  <2>2. ASSUME NEW i \in Rows, IsNewest(i), Answer(m, ok, [id |-> i, copy |-> row[i]], {})
        PROVE  \E r, s : /\ Answer(m, ok, r, s)
                         /\ \E j \in Rows : IsNewest(j) /\ r = [id |-> j, copy |-> row[j]] /\ s = {}
    <3>1. PICK r : r = [id |-> i, copy |-> row[i]] OBVIOUS
    <3>2. Answer(m, ok, r, {}) BY <2>2, <3>1
    <3> QED BY <2>2, <3>1, <3>2
  <2> QED BY <2>1, <2>2 DEF ServeList
<1>2. row' = row BY DEF ServeList
<1>3. PICK x : Answers1(m, x) /\ x.ok = ok /\ (ok => x.record = r /\ x.skipped = s)
  BY <1>1, AnswerIs
<1>4. /\ UNCHANGED <<cache, ctl, own, session>>
      /\ ~crossed' => ~crossed /\ ~Past(m)
  BY <1>1, AnswerIs
<1>5. PendingOK' BY <1>3, <1>4, ServedPending, PendingKept DEF SInv
<1> SUFFICES ASSUME ~crossed' PROVE OneSession'
  BY <1>5 DEF Kept
<1>6. OneSession /\ PendingOK /\ ~Past(m) BY <1>4 DEF SInv
<1>7. Ours(m) /\ m.op = "list" BY <1>6, Prompt DEF ServeList
<1>8. ctl = "restoring" BY <1>6, <1>7, PendingInIt DEF OneSession, CallsFit, Fits
<1>9. /\ CacheFits' /\ CallsFit' /\ CalledOnce' /\ Beside'
      /\ Answered' = Answered \cup {x} /\ \A p : Ours(p)' <=> Ours(p)
  BY <1>2, <1>3, <1>4, <1>6, <1>7, ServedCalls
<1>10. Answered = {}
  BY <1>6, <1>7, <1>8, PendingInIt DEF OneSession, CalledOnce, Answered
<1>11. RowsKept' /\ Left' = Left
  BY <1>2, <1>4, <1>6, RowsSame DEF OneSession, RowsKept, LeftCached, OwnActive
<1>12. row \in [Rows -> RowStates] /\ \A i \in Rows : Consistent(row[i])
  BY DEF IInv, TypeOK, RowsConsistent
<1>13. RestorableActive /\ LeftOne BY <1>6 DEF OneSession, RowsKept
<1>14. Candidates \subseteq Left
  BY <1>13 DEF Candidates, Left, RestorableActive, IsRestoreCandidate, Stranded
<1>15. CASE Candidates = {} /\ r = Null /\ s = Skipped
  <2>1. Left = Skipped
    <3> SUFFICES ASSUME NEW i \in Rows PROVE i \in Left <=> i \in Skipped
      BY DEF Left, Skipped
    <3>1. i \notin Candidates BY <1>15
    <3>2. row[i].status = "active" => Exists(i) BY DEF Exists
    <3> QED BY <1>12, <3>1, <3>2
            DEF Candidates, Left, Skipped, IsSkipped, IsRestoreCandidate, Stranded, Consistent
  <2>2. r.id = 0 BY <1>15 DEF Null
  <2>3. ListTold' BY <1>3, <1>9, <1>10, <1>11, <1>15, <2>1, <2>2 DEF ListTold
  <2> QED BY <1>3, <1>4, <1>7, <1>8, <1>9, <1>10, <1>11, <2>3
          DEF OneSession, Told, AnswersOwn, SkipsTold, CreateTold, RetireTold, Answers1
<1>16. ASSUME NEW i \in Rows, IsNewest(i), r = [id |-> i, copy |-> row[i]], s = {}
       PROVE  OneSession'
  <2>1. i \in Candidates BY <1>16 DEF IsNewest
  <2>2. row[i].restorable /\ row[i].handle BY <2>1 DEF Candidates, IsRestoreCandidate
  <2>3. Left = {i} BY <1>13, <1>14, <2>1 DEF LeftOne
  <2>4. r.id = i /\ r.copy = row[i] /\ i # 0 BY <1>16 DEF Rows
  <2>5. ListTold' BY <1>3, <1>9, <1>10, <1>11, <1>16, <2>2, <2>3, <2>4 DEF ListTold
  <2> QED BY <1>3, <1>4, <1>7, <1>8, <1>9, <1>10, <1>11, <2>5
          DEF OneSession, Told, AnswersOwn, SkipsTold, CreateTold, RetireTold, Answers1
<1> QED BY <1>1, <1>15, <1>16

LEMMA ServeUpdateOne ==
  ASSUME RecordAssumption, IInv, SInv, NEW m \in requests, NEW ok \in BOOLEAN, ServeUpdate(m, ok)
  PROVE  Kept
<1>1. m.op = "update" /\ m.row \in Rows /\ m \in Requests
  BY DEF ServeUpdate, IInv, Addressed, TypeOK
<1>2. PICK i \in Rows : i = m.row BY <1>1
<1>3. PICK r \in RowStates : /\ r.status = row[i].status
                             /\ row' = [row EXCEPT ![i] = r]
  <2>1. row \in [Rows -> RowStates] BY DEF IInv, TypeOK
  <2>2. m.restorable \in BOOLEAN /\ m.handle \in BOOLEAN BY <1>1 DEF Requests
  <2>3. PICK r : r = Updated(row[i], m.restorable, m.handle) OBVIOUS
  <2>4. r \in RowStates BY <2>1, <2>2, <2>3, UpdatedOK DEF RowOK
  <2>5. r.status = row[i].status BY <2>1, <2>3 DEF Updated, RowStates
  <2>6. row' = [row EXCEPT ![i] = r] BY <1>2, <2>3 DEF ServeUpdate
  <2> QED BY <2>4, <2>5, <2>6
<1>4. PICK c : c = [id |-> m.row, copy |-> row'[m.row]] OBVIOUS
<1>5. Answer(m, ok, c, {}) BY <1>4 DEF ServeUpdate
<1>6. PICK x : Answers1(m, x) /\ x.ok = ok /\ (ok => x.record = c)
  BY <1>5, AnswerIs
<1>7. /\ UNCHANGED <<cache, ctl, own, session>>
      /\ ~crossed' => ~crossed /\ ~Past(m) /\ row[i].status = "active"
  BY <1>1, <1>2, <1>5, AnswerIs
<1>8. PendingOK' BY <1>6, <1>7, ServedPending, PendingKept DEF SInv
<1> SUFFICES ASSUME ~crossed' PROVE OneSession'
  BY <1>8 DEF Kept
<1>9. OneSession /\ PendingOK /\ ~Past(m) /\ row[i].status = "active" BY <1>7 DEF SInv
<1>10. Ours(m) \/ (m.by \in Updaters /\ m.session = session) BY <1>9, Prompt
<1>11. i = cache.id /\ i # 0
  <2>1. CASE Ours(m)
    <3>1. Fits(m) BY <1>9, <2>1, PendingInIt DEF OneSession, CallsFit
    <3> QED BY <1>1, <1>2, <1>9, <3>1 DEF Fits, OneSession, CacheFits
  <2>2. CASE m.by \in Updaters /\ m.session = session
    BY <1>2, <1>9, <2>2, PendingInIt DEF OneSession, Beside, Rows
  <2> QED BY <1>10, <2>1, <2>2
<1>12. ctl \in {"dialing", "up", "retiring", "ending"}
  BY <1>9, <1>11 DEF OneSession, CacheFits, IInv, TypeOK, Controls
<1>13. /\ RestorableActive' /\ Left' \subseteq Left \cup {i} /\ row'[i] = r
       /\ \A j \in Rows \ {i} : row'[j] = row[j]
  BY <1>3, <1>9, RowChanges
<1>14. \A j \in Rows : row'[j].status = row[j].status BY <1>3, <1>13
<1>15. /\ CacheFits' /\ CallsFit' /\ CalledOnce' /\ Beside'
       /\ Answered' \subseteq Answered \cup {x} /\ \A p : Ours(p)' <=> Ours(p)
  BY <1>6, <1>7, <1>9, <1>14, ServedCalls
<1>16. Left' \subseteq {i} BY <1>9, <1>11, <1>13 DEF OneSession, RowsKept, LeftCached
<1>17. RowsKept'
  <2>1. OwnActive'
    BY <1>2, <1>3, <1>7, <1>9, <1>11, <1>13 DEF OneSession, CacheFits, OwnActive
  <2> QED BY <1>7, <1>11, <1>13, <1>16, <2>1 DEF RowsKept, LeftCached, LeftOne
<1>18. AnswersOwn'
  <2>1. ok => x.record.id = m.row BY <1>4, <1>6
  <2> QED BY <1>6, <1>9, <1>15, <2>1 DEF OneSession, Told, AnswersOwn, Answers1
<1>19. RetireTold'
  <2>1. x.to.op = "update" BY <1>1, <1>6 DEF Answers1
  <2>2. ctl = "retiring" => own \in Rows BY <1>2, <1>9, <1>11 DEF OneSession, CacheFits
  <2> QED BY <1>7, <1>9, <1>14, <1>15, <2>1, <2>2 DEF OneSession, Told, RetireTold
<1>20. ListTold' /\ SkipsTold' /\ CreateTold'
  BY <1>7, <1>12 DEF ListTold, SkipsTold, CreateTold
<1> QED BY <1>15, <1>17, <1>18, <1>19, <1>20 DEF OneSession, Told

LEMMA ServeEndOne ==
  ASSUME RecordAssumption, IInv, SInv, NEW m \in requests, NEW ok \in BOOLEAN, ServeEnd(m, ok)
  PROVE  Kept
<1>1. m.op \in {"end", "skip"} /\ m.row \in Rows
  BY DEF ServeEnd, IInv, Addressed
<1>2. PICK i \in Rows : i = m.row BY <1>1
<1>3. PICK r \in RowStates : /\ r.status = "ended" /\ ~r.restorable
                             /\ row' = [row EXCEPT ![i] = r]
  <2>1. row \in [Rows -> RowStates] BY DEF IInv, TypeOK
  <2>2. PICK r : r = Ended(row[i]) OBVIOUS
  <2>3. r \in RowStates BY <2>1, <2>2, EndedOK DEF RowOK
  <2>4. r.status = "ended" /\ r.restorable = FALSE BY <2>1, <2>2 DEF Ended, RowStates
  <2>5. row' = [row EXCEPT ![i] = r] BY <1>2, <2>2 DEF ServeEnd
  <2> QED BY <2>3, <2>4, <2>5
<1>4. PICK c : c = [id |-> m.row, copy |-> row'[m.row]] OBVIOUS
<1>5. Answer(m, ok, c, {}) BY <1>4 DEF ServeEnd
<1>6. PICK x : Answers1(m, x) /\ x.ok = ok
  BY <1>5, AnswerIs
<1>7. /\ UNCHANGED <<cache, ctl, own, session>>
      /\ ~crossed' => ~crossed /\ ~Past(m)
  BY <1>5, AnswerIs
<1>8. PendingOK' BY <1>6, <1>7, ServedPending, PendingKept DEF SInv
<1> SUFFICES ASSUME ~crossed' PROVE OneSession'
  BY <1>8 DEF Kept
<1>9. OneSession /\ PendingOK /\ ~Past(m) BY <1>7 DEF SInv
<1>10. Ours(m) BY <1>1, <1>9, Prompt
<1>11. Fits(m) BY <1>9, <1>10, PendingInIt DEF OneSession, CallsFit
<1>12. ctl \in {"skipping", "retiring", "ending"} BY <1>1, <1>11 DEF Fits
<1>13. /\ RestorableActive' /\ Left' = Left \ {i} /\ row'[i] = r
       /\ \A j \in Rows \ {i} : row'[j] = row[j]
  BY <1>3, <1>9, RowChanges
<1>14. \A j \in Rows : row[j].status = "ended" => row'[j].status = "ended" BY <1>3, <1>13
<1>15. /\ CacheFits' /\ CallsFit' /\ CalledOnce' /\ Beside'
       /\ Answered' = Answered \cup {x} /\ \A p : Ours(p)' <=> Ours(p)
  BY <1>6, <1>7, <1>9, <1>10, <1>14, ServedCalls
<1>16. RowsKept'
  BY <1>7, <1>9, <1>12, <1>13 DEF OneSession, RowsKept, LeftCached, LeftOne, OwnActive
<1>17. AnswersOwn'
  <2>1. x.to.op # "update" BY <1>1, <1>6 DEF Answers1
  <2> QED BY <1>9, <1>15, <2>1 DEF OneSession, Told, AnswersOwn
<1>18. RetireTold'
  <2>1. ctl = "retiring" => row'[own].status = "ended"
    BY <1>2, <1>3, <1>11, <1>13 DEF Fits
  <2> QED BY <1>7, <2>1 DEF RetireTold
<1>19. ListTold' /\ CreateTold' BY <1>7, <1>12 DEF ListTold, CreateTold
<1>20. SkipsTold'
  <2> SUFFICES ASSUME ctl = "skipping", NEW j \in Left, j # i
               PROVE  \/ \E n \in requests' : Ours(n)' /\ n.row = j
                      \/ \E a \in Answered' : ~a.ok /\ a.to.row = j
    BY <1>7, <1>13 DEF SkipsTold
  <2>1. CASE \E n \in requests : Ours(n) /\ n.row = j
    BY <1>2, <1>6, <1>15, <2>1 DEF Answers1
  <2>2. CASE \E a \in Answered : ~a.ok /\ a.to.row = j BY <1>15, <2>2
  <2> QED BY <1>9, <2>1, <2>2 DEF OneSession, Told, SkipsTold
<1> QED BY <1>15, <1>16, <1>17, <1>18, <1>19, <1>20 DEF OneSession, Told

LEMMA ServeOne ==
  ASSUME RecordAssumption, IInv, SInv, NEW m \in requests, Serve(m)
  PROVE  Kept
  BY ServeCreateOne, ServeListOne, ServeUpdateOne, ServeEndOne, RefuseOne DEF Serve
---------------------------------------------------------------------------
(* One session: the answers *)

LEMMA TakeIs ==
  ASSUME RecordAssumption, IInv, SInv, NEW a \in answers, Take(a)
  PROVE  /\ row' = row /\ answers' = answers \ {a} /\ a.to \in Pending
         /\ ~crossed' => /\ ~crossed /\ OneSession /\ ~Past(a.to) /\ ~Misplaced(a)
  BY PendingInIt DEF Take, backend, SInv

\* An answer that is not late is to a call of the controller or to an update beside it.
LEMMA PromptAnswer ==
  ASSUME RecordAssumption, IInv, PendingOK, OneSession, NEW a \in answers, ~Past(a.to)
  PROVE  /\ a.to.session = session
         /\ \/ Ours(a.to) /\ Fits(a.to) /\ a \in Answered
            \/ a.to.by \in Updaters /\ a.to.op = "update" /\ a.to.then = "nothing"
<1>1. a.to \in Pending BY PendingInIt
<1>2. a.to \in Requests /\ a.to.session \in Nat /\ session \in Nat BY <1>1, PendingTypes
<1>3. a.to.session = session /\ a.to.by # "nobody" BY <1>1, <1>2 DEF Past, PendingOK
<1>4. a.to.by = "controller" \/ a.to.by \in Updaters BY <1>2, <1>3 DEF Requests
<1>5. CASE a.to.by = "controller"
  BY <1>1, <1>3, <1>5 DEF Ours, Answered, OneSession, CallsFit
<1>6. CASE a.to.by \in Updaters BY <1>1, <1>3, <1>6 DEF PendingOK
<1> QED BY <1>4, <1>5, <1>6

\* Once the only call is answered nothing else is awaited.
LEMMA LastAnswer ==
  ASSUME OneSession, NEW a \in Answered, ctl # "skipping"
  PROVE  /\ \A n \in requests : ~Ours(n)
         /\ \A b \in answers \ {a} : ~Ours(b.to)
<1>1. Ours(a.to) /\ a.to \in Pending BY PendingInIt DEF Answered
<1>2. \A p \in Pending : Ours(p) => p = a.to BY <1>1 DEF OneSession, CalledOnce
<1>3. a.to \notin requests BY DEF OneSession, CalledOnce
<1>4. \A b \in Answered : b.to = a.to => b = a BY DEF OneSession, CalledOnce
<1> QED BY <1>2, <1>3, <1>4, PendingInIt DEF Answered

\* What remains pending when a session of the controller's is over.
LEMMA OverPending ==
  ASSUME IInv, PendingOK, session' = session + 1, requests' \subseteq requests,
         answers' \subseteq answers
  PROVE  \A p \in Pending' : \E q \in Pending : Follows(p, q)
<1>1. \A p : Follows(p, p) BY DEF Follows
<1> QED BY <1>1, PendingIs, PendingWillBe

\* The session is over, with its answer.
LEMMA TakenOver ==
  ASSUME RecordAssumption, IInv, SInv, NEW a \in answers, Take(a), requests' = requests,
         session' = session + 1, ctl' = "off", ~crossed' => cache'.id = 0
  PROVE  Kept
<1>1. row' = row /\ answers' \subseteq answers /\ (~crossed' => ~crossed) BY TakeIs
<1>2. \A p \in Pending' : \E q \in Pending : Follows(p, q) BY <1>1, OverPending DEF SInv
<1>3. PendingStep BY <1>2 DEF PendingStep
<1> QED BY <1>1, <1>2, <1>3, SessionEnds DEF SInv

\* PendingOK, when what is sent is the controller's.
LEMMA TakenPending ==
  ASSUME RecordAssumption, IInv, SInv, NEW a \in answers, answers' = answers \ {a},
         session' \in {session, session + 1},
         \A n \in requests' : n \in requests \/ Called(n)
  PROVE  PendingOK'
<1>1. \A n \in requests' : n \in Pending \/ Called(n) BY PendingInIt
<1>2. \A b \in answers' : b.to \in Pending BY PendingInIt
<1> QED BY <1>1, <1>2, PendingSent, PendingKept DEF SInv

LEMMA OnCreatedOne ==
  ASSUME RecordAssumption, IInv, SInv, NEW a \in answers, OnCreated(a)
  PROVE  Kept
<1>1. /\ row' = row /\ answers' = answers \ {a}
      /\ ~crossed' => ~crossed /\ OneSession /\ ~Past(a.to)
  BY TakeIs DEF OnCreated
<1>2. PendingOK'
  <2>1. CASE Past(a.to) \/ a.ok
    BY <1>1, <2>1, TakenPending DEF OnCreated, Ignored
  <2>2. CASE ~Past(a.to) /\ ~a.ok
    <3>1. Fails(requests) BY <2>2 DEF OnCreated
    <3> QED BY <1>1, <3>1, FailsSends, TakenPending
  <2> QED BY <2>1, <2>2
<1> SUFFICES ASSUME ~crossed' PROVE OneSession'
  BY <1>2 DEF Kept
<1>3. OneSession /\ PendingOK /\ ~Past(a.to) BY <1>1 DEF SInv
<1>4. Ours(a.to) /\ Fits(a.to) /\ a \in Answered /\ a.to.op = "create"
  BY <1>3, PromptAnswer DEF OnCreated
<1>5. ctl = "creating" /\ cache.id = 0
  BY <1>3, <1>4 DEF Fits, OneSession, CacheFits
<1>6. (\A n \in requests : ~Ours(n)) /\ \A b \in answers' : ~Ours(b.to)
  BY <1>1, <1>3, <1>4, <1>5, LastAnswer
<1>7. CASE a.ok
  <2>1. /\ cache' = a.record /\ ctl' = "up" /\ own' = a.record.id /\ UNCHANGED <<session, requests>>
    BY <1>3, <1>7 DEF OnCreated
  <2>2. /\ a.record.id \in Rows /\ Left \subseteq {a.record.id}
        /\ row[a.record.id].status = "active"
    BY <1>3, <1>4, <1>5, <1>7 DEF OneSession, Told, CreateTold
  <2>3. CacheFits' BY <2>1, <2>2 DEF CacheFits, Rows
  <2>4. LeftCached' /\ OwnActive'
    BY <1>1, <1>3, <2>1, <2>2, RowsSame DEF LeftCached, OwnActive
  <2> QED BY <1>1, <1>3, <1>5, <1>6, <2>1, <2>3, <2>4, QuietKeeps DEF RecordAssumption
<1>8. CASE ~a.ok
  <2>1. Take(a) /\ Fails(requests) /\ cache' = cache BY <1>3, <1>8 DEF OnCreated
  <2>2. ctl' = "off" /\ session' = session + 1 /\ requests' = requests
    BY <1>5, <2>1 DEF Fails, Finish, NextSession
  <2> QED BY <1>5, <2>1, <2>2, TakenOver DEF Kept
<1> QED BY <1>7, <1>8

LEMMA OnListedOne ==
  ASSUME RecordAssumption, IInv, SInv, NEW a \in answers, OnListed(a)
  PROVE  Kept
<1>1. /\ row' = row /\ answers' = answers \ {a} /\ session' = session
      /\ ~crossed' => ~crossed /\ OneSession /\ ~Past(a.to)
  BY TakeIs DEF OnListed
<1>2. PendingOK'
  <2>1. CASE Past(a.to) BY <1>1, <2>1, TakenPending DEF OnListed
  <2>2. CASE ~Past(a.to) /\ a.record.id # 0
    BY <1>1, <2>2, RestoredSends, TakenPending DEF OnListed
  <2>3. CASE ~Past(a.to) /\ a.record.id = 0
    BY <1>1, <2>3, CreateSends, TakenPending DEF OnListed
  <2> QED BY <2>1, <2>2, <2>3
<1> SUFFICES ASSUME ~crossed' PROVE OneSession'
  BY <1>2 DEF Kept
<1>3. OneSession /\ PendingOK /\ ~Past(a.to) BY <1>1 DEF SInv
<1>4. Ours(a.to) /\ Fits(a.to) /\ a \in Answered /\ a.to.op = "list" /\ a.ok /\ a.skipped = {}
  BY <1>3, PromptAnswer DEF OnListed
<1>5. ctl = "restoring" /\ cache.id = 0
  BY <1>3, <1>4 DEF Fits, OneSession, CacheFits
<1>6. (\A n \in requests : ~Ours(n)) /\ \A b \in answers' : ~Ours(b.to)
  BY <1>1, <1>3, <1>4, <1>5, LastAnswer
<1>7. cache' = a.record BY DEF OnListed
<1>8. CASE a.record.id # 0
  <2>1. Left = {a.record.id} /\ a.record.copy.restorable /\ a.record.copy.handle
    BY <1>3, <1>4, <1>5, <1>8 DEF OneSession, Told, ListTold
  <2>2. ctl' = "dialing" /\ own' = a.record.id /\ requests' = requests
    BY <1>3, <1>8, <2>1 DEF OnListed, Restored
  <2>3. CacheFits' BY <1>7, <1>8, <2>2 DEF CacheFits
  <2>4. LeftCached' BY <1>1, <1>3, <1>7, <2>1, RowsSame DEF LeftCached
  <2>5. OwnActive' BY <1>1, <2>1, <2>2 DEF OwnActive, Left
  <2> QED BY <1>1, <1>3, <1>5, <1>6, <2>2, <2>3, <2>4, <2>5, QuietKeeps DEF RecordAssumption
<1>9. CASE a.record.id = 0
  <2>1. Left = {} BY <1>3, <1>4, <1>5, <1>9 DEF OneSession, Told, ListTold
  <2>2. PICK m : m = Ask("create") OBVIOUS
  <2>3. ctl' = "creating" /\ requests' = requests \cup {m}
    BY <1>3, <1>7, <1>9, <2>2 DEF OnListed, Create, Send
  <2>4. Ours(m) /\ m.op = "create" BY <2>2, AskIs DEF Ours
  <2>5. CacheFits' BY <1>7, <1>9, <2>3 DEF CacheFits
  <2>6. Fits(m)' BY <2>3, <2>4 DEF Fits
  <2>7. LeftCached' BY <1>7, <1>9 DEF LeftCached
  <2> QED BY <1>1, <1>3, <1>5, <1>6, <2>1, <2>3, <2>4, <2>5, <2>6, <2>7, CallKeeps
          DEF RecordAssumption
<1> QED BY <1>8, <1>9

\* A request to skip a row, on behalf of a list.
LEMMA SkipIs ==
  ASSUME IInv, NEW m \in Requests, NEW i
  PROVE  LET n == [m EXCEPT !.op = "skip", !.row = i, !.then = "create"] IN
         /\ n.op = "skip" /\ n.row = i /\ n.then = "create" /\ n.by = m.by /\ n.session = m.session
  BY DEF Requests

LEMMA OnListedSkippingOne ==
  ASSUME RecordAssumption, IInv, SInv, NEW a \in answers, OnListedSkipping(a)
  PROVE  Kept
<1>1. /\ row' = row /\ answers' = answers \ {a} /\ a.to \in Pending
      /\ ~crossed' => ~crossed /\ OneSession /\ ~Past(a.to)
  BY TakeIs DEF OnListedSkipping
<1>2. UNCHANGED <<cache, own, session>> /\ a.to.op = "list" /\ a.ok /\ a.skipped # {}
  BY DEF OnListedSkipping
<1>3. PICK ms : ms = {[a.to EXCEPT !.op = "skip", !.row = i, !.then = "create"] : i \in a.skipped}
  OBVIOUS
<1>4. requests' = requests \cup ms BY <1>3 DEF OnListedSkipping, Send
<1>5. a.to \in Requests BY <1>1, PendingTypes
<1>6. /\ \A n \in ms : /\ n.op = "skip" /\ n.then = "create"
                       /\ n.by = a.to.by /\ n.session = a.to.session
      /\ \A i \in a.skipped : \E n \in ms : n.row = i
  <2> DEFINE Skip(i) == [a.to EXCEPT !.op = "skip", !.row = i, !.then = "create"]
  <2>1. \A i : /\ Skip(i).op = "skip" /\ Skip(i).row = i /\ Skip(i).then = "create"
               /\ Skip(i).by = a.to.by /\ Skip(i).session = a.to.session
    <3> TAKE i
    <3>1. PICK m \in Requests : m = a.to BY <1>5
    <3> QED BY <3>1, SkipIs
  <2>2. ms = {Skip(i) : i \in a.skipped} BY <1>3
  <2> HIDE DEF Skip
  <2> QED BY <2>1, <2>2
<1>7. PendingOK'
  <2>1. a.to.by \notin Updaters BY <1>1, <1>2 DEF SInv, PendingOK
  <2>2. \A n \in ms : Follows(n, a.to) BY <1>6, <2>1 DEF Follows
  <2>3. \A p : Follows(p, p) BY DEF Follows
  <2>4. \A p \in Pending' : p \in Pending \/ p \in ms
    BY <1>1, <1>4, PendingIs, PendingWillBe
  <2>5. PendingStep BY <1>1, <1>2, <2>2, <2>3, <2>4 DEF PendingStep
  <2> QED BY <2>5, PendingKept DEF SInv
<1> SUFFICES ASSUME ~crossed' PROVE OneSession'
  BY <1>7 DEF Kept
<1>8. OneSession /\ PendingOK /\ ~Past(a.to) BY <1>1 DEF SInv
<1>9. Ours(a.to) /\ Fits(a.to) /\ a \in Answered BY <1>2, <1>8, PromptAnswer
<1>10. ctl = "restoring" /\ cache.id = 0 /\ ctl' = "skipping"
  BY <1>2, <1>8, <1>9 DEF Fits, OneSession, CacheFits, OnListedSkipping
<1>11. (\A n \in requests : ~Ours(n)) /\ \A b \in answers' : ~Ours(b.to)
  BY <1>1, <1>8, <1>9, <1>10, LastAnswer
<1>12. \A p : Ours(p)' <=> Ours(p) BY <1>2 DEF Ours
<1>13. \A n \in ms : Ours(n) BY <1>6, <1>9 DEF Ours
<1>14. \A p \in Pending' : Ours(p) => p \in ms BY <1>4, <1>11, PendingWillBe
<1>15. Answered' = {} BY <1>11, <1>12 DEF Answered
<1>16. a.record.id = 0 /\ Left = a.skipped
  BY <1>2, <1>8, <1>9, <1>10 DEF OneSession, Told, ListTold
<1>17. CacheFits' BY <1>2, <1>10 DEF CacheFits
<1>18. CallsFit' BY <1>6, <1>10, <1>12, <1>14 DEF CallsFit, Fits
<1>19. CalledOnce' BY <1>10, <1>15 DEF CalledOnce
<1>20. Beside'
  <2>1. \A p \in Pending' : p \in Pending \/ p \in ms
    BY <1>1, <1>4, PendingIs, PendingWillBe
  <2>2. \A n \in ms : n.by \notin Updaters BY <1>13 DEF Ours, RecordAssumption
  <2> QED BY <1>1, <1>2, <1>8, <2>1, <2>2 DEF OneSession, Beside
<1>21. RowsKept' /\ Left' = Left
  BY <1>1, <1>2, <1>8, <1>10, RowsSame DEF RowsKept, LeftCached, OwnActive
<1>22. Told'
  BY <1>4, <1>6, <1>10, <1>12, <1>13, <1>15, <1>16, <1>21
  DEF Told, AnswersOwn, ListTold, SkipsTold, CreateTold, RetireTold
<1> QED BY <1>17, <1>18, <1>19, <1>20, <1>21, <1>22 DEF OneSession

LEMMA OnSkippedOne ==
  ASSUME RecordAssumption, IInv, SInv, NEW a \in answers, OnSkipped(a)
  PROVE  Kept
<1>1. /\ row' = row /\ answers' = answers \ {a} /\ session' = session
      /\ ~crossed' => ~crossed /\ OneSession /\ ~Past(a.to)
  BY TakeIs DEF OnSkipped
<1>2. cache' = cache \/ cache' = Null BY DEF OnSkipped
<1>3. PendingOK'
  <2>1. CASE requests' = requests BY <1>1, <2>1, TakenPending
  <2>2. CASE Create BY <1>1, <2>2, CreateSends, TakenPending
  <2> QED BY <2>1, <2>2 DEF OnSkipped
<1> SUFFICES ASSUME ~crossed' PROVE OneSession'
  BY <1>3 DEF Kept
<1>4. OneSession /\ PendingOK /\ ~Past(a.to) BY <1>1 DEF SInv
<1>5. Ours(a.to) /\ Fits(a.to) /\ a \in Answered /\ a.to.op = "skip" /\ a.to.then = "create" /\ a.ok
  BY <1>4, PromptAnswer DEF OnSkipped
<1>6. ctl = "skipping" /\ cache.id = 0
  BY <1>4, <1>5 DEF Fits, OneSession, CacheFits
<1>7. \A p : Ours(p)' <=> Ours(p) BY <1>1 DEF Ours
<1>8. CASE AwaitedWith(a.to) # {}
  <2>1. UNCHANGED <<cache, ctl, own, requests>> BY <1>8 DEF OnSkipped
  <2>2. \A p \in Pending' : p \in Pending BY <1>1, <2>1, PendingIs, PendingWillBe
  <2>3. Answered' = Answered \ {a} BY <1>1, <1>7 DEF Answered
  <2>4. CacheFits' /\ CallsFit' BY <1>4, <1>7, <2>1, <2>2 DEF OneSession, CacheFits, CallsFit, Fits
  <2>5. CalledOnce' BY <1>4, <1>6, <2>1, <2>3 DEF OneSession, CalledOnce
  <2>6. Beside' BY <1>1, <1>4, <2>1, <2>2, BesideMoves DEF RecordAssumption
  <2>7. RowsKept' /\ Left' = Left
    BY <1>1, <1>4, <2>1, RowsSame DEF OneSession, RowsKept, LeftCached, OwnActive
  <2>8. Told'
    <3>1. SkipsTold' BY <1>4, <1>5, <1>7, <2>1, <2>3, <2>7 DEF OneSession, Told, SkipsTold
    <3>2. AnswersOwn' BY <1>4, <2>3 DEF OneSession, Told, AnswersOwn
    <3> QED BY <1>6, <2>1, <3>1, <3>2 DEF Told, ListTold, CreateTold, RetireTold
  <2> QED BY <2>4, <2>5, <2>6, <2>7, <2>8 DEF OneSession
<1>9. CASE AwaitedWith(a.to) = {}
  <2>1. cache' = Null /\ Create BY <1>4, <1>9 DEF OnSkipped
  <2>2. PICK m : m = Ask("create") OBVIOUS
  <2>3. ctl' = "creating" /\ requests' = requests \cup {m} /\ cache'.id = 0
    BY <2>1, <2>2 DEF Create, Send, Null
  <2>4. Ours(m) /\ m.op = "create" BY <2>2, AskIs DEF Ours
  <2>5. \A p \in Pending : Ours(p) => p = a.to
    <3> SUFFICES ASSUME NEW p \in Pending, Ours(p), p # a.to PROVE FALSE
      OBVIOUS
    <3>1. p.op = "skip" /\ p.then = "create" /\ p.session = a.to.session
      BY <1>4, <1>5, <1>6 DEF OneSession, CallsFit, Fits, Ours
    <3>2. p \in AwaitedWith(a.to) BY <3>1 DEF AwaitedWith, Pending
    <3> QED BY <1>9, <3>2
  <2>6. a.to \notin requests /\ \A b \in Answered : b.to = a.to => b = a
    BY <1>4, <1>5 DEF OneSession, CalledOnce
  <2>7. (\A n \in requests : ~Ours(n)) /\ \A b \in answers' : ~Ours(b.to)
    BY <1>1, <2>5, <2>6, PendingInIt DEF Answered
  <2>8. Left = {}
    <3> SUFFICES ASSUME NEW i \in Left PROVE FALSE
      OBVIOUS
    <3>1. PICK b \in Answered : ~b.ok
      BY <1>4, <1>6, <2>7 DEF OneSession, Told, SkipsTold
    <3>2. b \in answers' BY <1>1, <1>5, <3>1 DEF Answered
    <3> QED BY <2>7, <3>1, <3>2 DEF Answered
  <2>9. CacheFits' BY <2>3 DEF CacheFits
  <2>10. Fits(m)' BY <2>3, <2>4 DEF Fits
  <2>11. LeftCached' BY <2>3 DEF LeftCached
  <2> QED BY <1>1, <1>4, <1>6, <2>3, <2>4, <2>7, <2>8, <2>9, <2>10, <2>11, CallKeeps
          DEF RecordAssumption
<1> QED BY <1>8, <1>9

\* Nobody waits for the other rows any more.
LEMMA UnawaitedFollows ==
  ASSUME RecordAssumption, NEW m \in Requests, NEW first, session' \in {session, session + 1}
  PROVE  Follows(Unawaited(m, first), m)
<1>1. /\ Unawaited(m, first).session = m.session /\ Unawaited(m, first).by = m.by
      /\ Unawaited(m, first).op = m.op /\ Unawaited(m, first).then \in {m.then, "nothing"}
  BY DEF Unawaited, Requests
<1> QED BY <1>1 DEF Follows

LEMMA OnRestoreFailedOne ==
  ASSUME RecordAssumption, IInv, SInv, NEW a \in answers, OnRestoreFailed(a)
  PROVE  Kept
<1>1. PICK ms : ms = {Unawaited(m, a.to) : m \in requests} OBVIOUS
<1>2. /\ row' = row /\ cache' = cache /\ Fails(ms)
      /\ answers' = {[b EXCEPT !.to = Unawaited(@, a.to)] : b \in answers \ {a}}
      /\ ~crossed' => ~crossed /\ ~Past(a.to)
  BY <1>1 DEF OnRestoreFailed, backend
<1>3. session' \in {session, session + 1} /\ \A n \in requests' : n \in ms \/ Called(n)
  BY <1>2, FailsSends
<1>4. \A n \in ms : \E q \in Pending : Follows(n, q)
  BY <1>1, <1>3, PendingInIt, PendingTypes, UnawaitedFollows
<1>5. \A b \in answers' : \E q \in Pending : Follows(b.to, q)
  <2> SUFFICES ASSUME NEW b \in answers
               PROVE  \E q \in Pending : Follows([b EXCEPT !.to = Unawaited(@, a.to)].to, q)
    BY <1>2
  <2>1. b \in Answers /\ b.to \in Pending BY PendingInIt DEF IInv, TypeOK
  <2>2. [b EXCEPT !.to = Unawaited(@, a.to)].to = Unawaited(b.to, a.to) BY <2>1 DEF Answers
  <2>3. Follows(Unawaited(b.to, a.to), b.to) BY <1>3, <2>1, PendingTypes, UnawaitedFollows
  <2> QED BY <2>1, <2>2, <2>3
<1>6. PendingOK'
  <2>1. PendingStep BY <1>3, <1>4, <1>5, PendingWillBe DEF PendingStep
  <2> QED BY <2>1, PendingKept DEF SInv
<1> SUFFICES ASSUME ~crossed' PROVE OneSession'
  BY <1>6 DEF Kept
<1>7. OneSession /\ PendingOK /\ ~Past(a.to) BY <1>2 DEF SInv
<1>8. Fits(a.to) BY <1>7, PromptAnswer DEF OnRestoreFailed
<1>9. ctl \in {"restoring", "skipping"} /\ cache.id = 0
  BY <1>7, <1>8 DEF Fits, OneSession, CacheFits, OnRestoreFailed
<1>10. ctl' = "off" /\ session' = session + 1 /\ requests' = ms
  BY <1>2, <1>9 DEF Fails, Finish, NextSession
<1>11. \A p \in Pending' : p.session # session'
  BY <1>4, <1>5, <1>7, <1>10, PendingWillBe, NonePending
<1> QED BY <1>2, <1>7, <1>9, <1>10, <1>11, NowOff

LEMMA OnUnawaitedOne ==
  ASSUME RecordAssumption, IInv, SInv, NEW a \in answers, OnUnawaited(a)
  PROVE  Kept
<1>1. /\ row' = row /\ answers' = answers \ {a}
      /\ ~crossed' => ~crossed /\ OneSession /\ ~Past(a.to)
  BY TakeIs DEF OnUnawaited
<1>2. PendingOK' BY <1>1, TakenPending DEF OnUnawaited, Ignored
<1>3. ASSUME OneSession, ~Past(a.to) PROVE FALSE
  BY <1>3, PromptAnswer DEF OnUnawaited, Fits, SInv
<1> QED BY <1>1, <1>2, <1>3 DEF Kept

\* The answer of an update beside the controller, which may replace the cached record
\* by a later copy of it.
LEMMA BesideAnswered ==
  ASSUME RecordAssumption, IInv, OneSession, NEW a \in answers, a.to.by \in Updaters,
         answers' = answers \ {a}, row' = row, Ignored, cache'.id = cache.id
  PROVE  OneSession'
<1>1. UNCHANGED <<ctl, own, session, requests>> BY DEF Ignored
<1>2. \A p : Ours(p)' <=> Ours(p) BY <1>1 DEF Ours
<1>3. ~Ours(a.to) BY DEF Ours, RecordAssumption
<1>4. Answered' = Answered BY <1>2, <1>3 DEF Answered
<1>5. \A p \in Pending' : p \in Pending BY <1>1, PendingIs, PendingWillBe
<1>6. CacheFits' /\ CallsFit' BY <1>1, <1>2, <1>5 DEF OneSession, CacheFits, CallsFit, Fits
<1>7. CalledOnce' BY <1>1, <1>2, <1>4, <1>5 DEF OneSession, CalledOnce
<1>8. Beside' BY <1>1, <1>5, BesideMoves DEF RecordAssumption
<1>9. RowsKept' /\ Left' = Left
  BY <1>1, RowsSame DEF OneSession, RowsKept, LeftCached, OwnActive
<1>10. Told'
  BY <1>1, <1>2, <1>4, <1>9
  DEF OneSession, Told, AnswersOwn, ListTold, SkipsTold, CreateTold, RetireTold
<1> QED BY <1>6, <1>7, <1>8, <1>9, <1>10 DEF OneSession

LEMMA OnUpdatedOne ==
  ASSUME RecordAssumption, IInv, SInv, NEW a \in answers, OnUpdated(a)
  PROVE  Kept
<1>1. /\ row' = row /\ answers' = answers \ {a} /\ session' = session
      /\ UNCHANGED <<ctl, own>> /\ a.to \in Pending
      /\ ~crossed' => ~crossed /\ OneSession /\ ~Past(a.to) /\ ~Misplaced(a)
  BY TakeIs DEF OnUpdated
<1>2. PICK m : m = [EndOf(a.record.id, "create") EXCEPT !.session = a.to.session] OBVIOUS
<1>3. /\ m.op = "end" /\ m.then = "create" /\ m.row = a.record.id /\ m.by = "controller"
      /\ m.session = a.to.session
  BY <1>2, EndOfAnotherIs
<1>4. IF a.to.then = "end" THEN requests' = requests \cup {m} ELSE requests' = requests
  BY <1>2 DEF OnUpdated, Send
<1>5. PendingOK'
  <2>1. a.to.session <= session BY <1>1 DEF SInv, PendingOK
  <2> QED BY <1>1, <1>3, <1>4, <2>1, TakenPending DEF Called
<1> SUFFICES ASSUME ~crossed' PROVE OneSession'
  BY <1>5 DEF Kept
<1>6. OneSession /\ PendingOK /\ ~Past(a.to) /\ ~Misplaced(a) BY <1>1 DEF SInv
<1>7. cache' = a.record /\ a.record.id = cache.id /\ a.to.op = "update" /\ a.ok
  BY <1>6 DEF OnUpdated, Misplaced
<1>8. CASE a.to.by \in Updaters
  <2>1. a.to.then = "nothing" BY <1>1, <1>6, <1>8 DEF PendingOK
  <2> QED BY <1>1, <1>4, <1>6, <1>7, <1>8, <2>1, BesideAnswered DEF Ignored
<1>9. CASE a.to.by \notin Updaters
  <2>1. Ours(a.to) /\ Fits(a.to) /\ a \in Answered BY <1>6, <1>9, PromptAnswer
  <2>2. ctl = "retiring" /\ a.to.then = "end" /\ a.to.row = own
    BY <1>7, <2>1 DEF Fits
  <2>3. own = cache.id /\ cache.id # 0 BY <1>6, <2>2 DEF OneSession, CacheFits
  <2>4. (\A n \in requests : ~Ours(n)) /\ \A b \in answers' : ~Ours(b.to)
    BY <1>1, <1>6, <2>1, <2>2, LastAnswer
  <2>5. Ours(m) BY <1>3, <2>1 DEF Ours
  <2>6. CacheFits' /\ Fits(m)' BY <1>1, <1>3, <1>7, <2>2, <2>3 DEF CacheFits, Fits
  <2>7. LeftCached' BY <1>1, <1>6, <1>7, RowsSame DEF OneSession, RowsKept, LeftCached
  <2> QED BY <1>1, <1>4, <1>6, <1>7, <2>2, <2>4, <2>5, <2>6, <2>7, CallKeeps
          DEF RecordAssumption
<1> QED BY <1>8, <1>9

LEMMA OnUpdateFailedOne ==
  ASSUME RecordAssumption, IInv, SInv, NEW a \in answers, OnUpdateFailed(a)
  PROVE  Kept
<1>1. /\ row' = row /\ answers' = answers \ {a} /\ cache' = cache /\ a.to \in Pending
      /\ ~crossed' => ~crossed /\ OneSession /\ ~Past(a.to)
  BY TakeIs DEF OnUpdateFailed
<1>2. PendingOK'
  <2>1. CASE Ignored BY <1>1, <2>1, TakenPending DEF Ignored
  <2>2. CASE Fails(requests) BY <1>1, <2>2, FailsSends, TakenPending
  <2> QED BY <2>1, <2>2 DEF OnUpdateFailed
<1> SUFFICES ASSUME ~crossed' PROVE OneSession'
  BY <1>2 DEF Kept
<1>3. OneSession /\ PendingOK /\ ~Past(a.to) /\ a.to.op = "update"
  BY <1>1 DEF SInv, OnUpdateFailed
<1>4. CASE a.to.by \in Updaters
  <2>1. a.to.then = "nothing" BY <1>1, <1>3, <1>4 DEF PendingOK
  <2>2. Ignored BY <2>1 DEF OnUpdateFailed
  <2> QED BY <1>1, <1>3, <1>4, <2>2, BesideAnswered
<1>5. CASE a.to.by \notin Updaters
  <2>1. Ours(a.to) /\ Fits(a.to) /\ a \in Answered BY <1>3, <1>5, PromptAnswer
  <2>2. ctl = "retiring" /\ a.to.then = "end" BY <1>3, <2>1 DEF Fits
  <2>3. own = cache.id /\ cache.id # 0 BY <1>3, <2>2 DEF OneSession, CacheFits
  <2>4. Finish(requests) BY <1>3, <2>2 DEF OnUpdateFailed, Fails
  <2>5. PICK m : m = EndOf(cache.id, "nothing") OBVIOUS
  <2>6. ctl' = "ending" /\ session' = session /\ requests' = requests \cup {m}
    BY <2>3, <2>4, <2>5 DEF Finish
  <2>7. Ours(m) /\ m.op = "end" /\ m.then = "nothing" BY <2>5, EndIs DEF Ours
  <2>8. (\A n \in requests : ~Ours(n)) /\ \A b \in answers' : ~Ours(b.to)
    BY <1>1, <1>3, <2>1, <2>2, LastAnswer
  <2>9. CacheFits' /\ Fits(m)' BY <1>1, <2>3, <2>6, <2>7 DEF CacheFits, Fits
  <2>10. LeftCached' BY <1>1, <1>3, RowsSame DEF OneSession, RowsKept, LeftCached
  <2> QED BY <1>1, <1>3, <2>6, <2>7, <2>8, <2>9, <2>10, CallKeeps DEF RecordAssumption
<1> QED BY <1>4, <1>5

LEMMA OnEndedOne ==
  ASSUME RecordAssumption, IInv, SInv, NEW a \in answers, OnEnded(a)
  PROVE  Kept
<1>1. /\ Take(a) /\ row' = row /\ answers' = answers \ {a} /\ cache' = Null
      /\ ~crossed' => ~crossed /\ OneSession /\ ~Past(a.to)
  BY TakeIs DEF OnEnded
<1>2. cache'.id = 0 BY <1>1 DEF Null
<1>3. CASE ctl' = "off" /\ NextSession /\ requests' = requests
  BY <1>1, <1>2, <1>3, TakenOver DEF NextSession
<1>4. CASE Past(a.to) /\ Ignored
  BY <1>1, <1>4, TakenPending DEF Ignored, Kept
<1>5. CASE ~Past(a.to) /\ a.ok /\ a.to.then = "create" /\ Create /\ session' = session
  <2>1. PendingOK' BY <1>1, <1>5, CreateSends, TakenPending
  <2> SUFFICES ASSUME ~crossed' PROVE OneSession'
    BY <2>1 DEF Kept
  <2>2. OneSession /\ PendingOK BY <1>1 DEF SInv
  <2>3. Ours(a.to) /\ Fits(a.to) /\ a \in Answered /\ a.to.op = "end"
    BY <1>5, <2>2, PromptAnswer DEF OnEnded
  <2>4. ctl = "retiring" BY <1>5, <2>3 DEF Fits
  <2>5. own = cache.id /\ cache.id # 0 BY <2>2, <2>4 DEF OneSession, CacheFits
  <2>6. row[cache.id].status = "ended"
    BY <1>5, <2>2, <2>3, <2>4, <2>5 DEF OneSession, Told, RetireTold
  <2>7. Left = {} BY <2>2, <2>5, <2>6 DEF OneSession, RowsKept, LeftCached, Left
  <2>8. PICK m : m = Ask("create") OBVIOUS
  <2>9. ctl' = "creating" /\ requests' = requests \cup {m}
    BY <1>2, <1>5, <2>8 DEF Create, Send
  <2>10. Ours(m) /\ m.op = "create" BY <2>8, AskIs DEF Ours
  <2>11. (\A n \in requests : ~Ours(n)) /\ \A b \in answers' : ~Ours(b.to)
    BY <1>1, <2>2, <2>3, <2>4, LastAnswer
  <2>12. CacheFits' /\ LeftCached' BY <1>2, <2>9 DEF CacheFits, LeftCached
  <2>13. Fits(m)' BY <2>9, <2>10 DEF Fits
  <2> QED BY <1>1, <1>5, <2>2, <2>6, <2>7, <2>9, <2>10, <2>11, <2>12, <2>13, CallKeeps
          DEF RecordAssumption
<1> QED BY <1>3, <1>4, <1>5 DEF OnEnded

LEMMA HandleOne ==
  ASSUME RecordAssumption, IInv, SInv, NEW a \in answers, Handle(a)
  PROVE  Kept
  BY OnCreatedOne, OnListedOne, OnListedSkippingOne, OnSkippedOne, OnRestoreFailedOne,
     OnUnawaitedOne, OnUpdatedOne, OnUpdateFailedOne, OnEndedOne DEF Handle
---------------------------------------------------------------------------
(* One session: the theorems *)

LEMMA InitOne == Init => SInv
<1> SUFFICES ASSUME Init PROVE SInv
  OBVIOUS
<1>1. Pending = {} /\ requests = {} /\ answers = {} BY DEF Init, Pending
<1>2. Left = {} /\ RestorableActive BY DEF Init, Left, RestorableActive, Absent, Rows
<1>3. cache.id = 0 /\ ctl = "off" BY DEF Init, Null
<1>4. PendingOK BY <1>1 DEF PendingOK
<1>5. CacheFits /\ CallsFit /\ Beside BY <1>1, <1>3 DEF CacheFits, CallsFit, Beside
<1>6. CalledOnce /\ Answered = {} BY <1>1 DEF CalledOnce, Answered
<1>7. RowsKept BY <1>2, <1>3 DEF RowsKept, LeftCached, LeftOne, OwnActive
<1>8. Told BY <1>3, <1>6 DEF Told, AnswersOwn, ListTold, SkipsTold, CreateTold, RetireTold
<1> QED BY <1>4, <1>5, <1>6, <1>7, <1>8 DEF SInv, OneSession

LEMMA StepOne == RecordAssumption /\ IInv /\ SInv /\ [Next]_vars => SInv'
<1> SUFFICES ASSUME RecordAssumption, IInv, SInv, [Next]_vars PROVE Kept
  BY DEF Kept, SInv
<1>1. CASE Start \/ StartOverEnd \/ Connect \/ Retire \/ End BY <1>1, ControllerOne
<1>2. CASE GiveUp \/ Reload BY <1>2, GiveUpOne, ReloadOne
<1>3. ASSUME NEW u \in Updaters, NEW restorable \in BOOLEAN, NEW handle \in BOOLEAN,
             UpdateResumption(u, restorable, handle)
      PROVE  Kept
  BY <1>3, UpdateOne DEF UpdateResumption
<1>4. ASSUME NEW u \in Updaters, InvalidateResumption(u)
      PROVE  Kept
  <2>1. Update(u, FALSE, FALSE)
    BY <1>4 DEF InvalidateResumption
  <2> QED BY <2>1, UpdateOne, Zenon
<1>5. ASSUME NEW m \in requests, Serve(m) PROVE Kept BY <1>5, ServeOne
<1>6. ASSUME NEW a \in answers, Handle(a) PROVE Kept BY <1>6, HandleOne
<1>7. CASE UNCHANGED vars
  <2>1. PendingOK' BY <1>7 DEF vars, SInv, PendingOK, Pending
  <2>2. Left' = Left /\ Answered' = Answered /\ Pending' = Pending
    BY <1>7 DEF vars, Left, Answered, Pending, Ours
  <2>3. OneSession => OneSession'
    <3>1. CacheFits /\ CallsFit /\ CalledOnce /\ Beside => (CacheFits /\ CallsFit /\ CalledOnce /\ Beside)'
      BY <1>7, <2>2 DEF vars, CacheFits, CallsFit, CalledOnce, Beside, Fits, Ours
    <3>2. RowsKept => RowsKept'
      BY <1>7, <2>2 DEF vars, RowsKept, RestorableActive, LeftCached, LeftOne, OwnActive
    <3>3. Told => Told'
      BY <1>7, <2>2 DEF vars, Told, AnswersOwn, ListTold, SkipsTold, CreateTold, RetireTold, Ours
    <3> QED BY <3>1, <3>2, <3>3 DEF OneSession
  <2> QED BY <1>7, <2>1, <2>3 DEF vars, Kept, SInv
<1> QED BY <1>1, <1>2, <1>3, <1>4, <1>5, <1>6, <1>7 DEF Next

\* Unless sessions cross, what the controller awaits, what it has cached and the rows
\* agree in every reachable state.
THEOREM OneSessionInvariance == Spec => []SInv
<1>1. RecordAssumption
  BY RecordAssumption
<1> QED BY <1>1, InitOne, StepOne, RecordInvariant, PTL DEF Spec

\* While a session is up, the updates and the end that are sent for the cached record
\* reach its own row, which is active, unless a request or an answer of another
\* session took effect (restoreCurrentLiveSession, startCurrentLiveSession).
THEOREM OwnRecordAlways == Spec => []OwnRecord
<1>1. SInv => OwnRecord
  BY DEF SInv, OneSession, CacheFits, RowsKept, OwnActive, OwnRecord
<1> QED BY <1>1, OneSessionInvariance, PTL

\* Failed requests and lost answers never leave a chat with two active rows that the
\* next start would have to choose from, but for stranded ones.
THEOREM OneActiveRowAlways == Spec => []OneActiveRow
<1>1. SInv => OneActiveRow
  BY DEF SInv, OneSession, RowsKept, LeftOne, Left, OneActiveRow
<1> QED BY <1>1, OneSessionInvariance, PTL
=============================================================================
