-------------------------- MODULE LiveSessionProofs --------------------------
(***************************************************************************)
(* Theorems about LiveSession, for every number of calls and transports.   *)
(***************************************************************************)
EXTENDS LiveSession, TLAPS
-----------------------------------------------------------------------------
(* What the helper operators return.                                       *)

\* The reducer returns an engine state, whatever the event.
LEMMA StepType == ASSUME NEW e \in EngineStates, NEW ev
                  PROVE  Step(e, ev) \in EngineStates
<1>1. NextLife(e.life, ev) \in Lifecycles
  BY DEF NextLife, EngineStates, Lifecycles
<1>2. NextStatus(e.status, ev) \in Statuses
  BY DEF NextStatus, EngineStates, Statuses, Failures
<1> QED BY <1>1, <1>2 DEF Step, EngineStates

\* Publishing an engine state keeps the session's variables typed.
LEMMA ShowType == ASSUME NEW e \in EngineStates, NEW s \in Statuses,
                         NEW armed \in SUBSET {"recovery", "silence"},
                         Show(e, s, armed)
                  PROVE  SessionOK'
BY DEF Show, SessionOK, TimersOf

LEMMA PublishType == ASSUME SessionOK, NEW e \in EngineStates, Publish(e)
                     PROVE  SessionOK'
<1>1. e.status \in Statuses BY DEF EngineStates
<1> QED BY <1>1, ShowType DEF Publish, SessionOK

LEMMA CallType == ASSUME NEW aim \in Aims, NEW at \in Awaits
                  PROVE  Call(aim, at) \in CallRecords
BY DEF Call, CallRecords

LEMMA IdleType == Idle \in CallRecords
BY CallType DEF Idle, Aims, Awaits

LEMMA GotoType == ASSUME CallsOK, NEW t \in Tasks, NEW at \in Awaits, Goto(t, at)
                  PROVE  task' \in [Tasks -> CallRecords]
BY DEF Goto, CallsOK, CallRecords

LEMMA DoneType == ASSUME CallsOK, NEW t \in Tasks, Done(t)
                  PROVE  task' \in [Tasks -> CallRecords]
BY IdleType DEF Done, CallsOK

LEMMA DetachType == ASSUME WiringOK, Detach
                    PROVE  WiringOK' /\ interrupting' \in BOOLEAN
BY DEF Detach, WiringOK

LEMMA AttachType == ASSUME WiringOK, NEW x \in Transports, Attach(x)
                    PROVE  WiringOK' /\ interrupting' \in BOOLEAN
BY DEF Attach, WiringOK

\* Starting a teardown, or skipping it, moves one of the calls and publishes.
LEMMA TeardownType ==
    ASSUME SessionOK, NEW t \in Tasks, NEW aim \in Aims, NEW e \in EngineStates,
           NEW s \in Statuses, NEW transport, NEW others \in [Tasks -> CallRecords],
           mic \in BOOLEAN,
           EnterTeardown(t, aim, e, s, transport, others)
              \/ SkipTeardown(t, aim, e, s, transport, others)
    PROVE  SessionOK' /\ task' \in [Tasks -> CallRecords]
<1> DEFINE busy == Busy(e, s, transport)
           next == IF busy THEN Step(e, "session.end.requested") ELSE e
           status == IF busy THEN next.status ELSE s
<1>1. next \in EngineStates /\ status \in Statuses
  <2>1. next \in EngineStates BY StepType
  <2> QED BY <2>1 DEF EngineStates
<1>2. CASE EnterTeardown(t, aim, e, s, transport, others)
  <2>1. /\ Show(next, status, timers)
        /\ task' = [others EXCEPT ![t] = [Call(aim, "teardown") EXCEPT !.noted = mic]]
    BY <1>2 DEF EnterTeardown
  <2>2. SessionOK' BY <2>1, <1>1, ShowType DEF SessionOK
  <2>3. [Call(aim, "teardown") EXCEPT !.noted = mic] \in CallRecords
    BY DEF Call, CallRecords, Awaits
  <2> QED BY <2>1, <2>2, <2>3
<1>3. CASE SkipTeardown(t, aim, e, s, transport, others)
  <2>1. SessionOK' BY <1>3, ShowType DEF SkipTeardown, SessionOK
  <2>2. Call(aim, "endLive") \in CallRecords BY CallType DEF Awaits
  <2> QED BY <1>3, <2>1, <2>2 DEF SkipTeardown
<1> QED BY <1>2, <1>3

\* Settling an error takes the operation, leaves speech mode and ends the session.
LEMMA SettleType ==
    ASSUME TypeOK, NEW t \in Tasks, NEW e \in EngineStates, NEW transport,
           NEW others \in [Tasks -> CallRecords], Settle(t, e, transport, others)
    PROVE  /\ mode' \in {"inactive", "speech"}
           /\ SessionOK' /\ ResumptionOK' /\ CallsOK'
<1>1. Step(e, "session.error") \in EngineStates BY StepType
<1>2. SessionOK' /\ task' \in [Tasks -> CallRecords]
  BY <1>1, TeardownType DEF Settle, TypeOK, Aims, Statuses
<1> QED BY <1>2 DEF Settle, TypeOK, CallsOK, ResumptionOK

\* The effects of a transport reporting 'disconnected'.
LEMMA AfterDropType == ASSUME SessionOK, NEW x PROVE AfterDrop(x) \in EngineStates
BY StepType DEF AfterDrop, SessionOK

LEMMA DropType == ASSUME TypeOK, NEW x, DropWiring(x)
                  PROVE  WiringOK' /\ interrupting' \in BOOLEAN
BY DetachType DEF DropWiring, WiringOK, TypeOK, wiring

LEMMA PublishDropType == ASSUME SessionOK, NEW x, PublishDrop(x)
                         PROVE  SessionOK'
<1>1. CASE Dropped(x)
  BY <1>1, AfterDropType, ShowType DEF PublishDrop, Statuses
<1>2. CASE ~Dropped(x)
  BY <1>2 DEF PublishDrop, SessionOK, session
<1> QED BY <1>1, <1>2

LEMMA CloseSocketType ==
    ASSUME TypeOK, NEW t \in Tasks, NEW x \in Transports, NEW at \in Awaits,
           CloseSocket(t, x, at)
    PROVE  SocketsOK' /\ task' \in [Tasks -> CallRecords]
<1>1. SocketsOK' BY DEF CloseSocket, TypeOK, SocketsOK, Phases
<1>2. [task[t] EXCEPT !.at = at] \in CallRecords
  BY DEF TypeOK, CallsOK, CallRecords
<1>3. \A u \in Tasks : task[u] \in CallRecords BY DEF TypeOK, CallsOK
<1> QED BY <1>1, <1>2, <1>3, IdleType DEF CloseSocket

LEMMA BeginSessionType ==
    ASSUME TypeOK, NEW t \in Tasks, NEW e \in EngineStates, NEW s \in Statuses,
           NEW armed \in SUBSET {"recovery", "silence"}, BeginSession(t, e, s, armed)
    PROVE  /\ mode' \in {"inactive", "speech"}
           /\ SessionOK' /\ ResumptionOK' /\ task' \in [Tasks -> CallRecords]
<1>1. CASE StartAccepted(e)
  <2>1. SessionOK'
    BY <1>1, StepType, ShowType DEF BeginSession, Statuses
  <2>2. Call("start", "chat") \in CallRecords BY CallType DEF Aims, Awaits
  <2>3. ResumptionOK'
    <3>1. attempts' = 0 BY <1>1 DEF BeginSession
    <3>2. attempts' \in 0..MaxRecoveryAttempts BY <3>1, SessionAssumption
    <3>3. resuming' = FALSE /\ canResume' = FALSE BY DEF BeginSession
    <3> QED BY <3>2, <3>3 DEF ResumptionOK
  <2> QED BY <1>1, <2>1, <2>2, <2>3 DEF BeginSession, TypeOK, CallsOK
<1>2. CASE ~StartAccepted(e)
  <2>1. SessionOK' BY <1>2, ShowType DEF BeginSession
  <2>2. task' \in [Tasks -> CallRecords] BY <1>2, DoneType DEF BeginSession, TypeOK
  <2> QED BY <1>2, <2>1, <2>2 DEF BeginSession, TypeOK, ResumptionOK
<1> QED BY <1>1, <1>2

LEMMA DialType ==
    ASSUME TypeOK, NEW t \in Tasks, NEW x \in Transports, NEW at \in Awaits, Dial(t, x, at)
    PROVE  SocketsOK' /\ task' \in [Tasks -> CallRecords]
<1>1. SocketsOK' BY DEF Dial, TypeOK, SocketsOK, Phases
<1>2. task' \in [Tasks -> CallRecords] BY DEF Dial, TypeOK, CallsOK, CallRecords
<1> QED BY <1>1, <1>2

\* A failed fallback settles the error if it is current, and is forgotten if not.
LEMMA FallbackFailedType ==
    ASSUME TypeOK, NEW t \in Tasks, NEW e \in EngineStates, NEW transport,
           FallbackFailed(t, e, transport), ~Current(t) => SessionOK'
    PROVE  mode' \in {"inactive", "speech"} /\ SessionOK' /\ ResumptionOK' /\ CallsOK'
<1>1. CASE Current(t) /\ Settle(t, e, transport, task)
  BY <1>1, SettleType DEF TypeOK, CallsOK
<1>2. CASE ~Current(t) /\ Done(t) /\ UNCHANGED <<mode, resumption, operation>>
  <2>1. task' \in [Tasks -> CallRecords] BY <1>2, DoneType DEF TypeOK
  <2> QED BY <1>2, <2>1 DEF TypeOK, ResumptionOK, CallsOK, resumption
<1> QED BY <1>1, <1>2 DEF FallbackFailed

\* A connect() that rejects moves its call on, or settles the error.
LEMMA RejectedType ==
    ASSUME TypeOK, NEW t \in Tasks, Rejected(t)
    PROVE  mode' \in {"inactive", "speech"} /\ SessionOK' /\ ResumptionOK' /\ CallsOK'
<1> USE DEF TypeOK
<1>1. CASE task[t].at = "connectRestored"
  <2>1. task' \in [Tasks -> CallRecords] BY <1>1, GotoType DEF Rejected, Awaits
  <2> QED BY <1>1, <2>1 DEF Rejected, session, resumption, SessionOK, ResumptionOK, CallsOK
<1>2. CASE task[t].at = "connectFallback"
  <2>1. FallbackFailed(t, engine, active) /\ (~Current(t) => UNCHANGED session)
    BY <1>2 DEF Rejected
  <2>2. ~Current(t) => SessionOK' BY <2>1 DEF session, SessionOK
  <2> HIDE DEF TypeOK
  <2>3. engine \in EngineStates BY DEF TypeOK, SessionOK
  <2> QED BY <2>1, <2>2, <2>3, FallbackFailedType
<1>3. CASE task[t].at = "connectResume"
  <2>1. task' \in [Tasks -> CallRecords]
    BY <1>3, GotoType, DoneType DEF Rejected, Awaits
  <2>2. ResumptionOK' BY <1>3 DEF Rejected, ResumptionOK
  <2> QED BY <1>3, <2>1, <2>2 DEF Rejected, session, SessionOK, CallsOK
<1> QED BY <1>1, <1>2, <1>3 DEF Rejected

\* A resume counts one attempt of those left.
LEMMA BeginResumeType ==
    ASSUME TypeOK, NEW r \in Tasks, NEW others \in [Tasks -> CallRecords],
           attempts < MaxRecoveryAttempts, BeginResume(r, others)
    PROVE  /\ mode' \in {"inactive", "speech"} /\ interrupting' \in BOOLEAN
           /\ SessionOK' /\ ResumptionOK' /\ WiringOK' /\ CallsOK'
<1> USE DEF BeginResume, TypeOK
<1>1. attempts' \in 0..MaxRecoveryAttempts
  <2>1. attempts \in 0..MaxRecoveryAttempts BY DEF ResumptionOK
  <2> QED BY <2>1, SessionAssumption
<1>2. canResume \in BOOLEAN BY DEF ResumptionOK
<1>3. [Call("resume", "resumeTeardown") EXCEPT !.noted = canResume] \in CallRecords
  BY <1>2 DEF Call, CallRecords, Aims, Awaits
<1>4. CallsOK' BY <1>3 DEF CallsOK
<1>5. ResumptionOK'
  <2>1. resuming' \in BOOLEAN /\ canResume' \in BOOLEAN BY <1>2
  <2> QED BY <1>1, <2>1 DEF ResumptionOK
<1>6. SessionOK' BY DEF SessionOK, Statuses
<1>7. WiringOK' BY DEF WiringOK
<1> QED BY <1>4, <1>5, <1>6, <1>7

\* A lost connection that was heard: resume, or settle at the cap.
LEMMA RecoverType ==
    ASSUME TypeOK, NEW others \in [Tasks -> CallRecords], Recover(others)
    PROVE  /\ mode' \in {"inactive", "speech"} /\ interrupting' \in BOOLEAN
           /\ SessionOK' /\ ResumptionOK' /\ WiringOK' /\ CallsOK'
<1>1. PICK r \in Tasks :
        \/ attempts < MaxRecoveryAttempts /\ BeginResume(r, others)
        \/ Settle(r, engine, active, others) /\ UNCHANGED <<wiring, interrupting>>
  BY DEF Recover
<1>2. CASE attempts < MaxRecoveryAttempts /\ BeginResume(r, others)
  BY <1>2, BeginResumeType
<1>3. CASE Settle(r, engine, active, others) /\ UNCHANGED <<wiring, interrupting>>
  <2>1. engine \in EngineStates BY DEF TypeOK, SessionOK
  <2>2. mode' \in {"inactive", "speech"} /\ SessionOK' /\ ResumptionOK' /\ CallsOK'
    BY <1>3, <2>1, SettleType
  <2> QED BY <1>3, <2>2 DEF TypeOK, WiringOK, wiring
<1> QED BY <1>1, <1>2, <1>3
-----------------------------------------------------------------------------
(* Every step keeps the variables typed.                                   *)

\* What a step that leaves some of the variables alone keeps.
LEMMA KeptTypes ==
    ASSUME TypeOK
    PROVE  /\ UNCHANGED session => SessionOK'
           /\ UNCHANGED resumption => ResumptionOK'
           /\ UNCHANGED wiring => WiringOK'
           /\ UNCHANGED sockets => SocketsOK'
           /\ UNCHANGED <<operation, task>> => CallsOK'
           /\ UNCHANGED voice => /\ interrupting' \in BOOLEAN /\ mic' \in BOOLEAN
                                 /\ hasCapture' \in BOOLEAN
           /\ UNCHANGED microphone => mic' \in BOOLEAN /\ hasCapture' \in BOOLEAN
<1> USE DEF TypeOK
<1>1. UNCHANGED session => SessionOK' BY DEF session, SessionOK
<1>2. UNCHANGED resumption => ResumptionOK' BY DEF resumption, ResumptionOK
<1>3. UNCHANGED wiring => WiringOK' BY DEF wiring, WiringOK
<1>4. UNCHANGED sockets => SocketsOK' BY DEF sockets, SocketsOK
<1>5. UNCHANGED <<operation, task>> => CallsOK' BY DEF CallsOK
<1>6. UNCHANGED microphone => mic' \in BOOLEAN /\ hasCapture' \in BOOLEAN
  BY DEF microphone
<1>7. UNCHANGED voice => interrupting' \in BOOLEAN /\ UNCHANGED microphone BY DEF voice
<1> QED BY <1>1, <1>2, <1>3, <1>4, <1>5, <1>6, <1>7

\* A call that moves on or returns.
LEMMA MovedCalls == ASSUME TypeOK, task' \in [Tasks -> CallRecords], UNCHANGED operation
                    PROVE  CallsOK'
BY DEF TypeOK, CallsOK

\* A call that settles its error, or returns because it was superseded.
LEMMA SettlesOrReturns ==
    ASSUME TypeOK, NEW t \in Tasks, UNCHANGED <<voice, wiring, sockets>>,
           \/ Settle(t, engine, active, task)
           \/ Done(t) /\ UNCHANGED <<mode, session, resumption, operation>>
    PROVE  TypeOK'
<1>1. CASE Settle(t, engine, active, task)
  <2>1. engine \in EngineStates /\ task \in [Tasks -> CallRecords]
    BY DEF TypeOK, SessionOK, CallsOK
  <2>2. mode' \in {"inactive", "speech"} /\ SessionOK' /\ ResumptionOK' /\ CallsOK'
    BY <1>1, <2>1, SettleType
  <2> QED BY <2>2, KeptTypes DEF TypeOK
<1>2. CASE Done(t) /\ UNCHANGED <<mode, session, resumption, operation>>
  <2>1. CallsOK' BY <1>2, DoneType, MovedCalls DEF TypeOK
  <2> QED BY <1>2, <2>1, KeptTypes DEF TypeOK
<1> QED BY <1>1, <1>2

LEMMA StopMediaType == ASSUME TypeOK, NEW t \in Tasks, StopMedia(t) PROVE TypeOK'
<1>1. UNCHANGED <<mode, resumption, operation>> /\ mic' \in BOOLEAN /\ hasCapture' \in BOOLEAN
  BY DEF StopMedia, TypeOK
<1>2. CASE /\ active # None /\ HasSession(active)
           /\ CloseSocket(t, active, "disconnect")
           /\ UNCHANGED <<session, wiring, interrupting>>
  <2>1. active \in Transports BY <1>2 DEF TypeOK, WiringOK
  <2>2. SocketsOK' /\ task' \in [Tasks -> CallRecords]
    BY <1>2, <2>1, CloseSocketType DEF Awaits
  <2> QED BY <1>1, <1>2, <2>2, KeptTypes, MovedCalls DEF TypeOK
<1>3. CASE /\ active # None /\ ~HasSession(active)
           /\ PublishDrop(active) /\ DropWiring(active)
           /\ Goto(t, "playback")
           /\ UNCHANGED sockets
  <2>1. task' \in [Tasks -> CallRecords] BY <1>3, GotoType DEF TypeOK, Awaits
  <2>2. SessionOK' /\ WiringOK' /\ interrupting' \in BOOLEAN
    BY <1>3, PublishDropType, DropType DEF TypeOK
  <2> QED BY <1>1, <1>3, <2>1, <2>2, KeptTypes, MovedCalls DEF TypeOK
<1>4. CASE /\ active = None
           /\ Goto(t, "playback")
           /\ UNCHANGED <<session, wiring, interrupting, sockets>>
  <2>1. task' \in [Tasks -> CallRecords] BY <1>4, GotoType DEF TypeOK, Awaits
  <2> QED BY <1>1, <1>4, <2>1, KeptTypes, MovedCalls DEF TypeOK
<1> QED BY <1>2, <1>3, <1>4 DEF StopMedia

LEMMA ClientClosedType == ASSUME TypeOK, NEW x \in Transports, ClientClosed(x) PROVE TypeOK'
<1>1. SocketsOK' BY DEF ClientClosed, TypeOK, SocketsOK, Phases
<1>2. task' \in [Tasks -> CallRecords]
  <2>1. \A u \in Tasks : [task[u] EXCEPT !.at = "playback"] \in CallRecords
    BY DEF TypeOK, CallsOK, CallRecords, Awaits
  <2>2. \A u \in Tasks : task[u] \in CallRecords BY DEF TypeOK, CallsOK
  <2> QED BY <2>1, <2>2, IdleType DEF ClientClosed
<1>3. SessionOK' /\ WiringOK' /\ interrupting' \in BOOLEAN
  BY PublishDropType, DropType DEF ClientClosed, TypeOK
<1> QED BY <1>1, <1>2, <1>3, KeptTypes, MovedCalls DEF ClientClosed, TypeOK

LEMMA FinishTeardownType == ASSUME TypeOK, NEW t \in Tasks, FinishTeardown(t) PROVE TypeOK'
<1> DEFINE ended == Step(engine, "session.ended")
<1>1. ended \in EngineStates /\ ended.status \in Statuses
  <2>1. ended \in EngineStates BY StepType DEF TypeOK, SessionOK
  <2> QED BY <2>1 DEF EngineStates
<1>2. WiringOK' /\ interrupting' \in BOOLEAN BY DetachType DEF FinishTeardown, TypeOK
<1>3. UNCHANGED <<microphone, operation, sockets>> BY DEF FinishTeardown
<1>4. CASE BeginSession(t, ended, ended.status, {})
  <2>1. /\ mode' \in {"inactive", "speech"}
        /\ SessionOK' /\ ResumptionOK' /\ task' \in [Tasks -> CallRecords]
    BY <1>1, <1>4, BeginSessionType
  <2> QED BY <1>2, <1>3, <2>1, KeptTypes, MovedCalls DEF TypeOK
<1>5. CASE /\ Show(ended, ended.status, {})
           /\ resuming' = FALSE /\ canResume' = FALSE
           /\ task' = [task EXCEPT ![t] = IF task[t].aim = "start" THEN Idle
                                          ELSE Call(task[t].aim, "endLive")]
           /\ UNCHANGED <<mode, attempts>>
  <2>1. SessionOK' BY <1>1, <1>5, ShowType
  <2>2. ResumptionOK' BY <1>5 DEF TypeOK, ResumptionOK
  <2>3. task' \in [Tasks -> CallRecords]
    <3>1. task[t].aim \in Aims BY DEF TypeOK, CallsOK, CallRecords
    <3>2. Call(task[t].aim, "endLive") \in CallRecords BY <3>1, CallType DEF Awaits
    <3> QED BY <1>5, <3>2, IdleType DEF TypeOK, CallsOK
  <2> QED BY <1>2, <1>3, <1>5, <2>1, <2>2, <2>3, KeptTypes, MovedCalls DEF TypeOK
<1> QED BY <1>4, <1>5 DEF FinishTeardown

\* The user's calls: start, end, and the silence timeout.
LEMMA UserCallType ==
    ASSUME TypeOK, NEW t \in Tasks, Start(t) \/ End(t) \/ SilenceTimeout(t)
    PROVE  TypeOK'
<1> DEFINE e == Step(engine, "session.end.requested")
<1>1. /\ engine \in EngineStates /\ ui \in Statuses /\ mic \in BOOLEAN
      /\ timers \in SUBSET {"recovery", "silence"} /\ task \in [Tasks -> CallRecords]
  BY DEF TypeOK, SessionOK, CallsOK
<1>2. e \in EngineStates /\ e.status \in Statuses
  <2>1. e \in EngineStates BY <1>1, StepType
  <2> QED BY <2>1 DEF EngineStates
<1>3. operation' = t /\ UNCHANGED <<voice, wiring, sockets>>
  BY DEF Start, End, SilenceTimeout
<1>4. task' \in [Tasks -> CallRecords] => CallsOK' BY <1>3 DEF CallsOK
<1>5. CASE Start(t)
  <2>1. CASE EnterTeardown(t, "start", engine, ui, active, task)
             /\ UNCHANGED <<mode, resumption>>
    <3>1. SessionOK' /\ task' \in [Tasks -> CallRecords]
      BY <1>1, <2>1, TeardownType DEF TypeOK, Aims
    <3> QED BY <1>3, <1>4, <2>1, <3>1, KeptTypes DEF TypeOK
  <2>2. CASE BeginSession(t, engine, ui, timers)
    <3>1. /\ mode' \in {"inactive", "speech"}
          /\ SessionOK' /\ ResumptionOK' /\ task' \in [Tasks -> CallRecords]
      BY <1>1, <2>2, BeginSessionType
    <3> QED BY <1>3, <1>4, <3>1, KeptTypes DEF TypeOK
  <2> QED BY <1>5, <2>1, <2>2 DEF Start
<1>6. CASE End(t)
  <2>1. SessionOK' /\ task' \in [Tasks -> CallRecords]
    BY <1>1, <1>2, <1>6, TeardownType DEF End, TypeOK, Aims
  <2>2. ResumptionOK' BY <1>6, KeptTypes DEF End, TypeOK, ResumptionOK
  <2> QED BY <1>3, <1>4, <1>6, <2>1, <2>2, KeptTypes DEF End, TypeOK
<1>7. CASE SilenceTimeout(t)
  <2>1. SessionOK' /\ task' \in [Tasks -> CallRecords]
    BY <1>1, <1>7, TeardownType DEF SilenceTimeout, TypeOK, Aims
  <2> QED BY <1>3, <1>4, <1>7, <2>1, KeptTypes DEF SilenceTimeout, TypeOK
<1> QED BY <1>5, <1>6, <1>7

LEMMA MicrophoneType ==
    ASSUME TypeOK, MicStarts \/ MicStops \/ CaptureError \/ TypedTurn
    PROVE  TypeOK'
<1>1. CASE MicStarts BY <1>1, KeptTypes DEF MicStarts, TypeOK
<1>2. CASE MicStops BY <1>2, KeptTypes DEF MicStops, TypeOK
<1>3. CASE CaptureError
  <2>1. engine.status \in Statuses BY DEF TypeOK, SessionOK, EngineStates
  <2>2. ui' \in Statuses BY <1>3, <2>1 DEF CaptureError, TypeOK, SessionOK, Statuses
  <2>3. SessionOK' BY <1>3, <2>2 DEF CaptureError, TypeOK, SessionOK
  <2> QED BY <1>3, <2>3, KeptTypes DEF CaptureError, TypeOK
<1>4. CASE TypedTurn
  <2>1. SessionOK' BY <1>4 DEF TypedTurn, TypeOK, SessionOK
  <2> QED BY <1>4, <2>1, KeptTypes DEF TypedTurn, TypeOK
<1> QED BY <1>1, <1>2, <1>3, <1>4

\* The awaits of a start, a retired record, a refresh or a packet that fails.
LEMMA FailedAwaitType ==
    ASSUME TypeOK, NEW t \in Tasks,
           \/ ChatFails(t) \/ TokenFails(t) \/ RestoreFails(t) \/ RetireFails(t)
           \/ PacketFails(t) \/ RefreshFails(t) \/ ChunkRefused(t)
    PROVE  TypeOK'
<1>1. /\ UNCHANGED <<voice, wiring, sockets>>
      /\ \/ Settle(t, engine, active, task)
         \/ Done(t) /\ UNCHANGED <<mode, session, resumption, operation>>
  BY DEF ChatFails, TokenFails, RestoreFails, RetireFails, PacketFails, RefreshFails,
         ChunkRefused
<1> QED BY <1>1, SettlesOrReturns

\* The awaits of a start that are answered.
LEMMA AnsweredAwaitType ==
    ASSUME TypeOK, NEW t \in Tasks,
           \/ EndLiveDone(t) \/ EndLiveFails(t) \/ ChatReady(t) \/ TokenReady(t)
           \/ RestoreLookup(t) \/ RetireDone(t) \/ PersistDone(t)
    PROVE  TypeOK'
<1>1. engine \in EngineStates BY DEF TypeOK, SessionOK
<1>2. \A ev \in SessionEvents : Step(engine, ev) \in EngineStates BY <1>1, StepType
<1>3. CASE EndLiveDone(t)
  <2>1. CallsOK' BY <1>3, DoneType, MovedCalls DEF EndLiveDone, TypeOK
  <2>2. SessionOK'
    BY <1>2, <1>3, PublishType, KeptTypes DEF EndLiveDone, TypeOK, SessionEvents
  <2> QED BY <1>3, <2>1, <2>2, KeptTypes DEF EndLiveDone, TypeOK
<1>4. CASE EndLiveFails(t)
  <2>1. CallsOK' BY <1>4, DoneType, MovedCalls DEF EndLiveFails, TypeOK
  <2> QED BY <1>4, <2>1, KeptTypes DEF EndLiveFails, TypeOK
<1>5. CASE ChatReady(t)
  <2>1. CallsOK' BY <1>5, DoneType, GotoType, MovedCalls DEF ChatReady, TypeOK, Awaits
  <2>2. SessionOK' BY <1>1, <1>5, PublishType, KeptTypes DEF ChatReady, TypeOK
  <2> QED BY <1>5, <2>1, <2>2, KeptTypes DEF ChatReady, TypeOK
<1>6. CASE TokenReady(t)
  <2>1. CallsOK' BY <1>6, DoneType, GotoType, MovedCalls DEF TokenReady, TypeOK, Awaits
  <2>2. SessionOK' BY <1>1, <1>6, PublishType, KeptTypes DEF TokenReady, TypeOK
  <2>3. ResumptionOK' BY <1>6 DEF TokenReady, TypeOK, ResumptionOK
  <2> QED BY <1>6, <2>1, <2>2, <2>3, KeptTypes DEF TokenReady, TypeOK
<1>7. CASE RestoreLookup(t)
  <2>1. CallsOK' BY <1>7, DoneType, GotoType, MovedCalls DEF RestoreLookup, TypeOK, Awaits
  <2> QED BY <1>7, <2>1, KeptTypes DEF RestoreLookup, TypeOK
<1>8. CASE RetireDone(t)
  <2>1. task[t].aim \in Aims BY DEF TypeOK, CallsOK, CallRecords
  <2>2. Call(task[t].aim, "packet") \in CallRecords BY <2>1, CallType DEF Awaits
  <2>3. CallsOK' BY <1>8, <2>2, IdleType, MovedCalls DEF RetireDone, TypeOK, CallsOK
  <2>4. ResumptionOK' BY <1>8 DEF RetireDone, TypeOK, ResumptionOK
  <2> QED BY <1>8, <2>3, <2>4, KeptTypes DEF RetireDone, TypeOK
<1>9. CASE PersistDone(t)
  <2>1. CallsOK' BY <1>9, DoneType, MovedCalls DEF PersistDone, TypeOK
  <2>2. SessionOK' BY <1>2, <1>9, PublishType DEF PersistDone, TypeOK, SessionEvents
  <2> QED BY <1>9, <2>1, <2>2, KeptTypes DEF PersistDone, TypeOK
<1> QED BY <1>3, <1>4, <1>5, <1>6, <1>7, <1>8, <1>9

\* The steps in which a call connects a transport of its own.
LEMMA ConnectType ==
    ASSUME TypeOK, NEW t \in Tasks, NEW x \in Transports,
           ConnectRestored(t, x) \/ ConnectFallback(t, x)
    PROVE  TypeOK'
<1>1. engine \in EngineStates BY DEF TypeOK, SessionOK
<1>2. \A ev \in SessionEvents : Step(engine, ev) \in EngineStates BY <1>1, StepType
<1>3. UNCHANGED <<mode, microphone, attempts, operation>> /\ Attach(x)
  BY DEF ConnectRestored, ConnectFallback
<1>4. WiringOK' /\ interrupting' \in BOOLEAN BY <1>3, AttachType DEF TypeOK
<1>5. SocketsOK' /\ task' \in [Tasks -> CallRecords]
  BY DialType DEF ConnectRestored, ConnectFallback, Awaits, Connects
<1>6. SessionOK'
  BY <1>2, ShowType DEF ConnectRestored, ConnectFallback, Statuses, SessionEvents
<1>7. ResumptionOK'
  BY <1>3 DEF ConnectRestored, ConnectFallback, TypeOK, ResumptionOK
<1> QED BY <1>3, <1>4, <1>5, <1>6, <1>7, KeptTypes, MovedCalls DEF TypeOK

\* A fallback attempt whose session cannot be recorded.
LEMMA PersistFailsType == ASSUME TypeOK, NEW t \in Tasks, PersistFails(t) PROVE TypeOK'
<1> DEFINE x == task[t].link
<1>1. UNCHANGED microphone /\ task[t].at = "persist" BY DEF PersistFails
<1>2. CASE /\ HasSession(x)
           /\ CloseSocket(t, x, "drop")
           /\ UNCHANGED <<mode, session, interrupting, resumption, operation, wiring>>
  <2>1. SocketsOK' /\ task' \in [Tasks -> CallRecords]
    <3>1. CASE x \in Transports BY <1>2, <3>1, CloseSocketType DEF Awaits
    <3>2. CASE x \notin Transports
      <4>1. SocketsOK' BY <1>2, <3>2 DEF CloseSocket, TypeOK, SocketsOK, Phases
      <4>2. [task[t] EXCEPT !.at = "drop"] \in CallRecords
        BY DEF TypeOK, CallsOK, CallRecords, Awaits
      <4>3. \A u \in Tasks : task[u] \in CallRecords BY DEF TypeOK, CallsOK
      <4> QED BY <1>2, <4>1, <4>2, <4>3, IdleType DEF CloseSocket
    <3> QED BY <3>1, <3>2
  <2> QED BY <1>1, <1>2, <2>1, KeptTypes, MovedCalls DEF TypeOK
<1>3. CASE /\ ~HasSession(x)
           /\ DropWiring(x)
           /\ FallbackFailed(t, AfterDrop(x), IF Dropped(x) THEN None ELSE active)
           /\ ~Current(t) => PublishDrop(x)
           /\ UNCHANGED sockets
  <2>1. ~Current(t) => SessionOK' BY <1>3, PublishDropType DEF TypeOK
  <2>2. AfterDrop(x) \in EngineStates BY AfterDropType DEF TypeOK
  <2>3. mode' \in {"inactive", "speech"} /\ SessionOK' /\ ResumptionOK' /\ CallsOK'
    BY <1>3, <2>1, <2>2, FallbackFailedType
  <2>4. WiringOK' /\ interrupting' \in BOOLEAN BY <1>3, DropType
  <2> QED BY <1>1, <1>3, <2>3, <2>4, KeptTypes DEF TypeOK
<1> QED BY <1>2, <1>3 DEF PersistFails

LEMMA DropClosedType == ASSUME TypeOK, NEW x \in Transports, DropClosed(x) PROVE TypeOK'
<1> DEFINE t == waiter[x]
<1>1. t \in Tasks BY DEF DropClosed, TypeOK, SocketsOK
<1>2. SocketsOK' BY DEF DropClosed, TypeOK, SocketsOK, Phases
<1>3. WiringOK' /\ interrupting' \in BOOLEAN BY DropType DEF DropClosed
<1>4. ~Current(t) => SessionOK' BY PublishDropType DEF DropClosed, TypeOK
<1>5. AfterDrop(x) \in EngineStates BY AfterDropType DEF TypeOK
<1>6. mode' \in {"inactive", "speech"} /\ SessionOK' /\ ResumptionOK' /\ CallsOK'
  <2>1. FallbackFailed(t, AfterDrop(x), IF Dropped(x) THEN None ELSE active)
    BY DEF DropClosed
  <2> QED BY <1>1, <1>4, <1>5, <2>1, FallbackFailedType
<1> QED BY <1>2, <1>3, <1>6, KeptTypes DEF DropClosed, TypeOK

\* The server confirms the setup of a connection.
LEMMA ConnectedType ==
    ASSUME TypeOK, NEW x \in Transports, SdkConnects(x) \/ SetupCompletes(x)
    PROVE  TypeOK'
<1>1. CASE SdkConnects(x)
  <2>1. SocketsOK' BY <1>1 DEF SdkConnects, TypeOK, SocketsOK, Phases
  <2>2. CallsOK' BY <1>1 DEF SdkConnects, TypeOK, CallsOK
  <2> QED BY <1>1, <2>1, <2>2, KeptTypes DEF SdkConnects, TypeOK
<1>2. CASE SetupCompletes(x)
  <2> DEFINE e == AfterConnected(x)
  <2>1. PICK t \in Tasks :
          RestoredConnects(t, x) \/ FallbackConnects(t, x) \/ ResumeConnects(t, x)
    BY <1>2 DEF SetupCompletes
  <2>2. e \in EngineStates BY StepType DEF AfterConnected, TypeOK, SessionOK
  <2>3. UiConnected(x) \in Statuses BY DEF UiConnected, TypeOK, SessionOK, Statuses
  <2>4. timers \in SUBSET {"recovery", "silence"} BY DEF TypeOK, SessionOK
  <2>5. Show(e, UiConnected(x), timers) => SessionOK' BY <2>2, <2>3, <2>4, ShowType
  <2>6. (resuming' \in BOOLEAN /\ UNCHANGED <<canResume, attempts>>) => ResumptionOK'
    BY DEF TypeOK, ResumptionOK
  <2>7. CASE RestoredConnects(t, x)
    <3>1. SocketsOK' BY <2>7 DEF RestoredConnects, TypeOK, SocketsOK, Phases
    <3>2. CallsOK' BY <2>7, DoneType, MovedCalls DEF RestoredConnects, TypeOK
    <3>3. Step(e, "session.ready") \in EngineStates BY <2>2, StepType
    <3>4. SessionOK' BY <2>5, <2>7, <3>3, PublishType DEF RestoredConnects, TypeOK
    <3>5. ResumptionOK' BY <2>6, <2>7 DEF RestoredConnects
    <3> QED BY <2>7, <3>1, <3>2, <3>4, <3>5, KeptTypes DEF RestoredConnects, TypeOK
  <2>8. CASE FallbackConnects(t, x)
    <3>1. SocketsOK' BY <2>8 DEF FallbackConnects, TypeOK, SocketsOK, Phases
    <3>2. CallsOK' BY <2>8, GotoType, MovedCalls DEF FallbackConnects, TypeOK, Awaits
    <3>3. SessionOK' BY <2>5, <2>8 DEF FallbackConnects
    <3>4. ResumptionOK' BY <2>6, <2>8 DEF FallbackConnects
    <3> QED BY <2>8, <3>1, <3>2, <3>3, <3>4, KeptTypes DEF FallbackConnects, TypeOK
  <2>9. CASE ResumeConnects(t, x)
    <3>1. SocketsOK' BY <2>9 DEF ResumeConnects, TypeOK, SocketsOK, Phases
    <3>2. CallsOK' BY <2>9, DoneType, MovedCalls DEF ResumeConnects, TypeOK
    <3>3. SessionOK' BY <2>5, <2>9 DEF ResumeConnects
    <3>4. ResumptionOK' BY <2>6, <2>9 DEF ResumeConnects
    <3>5. WiringOK' BY <2>9, KeptTypes DEF ResumeConnects, TypeOK, WiringOK
    <3> QED BY <2>9, <3>1, <3>2, <3>3, <3>4, <3>5, KeptTypes DEF ResumeConnects, TypeOK
  <2> QED BY <2>1, <2>7, <2>8, <2>9
<1> QED BY <1>1, <1>2

\* The connection fails, is lost, or is announced to go away.
LEMMA LostType ==
    ASSUME TypeOK, NEW x \in Transports,
           SetupFails(x) \/ ConnectionLost(x) \/ GoAwayInSetup(x)
    PROVE  TypeOK'
<1>1. /\ UNCHANGED <<microphone, waiter>>
      /\ \E p \in {"idle", "aborted"} : phase' = [phase EXCEPT ![x] = p]
  BY DEF SetupFails, ConnectionLost, GoAwayInSetup, voice
<1>2. SocketsOK' BY <1>1 DEF TypeOK, SocketsOK, Phases
<1>3. engine \in EngineStates /\ task \in [Tasks -> CallRecords]
  BY DEF TypeOK, SessionOK, CallsOK
<1>4. \A t \in Tasks : [task EXCEPT ![t] = StaleRejected(t)] \in [Tasks -> CallRecords]
  <2>1. \A t \in Tasks : StaleRejected(t) \in CallRecords
    BY <1>3, IdleType DEF StaleRejected, CallRecords, Awaits
  <2> QED BY <1>3, <2>1
<1>5. CASE SetupFails(x)
  <2>0. UNCHANGED <<voice, wiring>> BY <1>5 DEF SetupFails
  <2>1. PICK t \in Connecting(x) :
          \/ \E r \in Tasks : Settle(r, Step(engine, "transport.error"), active,
                                     [task EXCEPT ![t] = StaleRejected(t)])
          \/ Rejected(t)
    BY <1>5 DEF SetupFails
  <2>2. t \in Tasks BY DEF Connecting
  <2>3. Step(engine, "transport.error") \in EngineStates BY <1>3, StepType
  <2>4. mode' \in {"inactive", "speech"} /\ SessionOK' /\ ResumptionOK' /\ CallsOK'
    <3>1. CASE Rejected(t) BY <2>2, <3>1, RejectedType
    <3>2. ASSUME NEW r \in Tasks,
                 Settle(r, Step(engine, "transport.error"), active,
                        [task EXCEPT ![t] = StaleRejected(t)])
          PROVE  mode' \in {"inactive", "speech"} /\ SessionOK' /\ ResumptionOK' /\ CallsOK'
      BY <1>4, <2>2, <2>3, <3>2, SettleType
    <3> QED BY <2>1, <3>1, <3>2
  <2> QED BY <1>2, <2>0, <2>4, KeptTypes DEF TypeOK
<1>6. CASE ConnectionLost(x)
  <2>1. CASE Recover(task)
    BY <1>1, <1>2, <1>3, <2>1, RecoverType, KeptTypes DEF TypeOK
  <2>2. CASE UNCHANGED <<mode, session, interrupting, resumption, operation, wiring, task>>
    BY <1>1, <1>2, <2>2, KeptTypes DEF TypeOK
  <2> QED BY <1>6, <2>1, <2>2 DEF ConnectionLost
<1>7. CASE GoAwayInSetup(x)
  <2>1. PICK t \in Connecting(x) :
          \/ Recover([task EXCEPT ![t] = StaleRejected(t)])
          \/ Rejected(t) /\ UNCHANGED <<interrupting, wiring>>
    BY <1>7 DEF GoAwayInSetup
  <2>2. t \in Tasks BY DEF Connecting
  <2>3. CASE Recover([task EXCEPT ![t] = StaleRejected(t)])
    <3>1. /\ mode' \in {"inactive", "speech"} /\ interrupting' \in BOOLEAN
          /\ SessionOK' /\ ResumptionOK' /\ WiringOK' /\ CallsOK'
      BY <1>4, <2>2, <2>3, RecoverType
    <3> QED BY <1>1, <1>2, <3>1, KeptTypes DEF TypeOK
  <2>4. CASE Rejected(t) /\ UNCHANGED <<interrupting, wiring>>
    <3>1. mode' \in {"inactive", "speech"} /\ SessionOK' /\ ResumptionOK' /\ CallsOK'
      BY <2>2, <2>4, RejectedType
    <3> QED BY <1>1, <1>2, <2>4, <3>1, KeptTypes DEF TypeOK
  <2> QED BY <2>1, <2>3, <2>4
<1> QED BY <1>5, <1>6, <1>7

\* A resume reconnects, gives the record up, or gives way.
LEMMA ReconnectType ==
    ASSUME TypeOK, NEW t \in Tasks, Reconnect(t)
    PROVE  /\ SessionOK' /\ SocketsOK' /\ resuming' \in BOOLEAN /\ canResume' \in BOOLEAN
           /\ WiringOK' /\ task' \in [Tasks -> CallRecords]
<1>1. resuming \in BOOLEAN /\ canResume \in BOOLEAN BY DEF TypeOK, ResumptionOK
<1>2. CASE \E x \in Transports : ConnectResume(t, x)
  <2>1. PICK x \in Transports : ConnectResume(t, x) BY <1>2
  <2>2. SocketsOK' /\ task' \in [Tasks -> CallRecords]
    BY <2>1, DialType DEF ConnectResume, Awaits, Connects
  <2>3. WiringOK' BY <2>1 DEF ConnectResume, TypeOK, WiringOK
  <2>4. SessionOK'
    <3> DEFINE e == Step(engine, IF resuming THEN "transport.connecting.resuming"
                                             ELSE "transport.connecting")
    <3>1. e \in EngineStates BY StepType DEF TypeOK, SessionOK
    <3> QED BY <2>1, <3>1, PublishType DEF ConnectResume, TypeOK
  <2> QED BY <1>1, <2>1, <2>2, <2>3, <2>4 DEF ConnectResume
<1>3. CASE /\ ~task[t].noted
           /\ canResume' = FALSE
           /\ Goto(t, "retire")
           /\ UNCHANGED <<session, resuming, wiring, sockets>>
  <2>1. task' \in [Tasks -> CallRecords] BY <1>3, GotoType DEF TypeOK, Awaits
  <2> QED BY <1>1, <1>3, <2>1, KeptTypes
<1>4. CASE /\ task[t].noted /\ Terminal(ui)
           /\ resuming' = FALSE
           /\ Done(t)
           /\ UNCHANGED <<session, canResume, wiring, sockets>>
  <2>1. task' \in [Tasks -> CallRecords] BY <1>4, DoneType DEF TypeOK
  <2> QED BY <1>1, <1>4, <2>1, KeptTypes
<1> QED BY <1>2, <1>3, <1>4 DEF Reconnect

LEMMA ResumeStepType ==
    ASSUME TypeOK, NEW t \in Tasks, ResumeTeardownDone(t) \/ RefreshDone(t)
    PROVE  TypeOK'
<1>1. UNCHANGED <<mode, voice, attempts, operation>> BY DEF ResumeTeardownDone, RefreshDone
<1>2. (resuming' \in BOOLEAN /\ canResume' \in BOOLEAN) => ResumptionOK'
  BY <1>1 DEF TypeOK, ResumptionOK
<1>3. resuming \in BOOLEAN /\ canResume \in BOOLEAN BY DEF TypeOK, ResumptionOK
<1>4. CASE Reconnect(t)
  <2>1. SessionOK' /\ SocketsOK' /\ ResumptionOK' /\ WiringOK' /\ CallsOK'
    BY <1>1, <1>2, <1>4, ReconnectType, MovedCalls
  <2> QED BY <1>1, <2>1, KeptTypes DEF TypeOK
<1>5. CASE /\ Done(t) \/ Goto(t, "refresh")
           /\ resuming' \in BOOLEAN /\ UNCHANGED <<session, canResume, wiring, sockets>>
  <2>1. CallsOK' BY <1>1, <1>5, DoneType, GotoType, MovedCalls DEF TypeOK, Awaits
  <2> QED BY <1>1, <1>2, <1>3, <1>5, <2>1, KeptTypes DEF TypeOK
<1> QED BY <1>3, <1>4, <1>5 DEF ResumeTeardownDone, RefreshDone

\* What the server says of a session in use, and the timers it starts.
LEMMA TurnType ==
    ASSUME TypeOK,
           \/ \E x \in Transports : ResumptionUpdate(x) \/ AudioError(x) \/ Turn(x)
                                        \/ Interrupted(x)
           \/ PlaybackStopped \/ RecoveryTimer
    PROVE  TypeOK'
<1>1. engine \in EngineStates BY DEF TypeOK, SessionOK
<1>2. \A ev : Step(engine, ev) \in EngineStates BY <1>1, StepType
<1>3. CASE \E x \in Transports : ResumptionUpdate(x)
  <2>1. SessionOK' BY <1>1, <1>3, PublishType DEF ResumptionUpdate, TypeOK
  <2>2. ResumptionOK' BY <1>3 DEF ResumptionUpdate, TypeOK, ResumptionOK
  <2> QED BY <1>3, <2>1, <2>2, KeptTypes DEF ResumptionUpdate, TypeOK
<1>4. CASE \E x \in Transports : AudioError(x)
  <2>1. SessionOK' BY <1>2, <1>4, PublishType DEF AudioError, TypeOK
  <2> QED BY <1>4, <2>1, KeptTypes DEF AudioError, TypeOK
<1>5. CASE \E x \in Transports : Turn(x)
  <2>1. PICK ev \in TurnEvents : Publish(Step(engine, ev)) BY <1>5 DEF Turn
  <2>2. SessionOK' BY <1>2, <2>1, PublishType DEF TypeOK
  <2> QED BY <1>5, <2>2, KeptTypes DEF Turn, TypeOK
<1>6. CASE \E x \in Transports : Interrupted(x)
  <2>1. SessionOK' BY <1>2, <1>6, PublishType DEF Interrupted, TypeOK
  <2> QED BY <1>6, <2>1, KeptTypes DEF Interrupted, TypeOK
<1>7. CASE PlaybackStopped
  <2>1. SessionOK' BY <1>2, <1>7, PublishType, KeptTypes DEF PlaybackStopped, TypeOK
  <2> QED BY <1>7, <2>1, KeptTypes DEF PlaybackStopped, TypeOK
<1>8. CASE RecoveryTimer
  <2>1. NextStatus(engine.status, "turn.recovery.completed") \in Statuses
    BY <1>2 DEF EngineStates, Step
  <2>2. timers \ {"recovery"} \in SUBSET {"recovery", "silence"} BY DEF TypeOK, SessionOK
  <2>3. SessionOK' BY <1>2, <1>8, <2>1, <2>2, ShowType DEF RecoveryTimer
  <2> QED BY <1>8, <2>3, KeptTypes DEF RecoveryTimer, TypeOK
<1> QED BY <1>3, <1>4, <1>5, <1>6, <1>7, <1>8

\* The variables keep their types in every behaviour; among the rest, a session
\* never gets more than MaxRecoveryAttempts automatic resumes.
THEOREM TypeCorrect == Spec => []TypeOK
<1>1. Init => TypeOK
  <2> SUFFICES ASSUME Init PROVE TypeOK OBVIOUS
  <2>1. SessionOK BY DEF Init, SessionOK, InitialEngine, EngineStates, Lifecycles, Statuses
  <2>2. attempts \in 0..MaxRecoveryAttempts BY SessionAssumption DEF Init
  <2>3. ResumptionOK BY <2>2 DEF Init, ResumptionOK
  <2>4. WiringOK BY DEF Init, WiringOK
  <2>5. SocketsOK BY DEF Init, SocketsOK, Phases
  <2>6. CallsOK BY IdleType DEF Init, CallsOK
  <2> QED BY <2>1, <2>3, <2>4, <2>5, <2>6 DEF Init, TypeOK
<1>2. TypeOK /\ [Next]_vars => TypeOK'
  <2> SUFFICES ASSUME TypeOK, [Next]_vars PROVE TypeOK' OBVIOUS
  <2>1. CASE User
    BY <2>1, MicrophoneType, UserCallType, FailedAwaitType DEF User
  <2>2. ASSUME NEW t \in Tasks, Continue(t) PROVE TypeOK'
    BY <2>2, StopMediaType, FinishTeardownType, FailedAwaitType, AnsweredAwaitType,
       ConnectType, PersistFailsType, ResumeStepType DEF Continue
  <2>3. ASSUME NEW x \in Transports, Settles(x) \/ Server(x) PROVE TypeOK'
    BY <2>3, ConnectedType, LostType, ClientClosedType, DropClosedType, TurnType
       DEF Settles, Server
  <2>4. CASE PlaybackStopped \/ RecoveryTimer BY <2>4, TurnType
  <2>5. CASE UNCHANGED vars
    BY <2>5, KeptTypes DEF vars, session, voice, microphone, TypeOK
  <2> QED BY <2>1, <2>2, <2>3, <2>4, <2>5 DEF Next
<1> QED BY <1>1, <1>2, PTL DEF Spec
-----------------------------------------------------------------------------
(* The wiring: who is heard, and who attaches a transport.  Every step     *)
(* leaves the wiring alone or frees it, begins a session with nothing      *)
(* attached, or attaches a transport for the latest operation.             *)

Wired == TypeOK /\ OneListener /\ WiringFree

Unwired == active' = None /\ slot' = None /\ listening' = listening \ {slot}

\* The latest operation does not come to wait for its connection over a transport
\* that is still attached.
FreeStep ==
    \/ operation' \in Tasks /\ task'[operation'].at \notin BeforeConnect
    \/ /\ operation' = operation
       /\ \A t \in Tasks :
             Current(t) /\ task'[t].at \in BeforeConnect => task[t].at \in BeforeConnect

Moves == /\ UNCHANGED wiring \/ Unwired
         /\ attempts' \in {attempts, attempts + 1}
         /\ FreeStep

Begins == active' = None /\ slot' = None /\ listening' = {}

Attaches ==
    \E t \in Tasks, x \in Transports :
        /\ active' = x /\ slot' = x /\ listening' = {x}
        /\ operation' = t /\ task'[t].link = x /\ task'[t].at \in Connects
        /\ attempts' = attempts

WiringStep == Moves \/ Begins \/ Attaches

LEMMA UnwiredHearsNobody == ASSUME OneListener, Unwired PROVE Begins
BY DEF OneListener, Unwired, Begins

LEMMA SettleTakes ==
    ASSUME NEW t \in Tasks, NEW e, NEW transport, NEW others \in [Tasks -> CallRecords],
           Settle(t, e, transport, others)
    PROVE  attempts' = attempts /\ FreeStep
<1>1. task'[t].at \in {"teardown", "endLive"}
  BY DEF Settle, EnterTeardown, SkipTeardown, Call
<1> QED BY <1>1 DEF Settle, FreeStep, BeforeConnect

\* A call that returns, or goes to an await after its connection.
LEMMA GotoFree ==
    ASSUME CallsOK, NEW t \in Tasks, operation' = operation,
           \/ Done(t)
           \/ \E at \in Awaits \ BeforeConnect : Goto(t, at)
           \/ task[t].at \in BeforeConnect /\ \E at \in BeforeConnect : Goto(t, at)
    PROVE  FreeStep
<1>1. \A u \in Tasks : u # t => task'[u] = task[u]
  BY DEF CallsOK, Done, Goto
<1>2. task'[t].at \in BeforeConnect => task[t].at \in BeforeConnect
  <2>1. CASE Done(t) BY <2>1 DEF CallsOK, Done, Idle, Call, BeforeConnect
  <2>2. CASE \E at \in Awaits \ BeforeConnect : Goto(t, at)
    BY <2>2 DEF CallsOK, CallRecords, Goto
  <2> QED BY <2>1, <2>2
<1> QED BY <1>1, <1>2 DEF FreeStep

LEMMA DropUnwires == ASSUME NEW x, DropWiring(x) PROVE UNCHANGED wiring \/ Unwired
BY DEF DropWiring, Detach, Unwired

LEMMA CloseSocketFree ==
    ASSUME CallsOK, NEW t \in Tasks, NEW x, NEW at \in Awaits \ BeforeConnect,
           CloseSocket(t, x, at), operation' = operation
    PROVE  FreeStep
BY DEF CallsOK, CallRecords, CloseSocket, Idle, Call, FreeStep, BeforeConnect

LEMMA FallbackFailedMoves ==
    ASSUME CallsOK, NEW t \in Tasks, NEW e, NEW transport, FallbackFailed(t, e, transport)
    PROVE  attempts' = attempts /\ FreeStep
<1>1. CASE Settle(t, e, transport, task) BY <1>1, SettleTakes DEF CallsOK
<1>2. CASE Done(t) /\ UNCHANGED <<mode, resumption, operation>>
  BY <1>2, GotoFree DEF resumption
<1> QED BY <1>1, <1>2 DEF FallbackFailed

LEMMA RejectedMoves ==
    ASSUME CallsOK, NEW t \in Tasks, Rejected(t)
    PROVE  attempts' = attempts /\ FreeStep
<1>1. CASE task[t].at = "connectRestored"
  BY <1>1, GotoFree DEF Rejected, resumption, Awaits, BeforeConnect
<1>2. CASE task[t].at = "connectFallback" BY <1>2, FallbackFailedMoves DEF Rejected
<1>3. CASE task[t].at = "connectResume"
  BY <1>3, GotoFree DEF Rejected, resumption, Awaits, BeforeConnect
<1> QED BY <1>1, <1>2, <1>3 DEF Rejected

LEMMA StopMediaWiring == ASSUME Wired, NEW t \in Tasks, StopMedia(t) PROVE WiringStep
<1>0. CallsOK BY DEF Wired, TypeOK
<1>1. attempts' = attempts /\ operation' = operation BY DEF StopMedia, resumption
<1>2. CASE CloseSocket(t, active, "disconnect") /\ UNCHANGED <<session, wiring, interrupting>>
  BY <1>0, <1>1, <1>2, CloseSocketFree DEF WiringStep, Moves, Awaits, BeforeConnect
<1>3. CASE Goto(t, "playback") /\ (UNCHANGED wiring \/ DropWiring(active))
  <2>1. FreeStep BY <1>0, <1>1, <1>3, GotoFree DEF Awaits, BeforeConnect
  <2> QED BY <1>1, <1>3, <2>1, DropUnwires DEF WiringStep, Moves
<1> QED BY <1>2, <1>3 DEF StopMedia

LEMMA ClientClosedWiring ==
    ASSUME Wired, NEW x \in Transports, ClientClosed(x) PROVE WiringStep
<1>1. FreeStep
  <2>1. \A u \in Tasks : task'[u].at \in BeforeConnect => task[u].at \in BeforeConnect
    BY DEF ClientClosed, Wired, TypeOK, CallsOK, CallRecords, Idle, Call, BeforeConnect
  <2> QED BY <2>1 DEF FreeStep, ClientClosed
<1> QED BY <1>1, DropUnwires DEF ClientClosed, WiringStep, Moves, resumption

\* A start: over nothing attached, or behind a teardown.
LEMMA StartWiring ==
    ASSUME Wired, NEW t \in Tasks, Start(t) \/ FinishTeardown(t)
    PROVE  WiringStep
<1>0. CallsOK /\ WiringOK /\ OneListener BY DEF Wired, TypeOK
<1>1. CASE Start(t)
  <2>1. UNCHANGED wiring /\ operation' = t BY <1>1 DEF Start
  <2>2. CASE EnterTeardown(t, "start", engine, ui, active, task) /\ UNCHANGED resumption
    <3>1. task'[t].at = "teardown" BY <1>0, <2>2 DEF EnterTeardown, CallsOK, Call
    <3>2. FreeStep BY <2>1, <3>1 DEF FreeStep, BeforeConnect
    <3> QED BY <2>1, <2>2, <3>2 DEF WiringStep, Moves, resumption
  <2>3. CASE NothingToTearDown(engine, ui, active)
    <3>1. active = None BY <2>3 DEF NothingToTearDown, Busy
    <3>2. slot = None /\ listening = {}
      BY <1>0, <3>1, SessionAssumption DEF OneListener, WiringOK
    <3> QED BY <2>1, <3>1, <3>2 DEF WiringStep, Begins, wiring
  <2> QED BY <1>1, <2>2, <2>3 DEF Start
<1>2. CASE FinishTeardown(t)
  <2>1. Unwired BY <1>2 DEF FinishTeardown, Detach, Unwired
  <2> QED BY <1>0, <2>1, UnwiredHearsNobody DEF WiringStep
<1> QED BY <1>1, <1>2

\* The user's other calls.
LEMMA UserWiring ==
    ASSUME Wired, NEW t \in Tasks,
           \/ End(t) \/ SilenceTimeout(t)
           \/ MicStarts \/ MicStops \/ CaptureError \/ TypedTurn
    PROVE  WiringStep
<1>0. CallsOK BY DEF Wired, TypeOK
<1>1. CASE End(t) \/ SilenceTimeout(t)
  <2>1. task'[t].at \in {"teardown", "endLive"}
    BY <1>0, <1>1 DEF End, SilenceTimeout, EnterTeardown, SkipTeardown, CallsOK, Call
  <2>2. operation' = t /\ UNCHANGED wiring /\ attempts' = attempts
    BY <1>1 DEF End, SilenceTimeout, resumption
  <2> QED BY <2>1, <2>2 DEF WiringStep, Moves, FreeStep, BeforeConnect
<1>2. CASE MicStarts \/ MicStops \/ CaptureError \/ TypedTurn
  BY <1>2 DEF MicStarts, MicStops, CaptureError, TypedTurn, WiringStep, Moves, FreeStep,
              resumption
<1> QED BY <1>1, <1>2

\* An await that fails, or is answered without connecting.
LEMMA AwaitWiring ==
    ASSUME Wired, NEW t \in Tasks,
           \/ ChatFails(t) \/ TokenFails(t) \/ RestoreFails(t) \/ RetireFails(t)
           \/ PacketFails(t) \/ RefreshFails(t) \/ ChunkRefused(t)
           \/ EndLiveDone(t) \/ EndLiveFails(t) \/ ChatReady(t) \/ TokenReady(t)
           \/ RestoreLookup(t) \/ RetireDone(t) \/ PersistDone(t)
    PROVE  WiringStep
<1>0. CallsOK /\ task \in [Tasks -> CallRecords] BY DEF Wired, TypeOK, CallsOK
<1>1. UNCHANGED wiring
  BY DEF ChatFails, TokenFails, RestoreFails, RetireFails, PacketFails, RefreshFails,
         ChunkRefused, EndLiveDone, EndLiveFails, ChatReady, TokenReady, RestoreLookup,
         RetireDone, PersistDone
<1>2. CASE \/ Settle(t, engine, active, task)
           \/ Done(t) /\ UNCHANGED <<resumption, operation>>
  <2>1. attempts' = attempts /\ FreeStep
    BY <1>0, <1>2, SettleTakes, GotoFree DEF resumption
  <2> QED BY <1>1, <2>1 DEF WiringStep, Moves
<1>3. CASE ChatReady(t) \/ TokenReady(t) \/ RestoreLookup(t)
  <2>1. attempts' = attempts /\ operation' = operation
    BY <1>3 DEF ChatReady, TokenReady, RestoreLookup, resumption
  <2>2. FreeStep
    BY <1>0, <1>3, <2>1, GotoFree
       DEF ChatReady, TokenReady, RestoreLookup, Awaits, BeforeConnect
  <2> QED BY <1>1, <2>1, <2>2 DEF WiringStep, Moves
<1>4. CASE RetireDone(t)
  <2>1. \A u \in Tasks : task'[u].at \in BeforeConnect => task[u].at \in BeforeConnect
    BY <1>0, <1>4 DEF RetireDone, Call, Idle, BeforeConnect
  <2> QED BY <1>1, <1>4, <2>1 DEF RetireDone, WiringStep, Moves, FreeStep
<1> QED BY <1>2, <1>3, <1>4
        DEF ChatFails, TokenFails, RestoreFails, RetireFails, PacketFails, RefreshFails,
            ChunkRefused, EndLiveDone, EndLiveFails, PersistDone

\* A call that connects a transport is the latest operation.
LEMMA ConnectWiring ==
    ASSUME Wired, NEW t \in Tasks, NEW x \in Transports,
           \/ ConnectRestored(t, x) \/ ConnectFallback(t, x)
           \/ /\ ConnectResume(t, x) /\ Current(t) /\ task[t].at \in BeforeConnect
              /\ UNCHANGED <<operation, attempts>>
    PROVE  WiringStep
<1>0. CallsOK /\ WiringOK /\ OneListener /\ WiringFree BY DEF Wired, TypeOK
<1>1. /\ operation' = t /\ attempts' = attempts
      /\ task'[t].link = x /\ task'[t].at \in Connects
  BY <1>0 DEF ConnectRestored, ConnectFallback, ConnectResume, Dial, Current, Connects,
              CallsOK, CallRecords
<1>2. active' = x /\ slot' = x /\ listening' = {x}
  <2>1. CASE Attach(x) BY <1>0, <2>1 DEF Attach, OneListener
  <2>2. CASE ConnectResume(t, x) /\ Current(t) /\ task[t].at \in BeforeConnect
    <3>1. active = None BY <1>0, <2>2 DEF WiringFree
    <3>2. listening = {} BY <1>0, <3>1, SessionAssumption DEF OneListener, WiringOK
    <3> QED BY <2>2, <3>2 DEF ConnectResume
  <2> QED BY <2>1, <2>2 DEF ConnectRestored, ConnectFallback
<1> QED BY <1>1, <1>2 DEF WiringStep, Attaches

LEMMA ResumeStepWiring ==
    ASSUME Wired, NEW t \in Tasks, ResumeTeardownDone(t) \/ RefreshDone(t)
    PROVE  WiringStep
<1>0. CallsOK BY DEF Wired, TypeOK
<1>1. task[t].at \in BeforeConnect /\ UNCHANGED <<operation, attempts>>
  BY DEF ResumeTeardownDone, RefreshDone, BeforeConnect
<1>2. CASE Current(t) /\ \E x \in Transports : ConnectResume(t, x)
  BY <1>1, <1>2, ConnectWiring
<1>3. CASE UNCHANGED wiring /\ \E at \in {"retire", "refresh"} : Goto(t, at)
  <2>1. FreeStep BY <1>0, <1>1, <1>3, GotoFree DEF Awaits, BeforeConnect
  <2> QED BY <1>1, <1>3, <2>1 DEF WiringStep, Moves
<1>4. CASE UNCHANGED wiring /\ Done(t)
  <2>1. FreeStep BY <1>0, <1>1, <1>4, GotoFree
  <2> QED BY <1>1, <1>4, <2>1 DEF WiringStep, Moves
<1> QED BY <1>2, <1>3, <1>4 DEF ResumeTeardownDone, RefreshDone, Reconnect

\* A fallback attempt that failed after its connection.
LEMMA FallbackWiring ==
    ASSUME Wired,
           \/ \E t \in Tasks : PersistFails(t)
           \/ \E x \in Transports : DropClosed(x)
    PROVE  WiringStep
<1>0. CallsOK /\ SocketsOK BY DEF Wired, TypeOK
<1>1. ASSUME NEW t \in Tasks, NEW x, NEW e, NEW transport, DropWiring(x),
             FallbackFailed(t, e, transport)
      PROVE  WiringStep
  BY <1>0, <1>1, DropUnwires, FallbackFailedMoves DEF WiringStep, Moves
<1>2. ASSUME NEW t \in Tasks, NEW x, CloseSocket(t, x, "drop"),
             UNCHANGED <<resumption, operation, wiring>>
      PROVE  WiringStep
  <2>1. FreeStep BY <1>0, <1>2, CloseSocketFree DEF Awaits, BeforeConnect
  <2> QED BY <1>2, <2>1 DEF WiringStep, Moves, resumption
<1>3. ASSUME NEW t \in Tasks, PersistFails(t) PROVE WiringStep
  BY <1>1, <1>2, <1>3 DEF PersistFails
<1>4. ASSUME NEW x \in Transports, DropClosed(x) PROVE WiringStep
  <2>1. waiter[x] \in Tasks BY <1>0, <1>4 DEF DropClosed, SocketsOK
  <2> QED BY <1>1, <1>4, <2>1 DEF DropClosed
<1> QED BY <1>3, <1>4

LEMMA ConnectedWiring ==
    ASSUME Wired, NEW x \in Transports, SdkConnects(x) \/ SetupCompletes(x)
    PROVE  WiringStep
<1>0. CallsOK BY DEF Wired, TypeOK
<1>1. CASE SdkConnects(x)
  BY <1>1 DEF SdkConnects, WiringStep, Moves, FreeStep, resumption
<1>2. ASSUME NEW t \in Tasks,
             RestoredConnects(t, x) \/ FallbackConnects(t, x) \/ ResumeConnects(t, x)
      PROVE  WiringStep
  <2>1. operation' = operation /\ attempts' = attempts
    BY <1>2 DEF RestoredConnects, FallbackConnects, ResumeConnects
  <2>2. Done(t) \/ \E at \in {"persist", "drop"} : Goto(t, at)
    BY <1>2 DEF RestoredConnects, FallbackConnects, ResumeConnects
  <2>3. FreeStep BY <1>0, <2>1, <2>2, GotoFree DEF Awaits, BeforeConnect
  <2>4. UNCHANGED wiring \/ Unwired
    BY <1>2 DEF RestoredConnects, FallbackConnects, ResumeConnects, Unwired
  <2> QED BY <2>1, <2>3, <2>4 DEF WiringStep, Moves
<1> QED BY <1>1, <1>2 DEF SetupCompletes

\* A lost connection: the resume it may start is the latest operation, and begins
\* with nothing attached.
LEMMA RecoverWiring ==
    ASSUME OneListener, NEW others \in [Tasks -> CallRecords], Recover(others)
    PROVE  WiringStep
<1>1. PICK r \in Tasks :
        \/ BeginResume(r, others)
        \/ Settle(r, engine, active, others) /\ UNCHANGED <<wiring, interrupting>>
  BY DEF Recover
<1>2. CASE BeginResume(r, others)
  <2>1. Unwired BY <1>2 DEF BeginResume, Unwired
  <2> QED BY <2>1, UnwiredHearsNobody DEF WiringStep
<1>3. CASE Settle(r, engine, active, others) /\ UNCHANGED <<wiring, interrupting>>
  BY <1>3, SettleTakes DEF WiringStep, Moves
<1> QED BY <1>1, <1>2, <1>3

LEMMA LostWiring ==
    ASSUME Wired, NEW x \in Transports,
           SetupFails(x) \/ ConnectionLost(x) \/ GoAwayInSetup(x)
    PROVE  WiringStep
<1>0. CallsOK /\ OneListener BY DEF Wired, TypeOK
<1>1. task \in [Tasks -> CallRecords]
      /\ \A t \in Tasks : [task EXCEPT ![t] = StaleRejected(t)] \in [Tasks -> CallRecords]
  <2>1. \A t \in Tasks : StaleRejected(t) \in CallRecords
    BY <1>0, IdleType DEF StaleRejected, CallsOK, CallRecords, Awaits
  <2> QED BY <1>0, <2>1 DEF CallsOK
<1>2. ASSUME NEW t \in Tasks, Rejected(t), UNCHANGED wiring PROVE WiringStep
  BY <1>0, <1>2, RejectedMoves DEF WiringStep, Moves
<1>3. CASE SetupFails(x)
  <2>1. UNCHANGED wiring BY <1>3 DEF SetupFails
  <2>2. PICK t \in Connecting(x) :
          \/ \E r \in Tasks : Settle(r, Step(engine, "transport.error"), active,
                                     [task EXCEPT ![t] = StaleRejected(t)])
          \/ Rejected(t)
    BY <1>3 DEF SetupFails
  <2>3. t \in Tasks BY DEF Connecting
  <2>4. ASSUME NEW r \in Tasks,
               Settle(r, Step(engine, "transport.error"), active,
                      [task EXCEPT ![t] = StaleRejected(t)])
        PROVE  WiringStep
    BY <1>1, <2>1, <2>3, <2>4, SettleTakes DEF WiringStep, Moves
  <2> QED BY <1>2, <2>1, <2>2, <2>3, <2>4
<1>4. CASE ConnectionLost(x)
  <2>1. CASE Recover(task) BY <1>0, <1>1, <2>1, RecoverWiring
  <2>2. CASE UNCHANGED <<resumption, operation, wiring, task>>
    BY <2>2 DEF WiringStep, Moves, FreeStep, resumption
  <2> QED BY <1>4, <2>1, <2>2 DEF ConnectionLost
<1>5. CASE GoAwayInSetup(x)
  <2>1. PICK t \in Connecting(x) :
          \/ Recover([task EXCEPT ![t] = StaleRejected(t)])
          \/ Rejected(t) /\ UNCHANGED <<interrupting, wiring>>
    BY <1>5 DEF GoAwayInSetup
  <2>2. t \in Tasks BY DEF Connecting
  <2> QED BY <1>0, <1>1, <1>2, <2>1, <2>2, RecoverWiring
<1> QED BY <1>3, <1>4, <1>5

LEMMA TurnWiring ==
    ASSUME \/ \E x \in Transports : ResumptionUpdate(x) \/ AudioError(x) \/ Turn(x)
                                        \/ Interrupted(x)
           \/ PlaybackStopped \/ RecoveryTimer
    PROVE  WiringStep
BY DEF ResumptionUpdate, AudioError, Turn, Interrupted, PlaybackStopped, RecoveryTimer,
       WiringStep, Moves, FreeStep, resumption

LEMMA EveryWiringStep == ASSUME Wired, [Next]_vars PROVE WiringStep
<1>1. CASE User
  <2>1. CASE MicStarts \/ MicStops \/ CaptureError \/ TypedTurn
    BY <2>1 DEF MicStarts, MicStops, CaptureError, TypedTurn, WiringStep, Moves, FreeStep,
                resumption
  <2>2. CASE \E t \in Tasks : Start(t) \/ End(t) \/ SilenceTimeout(t) \/ ChunkRefused(t)
    BY <2>2, StartWiring, UserWiring, AwaitWiring
  <2> QED BY <1>1, <2>1, <2>2 DEF User
<1>2. ASSUME NEW t \in Tasks, Continue(t) PROVE WiringStep
  BY <1>2, StopMediaWiring, StartWiring, AwaitWiring, FallbackWiring, ResumeStepWiring,
     ConnectWiring DEF Continue
<1>3. ASSUME NEW x \in Transports, Settles(x) \/ Server(x) PROVE WiringStep
  BY <1>3, ConnectedWiring, LostWiring, ClientClosedWiring, FallbackWiring, TurnWiring
     DEF Settles, Server
<1>4. CASE PlaybackStopped \/ RecoveryTimer BY <1>4, TurnWiring
<1>5. CASE UNCHANGED vars
  BY <1>5 DEF vars, resumption, WiringStep, Moves, FreeStep
<1> QED BY <1>1, <1>2, <1>3, <1>4, <1>5 DEF Next

\* The wiring invariant is kept: with OneListener alone a resume could subscribe
\* over a live transport, with WiringFree alone a detached one could be heard.
LEMMA WiredStep == ASSUME Wired, WiringStep PROVE OneListener' /\ WiringFree'
<1>1. OneListener /\ WiringFree /\ WiringOK BY DEF Wired, TypeOK
<1>2. CASE Moves
  <2>1. CASE Unwired BY <1>1, <2>1, UnwiredHearsNobody DEF Begins, OneListener, WiringFree
  <2>2. CASE UNCHANGED wiring
    <3>1. OneListener' BY <1>1, <2>2 DEF OneListener, wiring
    <3>2. WiringFree' BY <1>1, <1>2, <2>2 DEF Moves, FreeStep, WiringFree, Current, wiring
    <3> QED BY <3>1, <3>2
  <2> QED BY <1>2, <2>1, <2>2 DEF Moves
<1>3. CASE Begins BY <1>3 DEF Begins, OneListener, WiringFree
<1>4. CASE Attaches
  BY <1>4 DEF Attaches, OneListener, WiringFree, Current, Connects, BeforeConnect
<1> QED BY <1>2, <1>3, <1>4 DEF WiringStep

\* One transport at a time is heard and it is the active one, and a current start or
\* resume finds the wiring free until it connects: the two are inductive together.
THEOREM WiringCorrect == Spec => []Wired
<1>1. Init => OneListener /\ WiringFree
  BY DEF Init, OneListener, WiringFree
<1>2. TypeOK /\ OneListener /\ WiringFree /\ [Next]_vars => OneListener' /\ WiringFree'
  BY EveryWiringStep, WiredStep DEF Wired
<1>3. Spec => []TypeOK BY TypeCorrect
<1>4. Spec => [](TypeOK /\ OneListener /\ WiringFree) BY <1>1, <1>2, <1>3, PTL DEF Spec
<1>5. TypeOK /\ OneListener /\ WiringFree <=> Wired BY DEF Wired
<1> QED BY <1>4, <1>5, PTL

\* No subscription outlives its transport, whatever the calls in flight.
THEOREM OneListenerAlways == Spec => []OneListener
<1>1. Wired => OneListener BY DEF Wired
<1> QED BY <1>1, WiringCorrect, PTL

\* The current start or resume finds nothing attached between its awaits.
THEOREM WiringFreeAlways == Spec => []WiringFree
<1>1. Wired => WiringFree BY DEF Wired
<1> QED BY <1>1, WiringCorrect, PTL

\* Only the latest operation attaches a transport, and it awaits its connection.
THEOREM AttachedByCurrentAlways == Spec => AttachedByCurrent
<1> DEFINE Attached ==
      \A x \in Transports : active' = x /\ active # x =>
          \E t \in Tasks : /\ operation' = t
                           /\ task'[t].link = x /\ task'[t].at \in Connects
<1>1. Wired /\ [Next]_vars => [Attached]_vars
  <2> SUFFICES ASSUME Wired, [Next]_vars PROVE Attached OBVIOUS
  <2>1. WiringStep BY EveryWiringStep
  <2>2. CASE Moves BY <2>2, SessionAssumption DEF Moves, Unwired, wiring
  <2>3. CASE Begins BY <2>3, SessionAssumption DEF Begins
  <2>4. CASE Attaches BY <2>4 DEF Attaches
  <2> QED BY <2>1, <2>2, <2>3, <2>4 DEF WiringStep
<1> QED BY <1>1, WiringCorrect, PTL DEF Spec, AttachedByCurrent

\* A live session never gets its recovery budget refilled: it has at most
\* MaxRecoveryAttempts automatic resumes, for any bound.
THEOREM BudgetPerSessionAlways == Spec => BudgetPerSession
<1>1. Wired /\ [Next]_vars =>
        [attempts' < attempts => active' = None /\ listening' = {}]_vars
  <2> SUFFICES ASSUME Wired, [Next]_vars
               PROVE  attempts' < attempts => active' = None /\ listening' = {}
    OBVIOUS
  <2>1. WiringStep BY EveryWiringStep
  <2>2. attempts \in Nat
    BY SessionAssumption DEF Wired, TypeOK, ResumptionOK
  <2>3. CASE Moves BY <2>2, <2>3 DEF Moves
  <2>4. CASE Begins BY <2>4 DEF Begins
  <2>5. CASE Attaches BY <2>2, <2>5 DEF Attaches
  <2> QED BY <2>1, <2>3, <2>4, <2>5 DEF WiringStep
<1> QED BY <1>1, WiringCorrect, PTL DEF Spec, BudgetPerSession
-----------------------------------------------------------------------------
(* What the user is shown, and the timers.  Every step publishes an engine *)
(* state, leaves the session's variables alone without disturbing a resume *)
(* that is under way, begins a resume, or is one of two local exceptions.  *)

\* Where a resume stands while it has nothing to publish.
Reconnecting == {"resumeTeardown", "refresh", "retire", "packet"}

\* UiFollowsEngine, made inductive: only a resume that has yet to connect hides the
\* engine's status.
ShownAsResumed ==
    ui # engine.status =>
        /\ ui = "recovering"
        /\ \E t \in Tasks : /\ Current(t) /\ task[t].aim = "resume"
                            /\ task[t].at \in Reconnecting

\* Who waits for a socket to close waits for that one only, and for nothing else:
\* the caller a second disconnect() takes the resolver from is never a resume.
Closing == {"disconnect", "drop"}
Awaited ==
    \A x \in Transports : waiter[x] # None =>
        /\ task[waiter[x]].at \in Closing
        /\ \A y \in Transports : waiter[y] = waiter[x] => y = x

\* A fallback attempt names its transport until its session is persisted.
FallbackAwaits == {"connectFallback", "persist"}
Linked == \A t \in Tasks : task[t].at \in FallbackAwaits => task[t].link # None

\* A step keeps the link of such an attempt, or gives it one.
LinkStep ==
    \A t \in Tasks : task'[t].at \in FallbackAwaits =>
        \/ task[t].at \in FallbackAwaits /\ task'[t].link = task[t].link
        \/ task'[t].link # None

Published ==
    \E e, s : \E armed \in SUBSET timers :
        /\ Show(e, s, armed)
        /\ s = e.status \/ (e = engine /\ s = ui /\ Terminal(ui))

ResumeKept ==
    /\ operation' = operation
    /\ \A t \in Tasks : Current(t) /\ task[t].at \in Reconnecting =>
          task'[t].aim = task[t].aim /\ task'[t].at \in Reconnecting

ResumeBegun ==
    /\ UNCHANGED <<engine, timers>> /\ ui' = "recovering"
    /\ operation' \in Tasks /\ task'[operation'].aim = "resume"
    /\ task'[operation'].at \in Reconnecting

SessionStep ==
    \/ Published
    \/ UNCHANGED session /\ (Terminal(ui) \/ ResumeKept)
    \/ ResumeBegun
    \/ TypedTurn
    \/ CaptureError

\* A socket's waiter stays as it is, is replaced by a call that begins to wait, or
\* is answered.
Undisturbed(w) == \A u \in Tasks \ {w} : task[u].at \in Closing => task'[u] = task[u]
AwaitStep ==
    \/ UNCHANGED waiter /\ Undisturbed(None)
    \/ \E t \in Tasks, x \in Transports :
          /\ waiter' = [waiter EXCEPT ![x] = t]
          /\ task[t].at \notin Closing /\ task'[t].at \in Closing
          /\ Undisturbed(waiter[x])
    \/ \E x \in Transports :
          waiter' = [waiter EXCEPT ![x] = None] /\ Undisturbed(waiter[x])

LEMMA AwaitedStep == ASSUME TypeOK, Awaited, AwaitStep PROVE Awaited'
<1>0. /\ waiter \in [Transports -> Tasks \cup {None}] /\ None \notin Tasks
      /\ \A x \in Transports : waiter[x] # None => waiter[x] \in Tasks
  BY SessionAssumption DEF TypeOK, SocketsOK
<1>1. CASE UNCHANGED waiter /\ Undisturbed(None)
  BY <1>0, <1>1 DEF Awaited, Undisturbed
<1>2. ASSUME NEW t \in Tasks, NEW x \in Transports,
             waiter' = [waiter EXCEPT ![x] = t],
             task[t].at \notin Closing, task'[t].at \in Closing, Undisturbed(waiter[x])
      PROVE  Awaited'
  <2>1. \A y \in Transports : waiter[y] # t BY <1>0, <1>2 DEF Awaited
  <2>2. \A y \in Transports : waiter'[y] = IF y = x THEN t ELSE waiter[y] BY <1>0, <1>2
  <2>3. \A y \in Transports \ {x} : waiter[y] # None => waiter[y] # waiter[x]
    BY <1>0 DEF Awaited
  <2>4. \A y \in Transports : waiter'[y] # None => task'[waiter'[y]].at \in Closing
    BY <1>0, <1>2, <2>2, <2>3 DEF Awaited, Undisturbed
  <2>5. \A y, z \in Transports : waiter'[y] # None /\ waiter'[z] = waiter'[y] => z = y
    BY <1>0, <2>1, <2>2 DEF Awaited
  <2> QED BY <2>4, <2>5 DEF Awaited
<1>3. ASSUME NEW x \in Transports, waiter' = [waiter EXCEPT ![x] = None],
             Undisturbed(waiter[x])
      PROVE  Awaited'
  <2>1. \A y \in Transports : waiter'[y] = IF y = x THEN None ELSE waiter[y] BY <1>0, <1>3
  <2>2. \A y \in Transports \ {x} : waiter[y] # None => waiter[y] # waiter[x]
    BY <1>0 DEF Awaited
  <2> QED BY <1>0, <1>3, <2>1, <2>2 DEF Awaited, Undisturbed
<1> QED BY <1>1, <1>2, <1>3 DEF AwaitStep

\* A call that moves elsewhere, the others left alone or returned, leaves links alone.
LEMMA ElsewhereLinks ==
    ASSUME \A u \in Tasks : task'[u] = task[u] \/ task'[u].at \notin FallbackAwaits
    PROVE  LinkStep
BY DEF LinkStep

LEMMA SettleLinks ==
    ASSUME NEW t \in Tasks, NEW e, NEW transport, NEW others \in [Tasks -> CallRecords],
           Settle(t, e, transport, others),
           \A u \in Tasks : others[u] = task[u] \/ others[u].at \notin FallbackAwaits
    PROVE  LinkStep
<1>1. task'[t].at \in {"teardown", "endLive"} /\ \A u \in Tasks \ {t} : task'[u] = others[u]
  BY DEF Settle, EnterTeardown, SkipTeardown, Call
<1> QED BY <1>1 DEF LinkStep, FallbackAwaits

LEMMA CallLinks ==
    ASSUME CallsOK, NEW t \in Tasks,
           \/ Done(t) \/ \E at \in Awaits \ FallbackAwaits : Goto(t, at)
           \/ Settle(t, engine, active, task)
    PROVE  LinkStep
<1>1. CASE Settle(t, engine, active, task) BY <1>1, SettleLinks DEF CallsOK
<1>2. CASE Done(t) \/ \E at \in Awaits \ FallbackAwaits : Goto(t, at)
  BY <1>2, ElsewhereLinks DEF Done, Goto, CallsOK, CallRecords, Idle, Call, FallbackAwaits
<1> QED BY <1>1, <1>2

LEMMA FallbackFailedLinks ==
    ASSUME CallsOK, NEW t \in Tasks, NEW e, NEW transport, FallbackFailed(t, e, transport)
    PROVE  LinkStep
BY CallLinks, SettleLinks DEF FallbackFailed, CallsOK

LEMMA CloseSocketLinks ==
    ASSUME CallsOK, NEW t \in Tasks, NEW x, NEW at \in Awaits \ FallbackAwaits,
           CloseSocket(t, x, at)
    PROVE  LinkStep
BY ElsewhereLinks DEF CloseSocket, CallsOK, CallRecords, Idle, Call, FallbackAwaits

LEMMA RejectedLinks == ASSUME CallsOK, NEW t \in Tasks, Rejected(t) PROVE LinkStep
BY CallLinks, FallbackFailedLinks DEF Rejected, Awaits, FallbackAwaits

LEMMA RecoverLinks ==
    ASSUME NEW others \in [Tasks -> CallRecords], Recover(others),
           \A u \in Tasks : others[u] = task[u] \/ others[u].at \notin FallbackAwaits
    PROVE  LinkStep
<1>1. PICK r \in Tasks : BeginResume(r, others) \/ Settle(r, engine, active, others)
  BY DEF Recover
<1>2. CASE BeginResume(r, others)
  BY <1>2, ElsewhereLinks DEF BeginResume, Call, FallbackAwaits
<1> QED BY <1>1, <1>2, SettleLinks

LEMMA LostLinks ==
    ASSUME CallsOK, NEW x \in Transports,
           SetupFails(x) \/ ConnectionLost(x) \/ GoAwayInSetup(x)
    PROVE  LinkStep
<1>1. ASSUME NEW t \in Tasks
      PROVE  LET others == [task EXCEPT ![t] = StaleRejected(t)]
             IN /\ others \in [Tasks -> CallRecords]
                /\ \A u \in Tasks : others[u] = task[u] \/ others[u].at \notin FallbackAwaits
  <2>1. StaleRejected(t) \in CallRecords /\ StaleRejected(t).at \notin FallbackAwaits
    BY IdleType DEF StaleRejected, CallsOK, CallRecords, Awaits, Idle, Call, FallbackAwaits
  <2> QED BY <2>1 DEF CallsOK
<1>2. task \in [Tasks -> CallRecords] BY DEF CallsOK
<1>3. CASE SetupFails(x)
  <2>1. PICK t \in Connecting(x) :
          \/ \E r \in Tasks : Settle(r, Step(engine, "transport.error"), active,
                                     [task EXCEPT ![t] = StaleRejected(t)])
          \/ Rejected(t)
    BY <1>3 DEF SetupFails
  <2>2. t \in Tasks BY DEF Connecting
  <2> QED BY <1>1, <2>1, <2>2, SettleLinks, RejectedLinks
<1>4. CASE ConnectionLost(x)
  BY <1>2, <1>4, RecoverLinks, ElsewhereLinks DEF ConnectionLost
<1>5. CASE GoAwayInSetup(x)
  <2>1. PICK t \in Connecting(x) :
          Recover([task EXCEPT ![t] = StaleRejected(t)]) \/ Rejected(t)
    BY <1>5 DEF GoAwayInSetup
  <2>2. t \in Tasks BY DEF Connecting
  <2> QED BY <1>1, <2>1, <2>2, RecoverLinks, RejectedLinks
<1> QED BY <1>3, <1>4, <1>5

LEMMA EveryLinkStep == ASSUME TypeOK, [Next]_vars PROVE LinkStep
<1>0. CallsOK /\ SocketsOK /\ task \in [Tasks -> CallRecords] BY DEF TypeOK, CallsOK
<1>1. CASE User
  <2>1. CASE MicStarts \/ MicStops \/ CaptureError \/ TypedTurn
    BY <2>1, ElsewhereLinks DEF MicStarts, MicStops, CaptureError, TypedTurn
  <2>2. ASSUME NEW t \in Tasks, Start(t) \/ End(t) \/ SilenceTimeout(t) PROVE LinkStep
    BY <1>0, <2>2, ElsewhereLinks
       DEF Start, End, SilenceTimeout, EnterTeardown, SkipTeardown, BeginSession, Done,
           Idle, Call, FallbackAwaits
  <2> QED BY <1>0, <1>1, <2>1, <2>2, CallLinks DEF User, ChunkRefused
<1>2. ASSUME NEW t \in Tasks, Continue(t) PROVE LinkStep
  <2>1. CASE StopMedia(t)
    BY <1>0, <2>1, CloseSocketLinks, CallLinks DEF StopMedia, Awaits, FallbackAwaits
  <2>2. CASE FinishTeardown(t) \/ RetireDone(t)
    BY <1>0, <2>2, ElsewhereLinks
       DEF FinishTeardown, RetireDone, BeginSession, Done, Idle, Call, FallbackAwaits
  <2>3. CASE \/ EndLiveDone(t) \/ EndLiveFails(t) \/ ChatReady(t) \/ ChatFails(t)
             \/ TokenReady(t) \/ TokenFails(t) \/ RestoreLookup(t) \/ RestoreFails(t)
             \/ RetireFails(t) \/ PacketFails(t) \/ PersistDone(t) \/ RefreshFails(t)
    BY <1>0, <2>3, CallLinks
       DEF EndLiveDone, EndLiveFails, ChatReady, ChatFails, TokenReady, TokenFails,
           RestoreLookup, RestoreFails, RetireFails, PacketFails, PersistDone, RefreshFails,
           Awaits, FallbackAwaits
  <2>4. CASE PersistFails(t)
    BY <1>0, <2>4, CloseSocketLinks, FallbackFailedLinks DEF PersistFails, Awaits, FallbackAwaits
  <2>5. ASSUME NEW x \in Transports, NEW at, Dial(t, x, at) PROVE LinkStep
    BY <1>0, <2>5, SessionAssumption DEF Dial, LinkStep, CallRecords
  <2>6. CASE ResumeTeardownDone(t) \/ RefreshDone(t)
    BY <1>0, <2>5, <2>6, CallLinks
       DEF ResumeTeardownDone, RefreshDone, Reconnect, ConnectResume, Awaits, FallbackAwaits
  <2>7. CASE \E x \in Transports : ConnectRestored(t, x) \/ ConnectFallback(t, x)
    BY <2>5, <2>7 DEF ConnectRestored, ConnectFallback
  <2> QED BY <1>2, <2>1, <2>2, <2>3, <2>4, <2>6, <2>7 DEF Continue
<1>3. ASSUME NEW x \in Transports, Settles(x) \/ Server(x) PROVE LinkStep
  <2>1. CASE SdkConnects(x) \/ ResumptionUpdate(x) \/ AudioError(x) \/ Turn(x) \/ Interrupted(x)
    BY <2>1, ElsewhereLinks
       DEF SdkConnects, ResumptionUpdate, AudioError, Turn, Interrupted
  <2>2. CASE SetupCompletes(x)
    <3>1. PICK t \in Tasks :
            \/ Done(t) \/ Goto(t, "drop")
            \/ task[t].at = "connectFallback" /\ Goto(t, "persist")
      BY <2>2 DEF SetupCompletes, RestoredConnects, FallbackConnects, ResumeConnects
    <3>2. CASE Done(t) \/ Goto(t, "drop")
      BY <1>0, <3>2, CallLinks DEF Awaits, FallbackAwaits
    <3>3. CASE task[t].at = "connectFallback" /\ Goto(t, "persist")
      BY <1>0, <3>3 DEF Goto, CallRecords, LinkStep, FallbackAwaits
    <3> QED BY <3>1, <3>2, <3>3
  <2>3. CASE ClientClosed(x)
    BY <1>0, <2>3, ElsewhereLinks DEF ClientClosed, CallRecords, Idle, Call, FallbackAwaits
  <2>4. CASE DropClosed(x)
    <3>1. waiter[x] \in Tasks BY <1>0, <2>4 DEF DropClosed, SocketsOK
    <3> QED BY <1>0, <2>4, <3>1, FallbackFailedLinks DEF DropClosed
  <2> QED BY <1>0, <1>3, <2>1, <2>2, <2>3, <2>4, LostLinks DEF Settles, Server
<1>4. CASE PlaybackStopped \/ RecoveryTimer \/ UNCHANGED vars
  BY <1>4, ElsewhereLinks DEF PlaybackStopped, RecoveryTimer, vars
<1> QED BY <1>1, <1>2, <1>3, <1>4 DEF Next

\* No timer outlives the status it was armed for: a step that publishes another
\* lifecycle status arms that status's timers and no other.
LEMMA TimerStep == ASSUME NoStaleTimer, SessionStep PROVE NoStaleTimer'
<1>1. CASE Published BY <1>1 DEF Published, Show, NoStaleTimer
<1>2. CASE UNCHANGED <<engine, timers>> BY <1>2 DEF NoStaleTimer
<1>3. CASE TypedTurn
  <2>1. engine' = engine /\ timers' \subseteq timers \cup TimersOf(engine.life)
    BY <1>3 DEF TypedTurn
  <2> QED BY <2>1 DEF NoStaleTimer
<1> QED BY <1>1, <1>2, <1>3 DEF SessionStep, session, ResumeBegun, CaptureError

\* Without capture errors, nothing but a resume under way hides the engine's status.
LEMMA ShownStep == ASSUME "capture" \notin Faults, ShownAsResumed, SessionStep
                   PROVE  ShownAsResumed'
<1>1. CASE Published
  <2>1. PICK e, s : /\ engine' = e /\ ui' = s
                    /\ s = e.status \/ (e = engine /\ s = ui /\ Terminal(ui))
    BY <1>1 DEF Published, Show
  <2>2. ui' = engine'.status
    BY <2>1 DEF ShownAsResumed, Terminal
  <2> QED BY <2>2 DEF ShownAsResumed
<1>2. CASE UNCHANGED session /\ Terminal(ui)
  BY <1>2 DEF ShownAsResumed, Terminal, session
<1>3. CASE UNCHANGED session /\ ResumeKept
  BY <1>3 DEF ShownAsResumed, ResumeKept, Current, session
<1>4. CASE ResumeBegun BY <1>4 DEF ResumeBegun, ShownAsResumed, Current
<1>5. CASE TypedTurn BY <1>5 DEF TypedTurn, ShownAsResumed, Current
<1>6. ~CaptureError BY DEF CaptureError
<1> QED BY <1>1, <1>2, <1>3, <1>4, <1>5, <1>6 DEF SessionStep

\* An engine state published with its own status, however many events led to it.
LEMMA ShowPublishes == ASSUME NEW e, NEW armed \in SUBSET timers, Show(e, e.status, armed)
                       PROVE  Published
BY DEF Published

\* An error being settled publishes the failed engine and moves only its own call.
LEMMA SettlePublishes ==
    ASSUME NEW t \in Tasks, NEW e, NEW transport, NEW others \in [Tasks -> CallRecords],
           Settle(t, e, transport, others)
    PROVE  /\ Published
           /\ \A u \in Tasks \ {t} : task'[u] = others[u]
<1> DEFINE failed == Step(e, "session.error")
           busy == Busy(failed, "error", transport)
           next == IF busy THEN Step(failed, "session.end.requested") ELSE failed
<1>1. failed.status = "error" BY DEF Step, NextStatus, Failures
<1>2. CASE EnterTeardown(t, "error", failed, "error", transport, others)
  <2>1. Show(next, next.status, timers) BY <1>1, <1>2 DEF EnterTeardown
  <2> QED BY <1>2, <2>1, ShowPublishes DEF EnterTeardown
<1>3. CASE SkipTeardown(t, "error", failed, "error", transport, others)
  <2>1. Show(failed, failed.status, timers) BY <1>1, <1>3 DEF SkipTeardown
  <2> QED BY <1>3, <2>1, ShowPublishes DEF SkipTeardown
<1> QED BY <1>2, <1>3 DEF Settle

\* Starting a teardown or a session publishes, or shows again what was terminal.
LEMMA TeardownPublishes ==
    ASSUME NEW t \in Tasks, NEW aim, NEW e, NEW s, NEW transport, NEW others,
           s = e.status \/ (e = engine /\ s = ui),
           \/ EnterTeardown(t, aim, e, s, transport, others)
           \/ SkipTeardown(t, aim, e, s, transport, others)
    PROVE  Published
<1> DEFINE busy == Busy(e, s, transport)
           next == IF busy THEN Step(e, "session.end.requested") ELSE e
<1>1. Show(next, IF busy THEN next.status ELSE s, timers)
  BY DEF EnterTeardown, SkipTeardown, NothingToTearDown
<1>2. CASE busy BY <1>1, <1>2, ShowPublishes
<1>3. CASE ~busy
  <2>1. Show(e, s, timers) /\ Terminal(s) BY <1>1, <1>3 DEF Busy, Terminal
  <2> QED BY <2>1 DEF Published
<1> QED BY <1>2, <1>3

LEMMA BeginSessionPublishes ==
    ASSUME NEW t \in Tasks, NEW e, NEW s, NEW armed \in SUBSET timers,
           s = e.status \/ (e = engine /\ s = ui /\ Terminal(ui)),
           BeginSession(t, e, s, armed)
    PROVE  Published
<1>1. CASE StartAccepted(e)
  <2> DEFINE next == Step(e, "session.start.requested")
  <2>1. next.status = "connecting" BY DEF Step, NextStatus, Failures
  <2> QED BY <1>1, <2>1, ShowPublishes DEF BeginSession
<1>2. CASE ~StartAccepted(e) BY <1>2 DEF BeginSession, Published
<1> QED BY <1>1, <1>2

\* What a drop publishes, if it is heard.
LEMMA DropPublishes == ASSUME NEW x, PublishDrop(x) PROVE Published \/ UNCHANGED session
<1>1. CASE Dropped(x)
  <2>1. AfterDrop(x).status = "disconnected" BY <1>1 DEF AfterDrop, Step, NextStatus, Failures
  <2> QED BY <1>1, <2>1, ShowPublishes DEF PublishDrop
<1> QED BY <1>1 DEF PublishDrop

\* A step of one call that waits for no socket.
LEMMA OneMoves == ASSUME NEW t \in Tasks, task[t].at \notin Closing, UNCHANGED waiter,
                         \A u \in Tasks \ {t} : task'[u] = task[u]
                  PROVE  AwaitStep
BY DEF AwaitStep, Undisturbed

\* A call that settles its error, or returns because it was superseded.
LEMMA SettlesOrReturnsShown ==
    ASSUME CallsOK, NEW t \in Tasks, task[t].at \notin Closing, UNCHANGED waiter,
           \/ Settle(t, engine, active, task)
           \/ /\ Done(t) /\ UNCHANGED <<session, operation>>
              /\ ~Current(t) \/ task[t].at \notin Reconnecting
    PROVE  SessionStep /\ AwaitStep
<1>1. CASE Settle(t, engine, active, task)
  BY <1>1, SettlePublishes, OneMoves DEF CallsOK, SessionStep
<1>2. CASE /\ Done(t) /\ UNCHANGED <<session, operation>>
           /\ ~Current(t) \/ task[t].at \notin Reconnecting
  <2>1. \A u \in Tasks \ {t} : task'[u] = task[u] BY <1>2 DEF Done, CallsOK
  <2>2. ResumeKept BY <1>2, <2>1 DEF ResumeKept, Current
  <2> QED BY <1>2, <2>1, <2>2, OneMoves DEF SessionStep
<1> QED BY <1>1, <1>2

\* Taking a resolver over ends the call that waited, which is no resume.
LEMMA CloseSocketShown ==
    ASSUME TypeOK, Awaited, NEW t \in Tasks, NEW x \in Transports, NEW at \in Closing,
           task[t].at \notin Closing \cup Reconnecting,
           CloseSocket(t, x, at), UNCHANGED <<session, operation>>
    PROVE  SessionStep /\ AwaitStep
<1>0. /\ task \in [Tasks -> CallRecords] /\ waiter \in [Transports -> Tasks \cup {None}]
      /\ None \notin Tasks
  BY SessionAssumption DEF TypeOK, CallsOK, SocketsOK
<1>1. \A u \in Tasks : u # t /\ u # waiter[x] => task'[u] = task[u]
  BY <1>0 DEF CloseSocket
<1>2. task'[t].at = at BY <1>0 DEF CloseSocket, CallRecords
<1>3. waiter[x] \in Tasks => task[waiter[x]].at \notin Reconnecting
  BY <1>0 DEF Awaited, Closing, Reconnecting
<1>4. ResumeKept BY <1>1, <1>3 DEF ResumeKept, CloseSocket
<1>5. AwaitStep BY <1>0, <1>1, <1>2 DEF AwaitStep, Undisturbed, CloseSocket
<1> QED BY <1>4, <1>5 DEF SessionStep

LEMMA StopMediaShown ==
    ASSUME TypeOK, Awaited, NEW t \in Tasks, StopMedia(t) PROVE SessionStep /\ AwaitStep
<1>0. /\ CallsOK /\ task[t].at = "teardown" /\ operation' = operation
      /\ active \in Transports \cup {None}
  BY DEF TypeOK, StopMedia, WiringOK
<1>1. CASE /\ active # None /\ CloseSocket(t, active, "disconnect") /\ UNCHANGED session
  BY <1>0, <1>1, CloseSocketShown DEF Closing, Reconnecting
<1>2. CASE /\ PublishDrop(active) \/ UNCHANGED session
           /\ Goto(t, "playback") /\ UNCHANGED waiter
  <2>1. \A u \in Tasks \ {t} : task'[u] = task[u] BY <1>0, <1>2 DEF Goto, CallsOK
  <2>2. ResumeKept BY <1>0, <2>1 DEF ResumeKept, Reconnecting
  <2>3. SessionStep BY <1>2, <2>2, DropPublishes DEF SessionStep
  <2> QED BY <1>0, <1>2, <2>1, <2>3, OneMoves DEF Closing
<1> QED BY <1>1, <1>2 DEF StopMedia, sockets

LEMMA ClientClosedShown ==
    ASSUME TypeOK, Awaited, NEW x \in Transports, ClientClosed(x)
    PROVE  SessionStep /\ AwaitStep
<1>0. task \in [Tasks -> CallRecords] /\ waiter \in [Transports -> Tasks \cup {None}]
  BY DEF TypeOK, CallsOK, SocketsOK
<1>1. \A u \in Tasks : u # waiter[x] /\ u \notin Connecting(x) => task'[u] = task[u]
  BY <1>0 DEF ClientClosed
<1>2. \A u \in Connecting(x) : task[u].at \notin Closing \cup Reconnecting
  BY DEF Connecting, Connects, Closing, Reconnecting
<1>3. waiter[x] \in Tasks => task[waiter[x]].at \notin Reconnecting
  BY <1>0, SessionAssumption DEF Awaited, Closing, Reconnecting
<1>4. ResumeKept BY <1>1, <1>2, <1>3 DEF ResumeKept, ClientClosed
<1>5. AwaitStep BY <1>1, <1>2 DEF AwaitStep, Undisturbed, ClientClosed
<1> QED BY <1>4, <1>5, DropPublishes DEF SessionStep, ClientClosed

\* The user's calls.
LEMMA UserShown ==
    ASSUME TypeOK, NEW t \in Tasks,
           Start(t) \/ End(t) \/ SilenceTimeout(t) \/ ChunkRefused(t)
    PROVE  SessionStep /\ AwaitStep
<1>0. CallsOK /\ task[t].at \notin Closing /\ task[t].at \notin Reconnecting
      /\ UNCHANGED waiter
  BY DEF TypeOK, Start, End, SilenceTimeout, ChunkRefused, Idle, Call, Closing,
         Reconnecting, sockets
<1>1. \A u \in Tasks \ {t} : task'[u] = task[u]
  <2>1. CASE ChunkRefused(t) BY <1>0, <2>1, SettlePublishes DEF ChunkRefused, CallsOK
  <2> QED BY <1>0, <2>1 DEF Start, End, SilenceTimeout, EnterTeardown, SkipTeardown,
                            BeginSession, Done, CallsOK
<1>2. Published
  <2>1. CASE ChunkRefused(t) BY <1>0, <2>1, SettlePublishes DEF ChunkRefused, CallsOK
  <2>2. CASE SilenceTimeout(t) BY <2>2, TeardownPublishes DEF SilenceTimeout
  <2>3. CASE End(t) BY <2>3, TeardownPublishes DEF End
  <2>4. CASE Start(t)
    <3>1. CASE EnterTeardown(t, "start", engine, ui, active, task)
      BY <3>1, TeardownPublishes
    <3>2. CASE NothingToTearDown(engine, ui, active) /\ BeginSession(t, engine, ui, timers)
      BY <3>2, BeginSessionPublishes DEF NothingToTearDown, Busy, Terminal
    <3> QED BY <2>4, <3>1, <3>2 DEF Start
  <2> QED BY <2>1, <2>2, <2>3, <2>4
<1> QED BY <1>0, <1>1, <1>2, OneMoves DEF SessionStep

LEMMA MicrophoneShown ==
    ASSUME MicStarts \/ MicStops \/ CaptureError \/ TypedTurn
    PROVE  SessionStep /\ AwaitStep
<1>1. AwaitStep
  BY DEF MicStarts, MicStops, CaptureError, TypedTurn, sockets, AwaitStep, Undisturbed
<1>2. SessionStep
  BY DEF MicStarts, MicStops, SessionStep, ResumeKept
<1> QED BY <1>1, <1>2

\* The end of a teardown publishes what the engine says of it.
LEMMA FinishTeardownShown ==
    ASSUME TypeOK, NEW t \in Tasks, FinishTeardown(t) PROVE SessionStep /\ AwaitStep
<1> DEFINE ended == Step(engine, "session.ended")
<1>0. CallsOK /\ task[t].at \notin Closing /\ UNCHANGED waiter
  BY DEF TypeOK, FinishTeardown, Closing, sockets
<1>1. \A u \in Tasks \ {t} : task'[u] = task[u]
  BY <1>0 DEF FinishTeardown, BeginSession, Done, CallsOK
<1>2. Published
  <2>1. CASE BeginSession(t, ended, ended.status, {}) BY <2>1, BeginSessionPublishes
  <2>2. CASE Show(ended, ended.status, {}) BY <2>2, ShowPublishes
  <2> QED BY <2>1, <2>2 DEF FinishTeardown
<1> QED BY <1>0, <1>1, <1>2, OneMoves DEF SessionStep

\* An await that fails, or that a superseded call comes back from.
LEMMA FailedAwaitShown ==
    ASSUME TypeOK, NEW t \in Tasks,
           \/ ChatFails(t) \/ TokenFails(t) \/ RestoreFails(t) \/ RetireFails(t)
           \/ PacketFails(t) \/ RefreshFails(t) \/ EndLiveFails(t)
    PROVE  SessionStep /\ AwaitStep
<1>0. CallsOK /\ task[t].at \notin Closing /\ UNCHANGED waiter
  BY DEF TypeOK, ChatFails, TokenFails, RestoreFails, RetireFails, PacketFails,
         RefreshFails, EndLiveFails, Closing, sockets
<1>1. \/ Settle(t, engine, active, task)
      \/ /\ Done(t) /\ UNCHANGED <<session, operation>>
         /\ ~Current(t) \/ task[t].at \notin Reconnecting
  BY DEF ChatFails, TokenFails, RestoreFails, RetireFails, PacketFails, RefreshFails,
         EndLiveFails, Reconnecting
<1> QED BY <1>0, <1>1, SettlesOrReturnsShown

\* An await that is answered.
LEMMA AnsweredAwaitShown ==
    ASSUME TypeOK, NEW t \in Tasks,
           \/ EndLiveDone(t) \/ ChatReady(t) \/ TokenReady(t) \/ RestoreLookup(t)
           \/ RetireDone(t) \/ PersistDone(t)
    PROVE  SessionStep /\ AwaitStep
<1>0. CallsOK /\ task[t].at \notin Closing /\ UNCHANGED <<waiter, operation>>
  BY DEF TypeOK, EndLiveDone, ChatReady, TokenReady, RestoreLookup, RetireDone,
         PersistDone, Closing, sockets
<1>1. \A u \in Tasks \ {t} : task'[u] = task[u]
  BY <1>0 DEF EndLiveDone, ChatReady, TokenReady, RestoreLookup, RetireDone, PersistDone,
              Goto, Done, CallsOK
<1>2. SessionStep
  <2>1. CASE \E e : Publish(e) BY <2>1, ShowPublishes DEF Publish, SessionStep
  <2>2. CASE UNCHANGED session /\ task[t].at \notin Reconnecting
    BY <1>0, <1>1, <2>2 DEF SessionStep, ResumeKept
  <2>3. CASE RetireDone(t)
    <3>1. Current(t) => task'[t] = Call(task[t].aim, "packet")
      BY <1>0, <2>3 DEF RetireDone, CallsOK
    <3>2. ResumeKept BY <1>0, <1>1, <3>1 DEF ResumeKept, Reconnecting, Current, Call
    <3> QED BY <2>3, <3>2 DEF SessionStep, RetireDone
  <2>4. CASE ~Current(t) /\ Done(t) /\ UNCHANGED session
    BY <1>0, <1>1, <2>4 DEF SessionStep, ResumeKept, Current
  <2> QED BY <2>1, <2>2, <2>3, <2>4
          DEF EndLiveDone, ChatReady, TokenReady, RestoreLookup, PersistDone, Reconnecting
<1> QED BY <1>0, <1>1, <1>2, OneMoves

\* A call that connects a transport says so.
LEMMA ConnectShown ==
    ASSUME TypeOK, NEW t \in Tasks, NEW x \in Transports,
           \/ ConnectRestored(t, x) \/ ConnectFallback(t, x)
           \/ ConnectResume(t, x) /\ task[t].at \notin Closing
    PROVE  SessionStep /\ AwaitStep
<1>0. CallsOK /\ task[t].at \notin Closing BY DEF TypeOK, ConnectRestored, ConnectFallback, Closing
<1>1. UNCHANGED waiter /\ \A u \in Tasks \ {t} : task'[u] = task[u]
  BY <1>0 DEF ConnectRestored, ConnectFallback, ConnectResume, Dial, CallsOK
<1>2. Published
  <2>1. CASE ConnectRestored(t, x)
    <3> DEFINE e == Step(engine, "transport.connecting.resuming")
    <3>1. e.status = "recovering" BY DEF Step, NextStatus, Failures
    <3>2. Show(e, e.status, {}) BY <2>1, <3>1 DEF ConnectRestored
    <3> QED BY <3>2, ShowPublishes
  <2>2. CASE ConnectFallback(t, x)
    <3> DEFINE e == Step(engine, "transport.connecting")
    <3>1. e.status = "connecting" BY DEF Step, NextStatus, Failures
    <3>2. Show(e, e.status, {}) BY <2>2, <3>1 DEF ConnectFallback
    <3> QED BY <3>2, ShowPublishes
  <2>3. CASE ConnectResume(t, x) BY <2>3, ShowPublishes DEF ConnectResume, Publish
  <2> QED BY <2>1, <2>2, <2>3
<1> QED BY <1>0, <1>1, <1>2, OneMoves DEF SessionStep

LEMMA ResumeStepShown ==
    ASSUME TypeOK, NEW t \in Tasks, ResumeTeardownDone(t) \/ RefreshDone(t)
    PROVE  SessionStep /\ AwaitStep
<1>0. CallsOK /\ task[t].at \in Reconnecting /\ task[t].at \notin Closing /\ operation' = operation
  BY DEF TypeOK, ResumeTeardownDone, RefreshDone, Reconnecting, Closing
<1>1. CASE \E x \in Transports : ConnectResume(t, x) BY <1>0, <1>1, ConnectShown
<1>2. CASE \E at \in {"retire", "refresh"} : Goto(t, at) /\ UNCHANGED <<session, sockets>>
  <2>1. \A u \in Tasks \ {t} : task'[u] = task[u] BY <1>0, <1>2 DEF Goto, CallsOK
  <2>2. task'[t].at \in Reconnecting /\ task'[t].aim = task[t].aim
    BY <1>0, <1>2 DEF Goto, CallsOK, CallRecords, Reconnecting
  <2>3. ResumeKept BY <1>0, <2>1, <2>2 DEF ResumeKept
  <2> QED BY <1>0, <1>2, <2>1, <2>3, OneMoves DEF SessionStep, sockets
<1>3. CASE Done(t) /\ UNCHANGED <<session, sockets>> /\ (~Current(t) \/ Terminal(ui))
  <2>1. \A u \in Tasks \ {t} : task'[u] = task[u] BY <1>0, <1>3 DEF Done, CallsOK
  <2>2. Terminal(ui) \/ ResumeKept BY <1>0, <1>3, <2>1 DEF ResumeKept, Current
  <2> QED BY <1>0, <1>3, <2>1, <2>2, OneMoves DEF SessionStep, sockets
<1> QED BY <1>1, <1>2, <1>3 DEF ResumeTeardownDone, RefreshDone, Reconnect

\* A fallback attempt that failed after its connection.
LEMMA FallbackShown ==
    ASSUME TypeOK, Awaited, Linked,
           \/ \E t \in Tasks : PersistFails(t)
           \/ \E x \in Transports : DropClosed(x)
    PROVE  SessionStep /\ AwaitStep
<1>0. CallsOK /\ SocketsOK /\ task \in [Tasks -> CallRecords] BY DEF TypeOK, CallsOK
<1>1. ASSUME NEW t \in Tasks, NEW x, NEW e, NEW transport,
             FallbackFailed(t, e, transport), ~Current(t) => PublishDrop(x)
      PROVE  SessionStep /\ \A u \in Tasks \ {t} : task'[u] = task[u]
  <2>1. CASE Settle(t, e, transport, task)
    BY <1>0, <2>1, SettlePublishes DEF SessionStep
  <2>2. CASE ~Current(t) /\ Done(t) /\ UNCHANGED operation
    <3>1. \A u \in Tasks \ {t} : task'[u] = task[u] BY <1>0, <2>2 DEF Done
    <3>2. ResumeKept BY <2>2, <3>1 DEF ResumeKept, Current
    <3> QED BY <1>1, <2>2, <3>1, <3>2, DropPublishes DEF SessionStep
  <2> QED BY <1>1, <2>1, <2>2 DEF FallbackFailed
<1>2. ASSUME NEW t \in Tasks, PersistFails(t) PROVE SessionStep /\ AwaitStep
  <2> DEFINE x == task[t].link
  <2>1. task[t].at \notin Closing \cup Reconnecting
    BY <1>2 DEF PersistFails, Closing, Reconnecting
  <2>2. CASE /\ HasSession(x) /\ CloseSocket(t, x, "drop")
             /\ UNCHANGED <<session, operation>>
    <3>1. x \in Transports BY <1>0, <1>2 DEF Linked, FallbackAwaits, PersistFails, CallRecords
    <3> QED BY <2>1, <2>2, <3>1, CloseSocketShown DEF Closing
  <2>3. CASE /\ FallbackFailed(t, AfterDrop(x), IF Dropped(x) THEN None ELSE active)
             /\ ~Current(t) => PublishDrop(x)
             /\ UNCHANGED sockets
    BY <1>1, <2>1, <2>3, OneMoves DEF sockets
  <2> QED BY <1>2, <2>2, <2>3 DEF PersistFails
<1>3. ASSUME NEW x \in Transports, DropClosed(x) PROVE SessionStep /\ AwaitStep
  <2> DEFINE t == waiter[x]
  <2>1. t \in Tasks /\ waiter' = [waiter EXCEPT ![x] = None]
    BY <1>0, <1>3 DEF DropClosed, SocketsOK
  <2>2. FallbackFailed(t, AfterDrop(x), IF Dropped(x) THEN None ELSE active)
          /\ (~Current(t) => PublishDrop(x))
    BY <1>3 DEF DropClosed
  <2>3. SessionStep /\ \A u \in Tasks \ {t} : task'[u] = task[u] BY <1>1, <2>1, <2>2
  <2>4. Undisturbed(waiter[x]) BY <2>3 DEF Undisturbed
  <2> QED BY <2>1, <2>3, <2>4 DEF AwaitStep
<1> QED BY <1>2, <1>3

\* A connection that is made or confirmed.
LEMMA ConnectedShown ==
    ASSUME TypeOK, NEW x \in Transports, SdkConnects(x) \/ SetupCompletes(x)
    PROVE  SessionStep /\ AwaitStep
<1>0. CallsOK BY DEF TypeOK
<1>1. CASE SdkConnects(x)
  BY <1>1 DEF SdkConnects, SessionStep, ResumeKept, AwaitStep, Undisturbed
<1>2. ASSUME NEW t \in Tasks,
             RestoredConnects(t, x) \/ FallbackConnects(t, x) \/ ResumeConnects(t, x)
      PROVE  SessionStep /\ AwaitStep
  <2>1. /\ operation' = operation
        /\ task[t].at \notin Reconnecting /\ task[t].at \notin Closing
    BY <1>2 DEF RestoredConnects, FallbackConnects, ResumeConnects, Reconnecting, Closing
  <2>2. Done(t) \/ \E at \in {"persist", "drop"} : Goto(t, at)
    BY <1>2 DEF RestoredConnects, FallbackConnects, ResumeConnects
  <2>3. \A u \in Tasks \ {t} : task'[u] = task[u] BY <1>0, <2>2 DEF Done, Goto, CallsOK
  <2>4. ResumeKept BY <2>1, <2>3 DEF ResumeKept
  <2>5. \/ \E e : Publish(e)
        \/ Show(AfterConnected(x), UiConnected(x), timers)
    BY <1>2 DEF RestoredConnects, FallbackConnects, ResumeConnects
  <2>6. SessionStep
    <3>1. CASE \E e : Publish(e) BY <3>1, ShowPublishes DEF Publish, SessionStep
    <3>2. CASE Heard(x) /\ Show(AfterConnected(x), UiConnected(x), timers)
      <4>1. AfterConnected(x).status = "active" /\ UiConnected(x) = "active"
        BY <3>2 DEF AfterConnected, UiConnected, Step, NextStatus, Failures
      <4> QED BY <3>2, <4>1, ShowPublishes DEF SessionStep
    <3>3. CASE ~Heard(x) /\ Show(AfterConnected(x), UiConnected(x), timers)
      BY <2>4, <3>3 DEF AfterConnected, UiConnected, Show, SessionStep, session
    <3> QED BY <2>5, <3>1, <3>2, <3>3
  <2>7. AwaitStep
    <3>1. CASE UNCHANGED waiter BY <2>1, <2>3, <3>1, OneMoves
    <3>2. CASE Goto(t, "drop") /\ waiter' = [waiter EXCEPT ![x] = t]
      <4>1. task'[t].at = "drop" BY <1>0, <3>2 DEF Goto, CallsOK, CallRecords
      <4> QED BY <2>1, <2>3, <3>2, <4>1 DEF AwaitStep, Undisturbed, Closing
    <3> QED BY <1>2, <3>1, <3>2 DEF RestoredConnects, FallbackConnects, ResumeConnects
  <2> QED BY <2>6, <2>7
<1> QED BY <1>1, <1>2 DEF SetupCompletes

\* A lost connection that was heard: the resume hides the status, or the error shows.
LEMMA RecoverShown ==
    ASSUME NEW others \in [Tasks -> CallRecords], UNCHANGED waiter, Recover(others),
           \A u \in Tasks : task[u].at \in Closing \/ task[u] = Idle => others[u] = task[u]
    PROVE  SessionStep /\ AwaitStep
<1>1. PICK r \in Tasks :
        /\ task[r] = Idle
        /\ BeginResume(r, others) \/ Settle(r, engine, active, others)
  BY DEF Recover
<1>2. task[r].at \notin Closing BY <1>1 DEF Idle, Call, Closing
<1>3. \A u \in Tasks \ {r} : task'[u] = others[u]
  BY <1>1, SettlePublishes DEF BeginResume
<1>4. AwaitStep BY <1>2, <1>3 DEF AwaitStep, Undisturbed
<1>5. CASE BeginResume(r, others)
  <2>1. task'[r].aim = "resume" /\ task'[r].at \in Reconnecting
    BY <1>5 DEF BeginResume, Call, Reconnecting
  <2> QED BY <1>4, <1>5, <2>1 DEF BeginResume, ResumeBegun, SessionStep
<1>6. CASE Settle(r, engine, active, others) BY <1>4, <1>6, SettlePublishes DEF SessionStep
<1> QED BY <1>1, <1>5, <1>6

LEMMA LostShown ==
    ASSUME TypeOK, NEW x \in Transports,
           SetupFails(x) \/ ConnectionLost(x) \/ GoAwayInSetup(x)
    PROVE  SessionStep /\ AwaitStep
<1>0. CallsOK /\ task \in [Tasks -> CallRecords] /\ UNCHANGED waiter
  BY DEF TypeOK, CallsOK, SetupFails, ConnectionLost, GoAwayInSetup
<1>1. ASSUME NEW t \in Connecting(x)
      PROVE  LET others == [task EXCEPT ![t] = StaleRejected(t)]
             IN /\ t \in Tasks /\ task[t].at \notin Closing \cup Reconnecting
                /\ others \in [Tasks -> CallRecords]
                /\ \A u \in Tasks : task[u].at \in Closing \/ task[u] = Idle =>
                      others[u] = task[u]
  <2>1. t \in Tasks /\ task[t].at \in Connects BY DEF Connecting
  <2>2. StaleRejected(t) \in CallRecords
    BY <1>0, <2>1, IdleType DEF StaleRejected, CallRecords, Awaits
  <2> QED BY <1>0, <2>1, <2>2 DEF Connects, Closing, Reconnecting, Idle, Call
<1>2. ASSUME NEW t \in Connecting(x), Rejected(t) PROVE SessionStep /\ AwaitStep
  <2>1. t \in Tasks /\ task[t].at \notin Closing /\ task[t].at \notin Reconnecting BY <1>1
  <2>2. CASE Settle(t, engine, active, task)
    BY <1>0, <2>1, <2>2, SettlesOrReturnsShown
  <2>3. CASE /\ Done(t) \/ Goto(t, "retire")
             /\ UNCHANGED <<session, operation>>
    <3>1. \A u \in Tasks \ {t} : task'[u] = task[u] BY <1>0, <2>3 DEF Done, Goto
    <3>2. ResumeKept BY <2>1, <2>3, <3>1 DEF ResumeKept
    <3> QED BY <1>0, <2>1, <2>3, <3>1, <3>2, OneMoves DEF SessionStep
  <2> QED BY <1>2, <2>2, <2>3 DEF Rejected, FallbackFailed
<1>3. CASE SetupFails(x)
  <2>1. PICK t \in Connecting(x) :
          \/ \E r \in Tasks :
                /\ task[r] = Idle
                /\ Settle(r, Step(engine, "transport.error"), active,
                          [task EXCEPT ![t] = StaleRejected(t)])
          \/ Rejected(t)
    BY <1>3 DEF SetupFails
  <2> DEFINE others == [task EXCEPT ![t] = StaleRejected(t)]
  <2>2. ASSUME NEW r \in Tasks, task[r] = Idle,
               Settle(r, Step(engine, "transport.error"), active, others)
        PROVE  SessionStep /\ AwaitStep
    <3>1. others \in [Tasks -> CallRecords]
          /\ \A u \in Tasks : task[u].at \in Closing => others[u] = task[u]
      BY <1>1
    <3> HIDE DEF others
    <3>2. Published /\ \A u \in Tasks \ {r} : task'[u] = others[u]
      BY <2>2, <3>1, SettlePublishes
    <3>3. task[r].at \notin Closing BY <2>2 DEF Idle, Call, Closing
    <3> QED BY <1>0, <3>1, <3>2, <3>3 DEF SessionStep, AwaitStep, Undisturbed
  <2> QED BY <1>2, <2>1, <2>2
<1>4. CASE ConnectionLost(x)
  <2>1. CASE Recover(task) BY <1>0, <2>1, RecoverShown
  <2>2. CASE UNCHANGED <<session, operation, task>>
    BY <1>0, <2>2 DEF SessionStep, ResumeKept, AwaitStep, Undisturbed
  <2> QED BY <1>4, <2>1, <2>2 DEF ConnectionLost
<1>5. CASE GoAwayInSetup(x)
  <2>1. PICK t \in Connecting(x) :
          Recover([task EXCEPT ![t] = StaleRejected(t)]) \/ Rejected(t)
    BY <1>5 DEF GoAwayInSetup
  <2> QED BY <1>0, <1>1, <1>2, <2>1, RecoverShown
<1> QED BY <1>3, <1>4, <1>5

\* What the server says of a turn, and the timers, are published.
LEMMA TurnShown ==
    ASSUME \/ \E x \in Transports : ResumptionUpdate(x) \/ AudioError(x) \/ Turn(x)
                                        \/ Interrupted(x)
           \/ PlaybackStopped \/ RecoveryTimer
    PROVE  SessionStep /\ AwaitStep
<1>1. AwaitStep
  BY DEF ResumptionUpdate, AudioError, Turn, Interrupted, PlaybackStopped, RecoveryTimer,
         AwaitStep, Undisturbed, sockets
<1>2. CASE \E e : Publish(e) BY <1>1, <1>2, ShowPublishes DEF Publish, SessionStep
<1>3. CASE RecoveryTimer
  <2>1. Step(engine, "turn.recovery.completed").status
          = NextStatus(engine.status, "turn.recovery.completed")
    BY DEF Step
  <2> QED BY <1>1, <1>3, <2>1, ShowPublishes DEF RecoveryTimer, SessionStep
<1>4. CASE PlaybackStopped
  BY <1>1, <1>2, <1>4 DEF PlaybackStopped, SessionStep, ResumeKept
<1> QED BY <1>2, <1>3, <1>4 DEF ResumptionUpdate, AudioError, Turn, Interrupted

LEMMA EverySessionStep ==
    ASSUME TypeOK, Awaited, Linked, [Next]_vars PROVE SessionStep /\ AwaitStep
<1>1. CASE User BY <1>1, MicrophoneShown, UserShown DEF User
<1>2. ASSUME NEW t \in Tasks, Continue(t) PROVE SessionStep /\ AwaitStep
  BY <1>2, StopMediaShown, FinishTeardownShown, FailedAwaitShown, AnsweredAwaitShown,
     ConnectShown, FallbackShown, ResumeStepShown DEF Continue
<1>3. ASSUME NEW x \in Transports, Settles(x) \/ Server(x) PROVE SessionStep /\ AwaitStep
  BY <1>3, ConnectedShown, LostShown, ClientClosedShown, FallbackShown, TurnShown
     DEF Settles, Server
<1>4. CASE PlaybackStopped \/ RecoveryTimer BY <1>4, TurnShown
<1>5. CASE UNCHANGED vars
  BY <1>5 DEF vars, session, sockets, SessionStep, ResumeKept, AwaitStep, Undisturbed
<1> QED BY <1>1, <1>2, <1>3, <1>4, <1>5 DEF Next

\* Whoever waits for a socket to close waits for it alone, and a fallback attempt
\* names its transport, in every behaviour.
THEOREM AwaitedAlways == Spec => [](Awaited /\ Linked)
<1>1. Init => Awaited /\ Linked
  BY DEF Init, Awaited, Linked, Idle, Call, FallbackAwaits
<1>2. TypeOK /\ Awaited /\ Linked /\ [Next]_vars => Awaited' /\ Linked'
  BY EverySessionStep, AwaitedStep, EveryLinkStep DEF LinkStep, Linked
<1> QED BY <1>1, <1>2, TypeCorrect, PTL DEF Spec

\* No timer survives the lifecycle status it was armed for, whatever the calls in
\* flight: nothing is ended as silent while someone speaks.
THEOREM NoStaleTimerAlways == Spec => []NoStaleTimer
<1>1. Init => NoStaleTimer BY DEF Init, NoStaleTimer, InitialEngine, TimersOf
<1>2. TypeOK /\ Awaited /\ Linked /\ NoStaleTimer /\ [Next]_vars => NoStaleTimer'
  BY EverySessionStep, TimerStep
<1> QED BY <1>1, <1>2, TypeCorrect, AwaitedAlways, PTL DEF Spec

\* Unless a capture fails, the user is shown the engine's status, or that a resume is
\* under way (a capture error writes the store's status past the engine).
THEOREM UiFollowsEngineAlways ==
    ASSUME "capture" \notin Faults PROVE Spec => []UiFollowsEngine
<1>1. Init => ShownAsResumed BY DEF Init, ShownAsResumed, InitialEngine
<1>2. TypeOK /\ Awaited /\ Linked /\ ShownAsResumed /\ [Next]_vars => ShownAsResumed'
  BY EverySessionStep, ShownStep
<1>3. ShownAsResumed => UiFollowsEngine BY DEF ShownAsResumed, UiFollowsEngine
<1> QED BY <1>1, <1>2, <1>3, TypeCorrect, AwaitedAlways, PTL DEF Spec
=============================================================================
