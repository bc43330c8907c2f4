----------------------------- MODULE LiveSession -----------------------------
(***************************************************************************)
(* The desktop's live-session controller: starting, restoring, resuming,   *)
(* failing and ending a speech session over a Gemini Live transport.       *)
(*                                                                         *)
(* JavaScript runs one callback at a time, so a step is everything between *)
(* two awaits of real I/O; an await of something already settled belongs   *)
(* to the step.  Every async call in flight (a start, an end, an error     *)
(* being settled, a resume) is a task that remembers the await it stands   *)
(* at.  beginSessionOperation hands out a new operation id; only whether   *)
(* the id is still the latest is ever asked, so the model keeps the task   *)
(* that began last.                                                        *)
(***************************************************************************)
EXTENDS LiveSessionEngine

CONSTANTS Tasks,               \* async calls in flight at once (bound)
          Transports,          \* transport objects in use at once (bound)
          None,                \* null
          MaxRecoveryAttempts, \* MAX_AUTOMATIC_RECOVERY_ATTEMPTS_PER_SESSION
          Inputs,              \* "microphone", "text": what the user may use (bound)
          Turns,               \* turn events the server may send (bound)
          Faults               \* "capture", "audio": local faults that may happen

ASSUME SessionAssumption ==
    /\ None \notin Tasks /\ None \notin Transports
    /\ MaxRecoveryAttempts \in Nat

VARIABLES
    mode,         \* store.currentMode
    engine,       \* the engine's lifecycle and status
    ui,           \* store.voiceSessionStatus, what the user is shown
    timers,       \* armed timers of the speech-silence controller
    interrupting, \* interruptionCtrl.inFlight: playback is being stopped
    mic,          \* the microphone is capturing
    hasCapture,   \* a capture object exists: once there is one it stays
    resuming,     \* voiceResumptionInFlight
    canResume,    \* store.voiceSessionResumption: a handle, and resumable
    attempts,     \* automaticRecoveryAttempts
    operation,    \* task that called beginSessionOperation last
    active,       \* activeTransport
    slot,         \* transport whose unsubscribe function is held
    listening,    \* transports that still deliver events to the router
    phase,        \* transport -> its connection
    waiter,       \* transport -> task awaiting its disconnect
    task          \* task -> the call it runs

session    == <<engine, ui, timers>>
resumption == <<resuming, canResume, attempts>>
wiring     == <<active, slot, listening>>
sockets    == <<phase, waiter>>
microphone == <<mic, hasCapture>>
voice      == <<interrupting, microphone>>
vars == <<mode, session, voice, resumption, operation, wiring, sockets, task>>

\* dialing: the SDK is connecting; setup: it has a socket, the server has not
\* confirmed the setup; aborting, closing: disconnect closed it before, after
\* setup completed; aborted: it failed before it was closed.
Phases == {"idle", "dialing", "setup", "open", "aborting", "aborted", "closing"}
HasSession(x) == phase[x] \in {"setup", "open", "aborting", "closing"}

Connects == {"connectRestored", "connectFallback", "connectResume"}
Awaits == Connects \cup
    {"idle", "teardown", "disconnect", "playback", "endLive", "chat", "token",
     "restore", "retire", "packet", "persist", "drop", "resumeTeardown", "refresh"}
Aims == {"none", "start", "end", "silence", "error", "resume"}

Call(aim, at) == [at |-> at, aim |-> aim, link |-> None, noted |-> FALSE]
Idle == Call("none", "idle")

CallRecords == [at : Awaits, aim : Aims, noted : BOOLEAN, link : Transports \cup {None}]

SessionOK == engine \in EngineStates /\ ui \in Statuses /\ timers \subseteq {"recovery", "silence"}
ResumptionOK == resuming \in BOOLEAN /\ canResume \in BOOLEAN /\ attempts \in 0..MaxRecoveryAttempts
WiringOK == /\ active \in Transports \cup {None} /\ slot \in Transports \cup {None}
            /\ listening \subseteq Transports
SocketsOK == phase \in [Transports -> Phases] /\ waiter \in [Transports -> Tasks \cup {None}]
CallsOK == operation \in Tasks \cup {None} /\ task \in [Tasks -> CallRecords]

\* The type invariant; among the rest, attempts stays within its cap.
TypeOK ==
    /\ mode \in {"inactive", "speech"}
    /\ interrupting \in BOOLEAN /\ mic \in BOOLEAN /\ hasCapture \in BOOLEAN
    /\ SessionOK /\ ResumptionOK /\ WiringOK /\ SocketsOK /\ CallsOK

Init ==
    /\ mode = "inactive"
    /\ engine = InitialEngine
    /\ ui = "disconnected"
    /\ timers = {}
    /\ interrupting = FALSE /\ mic = FALSE /\ hasCapture = FALSE
    /\ resuming = FALSE /\ canResume = FALSE
    /\ attempts = 0
    /\ operation = None
    /\ active = None /\ slot = None /\ listening = {}
    /\ phase = [x \in Transports |-> "idle"]
    /\ waiter = [x \in Transports |-> None]
    /\ task = [t \in Tasks |-> Idle]
-----------------------------------------------------------------------------
(* Publishing engine events, wiring a transport.                           *)

\* silenceCtrl.handleStatusChange: the timers a lifecycle status arms.
TimersOf(life) == CASE life = "recovering" -> {"recovery"}
                    [] life = "listening" -> {"silence"}
                    [] OTHER -> {}

\* Mutant: a status change arms its timers and leaves the old ones running.
ShowLeavingTimers(e, status, armed) ==
    /\ engine' = e
    /\ ui' = status
    /\ timers' = armed \cup TimersOf(e.life)

\* applyEngineEventTransition: e is the engine after the events of this step,
\* armed the timers left by them (none after a cleanupTransport).
Show(e, status, armed) ==
    /\ engine' = e
    /\ ui' = status
    /\ timers' = IF e.life = engine.life THEN armed ELSE TimersOf(e.life)

Publish(e) == Show(e, e.status, timers)

\* cleanupTransport, its timers apart.
Detach ==
    /\ active' = None /\ slot' = None /\ listening' = listening \ {slot}
    /\ interrupting' = FALSE

\* Mutant: the transport is activated without cleaning up the previous one.
AttachUnclean(x) ==
    /\ active' = x /\ slot' = x /\ listening' = listening \cup {x}
    /\ interrupting' = FALSE

\* activateTransport, its timers apart.
Attach(x) ==
    /\ active' = x /\ slot' = x /\ listening' = (listening \ {slot}) \cup {x}
    /\ interrupting' = FALSE

\* A transport object nothing in the program refers to any more.
Fresh(x) ==
    /\ phase[x] = "idle" /\ waiter[x] = None
    /\ x # active /\ x # slot /\ x \notin listening
    /\ \A t \in Tasks : task[t].link # x

Heard(x) == x \in listening
Current(t) == operation = t

Goto(t, at) == task' = [task EXCEPT ![t].at = at]
Done(t) == task' = [task EXCEPT ![t] = Idle]
-----------------------------------------------------------------------------
(* Tearing a runtime down.                                                 *)

\* hasSpeechRuntimeActivity.
Busy(e, status, transport) ==
    e.life # "off" \/ status \notin {"disconnected", "error"} \/ transport # None \/ mic

\* teardownActiveRuntime up to its first await: it notes whether to stop a capture.
EnterTeardown(t, aim, e, status, transport, others) ==
    LET busy == Busy(e, status, transport)
        next == IF busy THEN Step(e, "session.end.requested") ELSE e
    IN /\ busy \/ hasCapture
       /\ Show(next, IF busy THEN next.status ELSE status, timers)
       /\ task' = [others EXCEPT ![t] = [Call(aim, "teardown") EXCEPT !.noted = mic]]

\* teardownActiveRuntime with nothing to tear down.
NothingToTearDown(e, status, transport) == ~Busy(e, status, transport) /\ ~hasCapture

SkipTeardown(t, aim, e, status, transport, others) ==
    /\ NothingToTearDown(e, status, transport)
    /\ Show(e, status, timers)
    /\ task' = [others EXCEPT ![t] = Call(aim, "endLive")]

\* settleVoiceErrorState by t: e is the engine before it, transport the active
\* transport, others the tasks.
Settle(t, e, transport, others) ==
    LET failed == Step(e, "session.error") IN
    /\ operation' = t
    /\ mode' = "inactive"
    /\ resuming' = FALSE /\ canResume' = FALSE
    /\ \/ EnterTeardown(t, "error", failed, "error", transport, others)
       \/ SkipTeardown(t, "error", failed, "error", transport, others)
    /\ UNCHANGED attempts

\* The transport reports 'disconnected': the router drops it unless a resume
\* is in flight.
Dropped(x) == Heard(x) /\ ~resuming
AfterDrop(x) == IF Dropped(x) THEN Step(engine, "transport.disconnected") ELSE engine
DropWiring(x) == IF Dropped(x) THEN Detach ELSE UNCHANGED <<wiring, interrupting>>
PublishDrop(x) ==
    IF Dropped(x) THEN Show(AfterDrop(x), "disconnected", {}) ELSE UNCHANGED session

\* transport.disconnect() awaited by t while the socket exists.  A second
\* caller takes the resolver over: the first one never continues.
CloseSocket(t, x, at) ==
    /\ phase' = [phase EXCEPT ![x] =
                   IF @ \in {"setup", "aborting"} THEN "aborting" ELSE "closing"]
    /\ waiter' = [waiter EXCEPT ![x] = t]
    /\ task' = [u \in Tasks |-> IF u = t THEN [task[t] EXCEPT !.at = at]
                                ELSE IF u = waiter[x] THEN Idle ELSE task[u]]

\* The media have stopped; disconnect whatever transport is active now.
StopMedia(t) ==
    /\ task[t].at = "teardown"
    /\ mic' = (mic /\ ~task[t].noted)
    /\ \/ /\ active # None /\ HasSession(active)
          /\ CloseSocket(t, active, "disconnect")
          /\ UNCHANGED <<session, wiring, interrupting>>
       \/ /\ active # None /\ ~HasSession(active)
          /\ PublishDrop(active) /\ DropWiring(active)
          /\ Goto(t, "playback")
          /\ UNCHANGED sockets
       \/ /\ active = None
          /\ Goto(t, "playback")
          /\ UNCHANGED <<session, wiring, interrupting, sockets>>
    /\ UNCHANGED <<mode, hasCapture, resumption, operation>>

\* Tasks whose connect() on x has not settled.
Connecting(x) == {t \in Tasks : task[t].link = x /\ task[t].at \in Connects}

\* A socket the client closed is gone.  A connect() it was closed under never
\* settles.
ClientClosed(x) ==
    /\ phase[x] \in {"aborting", "aborted", "closing"}
    /\ waiter[x] # None => task[waiter[x]].at # "drop"
    /\ phase' = [phase EXCEPT ![x] = "idle"]
    /\ waiter' = [waiter EXCEPT ![x] = None]
    /\ PublishDrop(x) /\ DropWiring(x)
    /\ task' = [u \in Tasks |-> IF u = waiter[x] THEN [task[u] EXCEPT !.at = "playback"]
                                ELSE IF u \in Connecting(x) THEN Idle ELSE task[u]]
    /\ UNCHANGED <<mode, microphone, resumption, operation>>

\* resetVoiceResumeSessionLimits and the rest of an accepted start, up to the
\* await of the current chat; the start of a live engine is refused.
BeginSession(t, e, status, armed) ==
    /\ mode' = "speech"
    /\ resuming' = FALSE /\ canResume' = FALSE
    /\ IF StartAccepted(e)
       THEN /\ Show(Step(e, "session.start.requested"), "connecting", armed)
            /\ attempts' = 0
            /\ task' = [task EXCEPT ![t] = Call("start", "chat")]
       ELSE /\ Show(e, status, armed)
            /\ Done(t)
            /\ UNCHANGED attempts

\* The finally block of teardownActiveRuntime, and what its caller does next.
FinishTeardown(t) ==
    LET ended == Step(engine, "session.ended") IN
    /\ task[t].at = "playback"
    /\ Detach
    /\ \/ /\ task[t].aim = "start" /\ Current(t)
          /\ BeginSession(t, ended, ended.status, {})
       \/ /\ task[t].aim = "start" => ~Current(t)
          /\ Show(ended, ended.status, {})
          /\ resuming' = FALSE /\ canResume' = FALSE
          /\ task' = [task EXCEPT ![t] = IF task[t].aim = "start" THEN Idle
                                         ELSE Call(task[t].aim, "endLive")]
          /\ UNCHANGED <<mode, attempts>>
    /\ UNCHANGED <<microphone, operation, sockets>>

\* endCurrentLiveSession is answered, or fails and takes the caller with it.
EndLiveDone(t) ==
    /\ task[t].at = "endLive"
    /\ mode' = "inactive"
    /\ IF task[t].aim = "end" THEN Publish(Step(engine, "session.ended"))
       ELSE UNCHANGED session
    /\ Done(t)
    /\ UNCHANGED <<voice, resumption, operation, wiring, sockets>>

EndLiveFails(t) ==
    /\ task[t].at = "endLive"
    /\ Done(t)
    /\ UNCHANGED <<mode, session, voice, resumption, operation, wiring, sockets>>
-----------------------------------------------------------------------------
(* The user: start, end, microphone, text; and the silence timeout.              *)

Start(t) ==
    /\ task[t] = Idle
    /\ mode # "speech" /\ engine.life = "off"
    /\ operation' = t
    /\ \/ /\ EnterTeardown(t, "start", engine, ui, active, task)
          /\ UNCHANGED <<mode, resumption>>
       \/ /\ NothingToTearDown(engine, ui, active)
          /\ BeginSession(t, engine, ui, timers)
    /\ UNCHANGED <<voice, wiring, sockets>>

\* endSpeechModeInternal({recordEvents: true}) behind canEndSpeechMode.
End(t) ==
    LET e == Step(engine, "session.end.requested") IN
    /\ task[t] = Idle
    /\ mode = "speech" \/ engine.life # "off"
    /\ engine.life \notin {"starting", "ending"}
    /\ operation' = t
    /\ \/ /\ EnterTeardown(t, "end", e, e.status, active, task)
          /\ UNCHANGED resumption
       \/ /\ SkipTeardown(t, "end", e, e.status, active, task)
          /\ resuming' = FALSE /\ canResume' = FALSE
          /\ UNCHANGED attempts
    /\ UNCHANGED <<mode, voice, wiring, sockets>>

\* onTimeout: endSessionInternal() without events of its own.
SilenceTimeout(t) ==
    /\ task[t] = Idle
    /\ "silence" \in timers
    /\ operation' = t
    /\ EnterTeardown(t, "silence", engine, ui, active, task)
    /\ UNCHANGED <<mode, voice, resumption, wiring, sockets>>

\* startCapture, by the user behind canToggleMicrophone or, whatever the mode, by a
\* session that became ready: the capture object is there whether or not it starts.
MicStarts ==
    /\ "microphone" \in Inputs
    /\ ~mic
    /\ \/ mode = "speech" /\ engine.life \notin {"starting", "ending"}
       \/ engine.life = "listening"
    /\ ui \in {"active", "interrupted", "recovering"}
    /\ mic' \in BOOLEAN
    /\ hasCapture' = TRUE
    /\ UNCHANGED <<mode, session, interrupting, resumption, operation, wiring, sockets, task>>

MicStops ==
    /\ mic
    /\ mic' = FALSE
    /\ UNCHANGED <<mode, session, interrupting, hasCapture, resumption, operation, wiring,
                   sockets, task>>

\* handleSubmitTextTurn behind canSubmitComposerText: a typed turn sent over the
\* open transport counts as activity.
TypedTurn ==
    /\ "text" \in Inputs
    /\ mode = "speech" /\ engine.life \notin {"off", "starting", "ending"}
    /\ ui \in {"active", "interrupted", "recovering"}
    /\ active # None /\ phase[active] = "open"
    /\ timers' = (timers \ {"silence"}) \cup (TimersOf(engine.life) \cap {"silence"})
    /\ UNCHANGED <<mode, engine, ui, voice, resumption, operation, wiring, sockets, task>>

\* enqueueChunkSend hands a chunk to a transport that has no confirmed session:
\* the send is refused and the session fails.
ChunkRefused(t) ==
    /\ task[t] = Idle
    /\ mic /\ active # None /\ engine.status # "disconnected"
    /\ phase[active] \notin {"open", "closing"}
    /\ Settle(t, engine, active, task)
    /\ UNCHANGED <<voice, wiring, sockets>>

\* The 'capture.error' case of handleCaptureEvent: it writes the store's status.
CaptureError ==
    /\ "capture" \in Faults
    /\ mic
    /\ mic' = FALSE
    /\ ui' = CASE engine.status \in {"connecting", "stopping", "disconnected", "error"} -> ui
               [] engine.status \in {"interrupted", "recovering"} -> engine.status
               [] OTHER -> IF active = None THEN "disconnected" ELSE "active"
    /\ UNCHANGED <<mode, engine, timers, interrupting, hasCapture, resumption, operation,
                   wiring, sockets, task>>
-----------------------------------------------------------------------------
(* startSessionInternal after the teardown.                                *)

\* requestVoiceSessionToken records an event, which also republishes the status.
ChatReady(t) ==
    /\ task[t].at = "chat"
    /\ IF Current(t) THEN Publish(engine) /\ Goto(t, "token")
                     ELSE UNCHANGED session /\ Done(t)
    /\ UNCHANGED <<mode, voice, resumption, operation, wiring, sockets>>

\* The catch around the chat does not ask whether the start is still current.
ChatFails(t) ==
    /\ task[t].at = "chat"
    /\ Settle(t, engine, active, task)
    /\ UNCHANGED <<voice, wiring, sockets>>

TokenReady(t) ==
    /\ task[t].at = "token"
    /\ IF Current(t)
       THEN /\ Publish(engine)
            /\ resuming' = FALSE /\ canResume' = FALSE
            /\ Goto(t, "restore")
       ELSE Done(t) /\ UNCHANGED <<session, resuming, canResume>>
    /\ UNCHANGED <<mode, voice, attempts, operation, wiring, sockets>>

TokenFails(t) ==
    /\ task[t].at = "token"
    /\ IF Current(t) THEN Settle(t, engine, active, task)
       ELSE Done(t) /\ UNCHANGED <<mode, session, resumption, operation>>
    /\ UNCHANGED <<voice, wiring, sockets>>

\* restoreCurrentLiveSession answered: nothing to restore, or a session that
\* cannot be restored and must be retired first.
RestoreLookup(t) ==
    /\ task[t].at = "restore"
    /\ \/ ~Current(t) /\ Done(t)
       \/ Current(t) /\ \E at \in {"packet", "retire"} : Goto(t, at)
    /\ UNCHANGED <<mode, session, voice, resumption, operation, wiring, sockets>>

RestoreFails(t) ==
    /\ task[t].at = "restore"
    /\ Settle(t, engine, active, task)
    /\ UNCHANGED <<voice, wiring, sockets>>

\* transport.connect(): emits 'connecting' and dials.
Dial(t, x, at) ==
    /\ phase' = [phase EXCEPT ![x] = "dialing"]
    /\ task' = [task EXCEPT ![t].at = at, ![t].link = x]
    /\ UNCHANGED waiter

\* connectRestoredSession with a usable record.
ConnectRestored(t, x) ==
    /\ task[t].at = "restore" /\ Current(t) /\ Fresh(x)
    /\ resuming' = TRUE /\ canResume' = TRUE
    /\ Attach(x)
    /\ Show(Step(engine, "transport.connecting.resuming"), "recovering", {})
    /\ Dial(t, x, "connectRestored")
    /\ UNCHANGED <<mode, microphone, attempts, operation>>

\* The record of a session that could not be restored or resumed is invalidated
\* and ended.
RetireDone(t) ==
    /\ task[t].at = "retire"
    /\ IF task[t].aim = "start" /\ task[t].link # None
       THEN resuming' = FALSE /\ canResume' = FALSE
       ELSE UNCHANGED <<resuming, canResume>>
    /\ task' = [task EXCEPT ![t] = IF task[t].aim = "resume" \/ Current(t)
                                   THEN Call(task[t].aim, "packet") ELSE Idle]
    /\ UNCHANGED <<mode, session, voice, attempts, operation, wiring, sockets>>

\* Retiring throws: a start settles the error whether or not it is current.
RetireFails(t) ==
    /\ task[t].at = "retire"
    /\ IF task[t].aim = "start" \/ Current(t) THEN Settle(t, engine, active, task)
       ELSE Done(t) /\ UNCHANGED <<mode, session, resumption, operation>>
    /\ UNCHANGED <<voice, wiring, sockets>>

\* Mutant: nobody asks whether the fallback was superseded.
ConnectFallbackUnchecked(t, x) ==
    /\ task[t].at = "packet" /\ Fresh(x)
    /\ resuming' = FALSE
    /\ Attach(x)
    /\ Show(Step(engine, "transport.connecting"), "connecting", {})
    /\ Dial(t, x, "connectFallback")
    /\ UNCHANGED <<mode, microphone, canResume, attempts, operation>>

\* connectFallbackVoiceSession once the rehydration packet is built.
ConnectFallback(t, x) ==
    /\ task[t].at = "packet" /\ Current(t) /\ Fresh(x)
    /\ resuming' = FALSE
    /\ Attach(x)
    /\ Show(Step(engine, "transport.connecting"), "connecting", {})
    /\ Dial(t, x, "connectFallback")
    /\ UNCHANGED <<mode, microphone, canResume, attempts, operation>>

\* The packet cannot be built, or the call was superseded meanwhile.
PacketFails(t) ==
    /\ task[t].at = "packet"
    /\ IF Current(t) THEN Settle(t, engine, active, task)
       ELSE Done(t) /\ UNCHANGED <<mode, session, resumption, operation>>
    /\ UNCHANGED <<voice, wiring, sockets>>

\* createPersistedLiveSession answered: the session is ready, current or not.
PersistDone(t) ==
    /\ task[t].at = "persist"
    /\ Publish(Step(engine, "session.ready"))
    /\ Done(t)
    /\ UNCHANGED <<mode, voice, resumption, operation, wiring, sockets>>

\* What a failed fallback attempt leads to, e and transport read after its
\* transport went away.
FallbackFailed(t, e, transport) ==
    \/ Current(t) /\ Settle(t, e, transport, task)
    \/ ~Current(t) /\ Done(t) /\ UNCHANGED <<mode, resumption, operation>>

PersistFails(t) ==
    LET x == task[t].link IN
    /\ task[t].at = "persist"
    /\ \/ /\ HasSession(x)
          /\ CloseSocket(t, x, "drop")
          /\ UNCHANGED <<mode, session, interrupting, resumption, operation, wiring>>
       \/ /\ ~HasSession(x)
          /\ DropWiring(x)
          /\ FallbackFailed(t, AfterDrop(x), IF Dropped(x) THEN None ELSE active)
          /\ ~Current(t) => PublishDrop(x)
          /\ UNCHANGED sockets
    /\ UNCHANGED microphone

\* The socket of a fallback attempt that failed after connecting is gone.
DropClosed(x) ==
    LET t == waiter[x] IN
    /\ phase[x] = "closing" /\ t # None
    /\ task[t].at = "drop"
    /\ phase' = [phase EXCEPT ![x] = "idle"]
    /\ waiter' = [waiter EXCEPT ![x] = None]
    /\ DropWiring(x)
    /\ FallbackFailed(t, AfterDrop(x), IF Dropped(x) THEN None ELSE active)
    /\ ~Current(t) => PublishDrop(x)
    /\ UNCHANGED microphone
-----------------------------------------------------------------------------
(* The transport's connection.                                             *)

SdkConnects(x) ==
    /\ phase[x] = "dialing"
    /\ phase' = [phase EXCEPT ![x] = "setup"]
    /\ UNCHANGED <<mode, session, voice, resumption, operation, wiring, waiter, task>>

\* 'connected' as the router publishes it.
AfterConnected(x) == IF Heard(x) THEN Step(engine, "transport.connected") ELSE engine
UiConnected(x) == IF Heard(x) THEN "active" ELSE ui

\* The server confirms a restored session: ready if the start is still current,
\* left as it is if not.
RestoredConnects(t, x) ==
    LET e == AfterConnected(x) IN
    /\ phase[x] = "setup" /\ t \in Connecting(x) /\ task[t].at = "connectRestored"
    /\ phase' = [phase EXCEPT ![x] = "open"]
    /\ IF Current(t) THEN Publish(Step(e, "session.ready"))
                     ELSE Show(e, UiConnected(x), timers)
    /\ resuming' = (resuming /\ ~Heard(x))
    /\ Done(t)
    /\ UNCHANGED <<mode, voice, canResume, attempts, operation, wiring, waiter>>

\* The server confirms a fallback session: persist it, or close it if stale.
FallbackConnects(t, x) ==
    /\ phase[x] = "setup" /\ t \in Connecting(x) /\ task[t].at = "connectFallback"
    /\ IF Current(t)
       THEN /\ phase' = [phase EXCEPT ![x] = "open"]
            /\ Goto(t, "persist")
            /\ UNCHANGED waiter
       ELSE /\ phase' = [phase EXCEPT ![x] = "closing"]
            /\ waiter' = [waiter EXCEPT ![x] = t]
            /\ Goto(t, "drop")
    /\ Show(AfterConnected(x), UiConnected(x), timers)
    /\ resuming' = (resuming /\ ~Heard(x))
    /\ UNCHANGED <<mode, voice, canResume, attempts, operation, wiring>>

\* Mutant: a successful resume refills the recovery budget.
ResumeConnectsRefilling(t, x) ==
    /\ phase[x] = "setup" /\ t \in Connecting(x) /\ task[t].at = "connectResume"
    /\ Show(AfterConnected(x), UiConnected(x), timers)
    /\ phase' = [phase EXCEPT ![x] = "open"]
    /\ resuming' = (resuming /\ ~Heard(x))
    /\ attempts' = 0
    /\ Done(t)
    /\ UNCHANGED <<mode, voice, canResume, operation, wiring, waiter>>

\* The server confirms a resumed session; a resume that is no longer current
\* clears the subscription slot and the active transport, whose ever they are.
ResumeConnects(t, x) ==
    /\ phase[x] = "setup" /\ t \in Connecting(x) /\ task[t].at = "connectResume"
    /\ Show(AfterConnected(x), UiConnected(x), timers)
    /\ IF Current(t) /\ ~Terminal(UiConnected(x))
       THEN /\ phase' = [phase EXCEPT ![x] = "open"]
            /\ resuming' = (resuming /\ ~Heard(x))
            /\ UNCHANGED wiring
       ELSE /\ phase' = [phase EXCEPT ![x] = "closing"]
            /\ resuming' = FALSE
            /\ active' = None /\ slot' = None /\ listening' = listening \ {slot}
    /\ Done(t)
    /\ UNCHANGED <<mode, voice, canResume, attempts, operation, waiter>>

SetupCompletes(x) ==
    \E t \in Tasks : RestoredConnects(t, x) \/ FallbackConnects(t, x) \/ ResumeConnects(t, x)

\* connect() rejects under a call that is no longer current.
StaleRejected(t) ==
    IF task[t].at = "connectRestored" THEN [task[t] EXCEPT !.at = "retire"] ELSE Idle

\* connect() rejects and nobody heard the failure.
Rejected(t) ==
    \/ /\ task[t].at = "connectRestored"
       /\ Goto(t, "retire")
       /\ UNCHANGED <<mode, session, resumption, operation>>
    \/ /\ task[t].at = "connectFallback"
       /\ FallbackFailed(t, engine, active)
       /\ ~Current(t) => UNCHANGED session
    \/ /\ task[t].at = "connectResume"
       /\ IF Current(t) THEN canResume' = FALSE /\ Goto(t, "retire")
                        ELSE UNCHANGED canResume /\ Done(t)
       /\ UNCHANGED <<mode, session, resuming, attempts, operation>>

\* The socket fails before setup completed, closed already or not.  failSetup emits 'error' before it
\* rejects: a router that hears it settles the error in a call of its own.
SetupFails(x) ==
    /\ phase[x] \in {"dialing", "setup", "aborting"}
    /\ phase' = [phase EXCEPT ![x] = IF @ = "aborting" THEN "aborted" ELSE "idle"]
    /\ \E t \in Connecting(x) :
          \/ /\ Heard(x)
             /\ \E r \in Tasks :
                   /\ task[r] = Idle
                   /\ Settle(r, Step(engine, "transport.error"), active,
                             [task EXCEPT ![t] = StaleRejected(t)])
          \/ ~Heard(x) /\ Rejected(t)
    /\ UNCHANGED <<voice, wiring, waiter>>

\* Mutant: a resume that is no operation of its own.
BeginResumeUnnumbered(r, others) ==
    /\ attempts' = attempts + 1
    /\ resuming' = TRUE
    /\ ui' = "recovering"
    /\ active' = None /\ slot' = None /\ listening' = listening \ {slot}
    /\ interrupting' = FALSE
    /\ task' = [others EXCEPT ![r] = [Call("resume", "resumeTeardown")
                                        EXCEPT !.noted = canResume]]
    /\ UNCHANGED <<mode, engine, timers, canResume, operation>>

\* voiceResumeController.resume up to its first await, by r.
BeginResume(r, others) ==
    /\ operation' = r
    /\ attempts' = attempts + 1
    /\ resuming' = TRUE
    /\ ui' = "recovering"
    /\ active' = None /\ slot' = None /\ listening' = listening \ {slot}
    /\ interrupting' = FALSE
    /\ task' = [others EXCEPT ![r] = [Call("resume", "resumeTeardown")
                                        EXCEPT !.noted = canResume]]
    /\ UNCHANGED <<mode, engine, timers, canResume>>

\* A heard go-away or termination: resume, or fail at the cap.
Recover(others) ==
    \E r \in Tasks :
        /\ task[r] = Idle
        /\ \/ /\ attempts < MaxRecoveryAttempts
              /\ BeginResume(r, others)
           \/ /\ attempts >= MaxRecoveryAttempts
              /\ Settle(r, engine, active, others)
              /\ UNCHANGED <<wiring, interrupting>>

\* handleGoAway, handleConnectionTerminated: ignored by a terminal engine.
Recovers(x) == Heard(x) /\ ~Terminal(engine.status)

\* The connection of a session in use ends: a go-away, or a termination.
ConnectionLost(x) ==
    /\ phase[x] = "open"
    /\ phase' = [phase EXCEPT ![x] = "idle"]
    /\ IF Recovers(x) THEN Recover(task)
       ELSE UNCHANGED <<mode, session, interrupting, resumption, operation, wiring, task>>
    /\ UNCHANGED <<microphone, waiter>>

\* A go-away before setup completed also rejects the connect().
GoAwayInSetup(x) ==
    /\ phase[x] = "setup"
    /\ phase' = [phase EXCEPT ![x] = "idle"]
    /\ \E t \in Connecting(x) :
          IF Recovers(x) THEN Recover([task EXCEPT ![t] = StaleRejected(t)])
          ELSE Rejected(t) /\ UNCHANGED <<interrupting, wiring>>
    /\ UNCHANGED <<microphone, waiter>>

\* handleSessionResumptionUpdate: a new handle, resumable or not.
ResumptionUpdate(x) ==
    /\ Heard(x) /\ phase[x] = "open"
    /\ canResume' \in BOOLEAN
    /\ Publish(engine)
    /\ UNCHANGED <<mode, voice, resuming, attempts, operation, wiring, sockets, task>>

\* handleAudioError: the status is 'error', the session goes on.
AudioError(x) ==
    /\ "audio" \in Faults
    /\ Heard(x) /\ phase[x] = "open"
    /\ Publish(Step(engine, "transport.audioError"))
    /\ UNCHANGED <<mode, voice, resumption, operation, wiring, sockets, task>>
-----------------------------------------------------------------------------
(* The rest of a resume.                                                   *)

\* A valid token and a handle: create, subscribe, connect.
ConnectResume(t, x) ==
    /\ task[t].noted /\ ~Terminal(ui) /\ Fresh(x)
    /\ active' = x /\ slot' = x /\ listening' = listening \cup {x}
    /\ LET e == Step(engine, IF resuming THEN "transport.connecting.resuming"
                                         ELSE "transport.connecting")
       IN Publish(e)
    /\ Dial(t, x, "connectResume")
    /\ UNCHANGED <<resuming, canResume>>

Reconnect(t) ==
    \/ \E x \in Transports : ConnectResume(t, x)
    \/ /\ ~task[t].noted
       /\ canResume' = FALSE
       /\ Goto(t, "retire")
       /\ UNCHANGED <<session, resuming, wiring, sockets>>
    \/ /\ task[t].noted /\ Terminal(ui)
       /\ resuming' = FALSE
       /\ Done(t)
       /\ UNCHANGED <<session, canResume, wiring, sockets>>

\* Mutant: a resume that finds itself superseded leaves its flag behind.
ResumeTeardownDoneSilently(t) ==
    /\ task[t].at = "resumeTeardown"
    /\ IF Current(t) /\ ~Terminal(ui)
       THEN \/ Reconnect(t)
            \/ /\ Goto(t, "refresh")
               /\ UNCHANGED <<session, resuming, canResume, wiring, sockets>>
       ELSE Done(t) /\ UNCHANGED <<session, resuming, canResume, wiring, sockets>>
    /\ UNCHANGED <<mode, voice, attempts, operation>>

\* The previous transport, screen and playback are gone: reconnect, refresh the
\* token first, or give way to whatever ended or replaced the session meanwhile.
ResumeTeardownDone(t) ==
    /\ task[t].at = "resumeTeardown"
    /\ IF Current(t) /\ ~Terminal(ui)
       THEN \/ Reconnect(t)
            \/ /\ Goto(t, "refresh")
               /\ UNCHANGED <<session, resuming, canResume, wiring, sockets>>
       ELSE /\ resuming' = FALSE
            /\ Done(t)
            /\ UNCHANGED <<session, canResume, wiring, sockets>>
    /\ UNCHANGED <<mode, voice, attempts, operation>>

RefreshDone(t) ==
    /\ task[t].at = "refresh"
    /\ IF Current(t) THEN Reconnect(t)
       ELSE Done(t) /\ UNCHANGED <<session, resuming, canResume, wiring, sockets>>
    /\ UNCHANGED <<mode, voice, attempts, operation>>

RefreshFails(t) ==
    /\ task[t].at = "refresh"
    /\ IF Current(t) THEN Settle(t, engine, active, task)
       ELSE Done(t) /\ UNCHANGED <<mode, session, resumption, operation>>
    /\ UNCHANGED <<voice, wiring, sockets>>
-----------------------------------------------------------------------------
(* Turns: what the server says while the session is open.                  *)

TurnEvents ==
    {"turn.user.speech.detected", "turn.assistant.output.started"}
        \cup TurnCompleteEvents(engine)

Turn(x) ==
    /\ Heard(x) /\ phase[x] = "open"
    /\ \E ev \in TurnEvents \cap Turns : Publish(Step(engine, ev))
    /\ UNCHANGED <<mode, voice, resumption, operation, wiring, sockets, task>>

\* 'interrupted', from the server or from a typed turn over a pending reply:
\* playback is stopped before the turn recovers.
Interrupted(x) ==
    /\ "turn.interrupted" \in Turns
    /\ Heard(x) /\ phase[x] = "open"
    /\ Publish(Step(engine, "turn.interrupted"))
    /\ interrupting' = TRUE
    /\ UNCHANGED <<mode, microphone, resumption, operation, wiring, sockets, task>>

\* voiceInterruptionController.handle after stopPlayback.
PlaybackStopped ==
    /\ interrupting
    /\ interrupting' = FALSE
    /\ IF active # None /\ engine.status = "interrupted"
       THEN Publish(Step(engine, IF mic THEN "turn.recovery.started"
                                        ELSE "turn.recovery.completed"))
       ELSE UNCHANGED session
    /\ UNCHANGED <<mode, microphone, resumption, operation, wiring, sockets, task>>

RecoveryTimer ==
    /\ "recovery" \in timers
    /\ Show(Step(engine, "turn.recovery.completed"),
            NextStatus(engine.status, "turn.recovery.completed"), timers \ {"recovery"})
    /\ UNCHANGED <<mode, voice, resumption, operation, wiring, sockets, task>>
-----------------------------------------------------------------------------
\* What the runtime does once an await of t is answered.
Continue(t) ==
    \/ StopMedia(t) \/ FinishTeardown(t) \/ EndLiveDone(t) \/ EndLiveFails(t)
    \/ ChatReady(t) \/ ChatFails(t) \/ TokenReady(t) \/ TokenFails(t)
    \/ RestoreLookup(t) \/ RestoreFails(t) \/ RetireDone(t) \/ RetireFails(t)
    \/ PacketFails(t) \/ PersistDone(t) \/ PersistFails(t)
    \/ ResumeTeardownDone(t) \/ RefreshDone(t) \/ RefreshFails(t)
    \/ \E x \in Transports : ConnectRestored(t, x) \/ ConnectFallback(t, x)

\* What the network does to a connection being made or closed.
Settles(x) ==
    SdkConnects(x) \/ SetupCompletes(x) \/ SetupFails(x) \/ GoAwayInSetup(x)
        \/ ClientClosed(x) \/ DropClosed(x)

Server(x) ==
    ConnectionLost(x) \/ ResumptionUpdate(x) \/ AudioError(x) \/ Turn(x) \/ Interrupted(x)

User == \/ MicStarts \/ MicStops \/ CaptureError \/ TypedTurn
        \/ \E t \in Tasks : Start(t) \/ End(t) \/ SilenceTimeout(t) \/ ChunkRefused(t)

Next ==
    \/ User
    \/ \E t \in Tasks : Continue(t)
    \/ \E x \in Transports : Settles(x) \/ Server(x)
    \/ PlaybackStopped \/ RecoveryTimer

Spec == Init /\ [][Next]_vars

\* Backend calls, socket events and timers are answered; the user and the server
\* owe nothing.
Fairness ==
    /\ \A t \in Tasks : WF_vars(Continue(t))
    /\ \A x \in Transports : WF_vars(Settles(x))
    /\ WF_vars(PlaybackStopped) /\ WF_vars(RecoveryTimer)

FairSpec == Spec /\ Fairness
-----------------------------------------------------------------------------
(* What holds.                                                             *)

\* One transport at a time is heard, and it is the active one: whatever order
\* starts, resumes, fallbacks and teardowns run in, no subscription outlives its
\* transport (subscribeTransport, which overwrites the unsubscribe function, is
\* never called over a live one).
OneListener == slot = active /\ listening \subseteq {active}

\* Between its awaits, the current start or resume finds the wiring free until
\* it connects a transport itself.
BeforeConnect == {"chat", "token", "restore", "resumeTeardown", "refresh"}
WiringFree ==
    \A t \in Tasks : Current(t) /\ task[t].at \in BeforeConnect => active = None

\* The user is shown the engine's status, except that a resume in progress, still
\* the current operation, is shown as recovering (setVoiceSessionStatus bypasses
\* the engine).
UiFollowsEngine ==
    ui # engine.status =>
        ui = "recovering" /\ \E t \in Tasks : Current(t) /\ task[t].aim = "resume"

\* A timer never survives the lifecycle status it was armed for: no session is
\* ended as silent while someone speaks, or recovered when nothing was interrupted.
NoStaleTimer == timers \subseteq TimersOf(engine.life)

\* A transport becomes active only for the latest operation, which then awaits its
\* connection: a call superseded at any of its awaits never attaches one.
AttachedByCurrent ==
    [][\A x \in Transports : active' = x /\ active # x =>
          \E t \in Tasks : /\ operation' = t
                           /\ task'[t].link = x /\ task'[t].at \in Connects]_vars

\* The recovery budget is refilled only when nothing is attached or heard: one
\* live session never gets more than its capped number of automatic resumes.
BudgetPerSession == [][attempts' < attempts => active' = None /\ listening' = {}]_vars

\* A resume never stays in flight: the flag that silences 'disconnected' is
\* cleared however the resume ends, superseded or not.
ResumptionSettles == resuming ~> ~resuming
=============================================================================
