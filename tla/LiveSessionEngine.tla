-------------------------- MODULE LiveSessionEngine --------------------------
(***************************************************************************)
(* The live-session engine: the reducer that turns session events into the *)
(* speech lifecycle (speechSessionLifecycle.ts) and the voice-session      *)
(* status (liveSessionEngine.ts).  Pure: its state belongs to the modules  *)
(* that apply events.                                                      *)
(***************************************************************************)
EXTENDS Naturals

Lifecycles == {"off", "starting", "listening", "userSpeaking",
               "assistantSpeaking", "interrupted", "recovering", "ending"}

Statuses == {"disconnected", "connecting", "active", "interrupted",
             "recovering", "stopping", "error"}

EngineStates == [life : Lifecycles, status : Statuses]

InitialEngine == [life |-> "off", status |-> "disconnected"]

SessionEvents ==
    {"session.start.requested", "session.ready", "session.end.requested",
     "session.ended", "session.error", "transport.connecting",
     "transport.connecting.resuming", "transport.connected",
     "transport.disconnected", "transport.error", "transport.audioError",
     "turn.user.speech.detected", "turn.user.settled",
     "turn.assistant.output.started", "turn.assistantCompleted",
     "turn.interrupted", "turn.recovery.started", "turn.recovery.completed"}

\* reduceSpeechSessionLifecycle: an event out of place leaves the lifecycle alone.
NextLife(life, ev) ==
    CASE ev = "session.start.requested" /\ life = "off" -> "starting"
      [] ev = "session.ready" /\ life = "starting" -> "listening"
      [] ev = "turn.user.speech.detected" /\ life \in {"listening", "recovering"} ->
           "userSpeaking"
      [] ev = "turn.user.settled" /\ life = "userSpeaking" -> "listening"
      [] ev = "turn.assistant.output.started"
           /\ life \in {"listening", "userSpeaking"} -> "assistantSpeaking"
      [] ev = "turn.assistantCompleted" /\ life = "assistantSpeaking" -> "listening"
      [] ev = "turn.interrupted" /\ life = "assistantSpeaking" -> "interrupted"
      [] ev = "turn.recovery.started" /\ life = "interrupted" -> "recovering"
      [] ev = "turn.recovery.completed" /\ life \in {"interrupted", "recovering"} ->
           "listening"
      [] ev = "session.end.requested" /\ life # "off" -> "ending"
      [] ev = "session.ended" /\ life = "ending" -> "off"
      [] OTHER -> life

Failures == {"session.error", "transport.error", "transport.audioError"}

\* reduceVoiceSessionStatus
NextStatus(status, ev) ==
    CASE ev \in {"session.start.requested", "transport.connecting"} -> "connecting"
      [] ev = "transport.connecting.resuming" -> "recovering"
      [] ev = "transport.connected" -> "active"
      [] ev = "turn.interrupted" -> "interrupted"
      [] ev = "turn.recovery.started" /\ status = "interrupted" -> "recovering"
      [] ev = "turn.recovery.completed" /\ status \in {"interrupted", "recovering"} ->
           "active"
      [] ev = "session.end.requested" /\ status \notin {"disconnected", "error"} ->
           "stopping"
      [] ev \in {"session.ended", "transport.disconnected"} -> "disconnected"
      [] ev \in Failures -> "error"
      [] OTHER -> status

\* reduceLiveSessionEngineState
Step(e, ev) == [life |-> NextLife(e.life, ev), status |-> NextStatus(e.status, ev)]

\* engine.handleCommand('session.start')
StartAccepted(e) == e.status \in {"disconnected", "error"}

\* shouldIgnoreTermination, isTerminalVoiceStatus
Terminal(status) == status \in {"stopping", "disconnected", "error"}

\* engine.deriveTurnCompleteEvent(): what a turn-complete message records, if
\* anything.
TurnCompleteEvents(e) ==
    CASE e.life = "assistantSpeaking" -> {"turn.assistantCompleted"}
      [] e.life = "userSpeaking" -> {"turn.user.settled"}
      [] OTHER -> {}
=============================================================================
