----------------------------- MODULE VoiceDispatch -----------------------------
(***************************************************************************)
(* Microphone chunks on their way to the live session: the gateway admits  *)
(* a chunk, one waits in the pending slot, and a drain loop hands them to  *)
(* the active transport one after another.                                 *)
(*                                                                         *)
(* DesktopSession.submit() is a promise and may take any time.  A          *)
(* reset forgets the loop that awaits it but does not stop it: it wakes up *)
(* later, settles a chunk of the past and goes on with whatever is pending *)
(* then.  A step is what runs between two awaits of real I/O.              *)
(***************************************************************************)
EXTENDS OutboundGateway, FiniteSets

CONSTANTS Transports, None,
          Loops,      \* drain loops alive at once (bound)
          MaxLane,    \* captures started (bound)
          MaxChunks   \* chunks captured (bound)

ASSUME DispatchAssumption ==
    /\ None \notin Transports
    /\ MaxLane \in Nat /\ Lanes = 0..MaxLane
    /\ MaxChunks \in Nat
    /\ IsFiniteSet(Loops)

VARIABLES
    gateway,    \* the outbound gateway
    mic,        \* "off"; "asked": getUserMedia is awaited; "opening": chunks flow,
                \* start() has not returned; "on"
    sequence,   \* nextChunkSequence of the capture
    closing,    \* an audio context of a past capture has not closed yet
    lane,       \* audioLaneGeneration
    chunks,     \* chunks captured so far, numbered in that order
    active,     \* getActiveTransport()
    connected,  \* transports whose session has completed its setup
    pending,    \* pendingChunk
    inFlight,   \* audioDispatchInFlight
    loop,       \* what each drain loop awaits
    heard       \* history: number of the last chunk each transport was handed

capture == <<mic, sequence, closing, lane>>
session == <<active, connected>>
dispatch == <<pending, inFlight, loop, heard>>
vars == <<gateway, capture, chunks, session, dispatch>>

\* number: its place in the order of capture; to: the transport active then.
Chunks == [number : 1..MaxChunks, lane : Lanes, to : Transports]
NoChunk == [number |-> 0, lane |-> 0, to |-> None]

\* current: no reset since it began, its generation is voiceDispatchGeneration.
LoopStates == [chunk : Chunks \cup {NoChunk}, current : BOOLEAN]
Idle == [chunk |-> NoChunk, current |-> FALSE]

Sending(l) == loop[l].chunk # NoChunk

\* The type invariant; an audio lane never has more outstanding than it may.
TypeOK ==
    /\ gateway \in GatewayStates
    /\ \A k \in Lanes : gateway.outstanding[k] <= AudioMaxOutstanding
    /\ mic \in {"off", "asked", "opening", "on"}
    /\ sequence \in Nat /\ lane \in Lanes /\ closing \in BOOLEAN
    /\ chunks \in 0..MaxChunks
    /\ active \in Transports \cup {None} /\ connected \subseteq Transports
    /\ pending \in Chunks \cup {NoChunk}
    /\ inFlight \in BOOLEAN
    /\ loop \in [Loops -> LoopStates]
    /\ heard \in [Transports -> 0..MaxChunks]

Init ==
    /\ gateway = Fresh
    /\ mic = "off" /\ sequence = 0 /\ lane = 0 /\ closing = FALSE
    /\ chunks = 0
    /\ active = None /\ connected = {}
    /\ pending = NoChunk /\ inFlight = FALSE
    /\ loop = [l \in Loops |-> Idle]
    /\ heard = [x \in Transports |-> 0]
-----------------------------------------------------------------------------
(* The microphone.                                                         *)

\* startCapture, in a session that is ready; a session that is recovering was.
StartCapture ==
    /\ mic = "off" /\ active \in connected /\ lane < MaxLane
    /\ mic' = "asked"
    /\ UNCHANGED <<gateway, sequence, closing, lane, chunks, session, dispatch>>

\* runtime.activate, whatever became of the session while the device was asked
\* for: chunks are numbered from one again, still on the old lane.
Activate ==
    /\ mic = "asked"
    /\ mic' = "opening" /\ sequence' = 0
    /\ UNCHANGED <<gateway, lane, closing, chunks, session, dispatch>>

\* The device is refused.
Refused ==
    /\ mic = "asked"
    /\ mic' = "off"
    /\ UNCHANGED <<gateway, sequence, closing, lane, chunks, session, dispatch>>

\* start() returned: startCapture opens the next lane.
AdvanceAudioLane ==
    /\ mic = "opening"
    /\ mic' = "on" /\ lane' = lane + 1
    /\ UNCHANGED <<gateway, sequence, closing, chunks, session, dispatch>>

\* cleanupResources up to its await: a stop, a lost track, or a start that failed
\* after all.  Before the device is open there is nothing to clean up.
Release ==
    /\ mic \in {"opening", "on"}
    /\ mic' = "off" /\ closing' = TRUE
    /\ UNCHANGED <<gateway, sequence, lane, chunks, session, dispatch>>

\* The rest of it, which may come after the next capture has begun.
ContextCloses ==
    /\ closing
    /\ closing' = FALSE /\ sequence' = 0
    /\ UNCHANGED <<gateway, mic, lane, chunks, session, dispatch>>
-----------------------------------------------------------------------------
(* The dispatch.                                                           *)

\* Loop l goes on with chunk c, which has left the pending slot, g being the
\* gateway: it submits c, or settles it when its transport was replaced and,
\* nothing else waiting, ends.
Take(l, c, g, isCurrent) ==
    IF c # NoChunk /\ c.to = active
    THEN /\ loop' = [loop EXCEPT ![l] = [chunk |-> c, current |-> isCurrent]]
         /\ heard' = [heard EXCEPT ![c.to] = c.number]
         /\ gateway' = g
         /\ inFlight' = (inFlight \/ isCurrent)
    ELSE /\ loop' = [loop EXCEPT ![l] = Idle]
         /\ gateway' = IF c = NoChunk THEN g ELSE Settled(g, c.lane)
         /\ inFlight' = (inFlight /\ ~isCurrent)
         /\ UNCHANGED heard

\* Mutant: a chunk that finds the slot taken is forgotten without settling it.
FullWithoutSettling(c, admitted) ==
    /\ pending # NoChunk
    /\ gateway' = admitted
    /\ UNCHANGED dispatch

\* enqueueChunkSend of an admitted chunk c while another one waits.
Full(c, admitted) ==
    /\ pending # NoChunk
    /\ gateway' = Settled(admitted, c.lane)
    /\ UNCHANGED dispatch

\* A loop is at work: it will take the chunk.
Wait(c, admitted) ==
    /\ pending = NoChunk /\ inFlight
    /\ pending' = c
    /\ gateway' = admitted
    /\ UNCHANGED <<inFlight, loop, heard>>

\* Mutant: a loop is begun without asking for the one at work.
DrainAtOnce(c, admitted) ==
    /\ \E l \in Loops : ~Sending(l) /\ Take(l, c, admitted, TRUE)
    /\ UNCHANGED pending

\* No loop is at work: drainPendingChunks begins one.
Drain(c, admitted) ==
    /\ pending = NoChunk /\ ~inFlight
    /\ \E l \in Loops : ~Sending(l) /\ Take(l, c, admitted, TRUE)
    /\ UNCHANGED pending

\* A chunk from the worklet.  With no transport, or not admitted, it is dropped.
Chunk ==
    /\ mic \in {"opening", "on"} /\ chunks < MaxChunks
    /\ chunks' = chunks + 1
    /\ sequence' = sequence + 1
    /\ LET c == [number |-> chunks + 1, lane |-> lane, to |-> active]
           admitted == Admitted(gateway, lane, sequence + 1)
       IN IF active # None /\ AdmitsAudio(gateway, lane, sequence + 1)
          THEN Full(c, admitted) \/ Wait(c, admitted) \/ Drain(c, admitted)
          ELSE UNCHANGED <<gateway, dispatch>>
    /\ UNCHANGED <<mic, closing, lane, session>>

\* The loop settles the chunk it awaited, g being the gateway, and goes on.
Continue(l, g) ==
    /\ pending' = NoChunk
    /\ Take(l, pending, Settled(g, loop[l].chunk.lane), loop[l].current)
    /\ UNCHANGED <<capture, chunks, session>>

\* submit() resolved; whose transport was replaced says nothing of its success.
Sent(l) ==
    /\ Sending(l)
    /\ Continue(l, IF loop[l].chunk.to = active THEN Succeeded(gateway) ELSE gateway)

\* submit() rejected.  Whether its transport was replaced is not asked: the
\* failure counts, and setVoiceErrorState ends the session there is (Cleanup).
SendFails(l) ==
    /\ Sending(l)
    /\ Continue(l, Failed(gateway))

\* Mutant: a reset that leaves the flag of the loop it forgets.
ForgetLoops(g) ==
    /\ pending' = NoChunk
    /\ loop' = [l \in Loops |-> [loop[l] EXCEPT !.current = FALSE]]
    /\ gateway' = IF pending = NoChunk THEN g ELSE Settled(g, pending.lane)
    /\ UNCHANGED <<inFlight, heard>>

\* resetSendChain, g being the gateway.
ResetSendChain(g) ==
    /\ pending' = NoChunk /\ inFlight' = FALSE
    /\ loop' = [l \in Loops |-> [loop[l] EXCEPT !.current = FALSE]]
    /\ gateway' = IF pending = NoChunk THEN g ELSE Settled(g, pending.lane)
    /\ UNCHANGED heard
-----------------------------------------------------------------------------
(* The session.                                                            *)

\* A new transport becomes active, after it has connected or, on a resume, before.
\* A transport stands for a new one once no loop refers to it.
Attach(x) ==
    /\ active = None
    /\ \A l \in Loops : loop[l].chunk.to # x
    /\ active' = x
    /\ \E c \in {connected \cup {x}, connected \ {x}} : connected' = c
    /\ UNCHANGED <<gateway, capture, chunks, dispatch>>

Connect ==
    /\ active # None /\ active \notin connected
    /\ connected' = connected \cup {active}
    /\ UNCHANGED <<gateway, capture, chunks, active, dispatch>>

\* teardownVoiceSessionForResume: the session goes on, and so does the gateway.
DetachForResume ==
    /\ active # None
    /\ active' = None /\ connected' = connected \ {active}
    /\ ResetSendChain(gateway)
    /\ UNCHANGED <<capture, chunks>>

\* cleanupTransport: the gateway is reset before the chunk that waits is settled.
Cleanup ==
    /\ active' = None /\ connected' = connected \ {active}
    /\ ResetSendChain(Fresh)
    /\ UNCHANGED <<capture, chunks>>

\* A text turn or a screen frame was sent, or failed: they share the breaker.
OthersSettle ==
    /\ gateway' \in {Succeeded(gateway), Failed(gateway)}
    /\ UNCHANGED <<capture, chunks, session, dispatch>>

Next ==
    \/ StartCapture \/ Activate \/ Refused \/ AdvanceAudioLane \/ Release \/ ContextCloses
    \/ Chunk
    \/ \E l \in Loops : Sent(l) \/ SendFails(l)
    \/ \E x \in Transports : Attach(x)
    \/ Connect \/ DetachForResume \/ Cleanup \/ OthersSettle

Spec == Init /\ [][Next]_vars
-----------------------------------------------------------------------------
\* The chunks of lane k that somebody still has to settle.
Held(k) == {l \in Loops : Sending(l) /\ loop[l].chunk.lane = k}
Unsettled(k) == Cardinality(Held(k)) + (IF pending # NoChunk /\ pending.lane = k THEN 1 ELSE 0)

\* A lane never counts more outstanding chunks than somebody still has to settle,
\* whatever was reset, replaced or dropped in between: a lane that leaked a count
\* would be saturated for good, and the microphone silent.
LaneAccounted == \A k \in Lanes : gateway.outstanding[k] <= Unsettled(k)

\* A chunk that waits is waited for by a loop that will take it, also when the
\* loop that was at work has been forgotten by a reset.
NothingStranded == pending # NoChunk => \E l \in Loops : Sending(l)

\* A transport hears chunks in the order they were captured, each while it is the
\* active one, however many loops of past generations are still at work.
SentInOrder ==
    [][\A x \in Transports :
         heard'[x] # heard[x] => heard'[x] > heard[x] /\ active = x]_vars
=============================================================================
