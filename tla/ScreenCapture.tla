----------------------------- MODULE ScreenCapture -----------------------------
(***************************************************************************)
(* Sharing the screen: the controller that starts and stops a capture, the *)
(* capture that asks for the device, and the frames on their way to the    *)
(* live session.                                                           *)
(*                                                                         *)
(* A step is what runs between two awaits of real I/O: the source list, the *)
(* picker, the video element, a frame's submit.  A stop of a capture that   *)
(* has started takes no time; of one that has not, it waits for the start.  *)
(* A capture or a transport stands for a new one once nothing refers to it. *)
(***************************************************************************)
CONSTANTS Captures, Transports, None,
          Loops        \* drain loops alive at once (bound)

ASSUME ScreenAssumption == None \notin Captures \cup Transports \cup {"disabled", "error"}

VARIABLES
    store,       \* screenCaptureState ("ready" lasts no longer than a call)
    intended,    \* screenShareIntended
    current,     \* the controller's capture
    displaced,   \* history: captures that a later start took the place of
    device,      \* what each capture awaits, or does
    finals,      \* the state that finalizeStop will set for each capture being stopped
    stopInFlight,
    refreshing,  \* starts that await the list of sources
    waiting,     \* a start awaits the stop in flight
    mode,        \* screenContextMode
    manualSendPending,
    timer,       \* autoSendTimer is set and there is a frame to send
    chain,       \* the frame that waits, frameDrainInFlight, what each drain loop awaits
    last,        \* history: the frame handed over last; turn tells equal ones apart
    transport,   \* the active transport
    status,      \* the session: "off", "recovering" or "active"
    ending       \* how far a teardown is: "no", "stops" or "resets"

share == <<store, current, displaced, device, finals, stopInFlight, waiting>>
calls == <<intended, refreshing>>
frames == <<manualSendPending, timer, chain, last>>
session == <<transport, status, ending>>
vars == <<share, calls, mode, frames, session>>

Origins == {"user", "restore"}
Frames == [capture : Captures, to : Transports, manual : BOOLEAN]
NoFrame == [capture |-> None, to |-> None, manual |-> FALSE]

\* current: no reset since the loop began.
LoopStates == [frame : Frames \cup {NoFrame}, current : BOOLEAN]
Chains == [pending : Frames \cup {NoFrame}, draining : BOOLEAN, loop : [Loops -> LoopStates]]
Idle == [frame |-> NoFrame, current |-> FALSE]
Sending(l) == chain.loop[l].frame # NoFrame

\* asked: getDisplayMedia; playing: the stream is open, video.play() is awaited;
\* ended: its track has ended meanwhile; opened: frames come, start() goes on.
Starting == {"asked", "playing", "ended"}
Devices == Starting \cup {"opened", "on", "off"}
StoreStates == {"disabled", "requestingPermission", "capturing", "stopping", "error"}

\* The type invariant.
TypeOK ==
    /\ store \in StoreStates /\ intended \in BOOLEAN
    /\ current \in Captures \cup {None} /\ displaced \subseteq Captures
    /\ device \in [Captures -> Devices]
    /\ finals \in [Captures -> {"disabled", "error", None}]
    /\ stopInFlight \in Captures \cup {None}
    /\ refreshing \subseteq Origins /\ waiting \in BOOLEAN
    /\ mode \in {"manual", "continuous"}
    /\ manualSendPending \in BOOLEAN /\ timer \in BOOLEAN
    /\ chain \in Chains
    /\ last \in [frame : Frames \cup {NoFrame}, turn : BOOLEAN]
    /\ transport \in Transports \cup {None}
    /\ status \in {"off", "recovering", "active"}
    /\ ending \in {"no", "stops", "resets"}

Init ==
    /\ store = "disabled" /\ intended = FALSE
    /\ current = None /\ displaced = {}
    /\ device = [c \in Captures |-> "off"]
    /\ finals = [c \in Captures |-> None] /\ stopInFlight = None
    /\ refreshing = {} /\ waiting = FALSE
    /\ mode \in {"manual", "continuous"}
    /\ manualSendPending = FALSE /\ timer = FALSE
    /\ chain = [pending |-> NoFrame, draining |-> FALSE, loop |-> [l \in Loops |-> Idle]]
    /\ last = [frame |-> NoFrame, turn |-> FALSE]
    /\ transport = None /\ status = "off" /\ ending = "no"
-----------------------------------------------------------------------------
(* Start and stop.                                                         *)

\* reset of the send coordinator: its loops are forgotten, none of them stops.
Reset(ch) ==
    [pending |-> NoFrame, draining |-> FALSE,
     loop |-> [l \in Loops |-> [ch.loop[l] EXCEPT !.current = FALSE]]]

ShareStopped(ch) ==
    /\ manualSendPending' = FALSE /\ timer' = FALSE
    /\ chain' = Reset(ch)
    /\ UNCHANGED last

\* stopCapture of the current capture, its device being dev.
StopCurrent(next, dev, ch) ==
    /\ current' = None
    /\ ShareStopped(ch)
    /\ IF dev[current] \in Starting
       THEN /\ store' = "stopping" /\ device' = dev
            /\ finals' = [finals EXCEPT ![current] = next] /\ stopInFlight' = current
       ELSE /\ store' = next /\ device' = [dev EXCEPT ![current] = "off"]
            /\ UNCHANGED <<finals, stopInFlight>>
    /\ UNCHANGED <<displaced, waiting>>

StopCapture(next) ==
    \/ current # None /\ StopCurrent(next, device, chain)
    \/ /\ current = None /\ stopInFlight = None
       /\ store' = next /\ ShareStopped(chain)
       /\ UNCHANGED <<current, displaced, device, finals, stopInFlight, waiting>>
    \/ current = None /\ stopInFlight # None /\ UNCHANGED <<share, frames>>

Unused == {c \in Captures : /\ c # current /\ device[c] = "off" /\ finals[c] = None
                            /\ chain.pending.capture # c
                            /\ \A l \in Loops : chain.loop[l].frame.capture # c}

SessionReady == transport # None /\ status # "off"

\* start once no stop is in flight, with the state s in the store; a capture that
\* is there when a start is refused stays, and a later start takes its place.
Begin(s, dev, left) ==
    \/ /\ ~SessionReady
       /\ store' = "error" /\ device' = dev /\ displaced' = left /\ UNCHANGED current
    \/ /\ SessionReady /\ s \in {"requestingPermission", "capturing", "stopping"}
       /\ store' = s /\ device' = dev /\ displaced' = left /\ UNCHANGED current
    \/ /\ SessionReady /\ s \in {"disabled", "error"}
       /\ store' = "requestingPermission"
       /\ \E c \in Unused : current' = c /\ device' = [dev EXCEPT ![c] = "asked"]
       /\ displaced' = left \cup ({current} \ {None})

\* The user asks to share; the list of sources is fetched first.
StartScreenCapture ==
    /\ refreshing' = refreshing \cup {"user"}
    /\ UNCHANGED <<share, intended, mode, frames, session>>

\* The list is there: the call goes on whatever has happened since.
Refreshed(o) ==
    /\ o \in refreshing /\ refreshing' = refreshing \ {o}
    /\ intended' = (intended \/ o = "user")
    /\ IF stopInFlight # None
       THEN waiting' = TRUE /\ UNCHANGED <<store, current, displaced, device>>
       ELSE Begin(store, device, displaced) /\ UNCHANGED waiting
    /\ UNCHANGED <<finals, stopInFlight, mode, frames, session>>

RefreshFails(o) ==
    /\ o \in refreshing /\ refreshing' = refreshing \ {o}
    /\ UNCHANGED <<share, intended, mode, frames, session>>

StopScreenCapture ==
    /\ intended' = FALSE
    /\ IF store \in {"disabled", "stopping"} THEN UNCHANGED <<share, frames>>
       ELSE StopCapture("disabled")
    /\ UNCHANGED <<refreshing, mode, session>>
-----------------------------------------------------------------------------
(* The device.                                                             *)

\* The capture c holds no stream any more and its start() has returned: whoever
\* stops it goes on, and then the start that waits for that.
Closed(c) ==
    LET dev == [device EXCEPT ![c] = "off"]
        left == displaced \ {c}
    IN /\ finals' = [finals EXCEPT ![c] = None]
       /\ stopInFlight' = IF stopInFlight = c THEN None ELSE stopInFlight
       /\ IF finals[c] # None /\ waiting
          THEN waiting' = FALSE /\ Begin(finals[c], dev, left)
          ELSE /\ store' = IF finals[c] # None THEN finals[c] ELSE store
               /\ device' = dev /\ displaced' = left /\ UNCHANGED <<current, waiting>>
       /\ UNCHANGED frames

\* onError: only the current capture is listened to.
Fails(c) ==
    IF c = current THEN StopCurrent("error", [device EXCEPT ![c] = "off"], chain) ELSE Closed(c)

\* Only the device of c changes.
Turns(c, d) ==
    /\ device' = [device EXCEPT ![c] = d]
    /\ UNCHANGED <<store, current, displaced, finals, stopInFlight, waiting, frames>>

\* The picker: a stream that comes after a stop was requested is closed at once.
Granted(c) ==
    /\ device[c] = "asked"
    /\ IF finals[c] # None THEN Closed(c) ELSE Turns(c, "playing")
    /\ UNCHANGED <<calls, mode, session>>

Denied(c) ==
    /\ device[c] = "asked"
    /\ Fails(c)
    /\ UNCHANGED <<calls, mode, session>>

Plays(c) ==
    /\ device[c] \in {"playing", "ended"}
    /\ IF finals[c] # None \/ device[c] = "ended" THEN Closed(c) ELSE Turns(c, "opened")
    /\ UNCHANGED <<calls, mode, session>>

PlayFails(c) ==
    /\ device[c] \in {"playing", "ended"}
    /\ Fails(c)
    /\ UNCHANGED <<calls, mode, session>>

\* The track ends; while the video has not begun to play, start() goes on.
TrackEnds(c) ==
    /\ device[c] \in {"playing", "opened", "on"}
    /\ IF device[c] # "playing" THEN Fails(c)
       ELSE IF c = current THEN StopCurrent("error", [device EXCEPT ![c] = "ended"], chain)
       ELSE Turns(c, "ended")
    /\ UNCHANGED <<calls, mode, session>>

\* start() goes on once the dump session is there.
ShareStarted(c) ==
    /\ device[c] = "opened"
    /\ device' = [device EXCEPT ![c] = "on"]
    /\ IF c = current
       THEN store' = "capturing" /\ manualSendPending' = FALSE /\ timer' = FALSE
       ELSE UNCHANGED <<store, manualSendPending, timer>>
    /\ UNCHANGED <<current, displaced, finals, stopInFlight, waiting, calls, mode, chain, last, session>>
-----------------------------------------------------------------------------
(* The frames.                                                             *)

IsCurrentFrame(f) == f # NoFrame /\ f.capture = current /\ f.to = transport

TheFrame(manual) == [capture |-> current, to |-> transport, manual |-> manual]

\* enqueueFrameSend of an admitted frame f: it takes the place of the one that
\* waits, or a loop begins with it.
Enqueue(ch, f) ==
    \/ /\ ch.draining
       /\ chain' = [ch EXCEPT !.pending = f] /\ UNCHANGED last
    \/ /\ ~ch.draining
       /\ \E l \in Loops :
            /\ ~Sending(l)
            /\ chain' = [ch EXCEPT !.pending = NoFrame, !.draining = TRUE,
                                   !.loop[l] = [frame |-> f, current |-> TRUE]]
       /\ last' = [frame |-> f, turn |-> ~last.turn]

\* enqueueFrameSend asks for both.
CanEnqueue == current # None /\ transport # None

\* Mutant: a frame captured in manual mode queues behind the one being sent.
EnqueueBehind(ch, f) == Enqueue([ch EXCEPT !.draining = chain.draining, !.loop = chain.loop], f)

\* The same for a frame captured in manual mode, after the chain was reset.
EnqueueFirst(ch, f) == Enqueue(ch, f)

\* The current capture delivers a frame.  In manual mode the chain is reset, and
\* the frame is sent while a send is asked for, unless the gateway blocks it.
FrameCaptured ==
    /\ CanEnqueue /\ device[current] \in {"opened", "on"}
    /\ timer' = (mode = "continuous")
    /\ CASE mode = "continuous" ->
              manualSendPending' = FALSE /\ UNCHANGED <<chain, last>>
         [] mode = "manual" /\ ~manualSendPending ->
              chain' = Reset(chain) /\ UNCHANGED <<manualSendPending, last>>
         [] OTHER ->
              \/ EnqueueFirst(Reset(chain), TheFrame(TRUE)) /\ UNCHANGED manualSendPending
              \/ chain' = Reset(chain) /\ manualSendPending' = FALSE /\ UNCHANGED last
    /\ UNCHANGED <<share, calls, mode, session>>

\* runAutoSendSchedule with a frame to send, admitted by the gateway; in manual
\* mode it stops instead.
AutoSend ==
    /\ timer /\ current # None
    /\ IF mode = "manual"
       THEN timer' = FALSE /\ chain' = Reset(chain) /\ UNCHANGED last
       ELSE CanEnqueue /\ Enqueue(chain, TheFrame(FALSE)) /\ UNCHANGED timer
    /\ UNCHANGED <<share, calls, mode, manualSendPending, session>>

\* The user asks for a frame to be sent; the debounce is left out.
AnalyzeScreenNow ==
    /\ current # None /\ mode = "manual" /\ ~manualSendPending
    /\ manualSendPending' = TRUE /\ timer' = FALSE
    /\ chain' = Reset(chain)
    /\ UNCHANGED <<share, calls, mode, last, session>>

\* Loop l has settled its frame and goes on with the one that waits.
Continue(l) ==
    IF IsCurrentFrame(chain.pending)
    THEN /\ chain' = [chain EXCEPT !.pending = NoFrame, !.loop[l].frame = chain.pending]
         /\ last' = [frame |-> chain.pending, turn |-> ~last.turn]
    ELSE /\ chain' = [chain EXCEPT !.pending = NoFrame, !.loop[l] = Idle,
                                   !.draining = @ /\ ~chain.loop[l].current]
         /\ UNCHANGED last

\* Mutant: a frame counts as sent whatever has become of its capture.
CountsAlways(f) == TRUE

\* Whether the outcome of frame f still says something of the share.
Counts(f) == IsCurrentFrame(f)

\* submit() resolved.
Sent(l) ==
    /\ Sending(l)
    /\ IF Counts(chain.loop[l].frame)
       THEN store' = "capturing" /\ manualSendPending' = FALSE
       ELSE UNCHANGED <<store, manualSendPending>>
    /\ Continue(l)
    /\ UNCHANGED <<current, displaced, device, finals, stopInFlight, waiting, calls, mode, timer, session>>

\* submit() rejected: the share is stopped, unless the frame is not current.
SendFails(l) ==
    /\ Sending(l)
    /\ IF IsCurrentFrame(chain.loop[l].frame)
       THEN StopCurrent("error", device, [chain EXCEPT !.loop[l] = Idle])
       ELSE Continue(l) /\ UNCHANGED <<share, manualSendPending, timer>>
    /\ UNCHANGED <<calls, mode, session>>

\* The user changes the setting; nobody is told.
SetMode ==
    /\ mode' \in {"manual", "continuous"} \ {mode}
    /\ UNCHANGED <<share, calls, frames, session>>
-----------------------------------------------------------------------------
(* The session, as far as it touches the share.                            *)

\* A resume goes on once its stop of the capture has ended.
Attach(x) ==
    /\ transport = None /\ ending = "no"
    /\ status = "recovering" => stopInFlight = None
    /\ chain.pending.to # x /\ \A l \in Loops : chain.loop[l].frame.to # x
    /\ transport' = x
    /\ UNCHANGED <<share, calls, mode, frames, status, ending>>

\* A share the user still intends is restored.
Connected ==
    /\ transport # None /\ status # "active" /\ ending = "no"
    /\ status' = "active"
    /\ refreshing' = IF intended /\ store = "disabled" THEN refreshing \cup {"restore"} ELSE refreshing
    /\ UNCHANGED <<share, intended, mode, frames, transport, ending>>

\* teardownVoiceSessionForResume; StopCapture resets the chain or there is none.
DetachForResume ==
    /\ transport # None /\ ending = "no"
    /\ transport' = None /\ status' = "recovering"
    /\ StopCapture("disabled")
    /\ UNCHANGED <<calls, mode, ending>>

\* An unexpected disconnect: the transport is cleaned up, the capture goes on.
Disconnected ==
    /\ transport # None /\ ending = "no"
    /\ transport' = None /\ status' = "off"
    /\ chain' = Reset(chain)
    /\ UNCHANGED <<share, calls, mode, manualSendPending, timer, last, ending>>

\* A teardown is requested, by the user or by an error.
EndRequested ==
    /\ ending = "no"
    /\ ending' = "stops" /\ status' = "off"
    /\ UNCHANGED <<share, calls, mode, frames, transport>>

\* The microphone has stopped: the capture is next.
EndStops ==
    /\ ending = "stops"
    /\ ending' = "resets"
    /\ StopCapture("disabled")
    /\ UNCHANGED <<calls, mode, transport, status>>

\* The rest of the teardown: cleanupTransport and resetRuntimeState.
EndResets ==
    /\ ending = "resets" /\ stopInFlight = None
    /\ ending' = "no" /\ transport' = None
    /\ store' = "disabled" /\ intended' = FALSE
    /\ chain' = Reset(chain)
    /\ UNCHANGED <<current, displaced, device, finals, stopInFlight, waiting, refreshing, mode,
                   manualSendPending, timer, last, status>>

Next ==
    \/ StartScreenCapture \/ StopScreenCapture
    \/ \E o \in Origins : Refreshed(o) \/ RefreshFails(o)
    \/ \E c \in Captures :
         \/ Granted(c) \/ Denied(c) \/ Plays(c) \/ PlayFails(c) \/ TrackEnds(c) \/ ShareStarted(c)
    \/ FrameCaptured \/ AutoSend \/ AnalyzeScreenNow \/ SetMode
    \/ \E l \in Loops : Sent(l) \/ SendFails(l)
    \/ \E x \in Transports : Attach(x)
    \/ Connected \/ DetachForResume \/ Disconnected
    \/ EndRequested \/ EndStops \/ EndResets

Spec == Init /\ [][Next]_vars
-----------------------------------------------------------------------------
\* Captures whose OS stream is open.
Open == {c \in Captures : device[c] \in {"playing", "opened", "on"}}

\* What the store shows of the share is true: nothing is recorded while it says
\* disabled, unless a refused start left a capture that a later one displaced;
\* while it says capturing there is a capture; and an open stream always belongs to
\* the controller's capture, to one being stopped, or to a displaced one.
ShareShown ==
    /\ store = "disabled" => current = None /\ Open \subseteq displaced
    /\ store = "capturing" => current # None
    /\ \A c \in Open : c = current \/ finals[c] # None \/ c \in displaced

\* A frame is handed over only to the session that is active, by the capture that
\* is current, and, if it was captured in manual mode, while a send is still asked
\* for: a manual request that was answered draws no further frame.
FramesWanted ==
    [][last' # last =>
         /\ last'.frame.capture = current' /\ last'.frame.to = transport'
         /\ last'.frame.manual => manualSendPending']_vars
=============================================================================
