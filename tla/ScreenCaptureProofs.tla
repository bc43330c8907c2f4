-------------------------- MODULE ScreenCaptureProofs --------------------------
(***************************************************************************)
(* Proofs about sharing the screen, for any number of captures, transports *)
(* and drain loops.                                                        *)
(***************************************************************************)
EXTENDS ScreenCapture, TLAPS

---------------------------------------------------------------------------
(* The inductive invariant *)

\* One stop is in flight at a time, of a capture that is not current any more.
Stops ==
  /\ \A c \in Captures : finals[c] # None <=> c = stopInFlight
  /\ stopInFlight # None <=> store = "stopping"
  /\ stopInFlight # None => current = None

\* A capture at work is current, being stopped or displaced.
Owned ==
  \A c \in Captures : device[c] # "off" => c = current \/ c = stopInFlight \/ c \in displaced

StoreTrue ==
  /\ store = "disabled" => current = None
  /\ store = "capturing" => current # None

\* A teardown leaves no way to start a share.
Ends ==
  /\ ending # "no" => status = "off"
  /\ ending = "resets" => current = None

\* A frame captured in manual mode never waits: the chain was reset before it.
PendingAuto == chain.pending.manual = FALSE

Sharing == Stops /\ Owned /\ StoreTrue
IInv == TypeOK /\ Sharing /\ Ends /\ PendingAuto

\* TypeOK by groups of variables.
ShareTyped ==
  /\ store \in StoreStates
  /\ current \in Captures \cup {None} /\ displaced \subseteq Captures
  /\ device \in [Captures -> Devices]
  /\ finals \in [Captures -> {"disabled", "error", None}]
  /\ stopInFlight \in Captures \cup {None} /\ waiting \in BOOLEAN

FramesTyped ==
  /\ manualSendPending \in BOOLEAN /\ timer \in BOOLEAN
  /\ chain \in Chains
  /\ last \in [frame : Frames \cup {NoFrame}, turn : BOOLEAN]

RestTyped ==
  /\ intended \in BOOLEAN /\ refreshing \subseteq Origins
  /\ mode \in {"manual", "continuous"}
  /\ transport \in Transports \cup {None}
  /\ status \in {"off", "recovering", "active"}
  /\ ending \in {"no", "stops", "resets"}

LEMMA TypedByGroups == TypeOK <=> ShareTyped /\ FramesTyped /\ RestTyped
  BY DEF TypeOK, ShareTyped, FramesTyped, RestTyped

LEMMA TypedByGroupsNext == TypeOK' <=> ShareTyped' /\ FramesTyped' /\ RestTyped'
  BY DEF TypeOK, ShareTyped, FramesTyped, RestTyped

---------------------------------------------------------------------------
(* The chain of frames *)

LEMMA NoFrameIsNone ==
  /\ NoFrame.manual = FALSE
  /\ NoFrame.capture = None /\ NoFrame.to = None
  /\ NoFrame \notin Frames
  BY ScreenAssumption DEF NoFrame, Frames

LEMMA ResetOK ==
  ASSUME NEW ch \in Chains
  PROVE  /\ Reset(ch) \in Chains
         /\ Reset(ch).pending = NoFrame /\ Reset(ch).draining = FALSE
<1>1. ASSUME NEW l \in Loops PROVE [ch.loop[l] EXCEPT !.current = FALSE] \in LoopStates
  <2>1. ch.loop[l] \in LoopStates
    BY DEF Chains
  <2> QED BY <2>1 DEF LoopStates
<1>2. [l \in Loops |-> [ch.loop[l] EXCEPT !.current = FALSE]] \in [Loops -> LoopStates]
  BY <1>1
<1> DEFINE f == [l \in Loops |-> [ch.loop[l] EXCEPT !.current = FALSE]]
<1>3. Reset(ch) = [pending |-> NoFrame, draining |-> FALSE, loop |-> f]
  BY DEF Reset
<1>4. f \in [Loops -> LoopStates]
  BY <1>2
<1> HIDE DEF f
<1> QED BY <1>3, <1>4 DEF Chains

\* A frame is enqueued with a loop of its own, or waits for the one at work.
LEMMA EnqueueOK ==
  ASSUME FramesTyped, NEW ch \in Chains, NEW f \in Frames,
         ch.pending.manual = FALSE, ch.draining => f.manual = FALSE,
         Enqueue(ch, f)
  PROVE  /\ chain' \in Chains /\ chain'.pending.manual = FALSE
         /\ last' \in [frame : Frames \cup {NoFrame}, turn : BOOLEAN]
         /\ last' # last => last'.frame = f
<1>1. CASE ch.draining /\ chain' = [ch EXCEPT !.pending = f] /\ UNCHANGED last
  <2>1. chain' \in Chains
    BY <1>1 DEF Chains
  <2>2. chain'.pending = f
    BY <1>1 DEF Chains
  <2> QED BY <1>1, <2>1, <2>2 DEF FramesTyped
<1>2. ASSUME NEW l \in Loops,
             chain' = [ch EXCEPT !.pending = NoFrame, !.draining = TRUE,
                                 !.loop[l] = [frame |-> f, current |-> TRUE]],
             last' = [frame |-> f, turn |-> ~last.turn]
      PROVE  /\ chain' \in Chains /\ chain'.pending.manual = FALSE
             /\ last' \in [frame : Frames \cup {NoFrame}, turn : BOOLEAN]
             /\ last' # last => last'.frame = f
  <2> DEFINE g == [ch.loop EXCEPT ![l] = [frame |-> f, current |-> TRUE]]
  <2>1. [frame |-> f, current |-> TRUE] \in LoopStates
    BY DEF LoopStates
  <2>2. g \in [Loops -> LoopStates]
    BY <2>1 DEF Chains
  <2>3. chain' = [ch EXCEPT !.pending = NoFrame, !.draining = TRUE, !.loop = g]
    BY <1>2 DEF Chains
  <2> HIDE DEF g
  <2>4. chain' \in Chains /\ chain'.pending = NoFrame
    BY <2>2, <2>3 DEF Chains
  <2>5. last' \in [frame : Frames \cup {NoFrame}, turn : BOOLEAN]
    BY <1>2 DEF FramesTyped
  <2> QED BY <1>2, <2>4, <2>5, NoFrameIsNone
<1> QED BY <1>1, <1>2 DEF Enqueue

\* A loop goes on with the frame that waits, if that is still current.
LEMMA ContinueOK ==
  ASSUME FramesTyped, PendingAuto, NEW l \in Loops, Continue(l)
  PROVE  /\ chain' \in Chains /\ PendingAuto'
         /\ last' \in [frame : Frames \cup {NoFrame}, turn : BOOLEAN]
         /\ last' # last => last'.frame = chain.pending /\ IsCurrentFrame(chain.pending)
<1> DEFINE f == chain.pending
<1>1. chain \in Chains /\ f \in Frames \cup {NoFrame} /\ chain.loop[l] \in LoopStates
  BY DEF FramesTyped, Chains
<1>2. CASE IsCurrentFrame(f)
  <2> DEFINE g == [chain.loop EXCEPT ![l].frame = f]
  <2>1. [chain.loop[l] EXCEPT !.frame = f] \in LoopStates
    BY <1>1 DEF LoopStates
  <2>2. g \in [Loops -> LoopStates]
    BY <1>1, <2>1 DEF Chains
  <2>3. chain' = [chain EXCEPT !.pending = NoFrame, !.loop = g]
    BY <1>1, <1>2 DEF Continue, Chains
  <2> HIDE DEF g
  <2>4. chain' \in Chains /\ chain'.pending = NoFrame
    BY <1>1, <2>2, <2>3 DEF Chains
  <2>5. last' = [frame |-> f, turn |-> ~last.turn]
    BY <1>2 DEF Continue
  <2>6. last' \in [frame : Frames \cup {NoFrame}, turn : BOOLEAN]
    BY <1>1, <2>5 DEF FramesTyped
  <2> QED BY <1>2, <2>4, <2>5, <2>6, NoFrameIsNone DEF PendingAuto
<1>3. CASE ~IsCurrentFrame(f)
  <2> DEFINE g == [chain.loop EXCEPT ![l] = Idle]
             d == chain.draining /\ ~chain.loop[l].current
  <2>1. Idle \in LoopStates
    BY DEF Idle, LoopStates
  <2>2. g \in [Loops -> LoopStates] /\ d \in BOOLEAN
    BY <1>1, <2>1 DEF Chains, LoopStates
  <2>3. /\ chain' = [chain EXCEPT !.pending = NoFrame, !.loop = g, !.draining = d]
        /\ last' = last
    BY <1>1, <1>3 DEF Continue, Chains
  <2> HIDE DEF g, d
  <2>4. chain' \in Chains /\ chain'.pending = NoFrame
    BY <1>1, <2>2, <2>3 DEF Chains
  <2> QED BY <2>3, <2>4, NoFrameIsNone DEF PendingAuto, FramesTyped
<1> QED BY <1>2, <1>3

---------------------------------------------------------------------------
(* Stopping and starting *)

LEMMA ShareStoppedOK ==
  ASSUME FramesTyped, NEW ch \in Chains, ShareStopped(ch)
  PROVE  FramesTyped' /\ PendingAuto' /\ last' = last
  BY ResetOK, NoFrameIsNone DEF ShareStopped, FramesTyped, PendingAuto

LEMMA StopCurrentOK ==
  ASSUME ShareTyped, FramesTyped, Sharing, current # None,
         NEW next \in {"disabled", "error"},
         NEW dev \in [Captures -> Devices],
         \A c \in Captures : c # current => dev[c] = device[c],
         NEW ch \in Chains,
         StopCurrent(next, dev, ch)
  PROVE  /\ ShareTyped' /\ FramesTyped' /\ Sharing' /\ PendingAuto'
         /\ last' = last /\ current' = None
<1>1. FramesTyped' /\ PendingAuto' /\ last' = last
  BY ShareStoppedOK DEF StopCurrent
<1>2. /\ current \in Captures /\ current' = None /\ displaced' = displaced /\ waiting' = waiting
      /\ stopInFlight = None /\ \A c \in Captures : finals[c] = None
  BY ScreenAssumption DEF StopCurrent, ShareTyped, Sharing, Stops
<1>3. CASE dev[current] \in Starting
  <2>1. /\ store' = "stopping" /\ device' = dev /\ stopInFlight' = current
        /\ finals' = [finals EXCEPT ![current] = next]
    BY <1>3 DEF StopCurrent
  <2>2. ShareTyped'
    BY <1>2, <2>1 DEF ShareTyped, StoreStates
  <2>3. Stops'
    <3>1. \A c \in Captures : finals'[c] # None <=> c = stopInFlight'
      <4>1. \A c \in Captures : finals'[c] = IF c = current THEN next ELSE finals[c]
        BY <2>1 DEF ShareTyped
      <4>2. next # None
        BY ScreenAssumption
      <4> QED BY <1>2, <2>1, <4>1, <4>2
    <3> QED BY <1>2, <2>1, <3>1, ScreenAssumption DEF Stops
  <2>4. Owned'
    BY <1>2, <2>1 DEF Owned, Sharing
  <2> QED BY <1>1, <1>2, <2>1, <2>2, <2>3, <2>4 DEF Sharing, StoreTrue
<1>4. CASE dev[current] \notin Starting
  <2>1. /\ store' = next /\ device' = [dev EXCEPT ![current] = "off"]
        /\ finals' = finals /\ stopInFlight' = stopInFlight
    BY <1>4 DEF StopCurrent
  <2>2. ShareTyped'
    BY <1>2, <2>1 DEF ShareTyped, StoreStates, Devices
  <2>3. Stops'
    BY <1>2, <2>1, ScreenAssumption DEF Stops
  <2>4. Owned'
    BY <1>2, <2>1 DEF Owned, Sharing
  <2> QED BY <1>1, <1>2, <2>1, <2>2, <2>3, <2>4 DEF Sharing, StoreTrue
<1> QED BY <1>3, <1>4

LEMMA StopCaptureOK ==
  ASSUME ShareTyped, FramesTyped, Sharing, PendingAuto, StopCapture("disabled")
  PROVE  /\ ShareTyped' /\ FramesTyped' /\ Sharing' /\ PendingAuto'
         /\ last' = last /\ current' = None
<1>1. device \in [Captures -> Devices] /\ chain \in Chains
  BY DEF ShareTyped, FramesTyped
<1>2. CASE current # None /\ StopCurrent("disabled", device, chain)
  BY <1>1, <1>2, StopCurrentOK
<1>3. CASE /\ current = None /\ stopInFlight = None
           /\ store' = "disabled" /\ ShareStopped(chain)
           /\ UNCHANGED <<current, displaced, device, finals, stopInFlight, waiting>>
  <2>1. FramesTyped' /\ PendingAuto' /\ last' = last
    BY <1>1, <1>3, ShareStoppedOK
  <2>2. ShareTyped'
    BY <1>3 DEF ShareTyped, StoreStates
  <2>3. Sharing'
    BY <1>3 DEF Sharing, Stops, Owned, StoreTrue
  <2> QED BY <1>3, <2>1, <2>2, <2>3
<1>4. CASE current = None /\ stopInFlight # None /\ UNCHANGED <<share, frames>>
  BY <1>4 DEF share, frames, ShareTyped, FramesTyped, Sharing, Stops, Owned, StoreTrue, PendingAuto
<1> QED BY <1>2, <1>3, <1>4 DEF StopCapture

\* start, once no stop is in flight; s is what the store shows.
LEMMA BeginOK ==
  ASSUME NEW s \in StoreStates \ {"stopping"}, NEW dev \in [Captures -> Devices],
         NEW left \in SUBSET Captures,
         current \in Captures \cup {None},
         \A c \in Captures : dev[c] # "off" => c = current \/ c \in left,
         s = "disabled" => current = None, s = "capturing" => current # None,
         Begin(s, dev, left)
  PROVE  /\ store' \in StoreStates \ {"stopping"} /\ current' \in Captures \cup {None}
         /\ displaced' \subseteq Captures /\ device' \in [Captures -> Devices]
         /\ \A c \in Captures : device'[c] # "off" => c = current' \/ c \in displaced'
         /\ store' = "disabled" => current' = None
         /\ store' = "capturing" => current' # None
         /\ SessionReady \/ current' = current
<1>1. CASE /\ ~SessionReady
           /\ store' = "error" /\ device' = dev /\ displaced' = left /\ UNCHANGED current
  BY <1>1 DEF StoreStates
<1>2. CASE /\ SessionReady /\ s \in {"requestingPermission", "capturing", "stopping"}
           /\ store' = s /\ device' = dev /\ displaced' = left /\ UNCHANGED current
  BY <1>2
<1>3. ASSUME /\ SessionReady
             /\ store' = "requestingPermission"
             /\ displaced' = left \cup ({current} \ {None}),
             NEW c \in Unused, current' = c, device' = [dev EXCEPT ![c] = "asked"]
      PROVE  /\ store' \in StoreStates \ {"stopping"} /\ current' \in Captures \cup {None}
             /\ displaced' \subseteq Captures /\ device' \in [Captures -> Devices]
             /\ \A d \in Captures : device'[d] # "off" => d = current' \/ d \in displaced'
             /\ store' = "disabled" => current' = None
             /\ store' = "capturing" => current' # None
             /\ SessionReady \/ current' = current
  <2>1. c \in Captures
    BY DEF Unused
  <2>2. device' \in [Captures -> Devices]
    BY <1>3, <2>1 DEF Devices, Starting
  <2>3. ASSUME NEW d \in Captures, device'[d] # "off" PROVE d = current' \/ d \in displaced'
    BY <1>3, <2>1, <2>3, ScreenAssumption
  <2> QED BY <1>3, <2>1, <2>2, <2>3 DEF StoreStates
<1> QED BY <1>1, <1>2, <1>3 DEF Begin

LEMMA ClosedOK ==
  ASSUME ShareTyped, FramesTyped, Sharing, PendingAuto, NEW c \in Captures, Closed(c)
  PROVE  /\ ShareTyped' /\ FramesTyped' /\ Sharing' /\ PendingAuto' /\ last' = last
         /\ SessionReady \/ current' = current
<1> DEFINE dev == [device EXCEPT ![c] = "off"]
           left == displaced \ {c}
<1>1. FramesTyped' /\ PendingAuto' /\ last' = last
  BY DEF Closed, frames, FramesTyped, PendingAuto
<1>2. /\ dev \in [Captures -> Devices] /\ left \in SUBSET Captures
      /\ \A d \in Captures : dev[d] # "off" =>
           /\ device[d] # "off"
           /\ d = current \/ d = stopInFlight \/ d \in left
  BY DEF ShareTyped, Sharing, Owned, Devices
<1>3. /\ finals' = [finals EXCEPT ![c] = None]
      /\ stopInFlight' = IF stopInFlight = c THEN None ELSE stopInFlight
  BY DEF Closed
<1>4. /\ finals' \in [Captures -> {"disabled", "error", None}]
      /\ stopInFlight' \in Captures \cup {None}
      /\ \A d \in Captures : finals'[d] # None <=> d = stopInFlight'
  BY <1>3, ScreenAssumption DEF ShareTyped, Sharing, Stops
<1>5. CASE finals[c] # None
  <2>1. stopInFlight = c /\ current = None /\ stopInFlight' = None
    BY <1>3, <1>5, ScreenAssumption DEF Sharing, Stops
  <2>2. \A d \in Captures : dev[d] # "off" => d = current \/ d \in left
    BY <1>2, <2>1
  <2>3. finals[c] \in {"disabled", "error"}
    BY <1>5 DEF ShareTyped
  <2>4. CASE waiting
    <3>1. waiting' = FALSE /\ Begin(finals[c], dev, left)
      BY <1>5, <2>4 DEF Closed
    <3> HIDE DEF dev, left
    <3>2. /\ finals[c] \in StoreStates \ {"stopping"} /\ finals[c] # "capturing"
          /\ current \in Captures \cup {None}
      BY <2>1, <2>3 DEF StoreStates
    <3>3. /\ store' \in StoreStates \ {"stopping"} /\ current' \in Captures \cup {None}
          /\ displaced' \subseteq Captures /\ device' \in [Captures -> Devices]
          /\ \A d \in Captures : device'[d] # "off" => d = current' \/ d \in displaced'
          /\ store' = "disabled" => current' = None
          /\ store' = "capturing" => current' # None
          /\ SessionReady \/ current' = current
      BY <1>2, <2>1, <2>2, <3>1, <3>2, BeginOK
    <3> QED BY <1>1, <1>4, <2>1, <3>1, <3>3 DEF ShareTyped, Sharing, Stops, Owned, StoreTrue
  <2>5. CASE ~waiting
    <3>1. /\ store' = finals[c] /\ device' = dev /\ displaced' = left
          /\ current' = current /\ waiting' = waiting
      BY <1>5, <2>5 DEF Closed
    <3> HIDE DEF dev, left
    <3>2. ShareTyped'
      BY <1>2, <1>4, <2>3, <3>1 DEF ShareTyped, StoreStates
    <3>3. Sharing'
      BY <1>4, <2>1, <2>2, <2>3, <3>1 DEF Sharing, Stops, Owned, StoreTrue
    <3> QED BY <1>1, <3>1, <3>2, <3>3
  <2> QED BY <2>4, <2>5 DEF ShareTyped
<1>6. CASE finals[c] = None
  <2>1. stopInFlight' = stopInFlight /\ stopInFlight # c
    BY <1>3, <1>6 DEF Sharing, Stops
  <2>2. /\ store' = store /\ device' = dev /\ displaced' = left
        /\ current' = current /\ waiting' = waiting
    BY <1>6 DEF Closed
  <2> HIDE DEF dev, left
  <2>3. ShareTyped'
    BY <1>2, <1>4, <2>2 DEF ShareTyped
  <2>4. Sharing'
    BY <1>2, <1>4, <2>1, <2>2 DEF Sharing, Stops, Owned, StoreTrue
  <2> QED BY <1>1, <2>2, <2>3, <2>4
<1> QED BY <1>5, <1>6

---------------------------------------------------------------------------
(* Every step *)

\* What FramesWanted says of a step.
Wanted ==
  last' # last =>
    /\ last'.frame.capture = current' /\ last'.frame.to = transport'
    /\ last'.frame.manual => manualSendPending'

Kept == IInv' /\ Wanted

\* A step that leaves the share and the frames alone.
LEMMA QuietOK ==
  ASSUME IInv, UNCHANGED <<share, frames>>, RestTyped', Ends'
  PROVE  Kept
<1>1. ShareTyped /\ FramesTyped
  BY TypedByGroups DEF IInv
<1>2. ShareTyped' /\ FramesTyped'
  BY <1>1 DEF share, frames, ShareTyped, FramesTyped
<1>3. Sharing' /\ PendingAuto'
  BY DEF IInv, share, frames, Sharing, Stops, Owned, StoreTrue, PendingAuto
<1> QED BY <1>2, <1>3, TypedByGroupsNext DEF Kept, IInv, Wanted, frames

\* A step of the share that hands no frame over.
LEMMA ShareStep ==
  ASSUME IInv, ShareTyped', FramesTyped', Sharing', PendingAuto', last' = last, RestTyped', Ends'
  PROVE  Kept
  BY TypedByGroupsNext DEF Kept, IInv, Wanted

\* Neither the calls nor the session change.
LEMMA RestKept ==
  ASSUME IInv, UNCHANGED <<calls, mode, session>>
  PROVE  RestTyped' /\ transport' = transport /\ status' = status /\ ending' = ending
  BY DEF IInv, TypeOK, RestTyped, calls, session

LEMMA Groups == IInv => ShareTyped /\ FramesTyped /\ RestTyped /\ Sharing /\ PendingAuto /\ Ends
  BY TypedByGroups DEF IInv

LEMMA EndsKept ==
  ASSUME IInv, status' = status, ending' = ending,
         SessionReady \/ current' = current \/ current' = None
  PROVE  Ends'
  BY DEF IInv, Ends, SessionReady

---------------------------------------------------------------------------
(* Start, stop and the device *)

LEMMA CallsOK ==
  ASSUME IInv,
         \/ StartScreenCapture \/ StopScreenCapture \/ SetMode
         \/ \E o \in Origins : Refreshed(o) \/ RefreshFails(o)
  PROVE  Kept
<1>1. ShareTyped /\ FramesTyped /\ RestTyped /\ Sharing /\ PendingAuto /\ Ends
  BY Groups
<1>2. CASE StartScreenCapture
  <2>1. RestTyped' /\ Ends' /\ UNCHANGED <<share, frames>>
    BY <1>1, <1>2 DEF StartScreenCapture, RestTyped, Origins, session, share, Ends
  <2> QED BY <2>1, QuietOK
<1>3. CASE SetMode
  <2>1. RestTyped' /\ Ends' /\ UNCHANGED <<share, frames>>
    BY <1>1, <1>3 DEF SetMode, RestTyped, calls, session, share, Ends
  <2> QED BY <2>1, QuietOK
<1>4. ASSUME NEW o \in Origins, RefreshFails(o) PROVE Kept
  <2>1. RestTyped' /\ Ends' /\ UNCHANGED <<share, frames>>
    BY <1>1, <1>4 DEF RefreshFails, RestTyped, session, share, Ends
  <2> QED BY <2>1, QuietOK
<1>5. CASE StopScreenCapture
  <2>1. RestTyped' /\ status' = status /\ ending' = ending
    BY <1>1, <1>5 DEF StopScreenCapture, RestTyped, session
  <2>2. CASE UNCHANGED <<share, frames>>
    <3>1. Ends'
      BY <2>1, <2>2, EndsKept DEF share
    <3> QED BY <2>1, <2>2, <3>1, QuietOK
  <2>3. CASE StopCapture("disabled")
    <3>1. /\ ShareTyped' /\ FramesTyped' /\ Sharing' /\ PendingAuto'
          /\ last' = last /\ current' = None
      BY <1>1, <2>3, StopCaptureOK
    <3>2. Ends'
      BY <2>1, <3>1, EndsKept
    <3> QED BY <2>1, <3>1, <3>2, ShareStep
  <2> QED BY <1>5, <2>2, <2>3 DEF StopScreenCapture
<1>6. ASSUME NEW o \in Origins, Refreshed(o) PROVE Kept
  <2>1. /\ RestTyped' /\ status' = status /\ ending' = ending /\ last' = last
        /\ FramesTyped' /\ PendingAuto' /\ finals' = finals /\ stopInFlight' = stopInFlight
    BY <1>1, <1>6 DEF Refreshed, RestTyped, session, frames, FramesTyped, PendingAuto
  <2>2. CASE stopInFlight # None
    <3>1. waiting' = TRUE /\ UNCHANGED <<store, current, displaced, device>>
      BY <1>6, <2>2 DEF Refreshed
    <3>2. ShareTyped' /\ Sharing'
      BY <1>1, <2>1, <3>1 DEF ShareTyped, Sharing, Stops, Owned, StoreTrue
    <3>3. Ends'
      BY <2>1, <3>1, EndsKept
    <3> QED BY <2>1, <3>2, <3>3, ShareStep
  <2>3. CASE stopInFlight = None
    <3>1. Begin(store, device, displaced) /\ waiting' = waiting
      BY <1>6, <2>3 DEF Refreshed
    <3>2. /\ store \in StoreStates \ {"stopping"} /\ device \in [Captures -> Devices]
          /\ displaced \in SUBSET Captures /\ current \in Captures \cup {None}
          /\ \A c \in Captures : device[c] # "off" => c = current \/ c \in displaced
          /\ store = "disabled" => current = None
          /\ store = "capturing" => current # None
      BY <1>1, <2>3, ScreenAssumption DEF ShareTyped, Sharing, Stops, Owned, StoreTrue
    <3>3. /\ store' \in StoreStates \ {"stopping"} /\ current' \in Captures \cup {None}
          /\ displaced' \subseteq Captures /\ device' \in [Captures -> Devices]
          /\ \A c \in Captures : device'[c] # "off" => c = current' \/ c \in displaced'
          /\ store' = "disabled" => current' = None
          /\ store' = "capturing" => current' # None
          /\ SessionReady \/ current' = current
      BY <1>1, <3>1, <3>2, BeginOK DEF Sharing, StoreTrue
    <3>4. ShareTyped'
      BY <1>1, <2>1, <3>1, <3>3 DEF ShareTyped
    <3>5. Sharing'
      BY <1>1, <2>1, <2>3, <3>3 DEF Sharing, Stops, Owned, StoreTrue
    <3>6. Ends'
      BY <2>1, <3>3, EndsKept
    <3> QED BY <2>1, <3>4, <3>5, <3>6, ShareStep
  <2> QED BY <2>2, <2>3
<1> QED BY <1>2, <1>3, <1>4, <1>5, <1>6

LEMMA FailsOK ==
  ASSUME ShareTyped, FramesTyped, Sharing, PendingAuto, NEW c \in Captures, Fails(c)
  PROVE  /\ ShareTyped' /\ FramesTyped' /\ Sharing' /\ PendingAuto' /\ last' = last
         /\ SessionReady \/ current' = current \/ current' = None
<1>1. CASE c = current
  <2> DEFINE dev == [device EXCEPT ![c] = "off"]
  <2>1. StopCurrent("error", dev, chain)
    BY <1>1 DEF Fails
  <2>2. /\ dev \in [Captures -> Devices] /\ chain \in Chains /\ current # None
        /\ \A d \in Captures : d # current => dev[d] = device[d]
    BY <1>1, ScreenAssumption DEF ShareTyped, FramesTyped, Devices
  <2> HIDE DEF dev
  <2> QED BY <2>1, <2>2, StopCurrentOK
<1>2. CASE c # current
  BY <1>2, ClosedOK DEF Fails
<1> QED BY <1>1, <1>2

LEMMA TurnsOK ==
  ASSUME ShareTyped, FramesTyped, Sharing, PendingAuto,
         NEW c \in Captures, device[c] # "off", NEW d \in Devices, Turns(c, d)
  PROVE  /\ ShareTyped' /\ FramesTyped' /\ Sharing' /\ PendingAuto' /\ last' = last
         /\ current' = current
<1>1. ShareTyped'
  BY DEF Turns, ShareTyped
<1>2. Sharing'
  BY DEF Turns, ShareTyped, Sharing, Stops, Owned, StoreTrue
<1> QED BY <1>1, <1>2 DEF Turns, frames, FramesTyped, PendingAuto

LEMMA DeviceOK ==
  ASSUME IInv, NEW c \in Captures,
         Granted(c) \/ Denied(c) \/ Plays(c) \/ PlayFails(c) \/ TrackEnds(c) \/ ShareStarted(c)
  PROVE  Kept
<1>1. ShareTyped /\ FramesTyped /\ RestTyped /\ Sharing /\ PendingAuto /\ Ends
  BY Groups
<1>2. ASSUME UNCHANGED <<calls, mode, session>>, ShareTyped', FramesTyped', Sharing',
             PendingAuto', last' = last,
             SessionReady \/ current' = current \/ current' = None
      PROVE  Kept
  BY <1>2, RestKept, EndsKept, ShareStep
<1>3. CASE Granted(c)
  <2>1. (Closed(c) \/ Turns(c, "playing")) /\ device[c] # "off" /\ UNCHANGED <<calls, mode, session>>
    BY <1>3 DEF Granted
  <2> QED BY <1>1, <1>2, <2>1, ClosedOK, TurnsOK DEF Devices, Starting
<1>4. CASE Denied(c)
  BY <1>1, <1>2, <1>4, FailsOK DEF Denied
<1>5. CASE Plays(c)
  <2>1. (Closed(c) \/ Turns(c, "opened")) /\ device[c] # "off" /\ UNCHANGED <<calls, mode, session>>
    BY <1>5 DEF Plays
  <2> QED BY <1>1, <1>2, <2>1, ClosedOK, TurnsOK DEF Devices
<1>6. CASE PlayFails(c)
  BY <1>1, <1>2, <1>6, FailsOK DEF PlayFails
<1>7. CASE TrackEnds(c)
  <2>1. device[c] # "off" /\ UNCHANGED <<calls, mode, session>>
    BY <1>7 DEF TrackEnds
  <2>2. CASE Fails(c)
    BY <1>1, <1>2, <2>1, <2>2, FailsOK
  <2>3. CASE c = current /\ StopCurrent("error", [device EXCEPT ![c] = "ended"], chain)
    <3> DEFINE dev == [device EXCEPT ![c] = "ended"]
    <3>1. /\ dev \in [Captures -> Devices] /\ chain \in Chains /\ current # None
          /\ \A d \in Captures : d # current => dev[d] = device[d]
      BY <1>1, <2>3, ScreenAssumption DEF ShareTyped, FramesTyped, Devices, Starting
    <3>2. StopCurrent("error", dev, chain)
      BY <2>3
    <3> HIDE DEF dev
    <3>3. /\ ShareTyped' /\ FramesTyped' /\ Sharing' /\ PendingAuto'
          /\ last' = last /\ current' = None
      BY <1>1, <3>1, <3>2, StopCurrentOK
    <3> QED BY <1>2, <2>1, <3>3
  <2>4. CASE Turns(c, "ended")
    BY <1>1, <1>2, <2>1, <2>4, TurnsOK DEF Devices, Starting
  <2> QED BY <1>7, <2>2, <2>3, <2>4 DEF TrackEnds
<1>8. CASE ShareStarted(c)
  <2>1. /\ device[c] = "opened" /\ device' = [device EXCEPT ![c] = "on"]
        /\ UNCHANGED <<calls, mode, session>>
        /\ UNCHANGED <<current, displaced, finals, stopInFlight, waiting, chain, last>>
    BY <1>8 DEF ShareStarted
  <2>2. /\ \/ c = current /\ store' = "capturing" /\ manualSendPending' = FALSE /\ timer' = FALSE
           \/ c # current /\ UNCHANGED <<store, manualSendPending, timer>>
    BY <1>8 DEF ShareStarted
  <2>3. ShareTyped' /\ FramesTyped' /\ PendingAuto'
    BY <1>1, <2>1, <2>2 DEF ShareTyped, FramesTyped, PendingAuto, StoreStates, Devices
  <2>4. Sharing'
    BY <1>1, <2>1, <2>2, ScreenAssumption DEF ShareTyped, Sharing, Stops, Owned, StoreTrue
  <2> QED BY <1>2, <2>1, <2>3, <2>4
<1> QED BY <1>3, <1>4, <1>5, <1>6, <1>7, <1>8

---------------------------------------------------------------------------
(* Frames *)

\* A step that leaves the share alone and may hand a frame over.
LEMMA FrameStep ==
  ASSUME IInv, UNCHANGED <<share, calls, mode, session>>, FramesTyped', PendingAuto', Wanted
  PROVE  Kept
<1>1. ShareTyped /\ FramesTyped /\ RestTyped /\ Sharing /\ PendingAuto /\ Ends
  BY Groups
<1>2. ShareTyped' /\ Sharing' /\ Ends'
  BY <1>1 DEF share, session, ShareTyped, Sharing, Stops, Owned, StoreTrue, Ends
<1> QED BY <1>2, RestKept, TypedByGroupsNext DEF Kept, IInv

LEMMA TheFrameOK ==
  ASSUME IInv, CanEnqueue, NEW m \in BOOLEAN
  PROVE  /\ TheFrame(m) \in Frames /\ TheFrame(m).manual = m
         /\ TheFrame(m).capture = current /\ TheFrame(m).to = transport
<1>1. current \in Captures /\ transport \in Transports
  BY DEF IInv, TypeOK, CanEnqueue
<1> QED BY <1>1 DEF TheFrame, Frames

LEMMA CaptureOK ==
  ASSUME IInv, FrameCaptured
  PROVE  Kept
<1>1. ShareTyped /\ FramesTyped /\ RestTyped /\ Sharing /\ PendingAuto /\ Ends
  BY Groups
<1>2. /\ CanEnqueue /\ timer' \in BOOLEAN
      /\ UNCHANGED <<share, calls, mode, session>>
  BY DEF FrameCaptured
<1>3. /\ chain \in Chains /\ Reset(chain) \in Chains
      /\ Reset(chain).pending = NoFrame /\ Reset(chain).draining = FALSE
  BY <1>1, ResetOK DEF FramesTyped
<1>4. CASE manualSendPending' = FALSE /\ UNCHANGED <<chain, last>>
  <2>1. FramesTyped' /\ PendingAuto' /\ Wanted
    BY <1>1, <1>2, <1>4 DEF FramesTyped, PendingAuto, Wanted
  <2> QED BY <1>2, <2>1, FrameStep
<1>5. CASE /\ manualSendPending' = manualSendPending \/ manualSendPending' = FALSE
           /\ chain' = Reset(chain) /\ UNCHANGED last
  <2>1. FramesTyped' /\ PendingAuto' /\ Wanted
    BY <1>1, <1>2, <1>3, <1>5, NoFrameIsNone DEF FramesTyped, PendingAuto, Wanted
  <2> QED BY <1>2, <2>1, FrameStep
<1>6. CASE /\ EnqueueFirst(Reset(chain), TheFrame(TRUE))
           /\ manualSendPending /\ UNCHANGED manualSendPending
  <2>1. /\ TheFrame(TRUE) \in Frames
        /\ TheFrame(TRUE).capture = current /\ TheFrame(TRUE).to = transport
    BY <1>2, TheFrameOK
  <2>2. Enqueue(Reset(chain), TheFrame(TRUE)) /\ Reset(chain).pending.manual = FALSE
    BY <1>3, <1>6, NoFrameIsNone DEF EnqueueFirst
  <2>3. /\ chain' \in Chains /\ chain'.pending.manual = FALSE
        /\ last' \in [frame : Frames \cup {NoFrame}, turn : BOOLEAN]
        /\ last' # last => last'.frame = TheFrame(TRUE)
    BY <1>1, <1>3, <2>1, <2>2, EnqueueOK
  <2>4. FramesTyped' /\ PendingAuto'
    BY <1>1, <1>2, <1>6, <2>3 DEF FramesTyped, PendingAuto
  <2>5. Wanted
    BY <1>2, <1>6, <2>1, <2>3 DEF Wanted, share, session
  <2> QED BY <1>2, <2>4, <2>5, FrameStep
<1>7. mode = "continuous" \/ mode = "manual"
  BY <1>1 DEF RestTyped
<1>8. CASE mode = "continuous"
  BY <1>4, <1>8 DEF FrameCaptured
<1>9. CASE mode = "manual" /\ ~manualSendPending
  BY <1>5, <1>9 DEF FrameCaptured
<1>10. CASE mode = "manual" /\ manualSendPending
  <2>1. \/ EnqueueFirst(Reset(chain), TheFrame(TRUE)) /\ UNCHANGED manualSendPending
        \/ chain' = Reset(chain) /\ manualSendPending' = FALSE /\ UNCHANGED last
    BY <1>10 DEF FrameCaptured
  <2> QED BY <1>5, <1>6, <1>10, <2>1
<1> QED BY <1>7, <1>8, <1>9, <1>10

LEMMA SendRequestsOK ==
  ASSUME IInv, AutoSend \/ AnalyzeScreenNow
  PROVE  Kept
<1>1. ShareTyped /\ FramesTyped /\ RestTyped /\ Sharing /\ PendingAuto /\ Ends
  BY Groups
<1>2. UNCHANGED <<share, calls, mode, session>>
  BY DEF AutoSend, AnalyzeScreenNow
<1>3. /\ chain \in Chains /\ Reset(chain) \in Chains /\ Reset(chain).pending = NoFrame
  BY <1>1, ResetOK DEF FramesTyped
<1>4. CASE /\ chain' = Reset(chain) /\ UNCHANGED last /\ timer' = FALSE
           /\ manualSendPending' \in BOOLEAN
  <2>1. FramesTyped' /\ PendingAuto' /\ Wanted
    BY <1>1, <1>3, <1>4, NoFrameIsNone DEF FramesTyped, PendingAuto, Wanted
  <2> QED BY <1>2, <2>1, FrameStep
<1>5. CASE /\ CanEnqueue /\ Enqueue(chain, TheFrame(FALSE))
           /\ UNCHANGED <<timer, manualSendPending>>
  <2>1. /\ TheFrame(FALSE) \in Frames /\ TheFrame(FALSE).manual = FALSE
        /\ TheFrame(FALSE).capture = current /\ TheFrame(FALSE).to = transport
    BY <1>5, TheFrameOK
  <2>2. /\ chain' \in Chains /\ chain'.pending.manual = FALSE
        /\ last' \in [frame : Frames \cup {NoFrame}, turn : BOOLEAN]
        /\ last' # last => last'.frame = TheFrame(FALSE)
    BY <1>1, <1>3, <1>5, <2>1, EnqueueOK DEF PendingAuto
  <2>3. FramesTyped' /\ PendingAuto'
    BY <1>1, <1>5, <2>2 DEF FramesTyped, PendingAuto
  <2>4. Wanted
    BY <1>2, <2>1, <2>2 DEF Wanted, share, session
  <2> QED BY <1>2, <2>3, <2>4, FrameStep
<1>6. CASE AutoSend
  BY <1>1, <1>4, <1>5, <1>6 DEF AutoSend, FramesTyped
<1>7. CASE AnalyzeScreenNow
  BY <1>4, <1>7 DEF AnalyzeScreenNow
<1> QED BY <1>6, <1>7

\* A loop that goes on hands over only a frame that is current and not manual.
LEMMA ContinueWanted ==
  ASSUME IInv, NEW l \in Loops, Continue(l), current' = current, transport' = transport
  PROVE  /\ chain' \in Chains /\ PendingAuto'
         /\ last' \in [frame : Frames \cup {NoFrame}, turn : BOOLEAN]
         /\ Wanted
<1>1. FramesTyped /\ PendingAuto
  BY Groups
<1>2. /\ chain' \in Chains /\ PendingAuto'
      /\ last' \in [frame : Frames \cup {NoFrame}, turn : BOOLEAN]
      /\ last' # last => last'.frame = chain.pending /\ IsCurrentFrame(chain.pending)
  BY <1>1, ContinueOK
<1> QED BY <1>1, <1>2 DEF Wanted, IsCurrentFrame, PendingAuto

LEMMA SentOK ==
  ASSUME IInv, NEW l \in Loops, Sent(l)
  PROVE  Kept
<1>1. ShareTyped /\ FramesTyped /\ RestTyped /\ Sharing /\ PendingAuto /\ Ends
  BY Groups
<1>2. /\ UNCHANGED <<current, displaced, device, finals, stopInFlight, waiting, timer>>
      /\ UNCHANGED <<calls, mode, session>>
      /\ \/ /\ Counts(chain.loop[l].frame) /\ store' = "capturing" /\ manualSendPending' = FALSE
         \/ UNCHANGED <<store, manualSendPending>>
      /\ Continue(l) /\ Sending(l)
  BY DEF Sent
<1>3. RestTyped' /\ transport' = transport /\ status' = status /\ ending' = ending
  BY <1>2, RestKept
<1>4. /\ chain' \in Chains /\ PendingAuto'
      /\ last' \in [frame : Frames \cup {NoFrame}, turn : BOOLEAN]
      /\ Wanted
  BY <1>2, <1>3, ContinueWanted
<1>5. FramesTyped'
  BY <1>1, <1>2, <1>4 DEF FramesTyped
<1>6. Counts(chain.loop[l].frame) => current \in Captures
  <2>1. chain.loop[l] \in LoopStates
    BY <1>1 DEF FramesTyped, Chains
  <2>2. chain.loop[l].frame \in Frames \/ chain.loop[l].frame = NoFrame
    BY <2>1 DEF LoopStates
  <2> QED BY <2>2 DEF Counts, IsCurrentFrame, Frames
<1>7. ShareTyped'
  BY <1>1, <1>2 DEF ShareTyped, StoreStates
<1>8. Sharing'
  BY <1>1, <1>2, <1>6, ScreenAssumption DEF ShareTyped, Sharing, Stops, Owned, StoreTrue
<1>9. Ends'
  BY <1>2, <1>3, EndsKept
<1> QED BY <1>3, <1>4, <1>5, <1>7, <1>8, <1>9, TypedByGroupsNext DEF Kept, IInv

LEMMA SendFailsOK ==
  ASSUME IInv, NEW l \in Loops, SendFails(l)
  PROVE  Kept
<1>1. ShareTyped /\ FramesTyped /\ RestTyped /\ Sharing /\ PendingAuto /\ Ends
  BY Groups
<1>2. RestTyped' /\ transport' = transport /\ status' = status /\ ending' = ending
  BY RestKept DEF SendFails
<1>3. chain.loop[l] \in LoopStates /\ chain \in Chains
  BY <1>1 DEF FramesTyped, Chains
<1>4. CASE IsCurrentFrame(chain.loop[l].frame)
  <2> DEFINE ch == [chain EXCEPT !.loop[l] = Idle]
  <2>1. StopCurrent("error", device, ch)
    BY <1>4 DEF SendFails
  <2>2. ch \in Chains
    <3> DEFINE g == [chain.loop EXCEPT ![l] = Idle]
    <3>1. g \in [Loops -> LoopStates]
      BY <1>3 DEF Chains, Idle, LoopStates
    <3>2. ch = [chain EXCEPT !.loop = g]
      BY <1>3 DEF Chains
    <3> HIDE DEF g, ch
    <3> QED BY <1>3, <3>1, <3>2 DEF Chains
  <2>3. current # None /\ device \in [Captures -> Devices]
    <3>1. chain.loop[l].frame \in Frames
      BY <1>3, <1>4 DEF LoopStates, IsCurrentFrame
    <3> QED BY <1>1, <1>4, <3>1, ScreenAssumption DEF IsCurrentFrame, Frames, ShareTyped
  <2> HIDE DEF ch
  <2>4. /\ ShareTyped' /\ FramesTyped' /\ Sharing' /\ PendingAuto'
        /\ last' = last /\ current' = None
    BY <1>1, <2>1, <2>2, <2>3, StopCurrentOK
  <2>5. Ends'
    BY <1>2, <2>4, EndsKept
  <2> QED BY <1>2, <2>4, <2>5, ShareStep
<1>5. CASE ~IsCurrentFrame(chain.loop[l].frame)
  <2>1. /\ Continue(l) /\ UNCHANGED <<share, manualSendPending, timer>>
        /\ UNCHANGED <<calls, mode, session>>
    BY <1>5 DEF SendFails
  <2>2. current' = current
    BY <2>1 DEF share
  <2>3. /\ chain' \in Chains /\ PendingAuto'
        /\ last' \in [frame : Frames \cup {NoFrame}, turn : BOOLEAN]
        /\ Wanted
    BY <1>2, <2>1, <2>2, ContinueWanted
  <2>4. FramesTyped'
    BY <1>1, <2>1, <2>3 DEF FramesTyped
  <2> QED BY <2>1, <2>3, <2>4, FrameStep
<1> QED BY <1>4, <1>5

---------------------------------------------------------------------------
(* The session *)

LEMMA SessionOK ==
  ASSUME IInv,
         \/ \E x \in Transports : Attach(x)
         \/ Connected \/ DetachForResume \/ Disconnected
         \/ EndRequested \/ EndStops \/ EndResets
  PROVE  Kept
<1>1. ShareTyped /\ FramesTyped /\ RestTyped /\ Sharing /\ PendingAuto /\ Ends
  BY Groups
<1>2. ASSUME NEW x \in Transports, Attach(x) PROVE Kept
  <2>1. RestTyped' /\ Ends' /\ UNCHANGED <<share, frames>>
    BY <1>1, <1>2 DEF Attach, RestTyped, calls, share, Ends
  <2> QED BY <2>1, QuietOK
<1>3. CASE Connected
  <2>1. refreshing' \subseteq Origins
    BY <1>1, <1>3 DEF Connected, RestTyped, Origins
  <2>2. RestTyped' /\ Ends' /\ UNCHANGED <<share, frames>>
    BY <1>1, <1>3, <2>1 DEF Connected, RestTyped, share, Ends
  <2> QED BY <2>2, QuietOK
<1>4. CASE DetachForResume
  <2>1. RestTyped'
    BY <1>1, <1>4 DEF DetachForResume, RestTyped, calls
  <2>2. /\ ShareTyped' /\ FramesTyped' /\ Sharing' /\ PendingAuto'
        /\ last' = last /\ current' = None
    BY <1>1, <1>4, StopCaptureOK DEF DetachForResume
  <2>3. Ends'
    BY <1>4, <2>2 DEF DetachForResume, Ends
  <2> QED BY <2>1, <2>2, <2>3, ShareStep
<1>5. CASE Disconnected
  <2>1. RestTyped' /\ Ends' /\ ShareTyped' /\ Sharing' /\ last' = last
    BY <1>1, <1>5
    DEF Disconnected, RestTyped, calls, share, Ends, ShareTyped, Sharing, Stops, Owned, StoreTrue
  <2>2. FramesTyped' /\ PendingAuto'
    BY <1>1, <1>5, ResetOK, NoFrameIsNone DEF Disconnected, FramesTyped, PendingAuto
  <2> QED BY <2>1, <2>2, ShareStep
<1>6. CASE EndRequested
  <2>1. RestTyped' /\ Ends' /\ UNCHANGED <<share, frames>>
    BY <1>1, <1>6 DEF EndRequested, RestTyped, calls, Ends
  <2> QED BY <2>1, QuietOK
<1>7. CASE EndStops
  <2>1. RestTyped'
    BY <1>1, <1>7 DEF EndStops, RestTyped, calls
  <2>2. /\ ShareTyped' /\ FramesTyped' /\ Sharing' /\ PendingAuto'
        /\ last' = last /\ current' = None
    BY <1>1, <1>7, StopCaptureOK DEF EndStops
  <2>3. Ends'
    BY <1>1, <1>7, <2>2 DEF EndStops, Ends
  <2> QED BY <2>1, <2>2, <2>3, ShareStep
<1>8. CASE EndResets
  <2>1. RestTyped' /\ Ends' /\ last' = last
    BY <1>1, <1>8 DEF EndResets, RestTyped, Ends
  <2>2. ShareTyped' /\ Sharing'
    BY <1>1, <1>8 DEF EndResets, ShareTyped, StoreStates, Sharing, Stops, Owned, StoreTrue, Ends
  <2>3. FramesTyped' /\ PendingAuto'
    BY <1>1, <1>8, ResetOK, NoFrameIsNone DEF EndResets, FramesTyped, PendingAuto
  <2> QED BY <2>1, <2>2, <2>3, ShareStep
<1> QED BY <1>2, <1>3, <1>4, <1>5, <1>6, <1>7, <1>8

---------------------------------------------------------------------------
(* The theorems *)

LEMMA InitOK == Init => IInv
<1> SUFFICES ASSUME Init PROVE IInv
  OBVIOUS
<1>1. chain \in Chains /\ chain.pending = NoFrame
  <2> DEFINE f == [l \in Loops |-> Idle]
  <2>1. f \in [Loops -> LoopStates]
    BY DEF Idle, LoopStates
  <2>2. chain = [pending |-> NoFrame, draining |-> FALSE, loop |-> f]
    BY DEF Init
  <2> HIDE DEF f
  <2> QED BY <2>1, <2>2 DEF Chains
<1>2. ShareTyped /\ RestTyped
  BY DEF Init, ShareTyped, RestTyped, StoreStates, Devices
<1>3. last \in [frame : Frames \cup {NoFrame}, turn : BOOLEAN]
  BY DEF Init
<1>4. FramesTyped
  BY <1>1, <1>3 DEF Init, FramesTyped
<1>5. Sharing /\ Ends /\ PendingAuto
  BY <1>1, ScreenAssumption, NoFrameIsNone
  DEF Init, Sharing, Stops, Owned, StoreTrue, Ends, PendingAuto
<1> QED BY <1>2, <1>4, <1>5, TypedByGroups DEF IInv

LEMMA StepOK == IInv /\ [Next]_vars => Kept
<1> SUFFICES ASSUME IInv, [Next]_vars PROVE Kept
  OBVIOUS
<1>1. CASE UNCHANGED vars
  <2>1. UNCHANGED <<share, frames>> /\ UNCHANGED <<calls, mode, session>>
    BY <1>1 DEF vars
  <2>2. RestTyped' /\ Ends'
    BY <2>1, RestKept, EndsKept DEF share
  <2> QED BY <2>1, <2>2, QuietOK
<1>2. CASE Next
  BY <1>2, CallsOK, DeviceOK, CaptureOK, SendRequestsOK, SentOK, SendFailsOK, SessionOK DEF Next
<1> QED BY <1>1, <1>2

\* The inductive invariant.
THEOREM ShareInvariance == Spec => []IInv
<1>1. IInv /\ [Next]_vars => IInv'
  BY StepOK DEF Kept
<1> QED BY InitOK, <1>1, PTL DEF Spec

\* Every variable keeps its type, for any number of captures, transports and loops.
THEOREM ShareTypeCorrect == Spec => []TypeOK
<1>1. IInv => TypeOK
  BY DEF IInv
<1> QED BY ShareInvariance, <1>1, PTL

\* What the store shows of the share is true (screenCaptureLifecycle's stopCapture,
\* start and finalizeStop, whatever they overtake).
THEOREM ShareShownAlways == Spec => []ShareShown
<1>1. IInv => ShareShown
  <2> SUFFICES ASSUME IInv PROVE ShareShown
    OBVIOUS
  <2>1. ShareTyped /\ Sharing
    BY Groups
  <2> QED BY <2>1, ScreenAssumption DEF ShareTyped, Sharing, Stops, Owned, StoreTrue, ShareShown, Open
<1> QED BY ShareInvariance, <1>1, PTL

\* A frame is handed over only by the current capture, to the active transport and,
\* in manual mode, on request (screenFrameSendCoordinator's drain loops).
THEOREM FramesWantedAlways == Spec => FramesWanted
<1>1. IInv /\ [Next]_vars =>
        [last' # last =>
           /\ last'.frame.capture = current' /\ last'.frame.to = transport'
           /\ last'.frame.manual => manualSendPending']_vars
  BY StepOK DEF Kept, Wanted
<1> QED BY ShareInvariance, <1>1, PTL DEF Spec, FramesWanted
=============================================================================
