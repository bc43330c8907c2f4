-------------------------- MODULE VoiceDispatchProofs --------------------------
(***************************************************************************)
(* Proofs about the microphone's dispatch, for any number of transports,   *)
(* drain loops, lanes, chunks and failures.                                *)
(***************************************************************************)
EXTENDS VoiceDispatch, FiniteSetTheorems, TLAPS

---------------------------------------------------------------------------
(* The inductive invariant *)

\* The flag says that a loop of this generation is at work, which is why a chunk
\* may wait; what waits was captured after all that was handed on.
LoopsOK ==
  /\ \A l \in Loops : loop[l].current => Sending(l)
  /\ inFlight => \E l \in Loops : loop[l].current
  /\ pending # NoChunk => inFlight

HeardOK ==
  \A x \in Transports :
    heard[x] <= chunks /\ (pending # NoChunk => heard[x] < pending.number)

PendingOK == pending # NoChunk => pending.number <= chunks

\* A capture is asked for only while there is another lane for it.
MicOK == mic \in {"asked", "opening"} => lane < MaxLane

IInv == TypeOK /\ LoopsOK /\ HeardOK /\ PendingOK /\ LaneAccounted /\ MicOK

---------------------------------------------------------------------------
(* The gateway *)

LEMMA FreshOK == Fresh \in GatewayStates /\ \A k \in Lanes : Fresh.outstanding[k] = 0
  BY GatewayAssumption DEF Fresh, GatewayStates

LEMMA OutcomeOK ==
  ASSUME NEW g \in GatewayStates
  PROVE  /\ Failed(g) \in GatewayStates /\ Failed(g).outstanding = g.outstanding
         /\ Succeeded(g) \in GatewayStates /\ Succeeded(g).outstanding = g.outstanding
  BY GatewayAssumption DEF Failed, Succeeded, GatewayStates

LEMMA SettledOK ==
  ASSUME NEW g \in GatewayStates, NEW k \in Lanes
  PROVE  /\ Settled(g, k) \in GatewayStates
         /\ \A j \in Lanes : Settled(g, k).outstanding[j] =
              IF j = k /\ g.outstanding[j] > 0 THEN g.outstanding[j] - 1 ELSE g.outstanding[j]
<1>1. g.outstanding \in [Lanes -> Nat]
  BY DEF GatewayStates
<1>2. Settled(g, k) \in GatewayStates
  BY <1>1 DEF Settled, GatewayStates
<1>3. ASSUME NEW j \in Lanes
      PROVE  Settled(g, k).outstanding[j] =
               IF j = k /\ g.outstanding[j] > 0 THEN g.outstanding[j] - 1 ELSE g.outstanding[j]
  BY <1>1 DEF Settled, GatewayStates
<1> QED BY <1>2, <1>3

LEMMA AdmittedOK ==
  ASSUME NEW g \in GatewayStates, NEW k \in Lanes, NEW n \in Nat
  PROVE  /\ Admitted(g, k, n) \in GatewayStates
         /\ \A j \in Lanes : Admitted(g, k, n).outstanding[j] =
              IF j = k THEN g.outstanding[j] + 1 ELSE g.outstanding[j]
<1>1. g.outstanding \in [Lanes -> Nat] /\ g.latest \in [Lanes -> Nat]
  BY DEF GatewayStates
<1> DEFINE h == [g EXCEPT !.latest[k] = n]
<1>2. Admitted(g, k, n) \in GatewayStates
  <2>1. h \in GatewayStates
    BY <1>1 DEF GatewayStates
  <2>2. Admitted(g, k, n) = [h EXCEPT !.outstanding[k] = @ + 1]
    BY DEF Admitted
  <2> HIDE DEF h
  <2> QED BY <2>1, <2>2 DEF GatewayStates
<1>3. ASSUME NEW j \in Lanes
      PROVE  Admitted(g, k, n).outstanding[j] =
               IF j = k THEN g.outstanding[j] + 1 ELSE g.outstanding[j]
  BY <1>1 DEF Admitted, GatewayStates
<1> QED BY <1>2, <1>3

---------------------------------------------------------------------------
(* Counting *)

\* Two finite sets that differ in one element at most.
LEMMA OneApart ==
  ASSUME NEW A, NEW B, NEW l, IsFiniteSet(A), IsFiniteSet(B), A \ {l} = B \ {l}
  PROVE  /\ Cardinality(A) \in Nat /\ Cardinality(B) \in Nat
         /\ Cardinality(B) + (IF l \in A THEN 1 ELSE 0)
              = Cardinality(A) + (IF l \in B THEN 1 ELSE 0)
<1>1. /\ Cardinality(A) \in Nat /\ Cardinality(B) \in Nat
      /\ IsFiniteSet(A \ {l}) /\ Cardinality(A \ {l}) \in Nat
  BY FS_CardinalityType, FS_RemoveElement
<1>2. Cardinality(A \ {l}) = IF l \in A THEN Cardinality(A) - 1 ELSE Cardinality(A)
  BY FS_RemoveElement
<1>3. Cardinality(B \ {l}) = IF l \in B THEN Cardinality(B) - 1 ELSE Cardinality(B)
  BY FS_RemoveElement
<1> QED BY <1>1, <1>2, <1>3

Unit(c, k) == IF c # NoChunk /\ c.lane = k THEN 1 ELSE 0

LEMMA HeldFinite == \A k \in Lanes : IsFiniteSet(Held(k)) /\ Cardinality(Held(k)) \in Nat
<1> SUFFICES ASSUME NEW k \in Lanes PROVE IsFiniteSet(Held(k)) /\ Cardinality(Held(k)) \in Nat
  OBVIOUS
<1>1. Held(k) \subseteq Loops
  BY DEF Held
<1> QED BY <1>1, DispatchAssumption, FS_Subset, FS_CardinalityType

LEMMA HeldFinitePrimed == \A k \in Lanes : IsFiniteSet(Held(k)') /\ Cardinality(Held(k)') \in Nat
<1> SUFFICES ASSUME NEW k \in Lanes PROVE IsFiniteSet(Held(k)') /\ Cardinality(Held(k)') \in Nat
  OBVIOUS
<1>1. Held(k)' \subseteq Loops
  BY DEF Held
<1> QED BY <1>1, DispatchAssumption, FS_Subset, FS_CardinalityType

\* When one loop exchanges its chunk, its old lane loses one and its new one wins one.
LEMMA OneLoopChanges ==
  ASSUME NEW l \in Loops, NEW c, NEW k \in Lanes,
         \A m \in Loops : loop'[m].chunk = IF m = l THEN c ELSE loop[m].chunk
  PROVE  Cardinality(Held(k)') + Unit(loop[l].chunk, k) = Cardinality(Held(k)) + Unit(c, k)
<1>1. Held(k) \ {l} = Held(k)' \ {l}
  BY DEF Held, Sending
<1>2. l \in Held(k) <=> Unit(loop[l].chunk, k) = 1
  BY DEF Held, Sending, Unit
<1>3. l \in Held(k)' <=> Unit(c, k) = 1
  BY DEF Held, Sending, Unit
<1>4. Unit(c, k) \in {0, 1} /\ Unit(loop[l].chunk, k) \in {0, 1}
  BY DEF Unit
<1>5. Cardinality(Held(k)') + (IF l \in Held(k) THEN 1 ELSE 0)
        = Cardinality(Held(k)) + (IF l \in Held(k)' THEN 1 ELSE 0)
  BY <1>1, OneApart, HeldFinite, HeldFinitePrimed
<1> QED BY <1>2, <1>3, <1>4, <1>5, HeldFinite, HeldFinitePrimed

\* A loop that sends is counted on its lane.
LEMMA HeldPositive ==
  ASSUME NEW l \in Loops, NEW k \in Lanes, Unit(loop[l].chunk, k) = 1
  PROVE  Cardinality(Held(k)) >= 1
<1>1. l \in Held(k)
  BY DEF Held, Sending, Unit
<1>2. Cardinality(Held(k)) # 0
  BY <1>1, HeldFinite, FS_EmptySet
<1> QED BY <1>2, HeldFinite

LEMMA HeldSame ==
  ASSUME \A m \in Loops : loop'[m].chunk = loop[m].chunk
  PROVE  \A k \in Lanes : Held(k)' = Held(k)
  BY DEF Held, Sending

---------------------------------------------------------------------------
(* One loop takes its next chunk *)

LEMMA TakeTypes ==
  ASSUME NEW l \in Loops, NEW c \in Chunks \cup {NoChunk}, NEW g \in GatewayStates,
         NEW b \in BOOLEAN, TypeOK, Take(l, c, g, b)
  PROVE  /\ loop' \in [Loops -> LoopStates] /\ inFlight' \in BOOLEAN
         /\ heard' \in [Transports -> 0..MaxChunks]
         /\ gateway' \in GatewayStates
         /\ \A k \in Lanes : gateway'.outstanding[k] <= g.outstanding[k]
<1>1. CASE c # NoChunk /\ c.to = active
  <2>1. c \in Chunks /\ c.number \in 0..MaxChunks
    BY <1>1, DispatchAssumption DEF Chunks
  <2>2. loop' \in [Loops -> LoopStates]
    BY <1>1, <2>1 DEF Take, TypeOK, LoopStates
  <2>3. heard' \in [Transports -> 0..MaxChunks]
    BY <1>1, <2>1 DEF Take, TypeOK
  <2>4. inFlight' \in BOOLEAN
    BY <1>1 DEF Take, TypeOK
  <2>5. gateway' = g
    BY <1>1 DEF Take
  <2> QED BY <2>2, <2>3, <2>4, <2>5 DEF GatewayStates
<1>2. CASE ~(c # NoChunk /\ c.to = active)
  <2>1. loop' \in [Loops -> LoopStates]
    <3>1. Idle \in LoopStates
      BY DEF Idle, LoopStates
    <3>2. loop' = [loop EXCEPT ![l] = Idle]
      BY <1>2 DEF Take
    <3> QED BY <3>1, <3>2 DEF TypeOK
  <2>2. heard' \in [Transports -> 0..MaxChunks]
    BY <1>2 DEF Take, TypeOK
  <2>3. inFlight' \in BOOLEAN
    BY <1>2 DEF Take, TypeOK
  <2>4. CASE c = NoChunk
    <3>1. gateway' = g
      BY <1>2, <2>4 DEF Take
    <3> QED BY <3>1, <2>1, <2>2, <2>3 DEF GatewayStates
  <2>5. CASE c # NoChunk
    <3>1. gateway' = Settled(g, c.lane) /\ c.lane \in Lanes
      BY <1>2, <2>5 DEF Take, Chunks
    <3>2. g.outstanding \in [Lanes -> Nat]
      BY DEF GatewayStates
    <3>3. \A k \in Lanes : gateway'.outstanding[k] <= g.outstanding[k]
      BY <3>1, <3>2, SettledOK
    <3> QED BY <3>1, <3>3, SettledOK, <2>1, <2>2, <2>3
  <2> QED BY <2>4, <2>5
<1> QED BY <1>1, <1>2

LEMMA TakeLoops ==
  ASSUME NEW l \in Loops, NEW c, NEW g, NEW b \in BOOLEAN,
         TypeOK, LoopsOK, Take(l, c, g, b), pending' = NoChunk, loop[l].current => b
  PROVE  LoopsOK'
<1>1. CASE c # NoChunk /\ c.to = active
  <2>1. loop' = [loop EXCEPT ![l] = [chunk |-> c, current |-> b]] /\ inFlight' = (inFlight \/ b)
    BY <1>1 DEF Take
  <2>2. \A m \in Loops : loop'[m].current => loop'[m].chunk # NoChunk
    BY <1>1, <2>1 DEF LoopsOK, Sending, TypeOK
  <2>3. inFlight' => \E m \in Loops : loop'[m].current
    BY <2>1 DEF LoopsOK, TypeOK
  <2> QED BY <2>2, <2>3 DEF LoopsOK, Sending
<1>2. CASE ~(c # NoChunk /\ c.to = active)
  <2>1. loop' = [loop EXCEPT ![l] = Idle] /\ inFlight' = (inFlight /\ ~b)
    BY <1>2 DEF Take
  <2>2. \A m \in Loops : loop'[m].current => loop'[m].chunk # NoChunk
    BY <2>1 DEF LoopsOK, Sending, TypeOK, Idle
  <2>3. inFlight' => \E m \in Loops : loop'[m].current
    BY <2>1 DEF LoopsOK, TypeOK
  <2> QED BY <2>2, <2>3 DEF LoopsOK, Sending
<1> QED BY <1>1, <1>2

\* What was counted before is counted after, but for the chunk the loop has settled.
LEMMA TakeCounts ==
  ASSUME NEW l \in Loops, NEW c \in Chunks \cup {NoChunk}, NEW g \in GatewayStates,
         NEW b \in BOOLEAN, TypeOK, Take(l, c, g, b), NEW k \in Lanes,
         g.outstanding[k] + Unit(loop[l].chunk, k) <= Cardinality(Held(k)) + Unit(c, k)
  PROVE  gateway'.outstanding[k] <= Cardinality(Held(k)')
<1>0. g.outstanding[k] \in Nat /\ Unit(c, k) \in {0, 1} /\ Unit(loop[l].chunk, k) \in {0, 1}
  BY DEF GatewayStates, Unit
<1>1. CASE c # NoChunk /\ c.to = active
  <2>1. \A m \in Loops : loop'[m].chunk = IF m = l THEN c ELSE loop[m].chunk
    BY <1>1 DEF Take, TypeOK
  <2>2. gateway' = g
    BY <1>1 DEF Take
  <2> QED BY <2>1, <2>2, <1>0, OneLoopChanges, HeldFinite, HeldFinitePrimed
<1>2. CASE ~(c # NoChunk /\ c.to = active)
  <2>1. \A m \in Loops : loop'[m].chunk = IF m = l THEN NoChunk ELSE loop[m].chunk
    BY <1>2 DEF Take, TypeOK, Idle
  <2>2. Unit(NoChunk, k) = 0
    BY DEF Unit
  <2>3. Cardinality(Held(k)') + Unit(loop[l].chunk, k) = Cardinality(Held(k))
    BY <2>1, <2>2, OneLoopChanges, HeldFinite, HeldFinitePrimed
  <2>4. CASE c = NoChunk
    <3>1. gateway' = g
      BY <1>2, <2>4 DEF Take
    <3> QED BY <3>1, <2>2, <2>3, <2>4, <1>0, HeldFinite, HeldFinitePrimed
  <2>5. CASE c # NoChunk
    <3>1. gateway' = Settled(g, c.lane) /\ c.lane \in Lanes
      BY <1>2, <2>5 DEF Take, Chunks
    <3>2. gateway'.outstanding[k] =
            IF k = c.lane /\ g.outstanding[k] > 0 THEN g.outstanding[k] - 1 ELSE g.outstanding[k]
      BY <3>1, SettledOK
    <3>3. k = c.lane <=> Unit(c, k) = 1
      BY <2>5 DEF Unit
    <3> QED BY <3>2, <3>3, <2>3, <1>0, HeldFinite, HeldFinitePrimed
  <2> QED BY <2>4, <2>5
<1> QED BY <1>1, <1>2

---------------------------------------------------------------------------
(* The steps that touch the dispatch *)

LEMMA DrainStep ==
  ASSUME IInv, chunks < MaxChunks, chunks' = chunks + 1, NEW c \in Chunks,
         c.number = chunks + 1, c.lane = lane,
         NEW g \in GatewayStates,
         \A k \in Lanes : g.outstanding[k] <= AudioMaxOutstanding,
         \A k \in Lanes : g.outstanding[k] = gateway.outstanding[k] + Unit(c, k),
         Drain(c, g)
  PROVE  /\ loop' \in [Loops -> LoopStates] /\ inFlight' \in BOOLEAN
         /\ heard' \in [Transports -> 0..MaxChunks] /\ pending' \in Chunks \cup {NoChunk}
         /\ gateway' \in GatewayStates
         /\ \A k \in Lanes : gateway'.outstanding[k] <= AudioMaxOutstanding
         /\ LoopsOK' /\ HeardOK' /\ PendingOK' /\ LaneAccounted'
<1>1. PICK l \in Loops : ~Sending(l) /\ Take(l, c, g, TRUE)
  BY DEF Drain
<1>2. pending = NoChunk /\ pending' = NoChunk
  BY DEF Drain
<1>3. /\ loop' \in [Loops -> LoopStates] /\ inFlight' \in BOOLEAN
      /\ heard' \in [Transports -> 0..MaxChunks] /\ gateway' \in GatewayStates
      /\ \A k \in Lanes : gateway'.outstanding[k] <= g.outstanding[k]
  BY <1>1, TakeTypes DEF IInv
<1>4. \A k \in Lanes : gateway'.outstanding[k] <= AudioMaxOutstanding
  <2> TAKE k \in Lanes
  <2>1. gateway'.outstanding[k] \in Nat /\ g.outstanding[k] \in Nat
    BY <1>3 DEF GatewayStates
  <2> QED BY <2>1, <1>3, GatewayAssumption
<1>5. LoopsOK'
  BY <1>1, <1>2, TakeLoops DEF IInv
<1>6. HeardOK' /\ PendingOK'
  <2>1. \A x \in Transports : heard'[x] = heard[x] \/ heard'[x] = chunks + 1
    BY <1>1 DEF Take, IInv, TypeOK
  <2>2. chunks \in Nat /\ \A x \in Transports : heard[x] \in Nat
    BY DispatchAssumption DEF IInv, TypeOK
  <2> QED BY <1>2, <2>1, <2>2 DEF HeardOK, PendingOK, IInv
<1>7. LaneAccounted'
  <2> SUFFICES ASSUME NEW k \in Lanes PROVE gateway'.outstanding[k] <= Cardinality(Held(k)')
    BY <1>2, HeldFinitePrimed DEF LaneAccounted, Unsettled
  <2>1. gateway.outstanding[k] <= Cardinality(Held(k))
    BY <1>2, HeldFinite DEF IInv, LaneAccounted, Unsettled
  <2>2. Unit(loop[l].chunk, k) = 0
    BY <1>1 DEF Sending, Unit
  <2>3. gateway.outstanding[k] \in Nat /\ Unit(c, k) \in {0, 1}
    BY DEF IInv, TypeOK, GatewayStates, Unit
  <2>4. g.outstanding[k] + Unit(loop[l].chunk, k) <= Cardinality(Held(k)) + Unit(c, k)
    BY <2>1, <2>2, <2>3, HeldFinite
  <2> QED BY <2>4, <1>1, TakeCounts DEF IInv
<1> QED BY <1>2, <1>3, <1>4, <1>5, <1>6, <1>7

\* The same for a loop whose submit has come back, g being the gateway with the
\* outcome recorded.
LEMMA ContinueStep ==
  ASSUME IInv, NEW l \in Loops, Sending(l), NEW g \in GatewayStates,
         g.outstanding = gateway.outstanding, Continue(l, g)
  PROVE  IInv'
<1> DEFINE k0 == loop[l].chunk.lane
           s == Settled(g, k0)
           b == loop[l].current
<1>1. k0 \in Lanes /\ b \in BOOLEAN /\ loop[l].chunk # NoChunk
  BY DEF Sending, IInv, TypeOK, LoopStates, Chunks
<1>2. pending \in Chunks \cup {NoChunk} /\ pending' = NoChunk /\ chunks' = chunks
  BY DEF Continue, IInv, TypeOK
<1>3. s \in GatewayStates /\ Take(l, pending, s, b)
  BY <1>1, SettledOK DEF Continue
<1>4. \A k \in Lanes : /\ gateway.outstanding[k] \in Nat /\ gateway.outstanding[k] <= AudioMaxOutstanding
                        /\ s.outstanding[k] = IF k = k0 /\ gateway.outstanding[k] > 0
                             THEN gateway.outstanding[k] - 1 ELSE gateway.outstanding[k]
  <2> TAKE k \in Lanes
  <2>1. s.outstanding[k] = IF k = k0 /\ g.outstanding[k] > 0
                           THEN g.outstanding[k] - 1 ELSE g.outstanding[k]
    BY <1>1, SettledOK
  <2> HIDE DEF s
  <2>2. gateway.outstanding[k] \in Nat /\ gateway.outstanding[k] <= AudioMaxOutstanding
    BY DEF IInv, TypeOK, GatewayStates
  <2> QED BY <2>1, <2>2
<1> HIDE DEF s, b
<1>5. /\ loop' \in [Loops -> LoopStates] /\ inFlight' \in BOOLEAN
      /\ heard' \in [Transports -> 0..MaxChunks] /\ gateway' \in GatewayStates
      /\ \A k \in Lanes : gateway'.outstanding[k] <= s.outstanding[k]
  BY <1>1, <1>2, <1>3, TakeTypes DEF IInv
<1>6. \A k \in Lanes : gateway'.outstanding[k] <= AudioMaxOutstanding
  <2> TAKE k \in Lanes
  <2>1. gateway'.outstanding[k] \in Nat /\ s.outstanding[k] \in Nat
    BY <1>3, <1>5 DEF GatewayStates
  <2> QED BY <2>1, <1>4, <1>5, GatewayAssumption
<1>7. TypeOK'
  BY <1>2, <1>5, <1>6 DEF IInv, TypeOK, Continue, capture, session
<1>8. LoopsOK'
  <2>1. loop[l].current => b
    BY DEF b
  <2> QED BY <2>1, <1>1, <1>2, <1>3, TakeLoops DEF IInv
<1>9. HeardOK' /\ PendingOK'
  <2>1. \A x \in Transports : heard'[x] = heard[x] \/ (pending # NoChunk /\ heard'[x] = pending.number)
    BY <1>2, <1>3 DEF Take, IInv, TypeOK
  <2> QED BY <2>1, <1>2 DEF HeardOK, PendingOK, IInv
<1>10. LaneAccounted'
  <2> SUFFICES ASSUME NEW k \in Lanes PROVE gateway'.outstanding[k] <= Cardinality(Held(k)')
    BY <1>2, HeldFinitePrimed DEF LaneAccounted, Unsettled
  <2>1. gateway.outstanding[k] <= Cardinality(Held(k)) + Unit(pending, k)
    BY DEF IInv, LaneAccounted, Unsettled, Unit
  <2>2. Unit(loop[l].chunk, k) = IF k = k0 THEN 1 ELSE 0
    BY <1>1 DEF Unit
  <2>3. Unit(pending, k) \in {0, 1} /\ s.outstanding[k] \in Nat
    BY <1>3 DEF Unit, GatewayStates
  <2>4. k = k0 => Cardinality(Held(k)) >= 1
    BY <2>2, HeldPositive
  <2>5. s.outstanding[k] + Unit(loop[l].chunk, k) <= Cardinality(Held(k)) + Unit(pending, k)
    BY <1>4, <2>1, <2>2, <2>3, <2>4, HeldFinite
  <2> QED BY <2>5, <1>1, <1>2, <1>3, TakeCounts DEF IInv
<1>11. MicOK'
  BY DEF IInv, MicOK, Continue, capture
<1> QED BY <1>7, <1>8, <1>9, <1>10, <1>11 DEF IInv

\* A reset settles the chunk that waits and nothing else.
LEMMA ResetStep ==
  ASSUME IInv, NEW g \in GatewayStates,
         \A k \in Lanes : g.outstanding[k] <= gateway.outstanding[k],
         ResetSendChain(g), UNCHANGED <<capture, chunks>>,
         active' \in Transports \cup {None}, connected' \subseteq Transports
  PROVE  IInv'
<1>1. /\ pending' = NoChunk /\ inFlight' = FALSE /\ heard' = heard
      /\ loop' = [l \in Loops |-> [loop[l] EXCEPT !.current = FALSE]]
      /\ gateway' = IF pending = NoChunk THEN g ELSE Settled(g, pending.lane)
  BY DEF ResetSendChain
<1>2. pending # NoChunk => pending.lane \in Lanes
  BY DEF IInv, TypeOK, Chunks
<1>3. gateway' \in GatewayStates
  BY <1>1, <1>2, SettledOK
<1>4. \A k \in Lanes : /\ g.outstanding[k] \in Nat /\ gateway.outstanding[k] \in Nat
                        /\ gateway.outstanding[k] <= AudioMaxOutstanding
  BY DEF IInv, TypeOK, GatewayStates
<1>5. \A k \in Lanes : gateway'.outstanding[k] + Unit(pending, k) <= gateway.outstanding[k]
                         \/ gateway'.outstanding[k] = 0
  <2> TAKE k \in Lanes
  <2>1. CASE pending = NoChunk
    BY <1>1, <1>4, <2>1 DEF Unit
  <2>2. CASE pending # NoChunk
    <3>1. gateway'.outstanding[k] = IF k = pending.lane /\ g.outstanding[k] > 0
                                    THEN g.outstanding[k] - 1 ELSE g.outstanding[k]
      BY <1>1, <1>2, <2>2, SettledOK
    <3>2. Unit(pending, k) = IF k = pending.lane THEN 1 ELSE 0
      BY <2>2 DEF Unit
    <3> QED BY <3>1, <3>2, <1>4
  <2> QED BY <2>1, <2>2
<1>6. \A k \in Lanes : gateway'.outstanding[k] <= AudioMaxOutstanding
  <2> TAKE k \in Lanes
  <2>1. gateway'.outstanding[k] \in Nat /\ Unit(pending, k) \in {0, 1}
    BY <1>3 DEF GatewayStates, Unit
  <2> QED BY <2>1, <1>4, <1>5, GatewayAssumption
<1>7. loop' \in [Loops -> LoopStates] /\ \A l \in Loops : loop'[l].chunk = loop[l].chunk /\ ~loop'[l].current
  BY <1>1 DEF IInv, TypeOK, LoopStates
<1>8. TypeOK'
  BY <1>1, <1>3, <1>6, <1>7 DEF IInv, TypeOK, capture
<1>9. LoopsOK' /\ PendingOK'
  BY <1>1, <1>7 DEF LoopsOK, PendingOK
<1>10. HeardOK'
  BY <1>1 DEF IInv, HeardOK
<1>11. LaneAccounted'
  <2> SUFFICES ASSUME NEW k \in Lanes PROVE gateway'.outstanding[k] <= Cardinality(Held(k)')
    BY <1>1, HeldFinitePrimed DEF LaneAccounted, Unsettled
  <2>1. Held(k)' = Held(k)
    BY <1>7, HeldSame
  <2>2. gateway.outstanding[k] <= Cardinality(Held(k)) + Unit(pending, k)
    BY DEF IInv, LaneAccounted, Unsettled, Unit
  <2>3. gateway'.outstanding[k] \in Nat /\ Unit(pending, k) \in {0, 1}
    BY <1>3 DEF GatewayStates, Unit
  <2> QED BY <2>1, <2>2, <2>3, <1>4, <1>5, HeldFinite
<1>12. MicOK'
  BY DEF IInv, MicOK, capture
<1> QED BY <1>8, <1>9, <1>10, <1>11, <1>12 DEF IInv

\* A chunk from the worklet: dropped, settled at once, left waiting or sent.
LEMMA ChunkStep ==
  ASSUME IInv, Chunk
  PROVE  IInv'
<1> DEFINE c == [number |-> chunks + 1, lane |-> lane, to |-> active]
           admitted == Admitted(gateway, lane, sequence + 1)
<1>1. /\ chunks < MaxChunks /\ chunks' = chunks + 1 /\ sequence' = sequence + 1
      /\ UNCHANGED <<mic, closing, lane, session>>
  BY DEF Chunk
<1>2. chunks' \in 0..MaxChunks /\ chunks \in Nat /\ sequence' \in Nat
  BY <1>1, DispatchAssumption DEF IInv, TypeOK
<1>0. MicOK'
  BY <1>1 DEF IInv, MicOK
<1>3. ASSUME active = None \/ ~AdmitsAudio(gateway, lane, sequence + 1)
      PROVE  IInv'
  <2>1. UNCHANGED <<gateway, dispatch>>
    BY <1>3 DEF Chunk
  <2>2. TypeOK'
    BY <1>1, <1>2, <2>1 DEF IInv, TypeOK, dispatch, session
  <2>3. LoopsOK' /\ PendingOK'
    BY <1>1, <1>2, <2>1, DispatchAssumption
    DEF IInv, LoopsOK, PendingOK, dispatch, Sending, TypeOK, Chunks
  <2>4. HeardOK'
    BY <1>1, <1>2, <2>1, DispatchAssumption DEF IInv, HeardOK, dispatch, TypeOK
  <2>5. LaneAccounted'
    <3>1. \A k \in Lanes : Held(k)' = Held(k)
      BY <2>1, HeldSame DEF dispatch
    <3> QED BY <2>1, <3>1 DEF IInv, LaneAccounted, Unsettled, dispatch
  <2> QED BY <1>0, <2>2, <2>3, <2>4, <2>5 DEF IInv
<1>4. ASSUME active # None, AdmitsAudio(gateway, lane, sequence + 1)
      PROVE  IInv'
  <2>1. c \in Chunks /\ c.number = chunks + 1 /\ c.lane = lane
    BY <1>1, <1>2, <1>4, DispatchAssumption DEF IInv, TypeOK, Chunks
  <2>2. admitted \in GatewayStates /\ sequence + 1 \in Nat
    BY AdmittedOK DEF IInv, TypeOK
  <2>3. \A k \in Lanes : /\ admitted.outstanding[k] = gateway.outstanding[k] + Unit(c, k)
                          /\ admitted.outstanding[k] <= AudioMaxOutstanding
                          /\ gateway.outstanding[k] \in Nat
    <3> TAKE k \in Lanes
    <3>1. admitted.outstanding[k] =
            IF k = lane THEN gateway.outstanding[k] + 1 ELSE gateway.outstanding[k]
      BY <2>2, AdmittedOK DEF IInv, TypeOK
    <3>2. Unit(c, k) = IF k = lane THEN 1 ELSE 0
      BY <2>1 DEF Unit, NoChunk, Chunks
    <3>3. gateway.outstanding[k] \in Nat /\ gateway.outstanding[k] <= AudioMaxOutstanding
      BY DEF IInv, TypeOK, GatewayStates
    <3>4. k = lane => gateway.outstanding[k] < AudioMaxOutstanding
      BY <1>4 DEF AdmitsAudio
    <3> HIDE DEF admitted, c
    <3> QED BY <3>1, <3>2, <3>3, <3>4, GatewayAssumption
  <2>4. c # NoChunk /\ lane \in Lanes
    BY <2>1, <1>2 DEF NoChunk, IInv, TypeOK
  <2>5. Full(c, admitted) \/ Wait(c, admitted) \/ Drain(c, admitted)
    BY <1>4 DEF Chunk
  <2> HIDE DEF c, admitted
  <2>6. CASE Full(c, admitted)
    <3>1. pending # NoChunk /\ gateway' = Settled(admitted, lane) /\ UNCHANGED dispatch
      BY <2>1, <2>6 DEF Full
    <3>2. gateway' \in GatewayStates
      BY <2>2, <2>4, <3>1, SettledOK
    <3>3. \A k \in Lanes : gateway'.outstanding[k] = gateway.outstanding[k]
      <4> TAKE k \in Lanes
      <4>1. gateway'.outstanding[k] = IF k = lane /\ admitted.outstanding[k] > 0
              THEN admitted.outstanding[k] - 1 ELSE admitted.outstanding[k]
        BY <3>1, <2>2, <2>4, SettledOK
      <4>2. Unit(c, k) = IF k = lane THEN 1 ELSE 0
        BY <2>1, <2>4 DEF Unit
      <4> QED BY <4>1, <4>2, <2>3
    <3>4. TypeOK'
      BY <1>1, <1>2, <3>1, <3>2, <3>3 DEF IInv, TypeOK, dispatch, session
    <3>5. LoopsOK' /\ PendingOK'
      BY <1>1, <1>2, <3>1, DispatchAssumption
      DEF IInv, LoopsOK, PendingOK, dispatch, Sending, TypeOK, Chunks
    <3>6. HeardOK'
      BY <1>1, <1>2, <3>1, DispatchAssumption DEF IInv, HeardOK, dispatch, TypeOK
    <3>7. LaneAccounted'
      <4>1. \A k \in Lanes : Held(k)' = Held(k)
        BY <3>1, HeldSame DEF dispatch
      <4> QED BY <3>1, <3>3, <4>1 DEF IInv, LaneAccounted, Unsettled, dispatch
    <3> QED BY <1>0, <3>4, <3>5, <3>6, <3>7 DEF IInv
  <2>7. CASE Wait(c, admitted)
    <3>1. /\ pending = NoChunk /\ inFlight /\ pending' = c /\ gateway' = admitted
          /\ UNCHANGED <<inFlight, loop, heard>>
      BY <2>7 DEF Wait
    <3>2. TypeOK'
      BY <1>1, <1>2, <2>1, <2>2, <2>3, <3>1 DEF IInv, TypeOK, session
    <3>3. LoopsOK'
      BY <3>1 DEF IInv, LoopsOK, Sending
    <3>4. HeardOK' /\ PendingOK'
      BY <1>1, <1>2, <2>1, <3>1, DispatchAssumption DEF IInv, HeardOK, PendingOK, TypeOK
    <3>5. LaneAccounted'
      <4> SUFFICES ASSUME NEW k \in Lanes
                   PROVE  gateway'.outstanding[k] <= Cardinality(Held(k)') + Unit(c, k)
        BY <3>1 DEF LaneAccounted, Unsettled, Unit
      <4>1. Held(k)' = Held(k)
        BY <3>1, HeldSame
      <4>2. gateway.outstanding[k] <= Cardinality(Held(k))
        BY <3>1, HeldFinite DEF IInv, LaneAccounted, Unsettled
      <4>3. Unit(c, k) \in {0, 1}
        BY DEF Unit
      <4> QED BY <2>3, <3>1, <4>1, <4>2, <4>3, HeldFinite
    <3> QED BY <1>0, <3>2, <3>3, <3>4, <3>5 DEF IInv
  <2>8. CASE Drain(c, admitted)
    <3>1. /\ loop' \in [Loops -> LoopStates] /\ inFlight' \in BOOLEAN
          /\ heard' \in [Transports -> 0..MaxChunks] /\ pending' \in Chunks \cup {NoChunk}
          /\ gateway' \in GatewayStates
          /\ \A k \in Lanes : gateway'.outstanding[k] <= AudioMaxOutstanding
          /\ LoopsOK' /\ HeardOK' /\ PendingOK' /\ LaneAccounted'
      BY <1>1, <2>1, <2>2, <2>3, <2>8, DrainStep
    <3>2. TypeOK'
      BY <1>1, <1>2, <3>1 DEF IInv, TypeOK, session
    <3> QED BY <1>0, <3>1, <3>2 DEF IInv
  <2> QED BY <2>5, <2>6, <2>7, <2>8
<1> QED BY <1>3, <1>4

\* What the microphone, the session and the other kinds of event do leaves the
\* dispatch alone.
LEMMA OtherStep ==
  ASSUME IInv, UNCHANGED <<chunks, dispatch>>,
         gateway' \in GatewayStates, gateway'.outstanding = gateway.outstanding,
         mic' \in {"off", "asked", "opening", "on"}, sequence' \in Nat, lane' \in Lanes,
         closing' \in BOOLEAN, active' \in Transports \cup {None}, connected' \subseteq Transports,
         mic' \in {"asked", "opening"} => lane' < MaxLane
  PROVE  IInv'
<1>1. TypeOK'
  BY DEF IInv, TypeOK, dispatch
<1>2. LoopsOK' /\ HeardOK' /\ PendingOK'
  BY DEF IInv, LoopsOK, HeardOK, PendingOK, dispatch, Sending
<1>3. LaneAccounted'
  <2>1. \A k \in Lanes : Held(k)' = Held(k)
    BY HeldSame DEF dispatch
  <2> QED BY <2>1 DEF IInv, LaneAccounted, Unsettled, dispatch
<1>4. MicOK'
  BY DEF MicOK
<1> QED BY <1>1, <1>2, <1>3, <1>4 DEF IInv

---------------------------------------------------------------------------
(* The theorems *)

LEMMA Begins == Init => IInv
<1> SUFFICES ASSUME Init PROVE IInv
  OBVIOUS
<1>1. TypeOK
  <2>1. 0 \in Lanes /\ Idle \in LoopStates /\ 0 \in 0..MaxChunks
    BY DispatchAssumption DEF Idle, LoopStates
  <2>2. gateway \in GatewayStates /\ \A k \in Lanes : gateway.outstanding[k] <= AudioMaxOutstanding
    BY FreshOK, GatewayAssumption DEF Init
  <2>3. loop \in [Loops -> LoopStates] /\ heard \in [Transports -> 0..MaxChunks]
    BY <2>1 DEF Init
  <2> QED BY <2>1, <2>2, <2>3, DispatchAssumption DEF Init, TypeOK
<1>2. LoopsOK /\ HeardOK /\ PendingOK
  BY DEF Init, LoopsOK, HeardOK, PendingOK, Idle
<1>3. LaneAccounted
  <2> SUFFICES ASSUME NEW k \in Lanes PROVE gateway.outstanding[k] <= Unsettled(k)
    BY DEF LaneAccounted
  <2>1. gateway.outstanding[k] = 0
    BY FreshOK DEF Init
  <2>2. Unsettled(k) \in Nat /\ Unsettled(k) >= 0
    BY HeldFinite DEF Init, Unsettled
  <2> QED BY <2>1, <2>2
<1>4. MicOK
  BY DEF Init, MicOK
<1> QED BY <1>1, <1>2, <1>3, <1>4 DEF IInv

LEMMA Stays == IInv /\ [Next]_vars => IInv'
<1> SUFFICES ASSUME IInv, [Next]_vars PROVE IInv'
  OBVIOUS
<1> USE DEF capture, session
<1>0. /\ gateway \in GatewayStates /\ mic \in {"off", "asked", "opening", "on"}
      /\ sequence \in Nat /\ lane \in Lanes /\ closing \in BOOLEAN
      /\ active \in Transports \cup {None} /\ connected \subseteq Transports
      /\ (mic \in {"asked", "opening"} => lane < MaxLane)
  BY DEF IInv, TypeOK, MicOK
<1>1. CASE StartCapture
  BY <1>0, <1>1, OtherStep DEF StartCapture
<1>2. CASE Activate
  BY <1>0, <1>2, OtherStep DEF Activate
<1>3. CASE Refused
  BY <1>0, <1>3, OtherStep DEF Refused
<1>4. CASE AdvanceAudioLane
  <2>1. lane + 1 \in Lanes
    BY <1>0, <1>4, DispatchAssumption DEF AdvanceAudioLane
  <2> QED BY <1>0, <1>4, <2>1, OtherStep DEF AdvanceAudioLane
<1>5. CASE Release
  BY <1>0, <1>5, OtherStep DEF Release
<1>6. CASE ContextCloses
  BY <1>0, <1>6, OtherStep DEF ContextCloses
<1>7. CASE Chunk
  BY <1>7, ChunkStep
<1>8. ASSUME NEW l \in Loops, Sent(l)
      PROVE  IInv'
  <2>1. PICK g \in {gateway, Succeeded(gateway)} : Continue(l, g)
    BY <1>8 DEF Sent
  <2> QED BY <1>0, <1>8, <2>1, OutcomeOK, ContinueStep DEF Sent
<1>9. ASSUME NEW l \in Loops, SendFails(l)
      PROVE  IInv'
  BY <1>0, <1>9, OutcomeOK, ContinueStep DEF SendFails
<1>10. ASSUME NEW x \in Transports, Attach(x)
       PROVE  IInv'
  <2>1. active' = x /\ connected' \subseteq Transports /\ UNCHANGED <<gateway, capture, chunks, dispatch>>
    BY <1>0, <1>10 DEF Attach
  <2> QED BY <1>0, <2>1, OtherStep
<1>11. CASE Connect
  <2>1. connected' \subseteq Transports
    BY <1>0, <1>11 DEF Connect
  <2> QED BY <1>0, <1>11, <2>1, OtherStep DEF Connect
<1>12. CASE DetachForResume
  <2>1. /\ ResetSendChain(gateway) /\ UNCHANGED <<capture, chunks>>
        /\ active' \in Transports \cup {None} /\ connected' \subseteq Transports
    BY <1>0, <1>12 DEF DetachForResume
  <2>2. \A k \in Lanes : gateway.outstanding[k] <= gateway.outstanding[k]
    BY <1>0 DEF GatewayStates
  <2> QED BY <1>0, <2>1, <2>2, ResetStep
<1>13. CASE Cleanup
  <2>1. /\ ResetSendChain(Fresh) /\ UNCHANGED <<capture, chunks>>
        /\ active' \in Transports \cup {None} /\ connected' \subseteq Transports
    BY <1>0, <1>13 DEF Cleanup
  <2>2. \A k \in Lanes : Fresh.outstanding[k] <= gateway.outstanding[k]
    <3>1. \A k \in Lanes : gateway.outstanding[k] \in Nat
      BY <1>0 DEF GatewayStates
    <3> QED BY <3>1, FreshOK
  <2> QED BY <2>1, <2>2, FreshOK, ResetStep
<1>14. CASE OthersSettle
  <2>1. gateway' \in GatewayStates /\ gateway'.outstanding = gateway.outstanding
    BY <1>0, <1>14, OutcomeOK DEF OthersSettle
  <2> QED BY <1>0, <1>14, <2>1, OtherStep DEF OthersSettle
<1>15. CASE UNCHANGED vars
  BY <1>0, <1>15, OtherStep DEF vars
<1> QED BY <1>1, <1>2, <1>3, <1>4, <1>5, <1>6, <1>7, <1>8, <1>9, <1>10, <1>11, <1>12, <1>13,
           <1>14, <1>15 DEF Next

LEMMA Invariance == Spec => []IInv
<1> QED BY Begins, Stays, PTL DEF Spec

\* The types of the dispatch; no lane ever has more audio outstanding than it may.
THEOREM DispatchTyped == Spec => []TypeOK
<1>1. IInv => TypeOK
  BY DEF IInv
<1> QED BY <1>1, Invariance, PTL

\* No lane leaks a count, whatever was reset, replaced or dropped.
THEOREM LanesAccounted == Spec => []LaneAccounted
<1>1. IInv => LaneAccounted
  BY DEF IInv
<1> QED BY <1>1, Invariance, PTL

\* A waiting chunk always has a loop that will take it.
THEOREM NothingIsStranded == Spec => []NothingStranded
<1>1. IInv => NothingStranded
  BY DEF IInv, LoopsOK, NothingStranded
<1> QED BY <1>1, Invariance, PTL

\* Each transport hears the microphone's chunks in the order of their capture, and
\* only while it is the active one.
THEOREM Ordered == Spec => SentInOrder
<1> DEFINE Order == \A x \in Transports :
                      heard'[x] # heard[x] => heard'[x] > heard[x] /\ active = x
<1>1. IInv /\ [Next]_vars => [Order]_vars
  <2> SUFFICES ASSUME IInv, Next, NEW x \in Transports, heard'[x] # heard[x]
               PROVE  heard'[x] > heard[x] /\ active = x
    BY DEF vars, dispatch
  <2>1. heard \in [Transports -> 0..MaxChunks] /\ chunks \in 0..MaxChunks
    BY DEF IInv, TypeOK
  <2>2. \/ Chunk \/ \E l \in Loops : Sent(l) \/ SendFails(l)
    BY DEF Next, StartCapture, Activate, Refused, AdvanceAudioLane, Release, ContextCloses, Attach,
           Connect, DetachForResume, Cleanup, OthersSettle, ResetSendChain, dispatch
  <2>3. CASE Chunk
    <3> DEFINE c == [number |-> chunks + 1, lane |-> lane, to |-> active]
               admitted == Admitted(gateway, lane, sequence + 1)
    <3>1. PICK l \in Loops : Take(l, c, admitted, TRUE)
      BY <2>3 DEF Chunk, Full, Wait, Drain, dispatch
    <3>2. heard'[x] = chunks + 1 /\ active = x
      BY <3>1, <2>1 DEF Take
    <3>3. heard[x] <= chunks
      BY DEF IInv, HeardOK
    <3> QED BY <2>1, <3>2, <3>3, DispatchAssumption
  <2>4. ASSUME NEW l \in Loops, Sent(l) \/ SendFails(l)
        PROVE  heard'[x] > heard[x] /\ active = x
    <3>1. PICK g, b : Take(l, pending, g, b)
      BY <2>4 DEF Sent, SendFails, Continue
    <3>2. pending # NoChunk /\ heard'[x] = pending.number /\ active = x
      BY <3>1, <2>1 DEF Take
    <3>3. pending \in Chunks
      BY <3>2 DEF IInv, TypeOK
    <3> QED BY <2>1, <3>2, <3>3 DEF IInv, HeardOK, Chunks
  <2> QED BY <2>2, <2>3, <2>4
<1> QED BY <1>1, Invariance, PTL DEF Spec, SentInOrder

=============================================================================
