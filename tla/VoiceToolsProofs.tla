------------------------- MODULE VoiceToolsProofs -------------------------
(***************************************************************************)
(* Proofs about the voice-tool controller, for every number of batches,    *)
(* cancellations and transports, all lists of calls and every limit.       *)
(***************************************************************************)
EXTENDS VoiceTools, SequenceTheorems, WellFoundedInduction, TLAPS

---------------------------------------------------------------------------
(* Calls that are refused without an await *)

LEMMA LeastNatural ==
  ASSUME NEW S \in SUBSET Nat, S # {}
  PROVE  \E n \in S : \A m \in S : n <= m
<1> DEFINE Less == OpToRel(<, Nat)
<1>1. PICK n \in S : \A m \in S : ~(<<m, n>> \in Less)
  <2>1. IsWellFoundedOn(Less, Nat)
    BY NatLessThanWellFounded
  <2> HIDE DEF Less
  <2> QED BY <2>1, WFMin
<1>2. \A m \in S : ~(m < n)
  BY <1>1 DEF OpToRel
<1> QED BY <1>2

\* What is left begins with a call that will be awaited, and no search is
\* awaited beyond the limit.
LEMMA UnrefusedCalls ==
  ASSUME VoiceToolsAssumption, NEW todo \in Seq(Tools), NEW done \in Nat
  PROVE  LET left == Unrefused(todo, done)
         IN  /\ left \in Seq(Tools)
             /\ left # <<>> /\ Head(left) = "search" => done < SearchLimit
<1>1. CASE done < SearchLimit
  BY <1>1 DEF Unrefused
<1>2. CASE ~(done < SearchLimit)
  <2> DEFINE others == {i \in 1..Len(todo) : todo[i] # "search"}
             first  == CHOOSE i \in others : \A j \in others : i <= j
  <2>1. CASE others = {}
    BY <1>2, <2>1 DEF Unrefused
  <2>2. CASE others # {}
    <3>1. first \in others
      <4>1. others \in SUBSET Nat
        OBVIOUS
      <4>2. \E i \in others : \A j \in others : i <= j
        BY <4>1, <2>2, LeastNatural
      <4> QED BY <4>2
    <3>2. Unrefused(todo, done) = SubSeq(todo, first, Len(todo))
      BY <1>2, <2>2 DEF Unrefused
    <3> HIDE DEF first
    <3>3. SubSeq(todo, first, Len(todo)) \in Seq(Tools)
      BY <3>1, SubSeqProperties
    <3>4. Head(SubSeq(todo, first, Len(todo))) = todo[first]
      BY <3>1, HeadTailOfSubSeq
    <3> QED BY <3>1, <3>2, <3>3, <3>4
  <2> QED BY <2>1, <2>2
<1> QED BY <1>1, <1>2

---------------------------------------------------------------------------
(* The inductive invariant *)

\* A batch of the present chain.
Current(b) == b \in 1..arrived /\ batch[b].version = version

Unfinished(b) == Current(b) /\ batch[b].at # "done"

Arrivals ==
  /\ \A b \in Batches : batch[b].at = "none" <=> b > arrived
  /\ \A b, c \in 1..arrived : b < c => batch[b].version <= batch[c].version
  /\ \A b \in 1..arrived : batch[b].version <= version

\* The present chain runs through all its batches in the order they came ...
Links ==
  /\ tail # 0 => Current(tail)
  /\ \A b \in Batches : Current(b) => b <= tail
  /\ \A b \in Batches : Current(b) =>
       /\ batch[b].behind # 0 => Current(batch[b].behind)
       /\ \A c \in Batches : Current(c) /\ c < b => c <= batch[b].behind

\* ... and none is begun before those in front of it are done.
InOrder ==
  \A b, c \in Batches :
    Current(b) /\ Current(c) /\ c < b /\ batch[b].at # "queued" => batch[c].at = "done"

Chain == Links /\ InOrder

\* A batch that is not done belongs to the transport in use.
Homes ==
  /\ ready => transport # None
  /\ \A b \in Batches : Unfinished(b) => ready /\ batch[b].from = transport
  /\ \A b \in Batches : Live(b) => batch[b].to = transport

Answers ==
  /\ \A i \in DOMAIN sent : sent[i].batch \in 1..arrived
                            /\ batch[sent[i].batch].at \in {"responding", "done"}
  /\ AnswersGoHome
  /\ AnsweredInOrder

\* A call that is awaited may still be counted.
Counting ==
  \A b \in Batches : Live(b) /\ batch[b].at = "executing" =>
    /\ batch[b].todo # <<>>
    /\ Head(batch[b].todo) = "search" => searches < SearchLimit

IInv == /\ TypeOK
        /\ Arrivals
        /\ Chain
        /\ Homes
        /\ Answers
        /\ Counting
        /\ StateTellsTheChain

LEMMA InitInvariant == VoiceToolsAssumption /\ Init => IInv
<1> SUFFICES ASSUME VoiceToolsAssumption, Init PROVE IInv
  OBVIOUS
<1> USE VoiceToolsAssumption DEF VoiceToolsAssumption, Init
<1>1. TypeOK
  <2>1. <<>> \in Seq(Tools) /\ <<>> \in Seq([batch : Batches, to : Transports])
    BY EmptySeq
  <2>2. NoBatch \in BatchType
    BY <2>1 DEF NoBatch, BatchType, Stages
  <2>3. batch \in [Batches -> BatchType]
    BY <2>2
  <2>4. sent \in Seq([batch : Batches, to : Transports])
    BY <2>1
  <2>5. /\ version \in 0..MaxVersion
        /\ searches \in 0..SearchLimit
        /\ arrived \in 0..MaxBatches
        /\ tail \in 0..arrived
    BY SMT
  <2> QED BY <2>3, <2>4, <2>5 DEF TypeOK
<1>2. \A b \in Batches : batch[b].at = "none" /\ ~Current(b) /\ ~Live(b)
  BY DEF NoBatch, Current, Live
<1>3. Arrivals /\ Chain /\ Homes /\ Counting /\ StateTellsTheChain
  BY <1>2 DEF Arrivals, Chain, Links, InOrder, Homes, Counting, StateTellsTheChain, Unfinished, Batches
<1>4. Answers
  BY DEF Answers, AnswersGoHome, AnsweredInOrder
<1> QED BY <1>1, <1>3, <1>4 DEF IInv

\* A batch that is at work is the only one, and those behind it still wait.
LEMMA OneAtWork ==
  ASSUME IInv, NEW b \in Batches, NEW c \in Batches,
         Current(b), batch[b].at # "done",
         \A d \in Batches : Current(d) /\ d < b => batch[d].at = "done",
         Live(c), c # b
  PROVE  FALSE
<1>1. Current(c) /\ batch[c].at # "queued" /\ batch[c].at # "done"
  BY DEF IInv, Arrivals, Live, Current, Batches, TypeOK
<1>2. CASE c < b
  BY <1>1, <1>2
<1>3. CASE b < c
  BY <1>1, <1>3 DEF IInv, Chain, Links, InOrder
<1> QED BY <1>2, <1>3 DEF Batches

\* When the chain reaches a batch, all in front of it are done.
LEMMA FrontIsDone ==
  ASSUME IInv, NEW b \in Batches, Current(b), Reached(b) \/ Live(b)
  PROVE  \A d \in Batches : Current(d) /\ d < b => batch[d].at = "done"
<1>1. CASE Live(b)
  BY <1>1 DEF IInv, Chain, Links, InOrder, Live
<1>2. CASE Reached(b)
  <2> SUFFICES ASSUME NEW d \in Batches, Current(d), d < b
               PROVE  batch[d].at = "done"
    OBVIOUS
  <2> DEFINE p == batch[b].behind
  <2>1. p \in 0..MaxBatches /\ d <= p
    BY DEF IInv, Chain, Links, InOrder, TypeOK, BatchType
  <2>2. p \in Batches /\ Current(p) /\ batch[p].at = "done"
    BY <1>2, <2>1 DEF IInv, Chain, Links, InOrder, Reached, Batches
  <2>3. CASE d < p
    BY <2>2, <2>3 DEF IInv, Chain, Links, InOrder
  <2>4. CASE d = p
    BY <2>2, <2>4
  <2> QED BY <2>1, <2>3, <2>4 DEF Batches
<1> QED BY <1>1, <1>2

---------------------------------------------------------------------------
(* The session's steps *)

\* A cancellation leaves no batch in the present chain.
LEMMA CancelKeeps ==
  ASSUME VoiceToolsAssumption, IInv, Cancel, UNCHANGED <<searches, arrived, batch, sent>>,
         transport' \in Transports \cup {None}, ready' \in BOOLEAN,
         ready' => transport' # None, toolState' \in {"idle", "error"}
  PROVE  IInv'
<1> USE VoiceToolsAssumption DEF VoiceToolsAssumption, Cancel
<1>1. TypeOK'
  BY DEF IInv, TypeOK
<1>2. \A b \in Batches : ~Current(b)' /\ ~Live(b)'
  BY DEF IInv, Arrivals, TypeOK, BatchType, Current, Live, Batches, Stages
<1>3. Arrivals'
  BY DEF IInv, Arrivals, TypeOK, BatchType, Batches
<1>4. Answers'
  BY DEF IInv, Answers, AnswersGoHome, AnsweredInOrder
<1>5. Chain' /\ Homes' /\ Counting' /\ StateTellsTheChain'
  BY <1>2 DEF Chain, Links, InOrder, Homes, Counting, StateTellsTheChain, Unfinished
<1> QED BY <1>1, <1>3, <1>4, <1>5 DEF IInv

\* Nothing is at work when the transport is not ready.
LEMMA IdleWithoutTransport ==
  ASSUME IInv, transport = None \/ ~ready
  PROVE  /\ \A b \in Batches : ~Unfinished(b) /\ ~Live(b)
         /\ toolState \in {"idle", "error"}
<1>1. \A b \in Batches : ~Unfinished(b)
  BY DEF IInv, Homes
<1>2. \A b \in Batches : ~Live(b)
  BY <1>1 DEF IInv, Arrivals, TypeOK, Batches, Live, Unfinished, Current
<1> QED BY <1>1, <1>2 DEF IInv, StateTellsTheChain, TypeOK

LEMMA IdleKeeps ==
  ASSUME VoiceToolsAssumption, IInv, transport = None \/ ~ready,
         UNCHANGED <<version, tail, arrived, batch, sent>>,
         transport' \in Transports \cup {None}, ready' \in BOOLEAN,
         ready' => transport' # None,
         toolState' \in {"idle", toolState}, searches' \in {0, searches}
  PROVE  IInv'
<1>1. \A b \in Batches : ~Unfinished(b)' /\ ~Live(b)'
  BY IdleWithoutTransport DEF Unfinished, Current, Live
<1>2. TypeOK'
  BY VoiceToolsAssumption DEF IInv, TypeOK, VoiceToolsAssumption
<1>3. Arrivals' /\ Chain' /\ Answers'
  BY DEF IInv, Arrivals, Chain, Links, InOrder, Current, Answers, AnswersGoHome, AnsweredInOrder
<1>4. toolState' \in {"idle", "error"}
  BY IdleWithoutTransport
<1>5. Homes' /\ Counting' /\ StateTellsTheChain'
  BY <1>1, <1>4 DEF Homes, Counting, StateTellsTheChain
<1> QED BY <1>2, <1>3, <1>5 DEF IInv

LEMMA SessionKeeps ==
  ASSUME VoiceToolsAssumption, IInv, Session
  PROVE  IInv'
<1> USE DEF session
<1>1. CASE Interrupt
  BY <1>1, CancelKeeps DEF Interrupt, IInv, TypeOK, Homes
<1>2. CASE Detach
  BY <1>2, CancelKeeps DEF Detach
<1>3. ASSUME NEW x \in Transports, Activate(x) PROVE IInv'
  BY <1>3, CancelKeeps DEF Activate
<1>4. ASSUME NEW x \in Transports, Reattach(x) PROVE IInv'
  BY <1>4, IdleKeeps, VoiceToolsAssumption
     DEF Reattach, IInv, TypeOK, Homes, VoiceToolsAssumption
<1>5. CASE Connected
  BY <1>5, IdleKeeps DEF Connected, IInv, TypeOK
<1>6. CASE AbandonResume
  BY <1>6, IdleKeeps DEF AbandonResume, IInv, TypeOK
<1>7. CASE StartSession
  BY <1>7, IdleKeeps DEF StartSession, IInv, TypeOK, Homes
<1>8. CASE ShowError
  <2>1. TypeOK'
    BY <1>8 DEF ShowError, IInv, TypeOK
  <2>2. Arrivals' /\ Chain' /\ Homes' /\ Answers' /\ Counting'
    BY <1>8 DEF ShowError, IInv, Arrivals, Chain, Links, InOrder, Current, Homes, Unfinished, Live,
                Answers, AnswersGoHome, AnsweredInOrder, Counting
  <2>3. StateTellsTheChain'
    BY <1>8 DEF ShowError, StateTellsTheChain
  <2> QED BY <2>1, <2>2, <2>3 DEF IInv
<1> QED BY <1>1, <1>2, <1>3, <1>4, <1>5, <1>6, <1>7, <1>8 DEF Session

---------------------------------------------------------------------------
(* The controller's steps *)

LEMMA EnqueueKeeps ==
  ASSUME VoiceToolsAssumption, IInv, NEW calls \in CallLists, Enqueue(calls)
  PROVE  IInv'
<1> DEFINE queued == [at |-> "queued", version |-> version, behind |-> tail,
                      from |-> transport, to |-> None, todo |-> calls, failed |-> FALSE]
<1>1. PICK new \in Nat : new = arrived + 1
  BY DEF IInv, TypeOK
<1>2. new \in Batches /\ arrived \in 0..MaxBatches /\ new \notin 1..arrived /\ 1..arrived \subseteq Batches
  BY <1>1, VoiceToolsAssumption DEF IInv, TypeOK, Batches, VoiceToolsAssumption, Enqueue
<1>3. batch'[new] = queued /\ \A b \in Batches \ {new} : batch'[b] = batch[b]
  BY <1>2, <1>1 DEF IInv, TypeOK, Enqueue
<1>4. /\ ready /\ arrived' = new /\ tail' = new /\ batch' \in [Batches -> {queued} \cup BatchType]
      /\ UNCHANGED <<transport, ready, version, searches, toolState, sent>>
  BY <1>2, <1>1 DEF IInv, TypeOK, Enqueue, session
<1>5. queued \in BatchType
  <2>1. calls \in Seq(Tools)
    BY VoiceToolsAssumption DEF VoiceToolsAssumption
  <2>2. tail \in 0..MaxBatches
    BY <1>2 DEF IInv, TypeOK
  <2> QED BY <2>1, <2>2 DEF BatchType, Stages, IInv, TypeOK
<1>6. /\ batch'[new].at = "queued" /\ batch'[new].version = version
      /\ batch'[new].behind = tail /\ batch'[new].from = transport
  BY <1>3
<1> HIDE DEF queued
<1>7. TypeOK'
  <2>1. batch' \in [Batches -> BatchType]
    BY <1>5, <1>4
  <2> QED BY <1>2, <1>4, <1>1, <2>1 DEF IInv, TypeOK, Batches
<1>8. /\ Current(new)'
      /\ \A b \in Batches \ {new} : Current(b)' <=> Current(b)
  BY <1>2, <1>3, <1>6, <1>4, <1>1 DEF Current, Batches
<1>9. \A b \in Batches : Current(b) => b < new
  BY <1>2, <1>1 DEF Current
<1>10. Arrivals'
  <2>1. \A b \in Batches : batch'[b].at = "none" <=> b > arrived'
    BY <1>2, <1>3, <1>6, <1>4, <1>1 DEF IInv, Arrivals, Batches
  <2>2. \A b \in 1..arrived' : b = new \/ (b \in 1..arrived /\ batch'[b] = batch[b])
    BY <1>2, <1>3, <1>4, <1>1 DEF Batches
  <2>3. \A b \in 1..arrived : batch[b].version <= version
    BY DEF IInv, Arrivals
  <2>4. \A b \in 1..arrived' : batch'[b].version <= version'
    BY <1>6, <1>4, <2>2, <2>3 DEF IInv, TypeOK
  <2>5. \A b, c \in 1..arrived' : b < c => batch'[b].version <= batch'[c].version
    <3> SUFFICES ASSUME NEW b \in 1..arrived', NEW c \in 1..arrived', b < c
                 PROVE  batch'[b].version <= batch'[c].version
      OBVIOUS
    <3>1. b \in 1..arrived
      BY <1>4, <1>1, <2>2
    <3>2. CASE c = new
      BY <1>6, <2>2, <2>3, <3>1, <3>2, <1>1 DEF IInv, TypeOK
    <3>3. CASE c # new
      BY <2>2, <3>1, <3>3, <1>1 DEF IInv, Arrivals, TypeOK
    <3> QED BY <3>2, <3>3
  <2> QED BY <2>1, <2>4, <2>5 DEF Arrivals
<1>11. Chain'
  <2>1. (tail # 0 => Current(tail))' /\ \A b \in Batches : Current(b)' => b <= tail'
    BY <1>2, <1>8, <1>9, <1>4 DEF Batches
  <2>2. ASSUME NEW b \in Batches, Current(b)'
        PROVE  /\ (batch[b].behind # 0 => Current(batch[b].behind))'
               /\ \A c \in Batches : Current(c)' /\ c < b => c <= batch'[b].behind
    <3>1. CASE b = new
      <4>1. PICK p \in Nat : p = tail
        BY DEF IInv, TypeOK
      <4>2. p # 0 => p \in 1..arrived /\ batch[p].version = version
        BY <4>1 DEF IInv, Chain, Links, InOrder, Current
      <4>3. p # 0 => p \in 1..arrived' /\ batch'[p].version = version'
        BY <1>2, <1>3, <1>4, <1>1, <4>2
      <4>4. batch'[b].behind = p
        BY <1>6, <3>1, <4>1
      <4>5. (batch[b].behind # 0 => Current(batch[b].behind))'
        BY <4>3, <4>4 DEF Current
      <4>6. \A c \in Batches : Current(c)' /\ c < b => c <= p
        BY <1>8, <3>1, <4>1 DEF IInv, Chain, Links, InOrder, Batches
      <4> QED BY <4>4, <4>5, <4>6
    <3>2. CASE b # new
      <4>1. Current(b) /\ batch'[b] = batch[b]
        BY <1>3, <1>8, <2>2, <3>2
      <4>2. batch[b].behind # 0 => Current(batch[b].behind)
        BY <4>1 DEF IInv, Chain, Links, InOrder
      <4>4. (batch[b].behind # 0 => Current(batch[b].behind))'
        <5> DEFINE p == batch'[b].behind
        <5>1. p # 0 => p \in Batches \ {new} /\ Current(p)
          BY <1>2, <4>1, <4>2 DEF Current
        <5>2. p # 0 => p \in 1..arrived' /\ batch'[p].version = version'
          BY <1>2, <1>3, <1>4, <1>1, <5>1 DEF Current
        <5> QED BY <5>2 DEF Current
      <4>5. \A c \in Batches : Current(c)' /\ c < b => c # new /\ Current(c)
        BY <1>8, <1>9, <4>1 DEF Batches
      <4> QED BY <4>1, <4>4, <4>5 DEF IInv, Chain, Links, InOrder
    <3> QED BY <3>1, <3>2
  <2>3. ASSUME NEW b \in Batches, NEW c \in Batches,
               Current(b)', Current(c)', c < b, batch'[b].at # "queued"
        PROVE  batch'[c].at = "done"
    <3>1. b # new /\ Current(b)
      BY <1>6, <1>8, <2>3
    <3>2. c # new /\ Current(c)
      BY <1>8, <1>9, <2>3, <3>1 DEF Batches
    <3> QED BY <1>3, <2>3, <3>1, <3>2 DEF IInv, Chain, Links, InOrder
  <2> QED BY <2>1, <2>2, <2>3 DEF Chain, Links, InOrder
<1>12. \A b \in Batches : Live(b)' <=> Live(b)
  <2>1. ~Live(new)'
    BY <1>6 DEF Live
  <2>2. ~Live(new)
    BY <1>2, <1>1 DEF IInv, Arrivals, Live
  <2> QED BY <1>3, <1>4, <2>1, <2>2 DEF Live
<1>13. ~Live(new)
  BY <1>2, <1>1 DEF IInv, Arrivals, Live
<1>14. Homes'
  BY <1>4, <1>3, <1>6, <1>8, <1>12, <1>13 DEF IInv, Homes, Unfinished
<1>15. Answers'
  BY <1>4, <1>1, <1>2, <1>3 DEF IInv, Answers, AnswersGoHome, AnsweredInOrder, Batches
<1>16. Counting' /\ StateTellsTheChain'
  BY <1>4, <1>3, <1>12, <1>13 DEF IInv, Counting, StateTellsTheChain
<1> QED BY <1>7, <1>10, <1>11, <1>14, <1>15, <1>16 DEF IInv

\* A step that leaves the chain's end, and every batch's place, as they are.
LEMMA LinksKept ==
  ASSUME VoiceToolsAssumption, IInv, UNCHANGED <<version, tail, arrived>>,
         \A c \in Batches : batch'[c].version = batch[c].version
                            /\ batch'[c].behind = batch[c].behind
  PROVE  Links' /\ \A c \in Batches : Current(c)' <=> Current(c)
<1>1. \A c \in Batches : Current(c)' <=> Current(c)
  BY DEF Current
<1>2. (tail # 0 => Current(tail))'
  <2>1. PICK t \in 0..arrived : t = tail /\ t = tail'
    BY DEF IInv, TypeOK
  <2>2. t # 0 => t \in Batches /\ Current(t)
    BY <2>1, VoiceToolsAssumption
       DEF IInv, Chain, Links, TypeOK, Batches, VoiceToolsAssumption
  <2> QED BY <1>1, <2>1, <2>2 DEF Current
<1>3. \A c \in Batches : (Current(c) => c <= tail)'
  BY <1>1 DEF IInv, Chain, Links
<1>4. ASSUME NEW c \in Batches, Current(c)'
      PROVE  /\ (batch[c].behind # 0 => Current(batch[c].behind))'
             /\ \A d \in Batches : Current(d)' /\ d < c => d <= batch'[c].behind
  <2>1. PICK p \in 0..MaxBatches : p = batch[c].behind /\ p = batch'[c].behind
    BY DEF IInv, TypeOK, BatchType
  <2>2. p # 0 => p \in Batches /\ Current(p)
    BY <1>1, <1>4, <2>1 DEF IInv, Chain, Links, Batches
  <2> QED BY <1>1, <1>4, <2>1, <2>2 DEF IInv, Chain, Links, Current
<1> QED BY <1>1, <1>2, <1>3, <1>4 DEF Links

\* A batch that ends, with all in front of it done if it is of this chain.
LEMMA FinishKeeps ==
  ASSUME VoiceToolsAssumption, IInv, NEW b \in Batches, Finish(b),
         batch[b].at \in {"queued", "executing", "responding"},
         UNCHANGED <<transport, ready, version, searches, tail, arrived, sent>>,
         Current(b) => \A d \in Batches : Current(d) /\ d < b => batch[d].at = "done",
         IF Live(b) THEN toolState' \in {"idle", "error"} ELSE toolState' = toolState
  PROVE  IInv'
<1>1. /\ batch'[b].at = "done" /\ batch'[b] \in BatchType
      /\ batch'[b].version = batch[b].version /\ batch'[b].behind = batch[b].behind
      /\ batch'[b].from = batch[b].from
      /\ \A c \in Batches \ {b} : batch'[c] = batch[c]
      /\ batch' \in [Batches -> BatchType]
  BY DEF IInv, TypeOK, Finish, BatchType, Stages
<1>2. \A c \in Batches : batch'[c].version = batch[c].version
                         /\ batch'[c].behind = batch[c].behind
                         /\ batch'[c].from = batch[c].from
  BY <1>1
<1>3. TypeOK'
  BY <1>1 DEF IInv, TypeOK
<1>4. Links' /\ \A c \in Batches : Current(c)' <=> Current(c)
  BY <1>2, LinksKept
<1>5. Arrivals'
  <2>1. b \in 1..arrived /\ 1..arrived \subseteq Batches
    <3>1. arrived \in 0..MaxBatches /\ MaxBatches \in Nat
      BY VoiceToolsAssumption DEF IInv, TypeOK, VoiceToolsAssumption
    <3>2. ~(b > arrived)
      BY DEF IInv, Arrivals
    <3> QED BY <3>1, <3>2 DEF Batches
  <2>2. \A c \in Batches : batch'[c].at = "none" <=> batch[c].at = "none"
    BY <1>1
  <2> QED BY <1>2, <2>1, <2>2 DEF IInv, Arrivals
<1>6. Chain'
  <2>1. ASSUME NEW c \in Batches, NEW d \in Batches,
               Current(c), Current(d), d < c, batch'[c].at # "queued"
        PROVE  batch'[d].at = "done"
    BY <1>1, <2>1 DEF IInv, Chain, Links, InOrder
  <2> QED BY <1>4, <2>1 DEF Chain, InOrder
<1>7. ~Live(b)' /\ \A c \in Batches \ {b} : Live(c)' <=> Live(c)
  BY <1>1 DEF Live
<1>8. Homes'
  <2>1. \A c \in Batches : Unfinished(c)' => Unfinished(c) /\ c # b
    BY <1>1, <1>4 DEF Unfinished
  <2> QED BY <1>1, <1>2, <1>7, <2>1 DEF IInv, Homes
<1>9. Answers'
  <2>1. ASSUME NEW i \in DOMAIN sent
        PROVE  /\ sent[i].batch \in 1..arrived /\ sent[i].batch \in Batches
               /\ batch'[sent[i].batch].at \in {"responding", "done"}
               /\ sent[i].to = batch'[sent[i].batch].from
    <3>1. sent[i].batch \in 1..arrived /\ sent[i].batch \in Batches
      BY VoiceToolsAssumption DEF IInv, TypeOK, Answers, Batches, VoiceToolsAssumption
    <3>2. batch[sent[i].batch].at \in {"responding", "done"}
          /\ sent[i].to = batch[sent[i].batch].from
      BY DEF IInv, Answers, AnswersGoHome
    <3> QED BY <1>1, <1>2, <3>1, <3>2
  <2> QED BY <2>1 DEF IInv, Answers, AnswersGoHome, AnsweredInOrder
<1>10. Counting'
  BY <1>1, <1>7 DEF IInv, Counting
<1>11. StateTellsTheChain'
  <2>1. CASE Live(b)
    <3>1. \A c \in Batches \ {b} : ~Live(c)
      BY <2>1, OneAtWork DEF Live, Current, IInv, Arrivals, TypeOK, Batches
    <3> QED BY <1>7, <2>1, <3>1 DEF StateTellsTheChain
  <2>2. CASE ~Live(b)
    BY <1>1, <1>7, <2>2 DEF IInv, StateTellsTheChain
  <2> QED BY <2>1, <2>2
<1> QED BY <1>3, <1>5, <1>6, <1>8, <1>9, <1>10, <1>11 DEF IInv

\* The batch the chain has come to goes on to its next await.
LEMMA ProceedKeeps ==
  ASSUME VoiceToolsAssumption, IInv, NEW b \in Batches, Current(b),
         batch[b].at \in {"queued", "executing"},
         \A d \in Batches : Current(d) /\ d < b => batch[d].at = "done",
         NEW todo \in Seq(Tools), NEW failed \in BOOLEAN, NEW done \in 0..SearchLimit,
         Proceed(b, todo, failed, done)
  PROVE  IInv'
<1>1. PICK left \in Seq(Tools) :
        left = Unrefused(todo, done)
        /\ (left # <<>> /\ Head(left) = "search" => done < SearchLimit)
  <2>1. done \in Nat
    BY VoiceToolsAssumption DEF VoiceToolsAssumption
  <2> QED BY <2>1, UnrefusedCalls, VoiceToolsAssumption
<1>2. PICK stage \in {"responding", "executing"} :
        stage = IF left = <<>> THEN "responding" ELSE "executing"
  OBVIOUS
<1>3. /\ batch' = [batch EXCEPT ![b].at = stage, ![b].to = transport, ![b].todo = left,
                                ![b].failed = failed \/ Refused(todo, done)]
      /\ toolState' = stage /\ searches' = done
      /\ sent' = IF left = <<>> THEN Append(sent, [batch |-> b, to |-> transport]) ELSE sent
      /\ UNCHANGED <<transport, ready, version, tail, arrived>>
  BY <1>1, <1>2 DEF Proceed, session
<1>4. ready /\ transport \in Transports /\ batch[b].from = transport
  BY DEF IInv, Homes, Unfinished, TypeOK
<1>5. Refused(todo, done) \in BOOLEAN
  BY DEF Refused
<1>6. /\ batch'[b].at = stage /\ batch'[b].to = transport /\ batch'[b].todo = left
      /\ batch'[b].version = batch[b].version /\ batch'[b].behind = batch[b].behind
      /\ batch'[b].from = batch[b].from
      /\ batch'[b] \in BatchType
      /\ \A c \in Batches \ {b} : batch'[c] = batch[c]
      /\ batch' \in [Batches -> BatchType]
  <2> DEFINE refused == failed \/ Refused(todo, done)
  <2>1. refused \in BOOLEAN
    BY <1>5
  <2> HIDE DEF refused
  <2>2. batch' = [batch EXCEPT ![b] = [@ EXCEPT !.at = stage, !.to = transport,
                                                 !.todo = left, !.failed = refused]]
    BY <1>3 DEF refused
  <2>3. batch[b] \in BatchType /\ batch \in [Batches -> BatchType]
    BY DEF IInv, TypeOK
  <2>4. [batch[b] EXCEPT !.at = stage, !.to = transport, !.todo = left, !.failed = refused]
          \in BatchType
    BY <1>4, <2>1, <2>3 DEF BatchType, Stages
  <2>5. batch'[b] = [batch[b] EXCEPT !.at = stage, !.to = transport,
                                     !.todo = left, !.failed = refused]
    BY <2>2, <2>3
  <2> QED BY <2>2, <2>3, <2>4, <2>5 DEF BatchType
<1>7. \A c \in Batches : batch'[c].version = batch[c].version
                         /\ batch'[c].behind = batch[c].behind
                         /\ batch'[c].from = batch[c].from
  BY <1>6
<1>8. b \in 1..arrived /\ 1..arrived \subseteq Batches /\ batch[b].version = version
  BY VoiceToolsAssumption DEF IInv, TypeOK, Batches, VoiceToolsAssumption, Current
<1>9. Links' /\ \A c \in Batches : Current(c)' <=> Current(c)
  BY <1>3, <1>7, LinksKept
<1>10. TypeOK'
  <2>1. sent' \in Seq([batch : Batches, to : Transports])
    BY <1>3, <1>4, AppendProperties DEF IInv, TypeOK
  <2> QED BY <1>2, <1>3, <1>6, <2>1 DEF IInv, TypeOK
<1>11. Arrivals'
  <2>1. \A c \in Batches : batch'[c].at = "none" <=> batch[c].at = "none"
    BY <1>2, <1>6
  <2> QED BY <1>3, <1>7, <1>8, <2>1 DEF IInv, Arrivals
<1>12. Chain'
  <2>1. ASSUME NEW c \in Batches, NEW d \in Batches,
               Current(c), Current(d), d < c, batch'[c].at # "queued"
        PROVE  batch'[d].at = "done"
    <3>1. batch[d].at = "done"
      BY <1>6, <2>1 DEF IInv, Chain, Links, InOrder
    <3> QED BY <1>6, <3>1
  <2> QED BY <1>9, <2>1 DEF Chain, InOrder
<1>13. \A c \in Batches \ {b} : ~Live(c)'
  <2>1. \A c \in Batches \ {b} : ~Live(c)
    BY OneAtWork
  <2> QED BY <1>3, <1>6, <2>1 DEF Live
<1>14. Live(b)'
  BY <1>2, <1>3, <1>6, <1>8 DEF Live
<1>15. Homes'
  <2>1. \A c \in Batches : Unfinished(c)' => Unfinished(c)
    BY <1>6, <1>9 DEF Unfinished
  <2> QED BY <1>3, <1>6, <1>7, <1>13, <2>1 DEF IInv, Homes
<1>16. Answers'
  <2>1. ASSUME NEW i \in DOMAIN sent
        PROVE  /\ sent[i].batch \in 1..arrived /\ sent[i].batch \in Batches
               /\ sent[i].batch < b
               /\ batch'[sent[i].batch].at \in {"responding", "done"}
               /\ sent[i].to = batch'[sent[i].batch].from
    <3> DEFINE k == sent[i].batch
    <3>1. /\ k \in 1..arrived /\ k \in Batches
          /\ batch[k].at \in {"responding", "done"} /\ sent[i].to = batch[k].from
      BY <1>8 DEF IInv, Answers, AnswersGoHome
    <3>2. k < b
      <4>1. k # b
        BY <3>1
      <4>2. CASE b < k
        <5>1. batch[b].version <= batch[k].version /\ batch[k].version <= version
          BY <1>8, <3>1, <4>2 DEF IInv, Arrivals
        <5>2. Current(k)
          BY <1>8, <3>1, <5>1 DEF Current, IInv, TypeOK, BatchType
        <5>3. batch[b].at = "done"
          BY <3>1, <4>2, <5>2 DEF IInv, Chain, Links, InOrder
        <5> QED BY <5>3
      <4> QED BY <3>1, <4>1, <4>2 DEF Batches
    <3> QED BY <1>6, <1>7, <3>1, <3>2
  <2>2. CASE left # <<>>
    BY <1>3, <2>1, <2>2 DEF IInv, Answers, AnswersGoHome, AnsweredInOrder
  <2>3. CASE left = <<>>
    <3> DEFINE new == Len(sent) + 1
    <3>1. /\ sent \in Seq([batch : Batches, to : Transports])
          /\ [batch |-> b, to |-> transport] \in [batch : Batches, to : Transports]
      BY <1>4 DEF IInv, TypeOK
    <3>2. /\ DOMAIN sent' = 1..new /\ DOMAIN sent = 1..Len(sent) /\ Len(sent) \in Nat
          /\ sent'[new] = [batch |-> b, to |-> transport]
          /\ \A i \in 1..Len(sent) : sent'[i] = sent[i]
      BY <1>3, <2>3, <3>1, AppendProperties
    <3>3. \A i \in DOMAIN sent' : i = new \/ i \in DOMAIN sent
      BY <3>2
    <3>4. batch'[b].at = "responding" /\ batch'[b].from = transport
      BY <1>2, <1>4, <1>6, <2>3
    <3>5. AnsweredInOrder'
      <4> SUFFICES ASSUME NEW i \in DOMAIN sent', NEW j \in DOMAIN sent', i < j
                   PROVE  sent'[i].batch < sent'[j].batch
        BY DEF AnsweredInOrder
      <4>1. i \in DOMAIN sent /\ i \in Nat
        BY <3>2
      <4>2. CASE j \in DOMAIN sent
        BY <3>2, <4>1, <4>2 DEF IInv, Answers, AnsweredInOrder
      <4>3. CASE j = new
        BY <2>1, <3>2, <4>1, <4>3
      <4> QED BY <3>3, <4>2, <4>3
    <3>6. \A i \in DOMAIN sent' :
            /\ sent'[i].batch \in 1..arrived'
            /\ batch'[sent'[i].batch].at \in {"responding", "done"}
            /\ sent'[i].to = batch'[sent'[i].batch].from
      <4> SUFFICES ASSUME NEW i \in DOMAIN sent'
                   PROVE  /\ sent'[i].batch \in 1..arrived'
                          /\ batch'[sent'[i].batch].at \in {"responding", "done"}
                          /\ sent'[i].to = batch'[sent'[i].batch].from
        OBVIOUS
      <4>1. CASE i \in DOMAIN sent
        BY <1>3, <2>1, <3>2, <4>1
      <4>2. CASE i = new
        <5>1. sent'[i].batch = b /\ sent'[i].to = transport
          BY <3>2, <4>2
        <5>2. arrived' = arrived
          BY <1>3
        <5> QED BY <1>8, <3>4, <5>1, <5>2
      <4> QED BY <3>3, <4>1, <4>2
    <3> QED BY <3>5, <3>6 DEF Answers, AnswersGoHome
  <2> QED BY <2>2, <2>3
<1>17. Counting'
  BY <1>1, <1>2, <1>3, <1>6, <1>13 DEF Counting
<1>18. StateTellsTheChain'
  BY <1>2, <1>3, <1>6, <1>13, <1>14 DEF StateTellsTheChain
<1> QED BY <1>10, <1>11, <1>12, <1>15, <1>16, <1>17, <1>18 DEF IInv

LEMMA ProgressKeeps ==
  ASSUME VoiceToolsAssumption, IInv, NEW b \in Batches, Progress(b)
  PROVE  IInv'
<1> USE DEF session
<1>1. CASE Start(b)
  <2>1. batch[b].todo \in Seq(Tools) /\ searches \in 0..SearchLimit
    BY DEF IInv, TypeOK, BatchType
  <2>2. Current(b) /\ batch[b].at = "queued"
    BY <1>1 DEF Start, Reached, Runs, Current, IInv, Arrivals, TypeOK, Batches
  <2> QED BY <1>1, <2>1, <2>2, ProceedKeeps, FrontIsDone DEF Start
<1>2. CASE Ignore(b)
  <2>1. ~Live(b) /\ Reached(b)
    BY <1>2 DEF Ignore, Reached, Live
  <2> QED BY <1>2, <2>1, FinishKeeps, FrontIsDone DEF Ignore, Reached
<1>3. CASE Forget(b)
  <2>1. ~Live(b)
    BY <1>3 DEF Forget, StillActive, IInv, Homes, Live
  <2>2. ~Current(b)
    BY <1>3, <2>1 DEF Forget, Current, Live
  <2> QED BY <1>3, <2>1, <2>2, FinishKeeps DEF Forget
<1>4. ASSUME NEW ok \in BOOLEAN, Answer(b, ok) PROVE IInv'
  <2>1. Live(b) /\ Current(b) /\ batch[b].at = "executing"
    BY <1>4 DEF Answer, StillActive, Live, Current, IInv, Arrivals, TypeOK, Batches
  <2>2. /\ batch[b].todo \in Seq(Tools) /\ batch[b].todo # <<>>
        /\ Head(batch[b].todo) = "search" => searches < SearchLimit
        /\ searches \in 0..SearchLimit /\ batch[b].failed \in BOOLEAN
    BY <2>1 DEF IInv, TypeOK, BatchType, Counting
  <2>3. Counts(b, ok) \in 0..SearchLimit
    BY <2>2, VoiceToolsAssumption DEF Counts, VoiceToolsAssumption
  <2>4. Tail(batch[b].todo) \in Seq(Tools) /\ (batch[b].failed \/ ~ok) \in BOOLEAN
    BY <2>2, HeadTailProperties
  <2> QED BY <1>4, <2>1, <2>3, <2>4, ProceedKeeps, FrontIsDone DEF Answer
<1>5. ASSUME NEW ok \in BOOLEAN, Settle(b, ok) PROVE IInv'
  <2>1. Live(b) /\ Current(b)
    BY <1>5 DEF Settle, StillActive, Live, Current, IInv, Arrivals, TypeOK, Batches
  <2> QED BY <1>5, <2>1, FinishKeeps, FrontIsDone DEF Settle
<1> QED BY <1>1, <1>2, <1>3, <1>4, <1>5 DEF Progress

LEMMA StutterKeeps == IInv /\ UNCHANGED vars => IInv'
  BY DEF vars, IInv, TypeOK, Arrivals, Chain, Links, InOrder, Homes, Answers, AnswersGoHome, AnsweredInOrder,
         Counting, StateTellsTheChain, Current, Unfinished, Live

---------------------------------------------------------------------------
(* The theorems *)

\* The inductive invariant: the batches of the present version form the
\* chain, belong to the transport in use, and are at work one at a time.
THEOREM Invariance == Spec => []IInv
<1>1. VoiceToolsAssumption /\ Init => IInv
  BY InitInvariant
<1>2. VoiceToolsAssumption /\ IInv /\ [Next]_vars => IInv'
  BY SessionKeeps, EnqueueKeeps, ProgressKeeps, StutterKeeps DEF Next, Delivery
<1> QED BY <1>1, <1>2, VoiceToolsAssumption, PTL DEF Spec

\* Every variable keeps its type; in particular no session counts more
\* successful searches than its limit.
THEOREM TypeCorrect == Spec => []TypeOK
  BY Invariance, PTL DEF IInv

\* No answer reaches a transport other than the one its calls came from.
THEOREM AnswersHome == Spec => []AnswersGoHome
  BY Invariance, PTL DEF IInv, Answers

\* Batches are answered once, in the order they came.
THEOREM AnsweredOrderly == Spec => []AnsweredInOrder
  BY Invariance, PTL DEF IInv, Answers

\* The store tells the router the truth about the chain.
THEOREM StateTrue == Spec => []StateTellsTheChain
  BY Invariance, PTL DEF IInv

\* Calls that were cancelled are never answered.
THEOREM CancelledSilent == Spec => CancelledStaysSilent
<1> DEFINE Silent == \A b \in 1..arrived : batch[b].version # version =>
                       batch'[b].at = batch[b].at \/ (batch'[b].at = "done" /\ sent' = sent)
<1>1. IInv /\ [Next]_vars => [Silent]_vars
  <2> SUFFICES ASSUME IInv, Next, NEW b \in 1..arrived, batch[b].version # version
               PROVE  batch'[b].at = batch[b].at \/ (batch'[b].at = "done" /\ sent' = sent)
    OBVIOUS
  <2>1. b \in Batches /\ b # arrived + 1 /\ batch \in [Batches -> BatchType]
    BY VoiceToolsAssumption DEF IInv, TypeOK, Batches, VoiceToolsAssumption
  <2>2. CASE Session
    BY <2>2 DEF Session, Interrupt, Detach, Activate, Reattach, Connected, AbandonResume,
                StartSession, ShowError
  <2>3. CASE Delivery
    BY <2>1, <2>3 DEF Delivery, Enqueue
  <2>4. ASSUME NEW c \in Batches, Progress(c)
        PROVE  batch'[b].at = batch[b].at \/ (batch'[b].at = "done" /\ sent' = sent)
    <3>1. CASE Ignore(c) \/ Forget(c) \/ \E ok \in BOOLEAN : Settle(c, ok)
      <4>1. Finish(c) /\ sent' = sent
        BY <3>1 DEF Ignore, Forget, Settle
      <4>2. IF b = c THEN batch'[b].at = "done" ELSE batch'[b] = batch[b]
        BY <2>1, <4>1 DEF Finish, BatchType
      <4> QED BY <4>1, <4>2
    <3>2. CASE Start(c) \/ \E ok \in BOOLEAN : Answer(c, ok)
      <4>1. batch[c].version = version
        BY <3>2 DEF Start, Answer, Runs, StillActive
      <4>2. c # b
        BY <4>1
      <4> QED BY <2>1, <3>2, <4>2 DEF Start, Answer, Proceed
    <3> QED BY <2>4, <3>1, <3>2 DEF Progress
  <2> QED BY <2>2, <2>3, <2>4 DEF Next
<1> QED BY <1>1, Invariance, PTL DEF Spec, CancelledStaysSilent

---------------------------------------------------------------------------
(* The queue *)

LEMMA WantedIs ==
  \A w : w \in WantedAnswers <=>
    \E b \in Outstanding : w = [batch |-> b, to |-> batch[b].from]
  BY DEF WantedAnswers

\* What may be answered is of the present chain and the transport in use.
LEMMA OutstandingFacts ==
  ASSUME IInv, NEW b \in Outstanding
  PROVE  b \in Batches /\ Current(b) /\ Unfinished(b) /\ batch[b].from = transport
<1>1. b \in Batches /\ batch[b].at \in {"queued", "executing"} /\ batch[b].version = version
  BY DEF Outstanding
<1>2. Current(b)
  BY <1>1 DEF IInv, Arrivals, TypeOK, Current, Batches
<1> QED BY <1>1, <1>2 DEF IInv, Homes, Unfinished

\* A step that changes no batch's place in the queue.
LEMMA WantedSame ==
  ASSUME Outstanding' = Outstanding,
         \A b \in Outstanding : batch'[b].from = batch[b].from
  PROVE  WantedAnswers' = WantedAnswers
  BY DEF WantedAnswers

LEMMA CancelRefines ==
  ASSUME IInv, Cancel, UNCHANGED <<arrived, batch, sent>>
  PROVE  Queue!Cancel
<1>1. Outstanding' = {}
  <2> SUFFICES ASSUME NEW b \in Batches, batch[b].version = version + 1,
                      batch[b].at \in {"queued", "executing"}
               PROVE  FALSE
    BY DEF Cancel, Outstanding
  <2>1. b \in 1..arrived /\ version \in Nat /\ batch[b].version <= version
    BY DEF IInv, Arrivals, TypeOK, Batches
  <2> QED BY <2>1
<1>2. WantedAnswers' = {}
  BY <1>1 DEF WantedAnswers
<1> QED BY <1>2 DEF Queue!Cancel

LEMMA SessionRefines ==
  ASSUME IInv, Session
  PROVE  Queue!Cancel \/ UNCHANGED <<arrived, WantedAnswers, sent>>
<1>1. CASE Interrupt
  BY <1>1, CancelRefines DEF Interrupt
<1>2. CASE Detach
  BY <1>2, CancelRefines DEF Detach
<1>3. ASSUME NEW x \in Transports, Activate(x) PROVE Queue!Cancel
  BY <1>3, CancelRefines DEF Activate
<1>4. CASE Connected \/ AbandonResume \/ StartSession \/ ShowError \/ \E x \in Transports : Reattach(x)
  <2>1. UNCHANGED <<arrived, version, batch, sent>>
    BY <1>4 DEF Connected, AbandonResume, StartSession, ShowError, Reattach, session
  <2>2. WantedAnswers' = WantedAnswers
    BY <2>1 DEF WantedAnswers, Outstanding
  <2> QED BY <2>1, <2>2
<1> QED BY <1>1, <1>2, <1>3, <1>4 DEF Session

LEMMA EnqueueRefines ==
  ASSUME VoiceToolsAssumption, IInv, NEW calls \in CallLists, Enqueue(calls)
  PROVE  Queue!Deliver(transport) /\ transport \in Transports
<1> DEFINE n == arrived + 1
<1>1. /\ n \in Batches /\ batch \in [Batches -> BatchType] /\ arrived \in Nat
      /\ transport \in Transports
  BY VoiceToolsAssumption DEF Enqueue, IInv, TypeOK, Homes, Batches, VoiceToolsAssumption
<1>2. /\ batch'[n].at = "queued" /\ batch'[n].version = version /\ batch'[n].from = transport
      /\ batch'[n].todo = calls
      /\ \A b \in Batches : b # n => batch'[b] = batch[b]
  BY <1>1 DEF Enqueue
<1>3. n \notin Outstanding
  BY <1>1 DEF IInv, Arrivals, Outstanding
<1>4. Outstanding' = IF calls = <<>> THEN Outstanding ELSE Outstanding \cup {n}
  BY <1>1, <1>2, <1>3 DEF Outstanding, Enqueue
<1>5. \A b \in Outstanding : batch'[b] = batch[b]
  BY <1>2, <1>3 DEF Outstanding
<1>6. WantedAnswers' \in {WantedAnswers, WantedAnswers \cup {[batch |-> n, to |-> transport]}}
  <2>1. CASE calls = <<>>
    BY <2>1, <1>4, <1>5, WantedSame
  <2>2. CASE calls # <<>>
    <3>1. \A w : w \in WantedAnswers' <=>
            w \in WantedAnswers \/ w = [batch |-> n, to |-> transport]
      BY <2>2, <1>2, <1>4, <1>5 DEF WantedAnswers
    <3> QED BY <3>1
  <2> QED BY <2>1, <2>2
<1> QED BY <1>1, <1>6 DEF Queue!Deliver, Enqueue

\* A batch that goes on waits on, or is answered: it is the first that waits.
LEMMA ProceedRefines ==
  ASSUME IInv, NEW b \in Outstanding,
         \A d \in Batches : Current(d) /\ d < b => batch[d].at = "done",
         NEW todo, NEW failed, NEW done, Proceed(b, todo, failed, done)
  PROVE  \/ \E w \in WantedAnswers : Queue!Answer(w)
         \/ UNCHANGED <<arrived, WantedAnswers, sent>>
<1> DEFINE left == Unrefused(todo, done)
<1>1. b \in Batches /\ batch[b].from = transport /\ batch \in [Batches -> BatchType]
      /\ batch[b].version = version
  BY OutstandingFacts DEF IInv, TypeOK, Outstanding
<1>2. /\ batch'[b].at = (IF left = <<>> THEN "responding" ELSE "executing")
      /\ batch'[b].todo = left /\ batch'[b].from = transport /\ batch'[b].version = version
      /\ \A c \in Batches : c # b => batch'[c] = batch[c]
      /\ version' = version /\ arrived' = arrived
      /\ sent' = IF left = <<>> THEN Append(sent, [batch |-> b, to |-> transport]) ELSE sent
  BY <1>1 DEF Proceed, BatchType
<1> HIDE DEF left
<1>3. CASE left = <<>>
  <2> DEFINE w == [batch |-> b, to |-> transport]
  <2>1. Outstanding' = Outstanding \ {b}
    BY <1>1, <1>2, <1>3 DEF Outstanding
  <2>2. \A c \in Outstanding \ {b} : batch'[c] = batch[c]
    BY <1>2 DEF Outstanding
  <2>3. w \in WantedAnswers
    BY <1>1 DEF WantedAnswers
  <2>4. \A v : v \in WantedAnswers' <=> v \in WantedAnswers \ {w}
    <3>1. \A c \in Outstanding : [batch |-> c, to |-> batch[c].from] = w <=> c = b
      BY <1>1
    <3> QED BY <2>1, <2>2, <3>1 DEF WantedAnswers
  <2>5. \A v \in WantedAnswers : b <= v.batch
    <3> SUFFICES ASSUME NEW c \in Outstanding PROVE b <= c
      BY DEF WantedAnswers
    <3>1. c \in Batches /\ Current(c) /\ batch[c].at # "done"
      BY OutstandingFacts DEF Unfinished
    <3> QED BY <1>1, <3>1 DEF Batches
  <2>6. WantedAnswers' = WantedAnswers \ {w}
    BY <2>4
  <2> QED BY <1>2, <1>3, <2>3, <2>5, <2>6 DEF Queue!Answer
<1>4. CASE left # <<>>
  <2>1. Outstanding' = Outstanding
    BY <1>1, <1>2, <1>4 DEF Outstanding
  <2>2. \A c \in Outstanding : batch'[c].from = batch[c].from
    BY <1>1, <1>2 DEF Outstanding
  <2> QED BY <1>2, <1>4, <2>1, <2>2, WantedSame
<1> QED BY <1>3, <1>4

\* A batch that is over was not waiting for its answer.
LEMMA FinishRefines ==
  ASSUME IInv, NEW b \in Batches, b \notin Outstanding, Finish(b),
         UNCHANGED <<version, arrived, sent>>
  PROVE  UNCHANGED <<arrived, WantedAnswers, sent>>
<1>1. \A c \in Batches : batch'[c] = IF c = b THEN [batch[c] EXCEPT !.at = "done"] ELSE batch[c]
  BY DEF Finish, IInv, TypeOK
<1>2. batch[b] \in BatchType
  BY DEF IInv, TypeOK
<1>3. batch'[b].at = "done"
  BY <1>1, <1>2 DEF BatchType
<1>4. Outstanding' = Outstanding
  BY <1>1, <1>3 DEF Outstanding
<1>5. \A c \in Outstanding : batch'[c].from = batch[c].from
  BY <1>1 DEF Outstanding
<1> QED BY <1>4, <1>5, WantedSame

LEMMA ProgressRefines ==
  ASSUME IInv, NEW b \in Batches, Progress(b)
  PROVE  \/ \E w \in WantedAnswers : Queue!Answer(w)
         \/ UNCHANGED <<arrived, WantedAnswers, sent>>
<1>1. CASE Start(b)
  <2>1. b \in Outstanding /\ Reached(b)
    BY <1>1 DEF Start, Reached, Runs, Outstanding
  <2>2. Current(b)
    BY <2>1, OutstandingFacts
  <2> QED BY <1>1, <2>1, <2>2, ProceedRefines, FrontIsDone DEF Start
<1>2. ASSUME NEW ok \in BOOLEAN, Answer(b, ok)
      PROVE  \/ \E w \in WantedAnswers : Queue!Answer(w)
             \/ UNCHANGED <<arrived, WantedAnswers, sent>>
  <2>1. Live(b) /\ batch[b].at = "executing"
    BY <1>2 DEF Answer, StillActive, Live
  <2>2. b \in Outstanding
    BY <2>1 DEF IInv, Counting, Live, Outstanding
  <2>3. Current(b)
    BY <2>2, OutstandingFacts
  <2> QED BY <1>2, <2>1, <2>2, <2>3, ProceedRefines, FrontIsDone DEF Answer
<1>3. CASE Ignore(b)
  <2>1. b \notin Outstanding
    <3> SUFFICES ASSUME b \in Outstanding PROVE FALSE
      OBVIOUS
    <3>1. Unfinished(b) /\ batch[b].version = version /\ batch[b].todo # <<>>
      BY OutstandingFacts DEF Outstanding
    <3>2. transport # None
      BY <3>1 DEF IInv, Homes
    <3> QED BY <1>3, <3>1, <3>2 DEF Ignore, Runs
  <2> QED BY <1>3, <2>1, FinishRefines DEF Ignore
<1>4. CASE Forget(b)
  <2>1. b \notin Outstanding
    BY <1>4 DEF Forget, StillActive, IInv, Homes, Live, Outstanding
  <2> QED BY <1>4, <2>1, FinishRefines DEF Forget
<1>5. ASSUME NEW ok \in BOOLEAN, Settle(b, ok)
      PROVE  UNCHANGED <<arrived, WantedAnswers, sent>>
  <2>1. b \notin Outstanding
    BY <1>5 DEF Settle, Outstanding
  <2> QED BY <1>5, <2>1, FinishRefines DEF Settle
<1> QED BY <1>1, <1>2, <1>3, <1>4, <1>5 DEF Progress

\* Chains and versions amount to one queue, whatever is cancelled: no calls are
\* dropped but by a cancellation, none that are left are answered twice, late, out
\* of turn or elsewhere.
THEOREM QueueRefinement == Spec => ImplementsQueue
<1>1. Init => Queue!Init
  BY DEF Init, Queue!Init, WantedAnswers, Outstanding, NoBatch
<1>2. VoiceToolsAssumption /\ IInv /\ [Next]_vars => [Queue!Next]_Queue!vars
  <2> SUFFICES ASSUME VoiceToolsAssumption, IInv, [Next]_vars
               PROVE  Queue!Next \/ UNCHANGED Queue!vars
    OBVIOUS
  <2>1. ASSUME NEW calls \in CallLists, Enqueue(calls) PROVE Queue!Next
    BY <2>1, EnqueueRefines DEF Queue!Next
  <2>2. ASSUME NEW b \in Batches, Progress(b) PROVE Queue!Next \/ UNCHANGED Queue!vars
    BY <2>2, ProgressRefines DEF Queue!Next, Queue!vars
  <2>3. CASE Session
    BY <2>3, SessionRefines DEF Queue!Next, Queue!vars
  <2>4. CASE UNCHANGED vars
    BY <2>4 DEF vars, Queue!vars, WantedAnswers, Outstanding
  <2> QED BY <2>1, <2>2, <2>3, <2>4 DEF Next, Delivery
<1> QED BY <1>1, <1>2, Invariance, VoiceToolsAssumption, PTL DEF Spec, ImplementsQueue, Queue!Spec
===========================================================================
