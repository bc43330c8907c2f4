---------------------------------- MODULE ApiProofs --------------------------
(***************************************************************************)
(* Proofs about the API: the rate-limit guards, for every number of        *)
(* clients, every window, limit and Map size; the messages of a chat and   *)
(* its summary, for every number of concurrent requests; and the project   *)
(* knowledge, for every number of callers, documents, texts and faults.    *)
(***************************************************************************)
EXTENDS RateLimitGuard, ChatHistory, KnowledgeSync,
        FiniteSetTheorems, WellFoundedInduction, TLAPS
-----------------------------------------------------------------------------
(* The rate-limit guards *)

\* The strengthening: what is stored was opened in the past, and was alive
\* when the Map was last swept.
NotFromFuture ==
    /\ lastSweepAt <= now
    /\ \A c \in Clients : buckets[c].windowStartedAt <= now

IInv == TypeOK /\ NotFromFuture /\ SweptWereAlive

\* The sweep leaves every bucket alone or deletes it, deletes only buckets
\* that are over, and when it is due leaves none that is over.
LEMMA SweepFacts ==
    ASSUME TypeOK
    PROVE  /\ SweptBuckets \in [Clients -> Bucket \cup {NoBucket}]
           /\ \A c \in Clients :
                 /\ SweptBuckets[c] \in {buckets[c], NoBucket}
                 /\ SweptBuckets[c] # buckets[c] => Over(buckets[c])
                 /\ SweepDue /\ SweptBuckets[c] # NoBucket
                       => SweptBuckets[c] = buckets[c] /\ ~Over(buckets[c])
  BY DEF TypeOK, SweptBuckets

LEMMA InitEstablishes == LimiterInit => IInv
  BY LimiterAssumption
     DEF LimiterInit, IInv, TypeOK, NotFromFuture, SweptWereAlive, Bucket, NoBucket

\* A request keeps the types.
LEMMA RequestTypes ==
    ASSUME IInv, NEW c \in Clients, Request(c)
    PROVE  TypeOK'
<1> USE LimiterAssumption
<1>0. TypeOK /\ now \in 0..Horizon
  BY DEF IInv, TypeOK
<1>1. lastSweepAt' \in {-WindowMs} \cup 0..Horizon
  BY <1>0 DEF Request, OpenWindow, CountRequest, RejectRequest, Sweep, TypeOK
<1>2. now' \in 0..Horizon
  BY <1>0 DEF Request, OpenWindow, CountRequest, RejectRequest
<1>3. verdict' \in [Clients -> {"none", "allowed", "limited"}]
  BY <1>0 DEF Request, OpenWindow, CountRequest, RejectRequest, Grant, TypeOK
<1>4. buckets' \in [Clients -> Bucket \cup {NoBucket}]
  <2>0. SweptBuckets \in [Clients -> Bucket \cup {NoBucket}]
    BY <1>0, SweepFacts
  <2>1. CASE OpenWindow(c)
    BY <1>0, <2>0, <2>1 DEF OpenWindow, Bucket
  <2>2. CASE CountRequest(c)
    <3>1. SweptBuckets[c] \in Bucket
      BY <2>0, <2>2 DEF CountRequest
    <3>2. [SweptBuckets[c] EXCEPT !.count = @ + 1] \in Bucket
      BY <2>2, <3>1 DEF CountRequest, Bucket
    <3> QED BY <2>0, <2>2, <3>2 DEF CountRequest
  <2>3. CASE RejectRequest(c)
    BY <2>0, <2>3 DEF RejectRequest
  <2> QED BY <2>1, <2>2, <2>3 DEF Request
<1> QED BY <1>1, <1>2, <1>3, <1>4 DEF TypeOK

\* What a request leaves in the Map: the swept entry of every client, the
\* requesting client's count apart.
LEMMA RequestBuckets ==
    ASSUME IInv, NEW c \in Clients, Request(c), NEW d \in Clients
    PROVE  /\ buckets'[d].windowStartedAt
                 \in {now, SweptBuckets[d].windowStartedAt}
           /\ SweptBuckets[d] = NoBucket
                 => \/ buckets'[d] = NoBucket
                    \/ buckets'[d].windowStartedAt = now
  <1>1. SweptBuckets \in [Clients -> Bucket \cup {NoBucket}]
    BY SweepFacts DEF IInv
  <1>2. CASE OpenWindow(c)
    BY <1>1, <1>2 DEF OpenWindow
  <1>3. CASE CountRequest(c)
    <2>1. SweptBuckets[c] \in Bucket
      BY <1>1, <1>3 DEF CountRequest
    <2> QED BY <1>1, <1>3, <2>1 DEF CountRequest, Bucket, NoBucket
  <1>4. CASE RejectRequest(c)
    BY <1>1, <1>4 DEF RejectRequest
  <1> QED BY <1>2, <1>3, <1>4 DEF Request

LEMMA RequestPreserves ==
    ASSUME IInv, NEW c \in Clients, Request(c)
    PROVE  IInv'
<1> USE LimiterAssumption
<1>1. TypeOK'
  BY RequestTypes
<1>2. now' = now /\ Sweep /\ now \in Nat /\ lastSweepAt \in Int
  BY DEF Request, OpenWindow, CountRequest, RejectRequest, IInv, TypeOK
<1>3. \A d \in Clients : buckets[d].windowStartedAt \in Int
  BY DEF IInv, TypeOK, Bucket, NoBucket
<1>4. NotFromFuture'
  <2>1. lastSweepAt' <= now'
    BY <1>2 DEF Sweep, IInv, NotFromFuture
  <2>2. ASSUME NEW d \in Clients PROVE buckets'[d].windowStartedAt <= now'
    <3>1. SweptBuckets[d].windowStartedAt <= now
      BY <1>2, <1>3, SweepFacts DEF IInv, NotFromFuture, NoBucket
    <3> QED BY <1>2, <3>1, RequestBuckets
  <2> QED BY <2>1, <2>2 DEF NotFromFuture
<1>5. SweptWereAlive'
  <2> SUFFICES ASSUME NEW d \in Clients, buckets'[d] # NoBucket
               PROVE  lastSweepAt' < buckets'[d].windowStartedAt + WindowMs
    BY DEF SweptWereAlive
  <2>1. CASE buckets'[d].windowStartedAt = now
    BY <1>2, <2>1 DEF Sweep, IInv, NotFromFuture
  <2>2. CASE buckets'[d].windowStartedAt # now
    <3>1. /\ SweptBuckets[d] # NoBucket
          /\ buckets'[d].windowStartedAt = SweptBuckets[d].windowStartedAt
      BY <2>2, RequestBuckets
    <3>2. SweptBuckets[d] = buckets[d]
      BY <3>1, SweepFacts DEF IInv
    <3>3. CASE SweepDue
      BY <1>2, <1>3, <3>1, <3>2, <3>3, SweepFacts DEF IInv, Sweep, Over
    <3>4. CASE ~SweepDue
      BY <1>2, <3>1, <3>2, <3>4 DEF IInv, Sweep, SweptWereAlive
    <3> QED BY <3>3, <3>4
  <2> QED BY <2>1, <2>2
<1> QED BY <1>1, <1>4, <1>5 DEF IInv

LEMMA StepPreserves == IInv /\ [LimiterNext]_limiterVars => IInv'
<1> SUFFICES ASSUME IInv, [LimiterNext]_limiterVars PROVE IInv'
  OBVIOUS
<1> USE LimiterAssumption
<1>1. CASE Tick
  <2>1. TypeOK'
    BY <1>1 DEF IInv, TypeOK, Tick
  <2>2. NotFromFuture'
    <3>1. now \in Nat /\ lastSweepAt \in Int /\ now' = now + 1
      BY <1>1 DEF IInv, TypeOK, Tick
    <3>2. \A c \in Clients : buckets[c].windowStartedAt \in Int
      BY DEF IInv, TypeOK, Bucket, NoBucket
    <3> QED BY <1>1, <3>1, <3>2 DEF IInv, NotFromFuture, Tick
  <2>3. SweptWereAlive'
    BY <1>1 DEF IInv, SweptWereAlive, Tick
  <2> QED BY <2>1, <2>2, <2>3 DEF IInv
<1>2. ASSUME NEW c \in Clients, Request(c) PROVE IInv'
  BY <1>2, RequestPreserves
<1>3. CASE UNCHANGED limiterVars
  BY <1>3 DEF limiterVars, IInv, TypeOK, NotFromFuture, SweptWereAlive
<1> QED BY <1>1, <1>2, <1>3 DEF LimiterNext

THEOREM Invariance == LimiterSpec => []IInv
  BY InitEstablishes, StepPreserves, PTL DEF LimiterSpec

\* The guard's variables keep their types: a count never leaves
\* 1..MaxRequests, whatever the order of requests and sweeps.
THEOREM TypeCorrect == LimiterSpec => []TypeOK
  BY Invariance, PTL DEF IInv

\* Every bucket the Map holds was alive when it was last swept.
THEOREM LastSweepWasThorough == LimiterSpec => []SweptWereAlive
  BY Invariance, PTL DEF IInv

\* A request never leaves behind a bucket opened two windows ago.
LEMMA RequestLeavesFresh ==
    ASSUME IInv, NEW c \in Clients, Request(c), NEW d \in Clients,
           buckets'[d] # NoBucket
    PROVE  now < buckets'[d].windowStartedAt + 2 * WindowMs
<1> USE LimiterAssumption
<1>1. now \in Nat /\ lastSweepAt \in Int /\ buckets[d].windowStartedAt \in Int
  BY DEF IInv, TypeOK, Bucket, NoBucket
<1>2. CASE buckets'[d].windowStartedAt = now
  BY <1>1, <1>2
<1>3. CASE buckets'[d].windowStartedAt # now
  <2>1. SweptBuckets[d] # NoBucket
        /\ buckets'[d].windowStartedAt = SweptBuckets[d].windowStartedAt
    BY <1>3, RequestBuckets
  <2>2. SweptBuckets[d] = buckets[d]
    BY <2>1, SweepFacts DEF IInv
  <2>3. CASE SweepDue
    BY <1>1, <2>1, <2>2, <2>3, SweepFacts DEF IInv, Over
  <2>4. CASE ~SweepDue
    BY <1>1, <2>1, <2>2, <2>4 DEF IInv, SweptWereAlive, SweepDue
  <2> QED BY <2>3, <2>4
<1> QED BY <1>2, <1>3

\* However the sweeps fall, a request leaves no bucket in the Map that was
\* opened 2 * WindowMs ago: the Map holds recent clients only.
THEOREM MapBounded == LimiterSpec => MapStaysFresh
<1>1. IInv /\ [LimiterNext]_limiterVars
        => [now' = now => \A c \in Clients :
              buckets'[c] # NoBucket
                => now < buckets'[c].windowStartedAt + 2 * WindowMs]_limiterVars
  <2> SUFFICES ASSUME IInv, LimiterNext, now' = now,
                      NEW d \in Clients, buckets'[d] # NoBucket
               PROVE  now < buckets'[d].windowStartedAt + 2 * WindowMs
    OBVIOUS
  <2>1. ~Tick
    BY DEF Tick, IInv, TypeOK
  <2>2. PICK c \in Clients : Request(c)
    BY <2>1 DEF LimiterNext
  <2> QED BY <2>2, RequestLeavesFresh
<1> QED BY <1>1, Invariance, PTL DEF LimiterSpec, MapStaysFresh

\* Entry of a client in the abstract window, before and after a sweep.
LEMMA SweepKeepsWindow ==
    ASSUME IInv, NEW c \in Clients
    PROVE  /\ Window[c] = IF SweptBuckets[c] # NoBucket /\ Over(SweptBuckets[c])
                          THEN NoBucket ELSE SweptBuckets[c]
  BY SweepFacts DEF IInv, Window

\* A request is the abstract Open, Use or Refuse of the same client.
LEMMA RequestRefines ==
    ASSUME IInv, NEW c \in Clients, Request(c)
    PROVE  Promise!Open(c) \/ Promise!Use(c) \/ Promise!Refuse(c)
<1> USE LimiterAssumption
<1>0. /\ SweptBuckets \in [Clients -> Bucket \cup {NoBucket}]
      /\ now \in Nat /\ now' = now
      /\ Window \in [Clients -> Bucket \cup {NoBucket}]
      /\ verdict \in [Clients -> {"none", "allowed", "limited"}]
  BY SweepFacts DEF IInv, TypeOK, Window, Request, OpenWindow, CountRequest, RejectRequest
<1>1. ASSUME NEW d \in Clients, d # c PROVE Window'[d] = Window[d]
  <2>1. buckets'[d] = SweptBuckets[d]
    BY <1>0, <1>1 DEF Request, OpenWindow, CountRequest, RejectRequest
  <2> QED BY <1>0, <2>1, SweepKeepsWindow DEF Window, Over
<1>2. CASE OpenWindow(c)
  <2>1. Window[c] = NoBucket
    BY <1>2, SweepKeepsWindow DEF OpenWindow
  <2>2. Window'[c] = [count |-> 1, windowStartedAt |-> now]
    BY <1>0, <1>2 DEF OpenWindow, Window, Over, NoBucket
  <2>3. Window' = [Window EXCEPT ![c] = [count |-> 1, windowStartedAt |-> now]]
    BY <1>0, <1>1, <2>2 DEF Window
  <2> QED BY <1>2, <2>1, <2>3
          DEF OpenWindow, Grant, Promise!Open, Promise!Closed, NoBucket
<1>3. CASE CountRequest(c)
  <2>1. SweptBuckets[c] \in Bucket
    BY <1>0, <1>3 DEF CountRequest
  <2>2. Window[c] = SweptBuckets[c] /\ Window[c] # NoBucket
    BY <1>3, SweepKeepsWindow DEF CountRequest
  <2>3. buckets'[c] = [SweptBuckets[c] EXCEPT !.count = @ + 1]
    BY <1>0, <1>3 DEF CountRequest
  <2>4. Window'[c] = [Window[c] EXCEPT !.count = @ + 1]
    BY <1>0, <1>3, <2>1, <2>2, <2>3 DEF CountRequest, Window, Over, Bucket
  <2>5. Window' = [Window EXCEPT ![c].count = @ + 1]
    BY <1>0, <1>1, <2>4 DEF Window
  <2> QED BY <1>3, <2>2, <2>5
          DEF CountRequest, Grant, Promise!Use, Promise!Closed, NoBucket
<1>4. CASE RejectRequest(c)
  <2>1. SweptBuckets[c] \in Bucket
    BY <1>0, <1>4 DEF RejectRequest
  <2>2. Window[c] = SweptBuckets[c] /\ Window[c] # NoBucket
    BY <1>4, SweepKeepsWindow DEF RejectRequest
  <2>3. Window[c].count = MaxRequests
    BY <1>4, <2>1, <2>2 DEF RejectRequest, Bucket
  <2>4. Window'[c] = Window[c]
    BY <1>0, <1>4, <2>2 DEF RejectRequest, Window, Over
  <2>5. Window' = Window
    BY <1>0, <1>1, <2>4 DEF Window
  <2> QED BY <1>0, <1>4, <2>2, <2>3, <2>5
          DEF RejectRequest, Promise!Refuse, Promise!Closed, NoBucket
<1> QED BY <1>2, <1>3, <1>4 DEF Request

\* The clock closes the same windows in both specifications.
LEMMA TickRefines == IInv /\ Tick => Promise!Tick
<1> SUFFICES ASSUME IInv, Tick PROVE Promise!Tick
  OBVIOUS
<1>1. now \in Nat /\ \A c \in Clients : buckets[c].windowStartedAt \in Int
  BY DEF IInv, TypeOK, Bucket, NoBucket
<1>2. Window' = Promise!At(now + 1)
  BY <1>1, LimiterAssumption DEF Tick, Window, Over, Promise!At, Promise!Closed, NoBucket
<1> QED BY <1>2 DEF Tick, Promise!Tick

\* Both guards implement the fixed window for every instance: the answers
\* are those of a limiter that forgets a window the instant it is over.
THEOREM Refinement == LimiterSpec => ImplementsFixedWindow
<1>1. LimiterInit => Promise!Init
  BY DEF LimiterInit, Promise!Init, Window, Promise!Closed, NoBucket
<1>2. IInv /\ [LimiterNext]_limiterVars => [Promise!Next]_Promise!vars
  <2> SUFFICES ASSUME IInv, [LimiterNext]_limiterVars
               PROVE  Promise!Next \/ UNCHANGED Promise!vars
    OBVIOUS
  <2>1. CASE Tick
    BY <2>1, TickRefines DEF Promise!Next
  <2>2. ASSUME NEW c \in Clients, Request(c) PROVE Promise!Next
    BY <2>2, RequestRefines DEF Promise!Next
  <2>3. CASE UNCHANGED limiterVars
    BY <2>3 DEF limiterVars, Promise!vars, Window, Over
  <2> QED BY <2>1, <2>2, <2>3 DEF LimiterNext
<1> QED BY <1>1, <1>2, Invariance, PTL DEF LimiterSpec, ImplementsFixedWindow, Promise!Spec
---------------------------------------------------------------------------
(* Messages *)

\* The row lock on the chats row: one transaction at a time is past it.
ChatRowHeldOnce ==
  \A r, q \in Requests : pc[r] \in HoldingChat /\ pc[q] \in HoldingChat => r = q

\* Whoever allocated a sequence still finds it the next one.
AllocationCurrent ==
  \A r \in Requests : pc[r] = "insert" => r \in Appends /\ target[r] = allocator

\* An edit has locked a message that exists.
EditedExists ==
  \A r \in Requests : pc[r] \in HoldingMessage => r \in Edits /\ target[r] \in DOMAIN messages

MInv ==
  /\ pc \in [Requests -> Steps]
  /\ allocator \in Nat \ {0}
  /\ target \in [Requests -> Nat \cup Sessions \cup {Nobody}]
  /\ messages = [i \in DOMAIN messages |-> messages[i]]
  /\ SequencesDense
  /\ ChatRowHeldOnce
  /\ AllocationCurrent
  /\ EditedExists

LEMMA InitMessages == HistoryInit => MInv
  BY ChatHistoryAssumption
     DEF ChatHistoryAssumption, HistoryInit, MInv, SequencesDense, ChatRowHeldOnce, AllocationCurrent,
         EditedExists, HoldingChat, HoldingMessage, Refreshing, Steps

LEMMA StepMessages ==
  ASSUME MInv, NEW r \in Requests, Step(r) \/ Rollback(r)
  PROVE  MInv'
<1> USE ChatHistoryAssumption
    DEF ChatHistoryAssumption, MInv, Requests, Goto, HoldingChat, HoldingMessage, Refreshing,
        Steps, SequencesDense
<1>1. CASE AllocateSequence(r)
  BY <1>1 DEF AllocateSequence, ChatRowFree, ChatRowHeldOnce, AllocationCurrent, EditedExists
<1>2. CASE CommitAppend(r)
  <2>1. target[r] = allocator /\ DOMAIN messages' = DOMAIN messages \cup {allocator}
    BY <1>2 DEF CommitAppend, AllocationCurrent
  <2>2. allocator' = allocator + 1 /\ DOMAIN messages' = 1..allocator
    BY <1>2, <2>1 DEF CommitAppend
  <2> QED BY <1>2, <2>1, <2>2 DEF CommitAppend, ChatRowHeldOnce, AllocationCurrent, EditedExists
<1>3. CASE CommitEdit(r)
  <2>1. DOMAIN messages' = DOMAIN messages
    BY <1>3 DEF CommitEdit, EditedBy
  <2> QED BY <1>3, <2>1 DEF CommitEdit, EditedBy, ChatRowHeldOnce, AllocationCurrent, EditedExists
<1>4. CASE EditMessage(r)
  BY <1>4 DEF EditMessage, ChatRowHeldOnce, AllocationCurrent, EditedExists
<1>5. CASE TouchChat(r)
  BY <1>5 DEF TouchChat, ChatRowFree, ChatRowHeldOnce, AllocationCurrent, EditedExists
<1>6. CASE ReadSummary(r) \/ ListMessages(r) \/ UpsertSummary(r)
  BY <1>6 DEF ReadSummary, ListMessages, UpsertSummary, ChatRowHeldOnce, AllocationCurrent,
       EditedExists
<1>7. CASE EndSession(r)
  BY <1>7 DEF EndSession, ChatRowHeldOnce, AllocationCurrent, EditedExists
<1>8. CASE ListAtEnd(r) \/ ReadAtEnd(r) \/ UpsertAtEnd(r) \/ CommitEnd(r) \/ Rollback(r)
  BY <1>8 DEF ListAtEnd, ReadAtEnd, UpsertAtEnd, CommitEnd, Rollback, ChatRowHeldOnce,
       AllocationCurrent, EditedExists
<1> QED BY <1>1, <1>2, <1>3, <1>4, <1>5, <1>6, <1>7, <1>8 DEF Step

LEMMA StutterMessages == MInv /\ UNCHANGED historyVars => MInv'
  BY DEF historyVars, MInv, SequencesDense, ChatRowHeldOnce, AllocationCurrent, EditedExists

LEMMA MessagesPreserved == MInv /\ [HistoryNext]_historyVars => MInv'
  BY StepMessages, StutterMessages DEF HistoryNext, Quiet

\* The messages of a chat are well formed and its locks exclude each other.
THEOREM MessagesInvariance == HistorySpec => []MInv
  BY InitMessages, MessagesPreserved, PTL DEF HistorySpec

\* appendMessage() numbers the messages of a chat 1, 2, 3 ... without a gap,
\* for any number of concurrent appends, edits, ends and rollbacks.
THEOREM SequencesDenseAlways == HistorySpec => []SequencesDense
<1>1. MInv => SequencesDense
  BY DEF MInv
<1> QED BY <1>1, MessagesInvariance, PTL

\* No append overwrites a message, and none is lost.
THEOREM HistoryKept == HistorySpec => AppendsKeepHistory
<1> DEFINE Kept == \A i \in DOMAIN messages :
                      /\ i \in DOMAIN messages'
                      /\ messages'[i] # messages[i] => messages'[i] \in Edits
<1>1. MInv /\ [HistoryNext]_historyVars => Kept
  <2> SUFFICES ASSUME MInv, [HistoryNext]_historyVars PROVE Kept
    OBVIOUS
  <2>1. CASE messages' = messages
    BY <2>1
  <2>2. ASSUME NEW r \in Requests, CommitAppend(r) PROVE Kept
    <3>1. target[r] \notin DOMAIN messages
      BY <2>2 DEF CommitAppend, MInv, AllocationCurrent, SequencesDense
    <3> QED BY <2>2, <3>1 DEF CommitAppend
  <2>3. ASSUME NEW r \in Requests, CommitEdit(r) PROVE Kept
    BY <2>3 DEF CommitEdit, EditedBy, MInv, EditedExists, HoldingMessage, Refreshing
  <2> QED BY <2>1, <2>2, <2>3
       DEF HistoryNext, Quiet, historyVars, Step, Rollback, AllocateSequence, EditMessage, TouchChat, ReadSummary,
           ListMessages, UpsertSummary, EndSession, ListAtEnd, ReadAtEnd, UpsertAtEnd, CommitEnd
<1> QED BY <1>1, MessagesInvariance, PTL DEF HistorySpec, AppendsKeepHistory

---------------------------------------------------------------------------
(* The summary, until a session has ended *)

\* A summary of the newest messages covers all of them and says what they say.
LEMMA SummaryCovers ==
  ASSUME NEW rows, NEW n \in Nat, DOMAIN rows = 1..n
  PROVE  /\ SummaryOf(rows).covered = n
         /\ DOMAIN SummaryOf(rows).texts \subseteq 1..n
         /\ \A i \in DOMAIN SummaryOf(rows).texts : SummaryOf(rows).texts[i] = rows[i]
<1>1. CASE n = 0
  BY <1>1 DEF SummaryOf, NoSummary
<1>2. CASE n # 0
  <2> DEFINE newest == {i \in DOMAIN rows :
                          Cardinality({j \in DOMAIN rows : j > i}) < SummaryTurns}
             covered == CHOOSE i \in newest : \A j \in newest : j <= i
  <2>1. SummaryOf(rows) = [covered |-> covered, texts |-> [i \in newest |-> rows[i]]]
    BY <1>2 DEF SummaryOf
  <2>2. n \in newest
    <3>1. {j \in DOMAIN rows : j > n} = {}
      OBVIOUS
    <3>2. Cardinality({j \in DOMAIN rows : j > n}) = 0
      BY <3>1, FS_EmptySet
    <3> QED BY <1>2, <3>2, ChatHistoryAssumption DEF ChatHistoryAssumption
  <2>3. newest \subseteq 1..n
    OBVIOUS
  <2>4. covered = n
    <3> HIDE DEF newest
    <3>1. \A j \in newest : j <= n
      BY <2>3
    <3>2. covered \in newest /\ \A j \in newest : j <= covered
      BY <2>2, <3>1
    <3> HIDE DEF covered
    <3> QED BY <2>2, <2>3, <3>2
  <2> HIDE DEF newest, covered
  <2> QED BY <2>1, <2>3, <2>4
<1> QED BY <1>1, <1>2

SummaryWithin ==
  /\ summary.covered \in Nat /\ summary.covered < allocator
  /\ DOMAIN summary.texts \subseteq 1..summary.covered

\* A summary an edit has built and not yet committed.
Built(r) ==
  /\ draft[r] # NoSummary
  /\ draft[r].covered = allocator - 1
  /\ DOMAIN draft[r].texts \subseteq 1..(allocator - 1)
  /\ \A i \in DOMAIN draft[r].texts : draft[r].texts[i] = EditedBy(r)[i]

\* An edit commits a summary of what it sees, or one that covers its message
\* is not there.
DraftsCurrent ==
  \A r \in Requests :
    /\ pc[r] \in {"begin", "touch", "readSummary", "list"} => draft[r] = NoSummary
    /\ pc[r] = "upsert" => Built(r)
    /\ pc[r] = "commitEdit" =>
         Built(r) \/ (draft[r] = NoSummary /\ target[r] > summary.covered)

SInv ==
  /\ MInv
  /\ DOMAIN draft = Requests
  /\ ended = {} => SummaryIsFresh /\ SummaryWithin /\ DraftsCurrent

LEMMA InitSummary == HistoryInit => SInv
<1> SUFFICES ASSUME HistoryInit PROVE SInv
  OBVIOUS
<1>1. SummaryIsFresh /\ SummaryWithin
  <2>1. PICK n \in Nat : DOMAIN messages = 1..n /\ allocator = n + 1
    BY ChatHistoryAssumption DEF ChatHistoryAssumption, HistoryInit
  <2>2. CASE summary = NoSummary
    BY <2>1, <2>2 DEF HistoryInit, SummaryIsFresh, SummaryWithin, NoSummary
  <2>3. CASE summary = SummaryOf(messages)
    BY <2>1, <2>3, SummaryCovers DEF HistoryInit, SummaryIsFresh, SummaryWithin
  <2> QED BY <2>2, <2>3 DEF HistoryInit
<1>2. DraftsCurrent /\ DOMAIN draft = Requests
  BY DEF HistoryInit, DraftsCurrent
<1> QED BY <1>1, <1>2, InitMessages DEF SInv

\* While an edit holds the chats row nobody else commits a message or a
\* summary, and what it has built stays what it sees.
LEMMA OthersKeepDrafts ==
  ASSUME DraftsCurrent, NEW r \in Requests, NEW q \in Requests, q # r,
         pc'[q] = pc[q], draft'[q] = draft[q], target'[q] = target[q],
         pc[q] \in HoldingChat => UNCHANGED <<messages, allocator, summary>>
  PROVE  /\ pc'[q] \in {"begin", "touch", "readSummary", "list"} => draft'[q] = NoSummary
         /\ pc'[q] = "upsert" => Built(q)'
         /\ pc'[q] = "commitEdit" =>
              Built(q)' \/ (draft'[q] = NoSummary /\ target'[q] > summary'.covered)
  BY DEF DraftsCurrent, Built, EditedBy, HoldingChat, Refreshing

LEMMA StepSummary ==
  ASSUME SInv, NEW r \in Requests, Step(r) \/ Rollback(r)
  PROVE  SInv'
<1> USE DEF SInv, MInv, Goto
<1>0. MInv'
  BY StepMessages
<1>1. \A q \in Requests \ {r} :
        pc'[q] = pc[q] /\ draft'[q] = draft[q] /\ target'[q] = target[q]
  BY DEF Step, Rollback, AllocateSequence, CommitAppend, EditMessage, TouchChat, ReadSummary,
         ListMessages, UpsertSummary, CommitEdit, EndSession, ListAtEnd, ReadAtEnd, UpsertAtEnd,
         CommitEnd
<1>2. DOMAIN draft' = Requests
  BY DEF Step, Rollback, AllocateSequence, CommitAppend, EditMessage, TouchChat, ReadSummary,
         ListMessages, UpsertSummary, CommitEdit, EndSession, ListAtEnd, ReadAtEnd, UpsertAtEnd,
         CommitEnd
<1> SUFFICES ASSUME ended' = {} PROVE SummaryIsFresh' /\ SummaryWithin' /\ DraftsCurrent'
  BY <1>0, <1>2
<1>3. ~CommitEnd(r) /\ ended = {} /\ SummaryIsFresh /\ SummaryWithin /\ DraftsCurrent
  <2>1. ~CommitEnd(r)
    BY DEF CommitEnd
  <2> QED BY <2>1 DEF Step, Rollback, AllocateSequence, CommitAppend, EditMessage, TouchChat,
         ReadSummary, ListMessages, UpsertSummary, CommitEdit, EndSession, ListAtEnd, ReadAtEnd,
         UpsertAtEnd
<1>4. SummaryIsFresh' /\ SummaryWithin'
  <2>1. CASE CommitAppend(r)
    <3>1. target[r] = allocator /\ allocator' = allocator + 1
      BY <1>3, <2>1 DEF CommitAppend, AllocationCurrent
    <3> QED BY <1>3, <2>1, <3>1 DEF CommitAppend, SummaryIsFresh, SummaryWithin, SequencesDense
  <2>2. CASE CommitEdit(r) /\ Upserted(r)
    <3>1. Built(r) /\ summary' = draft[r] /\ messages' = EditedBy(r) /\ allocator' = allocator
      BY <1>3, <2>2 DEF CommitEdit, Upserted, DraftsCurrent
    <3> QED BY <1>3, <3>1 DEF Built, SummaryIsFresh, SummaryWithin
  <2>3. CASE CommitEdit(r) /\ ~Upserted(r)
    <3>1. target[r] > summary.covered /\ UNCHANGED <<summary, allocator>>
      BY <1>3, <2>3 DEF CommitEdit, Upserted, DraftsCurrent, Built
    <3>2. \A i \in DOMAIN summary.texts : i \in DOMAIN messages /\ i # target[r]
      BY <1>3, <3>1 DEF SummaryWithin, SequencesDense
    <3> QED BY <1>3, <2>3, <3>1, <3>2 DEF CommitEdit, EditedBy, SummaryIsFresh, SummaryWithin
  <2>4. CASE ~CommitAppend(r) /\ ~CommitEdit(r)
    <3>1. UNCHANGED <<messages, allocator, summary>>
      BY <1>3, <2>4 DEF Step, Rollback, AllocateSequence, EditMessage, TouchChat, ReadSummary,
         ListMessages, UpsertSummary, EndSession, ListAtEnd, ReadAtEnd, UpsertAtEnd
    <3> QED BY <1>3, <3>1 DEF SummaryIsFresh, SummaryWithin
  <2> QED BY <2>1, <2>2, <2>3, <2>4
<1>5. DraftsCurrent'
  <2>1. \A q \in Requests \ {r} :
          pc[q] \in HoldingChat => UNCHANGED <<messages, allocator, summary>>
    <3>1. CASE CommitAppend(r) \/ CommitEdit(r)
      BY <1>3, <3>1 DEF CommitAppend, CommitEdit, ChatRowHeldOnce, HoldingChat, Refreshing
    <3>2. CASE ~CommitAppend(r) /\ ~CommitEdit(r)
      BY <1>3, <3>2 DEF Step, Rollback, AllocateSequence, EditMessage, TouchChat, ReadSummary,
         ListMessages, UpsertSummary, EndSession, ListAtEnd, ReadAtEnd, UpsertAtEnd
    <3> QED BY <3>1, <3>2
  <2>2. CASE ReadSummary(r)
    <3>1. /\ draft'[r] = NoSummary /\ UNCHANGED <<target, summary>>
          /\ pc'[r] = IF target[r] <= summary.covered THEN "list" ELSE "commitEdit"
      BY <1>3, <2>2 DEF ReadSummary, DraftsCurrent
    <3>2. target[r] \in Nat /\ summary.covered \in Nat
      BY <1>3, <2>2 DEF ReadSummary, EditedExists, HoldingMessage, Refreshing, SequencesDense,
           SummaryWithin
    <3> QED BY <1>3, <1>1, <1>2, <2>1, <3>1, <3>2, OthersKeepDrafts DEF DraftsCurrent
  <2>3. CASE ListMessages(r)
    <3>1. /\ target[r] \in 1..(allocator - 1) /\ DOMAIN EditedBy(r) = 1..(allocator - 1)
          /\ allocator - 1 \in Nat
      BY <1>3, <2>3 DEF ListMessages, EditedExists, HoldingMessage, Refreshing, SequencesDense, EditedBy
    <3>2. /\ SummaryOf(EditedBy(r)).covered = allocator - 1
          /\ DOMAIN SummaryOf(EditedBy(r)).texts \subseteq 1..(allocator - 1)
          /\ \A i \in DOMAIN SummaryOf(EditedBy(r)).texts :
                SummaryOf(EditedBy(r)).texts[i] = EditedBy(r)[i]
      BY <1>3, <3>1, SummaryCovers
    <3>3. SummaryOf(EditedBy(r)) # NoSummary
      BY <1>3, <3>1, <3>2 DEF NoSummary
    <3>4. /\ draft'[r] = SummaryOf(EditedBy(r)) /\ pc'[r] = "upsert"
          /\ EditedBy(r)' = EditedBy(r) /\ allocator' = allocator
      BY <1>3, <2>3 DEF ListMessages, DraftsCurrent, EditedBy
    <3>5. Built(r)'
      BY <1>3, <3>2, <3>3, <3>4 DEF Built
    <3> QED BY <1>3, <1>1, <1>2, <2>1, <3>4, <3>5, OthersKeepDrafts DEF DraftsCurrent
  <2>4. CASE UpsertSummary(r)
    <3>1. /\ pc'[r] = "commitEdit" /\ Built(r)'
      BY <1>3, <2>4 DEF UpsertSummary, DraftsCurrent, Built, EditedBy
    <3> QED BY <1>3, <1>1, <1>2, <2>1, <3>1, OthersKeepDrafts DEF DraftsCurrent
  <2>5. CASE EditMessage(r) \/ TouchChat(r)
    <3>1. draft'[r] = NoSummary /\ pc'[r] \in {"touch", "readSummary"}
      BY <1>3, <2>5 DEF EditMessage, TouchChat, DraftsCurrent
    <3> QED BY <1>3, <1>1, <1>2, <2>1, <3>1, OthersKeepDrafts DEF DraftsCurrent
  <2>6. CASE ~ReadSummary(r) /\ ~ListMessages(r) /\ ~UpsertSummary(r) /\ ~EditMessage(r) /\ ~TouchChat(r)
    <3>1. pc'[r] \in {"insert", "answered", "failed"} \cup HoldingSession
      BY <1>3, <2>6 DEF Step, Rollback, AllocateSequence, CommitAppend, CommitEdit,
         EndSession, ListAtEnd, ReadAtEnd, UpsertAtEnd, HoldingSession
    <3> QED BY <1>3, <1>1, <1>2, <2>1, <3>1, OthersKeepDrafts DEF DraftsCurrent, HoldingSession
  <2> QED BY <2>2, <2>3, <2>4, <2>5, <2>6
<1> QED BY <1>4, <1>5

LEMMA SummaryPreserved == SInv /\ [HistoryNext]_historyVars => SInv'
<1>1. SInv /\ UNCHANGED historyVars => SInv'
  BY StutterMessages DEF historyVars, SInv, SummaryIsFresh, SummaryWithin, DraftsCurrent, Built, EditedBy
<1> QED BY <1>1, StepSummary DEF HistoryNext, Quiet

\* Until a session has ended, every edit in progress holds a summary that is
\* fresh or the knowledge that none is needed.
THEOREM SummaryInvariance == HistorySpec => []SInv
  BY InitSummary, SummaryPreserved, PTL DEF HistorySpec

\* Until a live session ends, concurrent edits leave the summary saying what
\* the messages it covers say.
THEOREM FreshUntilEnd == HistorySpec => []SummaryIsFresh
<1>1. SInv => SummaryIsFresh
  BY DEF SInv, SummaryIsFresh
<1> QED BY <1>1, SummaryInvariance, PTL

\* And it does not come to cover less.
THEOREM CoverageUntilEnd == HistorySpec => EditsKeepCoverage
<1>1. SInv /\ [HistoryNext]_historyVars => (ended' = {} => summary'.covered >= summary.covered)
  <2> SUFFICES ASSUME SInv, [HistoryNext]_historyVars, ended' = {} PROVE summary'.covered >= summary.covered
    OBVIOUS
  <2>1. CASE UNCHANGED <<summary, ended>>
    BY <2>1 DEF SInv, SummaryWithin
  <2>2. ASSUME NEW r \in Requests, CommitEdit(r), Upserted(r)
        PROVE  summary'.covered >= summary.covered
    BY <2>2 DEF CommitEdit, Upserted, SInv, MInv, DraftsCurrent, Built, SummaryWithin
  <2> QED BY <2>1, <2>2
       DEF HistoryNext, Quiet, historyVars, Step, Rollback, AllocateSequence, CommitAppend, EditMessage,
           TouchChat, ReadSummary, ListMessages, UpsertSummary, CommitEdit, EndSession, ListAtEnd,
           ReadAtEnd, UpsertAtEnd, CommitEnd
<1> QED BY <1>1, SummaryInvariance, PTL DEF HistorySpec, EditsKeepCoverage
-----------------------------------------------------------------------------
(* Project knowledge: the invariant *)

Documents == store \cup hidden
IdsIn(D, p) == {d.id : d \in {x \in D : x.path = p}}
Ids(p) == IdsIn(Documents, p)
HiddenIds(p) == IdsIn(hidden, p)

\* What the synchronisation will delete, and the import it waits for.
Listed == sync.obsolete \cup sync.outdated
Doomed == {d.id : d \in Listed}
Awaited == IF sync.at = "poll" THEN {ids} ELSE {}
Own == IF sync.at \in {"poll", "discard"} THEN {ids} ELSE {}

IsDocument(d) ==
    /\ d = [id |-> d.id, path |-> d.path, hash |-> d.hash, text |-> d.text, state |-> d.state]
    /\ d.id \in 1..ids

\* Every document has an id of its own.
DocumentsOK ==
    /\ ids \in Nat
    /\ \A d \in Documents \cup Listed : IsDocument(d)
    /\ \A d, e \in Documents : d.id = e.id => d = e
    /\ \A d \in hidden : d \notin store
    /\ \A d \in Listed, e \in Documents : d.id = e.id => d.path = e.path /\ e \notin hidden

Importing == sync.at \in {"import", "poll", "discard"}
IsSync(s) ==
    /\ s = [at |-> s.at, corpus |-> s.corpus, obsolete |-> s.obsolete,
            outdated |-> s.outdated, todo |-> s.todo, failed |-> s.failed]
    /\ s.at \in {"none", "list", "work", "import", "poll", "discard"}
    /\ s.failed \in BOOLEAN
SyncOK ==
    /\ IsSync(sync)
    /\ sync.at = "none" => sync = NoSync
    /\ sync.at \in {"none", "list"} => Listed = {} /\ sync.todo = {}
    /\ sync.failed => sync.at = "discard"
    /\ DOMAIN sync.corpus \subseteq Paths /\ sync.todo \subseteq DOMAIN sync.corpus
    /\ \A d \in sync.outdated : d.path \in sync.todo
    /\ Importing => sync.todo # {} /\ sync.obsolete = {} /\ Outdated = {}
    /\ sync.at = "poll" \/ (sync.at = "discard" /\ ~sync.failed) =>
         \A d \in Documents : d.id = ids => d.path = Path /\ d.hash = sync.corpus[Path]
    /\ sync.at = "discard" /\ ~sync.failed => Imported

\* Only imports nobody waited for make a second document of a path.
StraysCounted ==
    \A p \in Paths : /\ Cardinality(Ids(p)) <= strays[p] + 1
                     /\ Cardinality(HiddenIds(p) \ Awaited) <= strays[p]

Holds(p, hash) == \E d \in store : d.path = p /\ d.hash = hash /\ d.state = "active" /\ d.id \notin Doomed

\* Of a path that is done the store holds the document, of another at most strays.
DoneSoFar ==
    sync.at \in {"work", "import", "poll", "discard"} /\ ~sync.failed =>
        \A p \in Paths : IF p \in DOMAIN sync.corpus \ sync.todo THEN Holds(p, sync.corpus[p])
                         ELSE Cardinality(Ids(p) \ (Doomed \cup Own)) <= strays[p]

CacheHolds ==
    cached # NoCorpus /\ sync = NoSync /\ ~torn =>
        \A p \in Paths : IF p \in DOMAIN cached THEN Holds(p, cached[p])
                         ELSE Cardinality(Ids(p)) <= strays[p]

CallersOK ==
    /\ manifest \in Manifests /\ DOMAIN search = Callers
    /\ \A c \in Callers : DOMAIN search[c].corpus \subseteq Paths

SyncInv == /\ strays \in [Paths -> Nat] /\ CallersOK /\ DocumentsOK /\ SyncOK /\ StraysCounted
           /\ DoneSoFar /\ CacheHolds

-----------------------------------------------------------------------------
(* Project knowledge: ids and their sets *)

\* Sets of ids.
LEMMA IdSet ==
    ASSUME NEW n \in Nat, NEW S \in SUBSET (1..n)
    PROVE  IsFiniteSet(S) /\ Cardinality(S) \in Nat
<1>1. IsFiniteSet(1..n) BY FS_Interval
<1> QED BY <1>1, FS_Subset, FS_CardinalityType

LEMMA Fewer ==
    ASSUME NEW n \in Nat, NEW T \in SUBSET (1..n), NEW S \in SUBSET T
    PROVE  Cardinality(S) <= Cardinality(T) /\ Cardinality(S) \in Nat /\ Cardinality(T) \in Nat
<1>1. IsFiniteSet(T) BY IdSet
<1> QED BY <1>1, FS_Subset, FS_CardinalityType

LEMMA AllButOne ==
    ASSUME NEW n \in Nat, NEW T \in SUBSET (1..n), NEW x
    PROVE  /\ Cardinality(T) <= Cardinality(T \ {x}) + 1
           /\ x \in T => Cardinality(T \ {x}) = Cardinality(T) - 1
           /\ Cardinality(T \ {x}) \in Nat /\ Cardinality(T) \in Nat
<1>1. IsFiniteSet(T) /\ Cardinality(T) \in Nat BY IdSet
<1>2. Cardinality(T \ {x}) = IF x \in T THEN Cardinality(T) - 1 ELSE Cardinality(T)
  BY <1>1, FS_RemoveElement
<1>3. IsFiniteSet(T \ {x}) BY <1>1, FS_RemoveElement
<1>4. Cardinality(T \ {x}) \in Nat BY <1>3, FS_CardinalityType
<1> QED BY <1>1, <1>2, <1>4

LEMMA IdsAreIds ==
    ASSUME DocumentsOK
    PROVE  \A p : Ids(p) \subseteq 1..ids /\ HiddenIds(p) \subseteq Ids(p)
  BY DEF DocumentsOK, Ids, HiddenIds, IdsIn, Documents, IsDocument

LEMMA LeastPath ==
    ASSUME NEW S \in SUBSET Nat, S # {}
    PROVE  \E n \in S : \A m \in S : n =< m
<1> DEFINE Less == OpToRel(<, Nat)
<1>1. PICK n \in S : \A m \in S : <<m, n>> \notin Less
  <2>1. IsWellFoundedOn(Less, Nat) BY NatLessThanWellFounded, Zenon
  <2> HIDE DEF Less
  <2> QED BY <2>1, WFMin
<1>2. \A m \in S : ~(m < n) BY <1>1 DEF OpToRel
<1> QED BY <1>2

\* The path that is replaced next.
LEMMA PathIsToDo ==
    ASSUME SyncOK, sync.todo # {}
    PROVE  Path \in sync.todo /\ Path \in Paths
<1>1. sync.todo \subseteq Paths /\ sync.todo \subseteq Nat BY KnowledgeAssumption DEF SyncOK, KnowledgeAssumption
<1>2. \E x \in sync.todo : \A y \in sync.todo : x =< y BY <1>1, LeastPath
<1>3. Path \in sync.todo BY <1>2 DEF Path, Min
<1> QED BY <1>1, <1>3

-----------------------------------------------------------------------------
(* Project knowledge: what the steps share *)

\* What neither the store nor the synchronisation sees.
Unseen == UNCHANGED <<sync, remote, cached, torn, strays>>

LEMMA UnseenKeeps ==
    ASSUME SyncInv, Unseen, CallersOK'
    PROVE  SyncInv'
<1>1. /\ sync' = sync /\ store' = store /\ hidden' = hidden /\ ids' = ids /\ cached' = cached
      /\ torn' = torn /\ strays' = strays
  BY DEF Unseen, remote
<1>2. /\ Documents' = Documents /\ Listed' = Listed /\ Doomed' = Doomed /\ Path' = Path
      /\ Outdated' = Outdated /\ Awaited' = Awaited /\ Own' = Own /\ Imported' = Imported
      /\ Importing' = Importing
  BY <1>1 DEF Documents, Listed, Doomed, Path, Outdated, Awaited, Own, Imported, Importing
<1>3. DocumentsOK' BY <1>1, <1>2 DEF SyncInv, DocumentsOK, IsDocument
<1>4. SyncOK' BY <1>1, <1>2 DEF SyncInv, SyncOK
<1>5. \A p : Ids(p)' = Ids(p) /\ HiddenIds(p)' = HiddenIds(p)
  BY <1>1, <1>2 DEF Ids, HiddenIds
<1>6. StraysCounted' BY <1>1, <1>2, <1>5 DEF SyncInv, StraysCounted
<1>7. DoneSoFar' /\ CacheHolds' BY <1>1, <1>2, <1>5 DEF SyncInv, DoneSoFar, CacheHolds, Holds
<1> QED BY <1>1, <1>3, <1>4, <1>6, <1>7 DEF SyncInv

\* Fewer documents do not make the count wrong.
LEMMA StillCounted ==
    ASSUME DocumentsOK, StraysCounted, strays \in [Paths -> Nat], strays' = strays,
           \A p : Ids(p)' \subseteq Ids(p),
           \A p : HiddenIds(p)' \ Awaited' \subseteq HiddenIds(p) \ Awaited
    PROVE  StraysCounted'
<1> SUFFICES ASSUME NEW p \in Paths
             PROVE  /\ Cardinality(Ids(p)') <= strays[p] + 1
                    /\ Cardinality(HiddenIds(p)' \ Awaited') <= strays[p]
  BY DEF StraysCounted
<1> DEFINE A == Ids(p)
           B == Ids(p)'
           C == HiddenIds(p) \ Awaited
           D == HiddenIds(p)' \ Awaited'
<1>1. ids \in Nat /\ A \in SUBSET (1..ids) /\ B \in SUBSET A /\ C \in SUBSET (1..ids) /\ D \in SUBSET C
  BY IdsAreIds DEF DocumentsOK
<1>2. Cardinality(A) <= strays[p] + 1 /\ Cardinality(C) <= strays[p] /\ strays[p] \in Nat
  BY DEF StraysCounted
<1> HIDE DEF A, B, C, D
<1>3. Cardinality(B) <= Cardinality(A) /\ Cardinality(A) \in Nat /\ Cardinality(B) \in Nat BY <1>1, Fewer
<1>4. Cardinality(D) <= Cardinality(C) /\ Cardinality(D) \in Nat /\ Cardinality(C) \in Nat BY <1>1, Fewer
<1>5. Cardinality(B) <= strays[p] + 1 /\ Cardinality(D) <= strays[p] BY <1>2, <1>3, <1>4
<1> QED BY <1>5 DEF B, D

LEMMA NoSyncIsSync == IsSync(NoSync)
<1>1. NoSync.failed = FALSE /\ FALSE \in BOOLEAN BY Zenon DEF NoSync
<1>2. NoSync.at = "none" BY DEF NoSync
<1>3. NoSync = [at |-> NoSync.at, corpus |-> NoSync.corpus, obsolete |-> NoSync.obsolete,
                outdated |-> NoSync.outdated, todo |-> NoSync.todo, failed |-> NoSync.failed]
  BY DEF NoSync
<1> QED BY <1>1, <1>2, <1>3 DEF IsSync

LEMMA InitSync ==
    ASSUME Init
    PROVE  SyncInv
<1>1. /\ sync = NoSync /\ store = {} /\ hidden = {} /\ ids = 0 /\ cached = NoCorpus
      /\ strays = [p \in Paths |-> 0] /\ manifest \in Manifests /\ search \in Starts(manifest)
  BY DEF Init
<1>2. /\ Documents = {} /\ Listed = {} /\ sync.at = "none" /\ sync.todo = {} /\ ~sync.failed
      /\ sync.outdated = {} /\ sync.obsolete = {} /\ sync.corpus = NoCorpus
  BY <1>1 DEF Documents, Listed, NoSync
<1>3. DOMAIN NoCorpus = {} BY DEF NoCorpus
<1>4. DocumentsOK BY <1>1, <1>2 DEF DocumentsOK
<1>5. SyncOK
  <2>1. IsSync(sync) BY <1>1, NoSyncIsSync
  <2>2. ~(sync.at = "discard") /\ ~(sync.at = "poll") /\ ~Importing BY <1>2 DEF Importing
  <2> QED BY <1>1, <1>2, <1>3, <2>1, <2>2 DEF SyncOK
<1>6. \A p : Ids(p) = {} /\ HiddenIds(p) = {} BY <1>1, <1>2 DEF Ids, HiddenIds, IdsIn
<1>7. Cardinality({}) = 0 BY FS_EmptySet
<1>8. strays \in [Paths -> Nat] /\ \A p \in Paths : strays[p] = 0 BY <1>1
<1>9. StraysCounted
  <2>1. \A p \in Paths : HiddenIds(p) \ Awaited = {} BY <1>6
  <2> QED BY <1>6, <1>7, <1>8, <2>1 DEF StraysCounted
<1>10. DoneSoFar /\ CacheHolds BY <1>1, <1>2 DEF DoneSoFar, CacheHolds
<1>11. CallersOK
  <2>1. manifest \subseteq Paths BY <1>1, KnowledgeAssumption DEF KnowledgeAssumption
  <2>2. DOMAIN Is("idle").corpus = {} /\ DOMAIN Read(manifest).corpus = manifest
    BY <1>3 DEF Is, Read
  <2>3. PICK boot \in {Is("idle"), Read(manifest)} :
           search = [c \in Callers |-> IF c = Boot THEN boot ELSE Is("idle")]
    BY <1>1 DEF Starts
  <2> QED BY <1>1, <2>1, <2>2, <2>3 DEF CallersOK
<1> QED BY <1>4, <1>5, <1>8, <1>9, <1>10, <1>11 DEF SyncInv

\* Those who wait are freed, and none of them keeps a corpus.
LEMMA WaitersOK ==
    ASSUME CallersOK, NEW next, search' = Waiters(next), UNCHANGED world,
           \A c \in Callers : DOMAIN next[c].corpus \subseteq Paths
    PROVE  CallersOK'
<1>1. manifest' = manifest BY DEF world
<1>2. DOMAIN search' = Callers BY DEF Waiters
<1>3. \A c \in Callers : search'[c] = IF search[c].at = "waiting" THEN next[c] ELSE search[c]
  BY DEF Waiters
<1> QED BY <1>1, <1>2, <1>3 DEF CallersOK

LEMMA CallersStay ==
    ASSUME CallersOK, UNCHANGED <<world, search>>
    PROVE  CallersOK'
  BY DEF CallersOK, world

\* The synchronisation has failed, or the server has stopped.
LEMMA SyncEnds ==
    ASSUME SyncInv, sync' = NoSync, torn' \/ cached' = NoCorpus, CallersOK',
           ids' = ids, hidden' = hidden, store' \subseteq store,
           strays' = strays, sync.at # "poll"
    PROVE  SyncInv'
<1>1. /\ Listed' = {} /\ sync'.at = "none" /\ sync'.todo = {} /\ ~sync'.failed /\ sync'.outdated = {}
      /\ sync'.obsolete = {} /\ sync'.corpus = NoCorpus
  BY DEF Listed, NoSync
<1>2. DOMAIN NoCorpus = {} BY DEF NoCorpus
<1>3. DocumentsOK /\ Documents' \subseteq Documents BY DEF SyncInv, Documents
<1>4. DocumentsOK'
  <2>1. \A d : IsDocument(d)' <=> IsDocument(d) BY DEF IsDocument
  <2> QED BY <1>1, <1>3, <2>1 DEF DocumentsOK
<1>5. SyncOK'
  <2>1. IsSync(sync') BY NoSyncIsSync
  <2>2. ~(sync'.at = "discard") /\ ~(sync'.at = "poll") /\ ~Importing' BY <1>1 DEF Importing
  <2> QED BY <1>1, <1>2, <2>1, <2>2 DEF SyncOK
<1>6. \A p : Ids(p)' \subseteq Ids(p) /\ HiddenIds(p)' = HiddenIds(p)
  BY <1>3 DEF Ids, HiddenIds, IdsIn
<1>7. Awaited = {} /\ Awaited' = {} BY <1>1 DEF Awaited
<1>8. StraysCounted'
  BY <1>3, <1>6, <1>7, StillCounted DEF SyncInv
<1>9. DoneSoFar' /\ CacheHolds' BY <1>1 DEF DoneSoFar, CacheHolds
<1> QED BY <1>4, <1>5, <1>8, <1>9 DEF SyncInv

-----------------------------------------------------------------------------
(* Project knowledge: how the synchronisation goes on *)

Stages == {"none", "list", "work", "import", "poll", "discard"}
Syncs(C, O, U, T) ==
    [at : Stages, corpus : C, obsolete : O, outdated : U, todo : T, failed : BOOLEAN]

LEMMA SyncsAre ==
    ASSUME NEW s, IsSync(s), NEW o, NEW u, NEW t
    PROVE  s \in Syncs({s.corpus}, {s.obsolete, o}, {s.outdated, u}, {s.todo, t})
  BY DEF IsSync, Syncs, Stages

LEMMA SyncsIs ==
    ASSUME NEW C, NEW O, NEW U, NEW T, NEW s \in Syncs(C, O, U, T)
    PROVE  IsSync(s)
<1>1. s.at \in Stages /\ s.failed \in BOOLEAN BY Zenon DEF Syncs
<1>2. s = [at |-> s.at, corpus |-> s.corpus, obsolete |-> s.obsolete,
           outdated |-> s.outdated, todo |-> s.todo, failed |-> s.failed]
  BY DEF Syncs
<1> QED BY <1>1, <1>2 DEF IsSync, Stages

\* The ways a synchronisation goes on.
At(s, at) == [s EXCEPT !.at = at]
WorkOn(s, obsolete, outdated, todo) ==
    [s EXCEPT !.at = "work", !.obsolete = obsolete, !.outdated = outdated, !.todo = todo]
Without(s, d) == [s EXCEPT !.obsolete = @ \ {d}, !.outdated = @ \ {d}]
Failing(s) == [s EXCEPT !.at = "discard", !.failed = TRUE]
Done(s, p) == [s EXCEPT !.at = "work", !.todo = @ \ {p}]

LEMMA Moved ==
    ASSUME NEW s, IsSync(s), NEW at \in Stages
    PROVE  LET r == At(s, at)
           IN /\ IsSync(r) /\ r.at = at /\ r.corpus = s.corpus /\ r.obsolete = s.obsolete
              /\ r.outdated = s.outdated /\ r.todo = s.todo /\ r.failed = s.failed
<1> DEFINE S == Syncs({s.corpus}, {s.obsolete, {}}, {s.outdated, {}}, {s.todo, {}})
           x == [s EXCEPT !.at = at]
<1>1. s \in S BY SyncsAre
<1>2. /\ TRUE \in BOOLEAN /\ {"work", "discard"} \subseteq Stages
      /\ {} \in {s.obsolete, {}} /\ {} \in {s.outdated, {}} /\ {} \in {s.todo, {}}
  BY DEF Stages
<1>3. /\ x \in S /\ x.at = at /\ x.corpus = s.corpus /\ x.obsolete = s.obsolete
      /\ x.outdated = s.outdated /\ x.todo = s.todo /\ x.failed = s.failed
  BY <1>1, <1>2, Zenon DEF Syncs
<1>4. At(s, at) = x BY DEF At
<1> HIDE DEF x
<1> QED BY <1>3, <1>4, SyncsIs

LEMMA ListedOnce ==
    ASSUME NEW s, IsSync(s), NEW obsolete, NEW outdated, NEW todo
    PROVE  LET r == WorkOn(s, obsolete, outdated, todo)
           IN /\ IsSync(r) /\ r.at = "work" /\ r.corpus = s.corpus /\ r.obsolete = obsolete
              /\ r.outdated = outdated /\ r.todo = todo /\ r.failed = s.failed
<1> DEFINE S == Syncs({s.corpus}, {s.obsolete, obsolete}, {s.outdated, outdated}, {s.todo, todo})
           x == [s EXCEPT !.at = "work", !.obsolete = obsolete, !.outdated = outdated, !.todo = todo]
<1>1. s \in S BY SyncsAre
<1>2. /\ TRUE \in BOOLEAN /\ {"work", "discard"} \subseteq Stages
      /\ obsolete \in {s.obsolete, obsolete} /\ outdated \in {s.outdated, outdated} /\ todo \in {s.todo, todo}
  BY DEF Stages
<1>3. /\ x \in S /\ x.at = "work" /\ x.corpus = s.corpus /\ x.obsolete = obsolete
      /\ x.outdated = outdated /\ x.todo = todo /\ x.failed = s.failed
  <2>1. "work" \in Stages /\ "discard" \in Stages BY <1>2
  <2> QED BY <1>1, <1>2, <2>1, Zenon DEF Syncs
<1>4. WorkOn(s, obsolete, outdated, todo) = x BY DEF WorkOn
<1> HIDE DEF x
<1> QED BY <1>3, <1>4, SyncsIs

LEMMA Struck ==
    ASSUME NEW s, IsSync(s), NEW d
    PROVE  LET r == Without(s, d)
           IN /\ IsSync(r) /\ r.at = s.at /\ r.corpus = s.corpus /\ r.obsolete = s.obsolete \ {d}
              /\ r.outdated = s.outdated \ {d} /\ r.todo = s.todo /\ r.failed = s.failed
<1> DEFINE o == s.obsolete \ {d}
           u == s.outdated \ {d}
           S == Syncs({s.corpus}, {s.obsolete, o}, {s.outdated, u}, {s.todo, {}})
           x == [s EXCEPT !.obsolete = o, !.outdated = u]
<1>1. s \in S BY SyncsAre
<1>2. /\ TRUE \in BOOLEAN /\ {"work", "discard"} \subseteq Stages
      /\ o \in {s.obsolete, o} /\ u \in {s.outdated, u} /\ {} \in {s.todo, {}}
  BY DEF Stages
<1>3. /\ x \in S /\ x.at = s.at /\ x.corpus = s.corpus /\ x.obsolete = o
      /\ x.outdated = u /\ x.todo = s.todo /\ x.failed = s.failed
  BY <1>1, <1>2, Zenon DEF Syncs
<1>4. Without(s, d) = x
  <2>1. [s EXCEPT !.obsolete = o].outdated = s.outdated BY DEF IsSync
  <2> QED BY <2>1, Zenon DEF Without
<1> HIDE DEF x
<1> QED BY <1>3, <1>4, SyncsIs

LEMMA GivenUp ==
    ASSUME NEW s, IsSync(s)
    PROVE  LET r == Failing(s)
           IN /\ IsSync(r) /\ r.at = "discard" /\ r.corpus = s.corpus /\ r.obsolete = s.obsolete
              /\ r.outdated = s.outdated /\ r.todo = s.todo /\ r.failed = TRUE
<1> DEFINE S == Syncs({s.corpus}, {s.obsolete, {}}, {s.outdated, {}}, {s.todo, {}})
           x == [s EXCEPT !.at = "discard", !.failed = TRUE]
<1>1. s \in S BY SyncsAre
<1>2. /\ TRUE \in BOOLEAN /\ {"work", "discard"} \subseteq Stages
      /\ {} \in {s.obsolete, {}} /\ {} \in {s.outdated, {}} /\ {} \in {s.todo, {}}
  BY DEF Stages
<1>3. /\ x \in S /\ x.at = "discard" /\ x.corpus = s.corpus /\ x.obsolete = s.obsolete
      /\ x.outdated = s.outdated /\ x.todo = s.todo /\ x.failed = TRUE
  <2>1. "work" \in Stages /\ "discard" \in Stages BY <1>2
  <2> QED BY <1>1, <1>2, <2>1, Zenon DEF Syncs
<1>4. Failing(s) = x BY DEF Failing
<1> HIDE DEF x
<1> QED BY <1>3, <1>4, SyncsIs

LEMMA Replaced ==
    ASSUME NEW s, IsSync(s), NEW p
    PROVE  LET r == Done(s, p)
           IN /\ IsSync(r) /\ r.at = "work" /\ r.corpus = s.corpus /\ r.obsolete = s.obsolete
              /\ r.outdated = s.outdated /\ r.todo = s.todo \ {p} /\ r.failed = s.failed
<1> DEFINE t == s.todo \ {p}
           S == Syncs({s.corpus}, {s.obsolete, {}}, {s.outdated, {}}, {s.todo, t})
           x == [s EXCEPT !.at = "work", !.todo = t]
<1>1. s \in S BY SyncsAre
<1>2. /\ TRUE \in BOOLEAN /\ {"work", "discard"} \subseteq Stages
      /\ {} \in {s.obsolete, {}} /\ {} \in {s.outdated, {}} /\ t \in {s.todo, t}
  BY DEF Stages
<1>3. /\ x \in S /\ x.at = "work" /\ x.corpus = s.corpus /\ x.obsolete = s.obsolete
      /\ x.outdated = s.outdated /\ x.todo = t /\ x.failed = s.failed
  <2>1. "work" \in Stages /\ "discard" \in Stages BY <1>2
  <2> QED BY <1>1, <1>2, <2>1, Zenon DEF Syncs
<1>4. Done(s, p) = x
  <2>1. [s EXCEPT !.at = "work"].todo = s.todo BY DEF IsSync
  <2> QED BY <2>1, Zenon DEF Done
<1> HIDE DEF x
<1> QED BY <1>3, <1>4, SyncsIs

-----------------------------------------------------------------------------
(* Project knowledge: the callers *)

LEMMA IdleCorpus == \A at : DOMAIN Is(at).corpus \subseteq Paths
<1>1. DOMAIN NoCorpus = {} BY DEF NoCorpus
<1> QED BY <1>1 DEF Is

LEMMA CallerChanges ==
    ASSUME CallersOK, NEW c \in Callers, NEW x, DOMAIN x.corpus \subseteq Paths,
           search' = [search EXCEPT ![c] = x], manifest' = manifest
    PROVE  CallersOK'
  BY DEF CallersOK

LEMMA EnsureSync ==
    ASSUME SyncInv, NEW c \in Callers, EnsureCorpusReady(c)
    PROVE  SyncInv'
<1>1. UNCHANGED <<world, cached, remote, faults, history>> BY DEF EnsureCorpusReady
<1>2. manifest' = manifest /\ CallersOK BY <1>1 DEF world, SyncInv
<1>3. CASE sync # NoSync
  <2>1. search' = [search EXCEPT ![c] = Is("waiting")] /\ sync' = sync
    BY <1>3 DEF EnsureCorpusReady
  <2>2. CallersOK' BY <1>2, <2>1, IdleCorpus, CallerChanges
  <2>3. Unseen BY <1>1, <2>1 DEF Unseen, history
  <2> QED BY <2>2, <2>3, UnseenKeeps
<1>4. CASE sync = NoSync /\ search[c].corpus = cached
  <2>1. search' = [search EXCEPT ![c] = Ready(c)] /\ sync' = sync
    BY <1>4 DEF EnsureCorpusReady
  <2>2. CallersOK' BY <1>2, <2>1, IdleCorpus, CallerChanges DEF Ready
  <2>3. Unseen BY <1>1, <2>1 DEF Unseen, history
  <2> QED BY <2>2, <2>3, UnseenKeeps
<1>5. CASE sync = NoSync /\ search[c].corpus # cached
  <2>1. /\ search' = [search EXCEPT ![c] = Is("waiting")]
        /\ sync' = [NoSync EXCEPT !.at = "list", !.corpus = search[c].corpus]
    BY <1>5 DEF EnsureCorpusReady
  <2>2. CallersOK' BY <1>2, <2>1, IdleCorpus, CallerChanges
  <2>3. /\ store' = store /\ hidden' = hidden /\ ids' = ids /\ strays' = strays
    BY <1>1 DEF remote, history
  <2>4. sync' = [at |-> "list", corpus |-> search[c].corpus, obsolete |-> {}, outdated |-> {},
                 todo |-> {}, failed |-> FALSE]
    BY <2>1 DEF NoSync
  <2>5. /\ sync'.at = "list" /\ sync'.corpus = search[c].corpus /\ sync'.obsolete = {}
        /\ sync'.outdated = {} /\ sync'.todo = {} /\ ~sync'.failed /\ sync'.failed = FALSE
    <3>1. sync'.failed = FALSE BY <2>4
    <3> QED BY <2>4, <3>1
  <2>6. IsSync(sync')
    <3>1. sync'.failed \in BOOLEAN BY <2>5
    <3> QED BY <2>4, <2>5, <3>1 DEF IsSync
  <2>7. sync.at = "none" /\ sync.obsolete = {} /\ sync.outdated = {} BY <1>5 DEF NoSync
  <2>8. /\ Documents' = Documents /\ Listed' = {} /\ Listed = {} /\ Awaited' = {} /\ Awaited = {}
    BY <2>3, <2>5, <2>7 DEF Documents, Listed, Awaited
  <2>9. DocumentsOK' BY <2>3, <2>8 DEF SyncInv, DocumentsOK, IsDocument
  <2>10. DOMAIN search[c].corpus \subseteq Paths BY <1>2 DEF CallersOK
  <2>11. SyncOK'
    <3>1. ~Importing' /\ sync'.at # "none" BY <2>5 DEF Importing
    <3> QED BY <2>5, <2>6, <2>8, <2>10, <3>1 DEF SyncOK
  <2>12. StraysCounted'
    <3>1. \A p : Ids(p)' = Ids(p) /\ HiddenIds(p)' = HiddenIds(p) BY <2>3, <2>8 DEF Ids, HiddenIds
    <3> QED BY <2>3, <2>8, <3>1 DEF SyncInv, StraysCounted
  <2>13. DoneSoFar' BY <2>5 DEF DoneSoFar
  <2>14. CacheHolds'
    <3>1. NoSync.at = "none" BY DEF NoSync
    <3> QED BY <2>5, <3>1 DEF CacheHolds
  <2> QED BY <2>2, <2>3, <2>9, <2>11, <2>12, <2>13, <2>14 DEF SyncInv
<1> QED BY <1>3, <1>4, <1>5

LEMMA SearchSync ==
    ASSUME SyncInv, NEW c \in Callers, Search(c) \/ Ask(c)
    PROVE  SyncInv'
<1>1. Unseen BY DEF Search, Ask, Unseen, history
<1>2. CallersOK /\ manifest' = manifest BY DEF SyncInv, Search, Ask, world
<1>3. CASE Search(c)
  <2>1. search' = [search EXCEPT ![c] = Read(manifest)] BY <1>3 DEF Search
  <2>2. manifest \subseteq Paths BY <1>2, KnowledgeAssumption DEF CallersOK, KnowledgeAssumption
  <2>3. DOMAIN Read(manifest).corpus \subseteq Paths BY <2>2 DEF Read
  <2> QED BY <1>1, <1>2, <2>1, <2>3, CallerChanges, UnseenKeeps
<1>4. CASE Ask(c)
  <2>1. search' = [search EXCEPT ![c] = Is("idle")] BY <1>4 DEF Ask
  <2> QED BY <1>1, <1>2, <2>1, IdleCorpus, CallerChanges, UnseenKeeps
<1> QED BY <1>3, <1>4

LEMMA EditSync ==
    ASSUME SyncInv, NEW p, Edit(p)
    PROVE  SyncInv'
<1>1. Unseen BY DEF Edit, Unseen, history
<1>2. CallersOK' BY DEF SyncInv, CallersOK, Edit
<1> QED BY <1>1, <1>2, UnseenKeeps

LEMMA StutterSync ==
    ASSUME SyncInv, UNCHANGED vars
    PROVE  SyncInv'
<1>1. Unseen BY DEF vars, Unseen, history
<1>2. CallersOK' BY CallersStay DEF SyncInv, vars
<1> QED BY <1>1, <1>2, UnseenKeeps

-----------------------------------------------------------------------------
(* Project knowledge: the store *)

\* What the store does by itself: no document is added, and none that is active goes.
LEMMA StoreMoves ==
    ASSUME SyncInv, UNCHANGED <<world, search, cached, sync, ids, torn, strays>>, DocumentsOK',
           \A p : Ids(p)' \subseteq Ids(p) /\ HiddenIds(p)' \subseteq HiddenIds(p),
           \A d \in store : d.state = "active" => d \in store',
           \A d \in Documents' : \E e \in Documents : d.id = e.id /\ d.path = e.path /\ d.hash = e.hash
    PROVE  SyncInv'
<1>1. /\ sync' = sync /\ ids' = ids /\ cached' = cached /\ torn' = torn /\ strays' = strays
  OBVIOUS
<1>2. CallersOK' BY CallersStay DEF SyncInv
<1>3. /\ Listed' = Listed /\ Doomed' = Doomed /\ Path' = Path /\ Outdated' = Outdated
      /\ Awaited' = Awaited /\ Own' = Own /\ Importing' = Importing
  BY <1>1 DEF Listed, Doomed, Path, Outdated, Awaited, Own, Importing
<1>4. \A p, hash : Holds(p, hash) => Holds(p, hash)'
  BY <1>3 DEF Holds
<1>5. SyncOK'
  <2>1. Imported => Imported' BY <1>1 DEF Imported
  <2>2. (sync.at = "poll" \/ (sync.at = "discard" /\ ~sync.failed)) =>
          \A d \in Documents' : d.id = ids => d.path = Path /\ d.hash = sync.corpus[Path]
    BY DEF SyncInv, SyncOK
  <2>3. SyncOK BY DEF SyncInv
  <2> QED BY <1>1, <1>3, <2>1, <2>2, <2>3 DEF SyncOK
<1>6. StraysCounted' BY <1>1, <1>3, StillCounted DEF SyncInv
<1>7. \A p : /\ Cardinality(Ids(p)') <= Cardinality(Ids(p))
             /\ Cardinality(Ids(p)') \in Nat /\ Cardinality(Ids(p)) \in Nat
             /\ Cardinality(Ids(p)' \ (Doomed \cup Own)) <= Cardinality(Ids(p) \ (Doomed \cup Own))
             /\ Cardinality(Ids(p)' \ (Doomed \cup Own)) \in Nat
             /\ Cardinality(Ids(p) \ (Doomed \cup Own)) \in Nat
  <2> TAKE p
  <2>1. ids \in Nat /\ Ids(p) \in SUBSET (1..ids) BY IdsAreIds DEF SyncInv, DocumentsOK
  <2>2. Ids(p)' \in SUBSET Ids(p) OBVIOUS
  <2>3. /\ Ids(p) \ (Doomed \cup Own) \in SUBSET (1..ids)
        /\ Ids(p)' \ (Doomed \cup Own) \in SUBSET (Ids(p) \ (Doomed \cup Own))
    BY <2>1, <2>2
  <2> QED BY <2>1, <2>2, <2>3, Fewer
<1>8. strays \in [Paths -> Nat] BY DEF SyncInv
<1>9. DoneSoFar'
  <2> SUFFICES ASSUME sync.at \in {"work", "import", "poll", "discard"}, ~sync.failed, NEW p \in Paths
               PROVE  IF p \in DOMAIN sync.corpus \ sync.todo THEN Holds(p, sync.corpus[p])'
                      ELSE Cardinality(Ids(p)' \ (Doomed \cup Own)) <= strays[p]
    BY <1>1, <1>3 DEF DoneSoFar
  <2>1. IF p \in DOMAIN sync.corpus \ sync.todo THEN Holds(p, sync.corpus[p])
        ELSE Cardinality(Ids(p) \ (Doomed \cup Own)) <= strays[p]
    BY DEF SyncInv, DoneSoFar
  <2>2. CASE p \in DOMAIN sync.corpus \ sync.todo
    <3>1. Holds(p, sync.corpus[p]) BY <2>1, <2>2
    <3>2. Holds(p, sync.corpus[p])' BY <1>3, <3>1 DEF Holds
    <3> QED BY <2>2, <3>2
  <2>3. CASE ~(p \in DOMAIN sync.corpus \ sync.todo)
    <3>1. Cardinality(Ids(p) \ (Doomed \cup Own)) <= strays[p] BY <2>1, <2>3
    <3>2. Cardinality(Ids(p)' \ (Doomed \cup Own)) <= strays[p]
      <4> DEFINE a == Cardinality(Ids(p)' \ (Doomed \cup Own))
                 b == Cardinality(Ids(p) \ (Doomed \cup Own))
      <4>1. a <= b /\ a \in Nat /\ b \in Nat BY <1>7
      <4>2. b <= strays[p] /\ strays[p] \in Nat BY <1>8, <3>1
      <4> HIDE DEF a, b
      <4>3. a <= strays[p] BY <4>1, <4>2
      <4> QED BY <4>3 DEF a
    <3> QED BY <2>3, <3>2
  <2> QED BY <2>2, <2>3
<1>10. CacheHolds'
  <2> SUFFICES ASSUME cached # NoCorpus, sync = NoSync, ~torn, NEW p \in Paths
               PROVE  IF p \in DOMAIN cached THEN Holds(p, cached[p])' ELSE Cardinality(Ids(p)') <= strays[p]
    BY <1>1 DEF CacheHolds
  <2>1. IF p \in DOMAIN cached THEN Holds(p, cached[p]) ELSE Cardinality(Ids(p)) <= strays[p]
    BY DEF SyncInv, CacheHolds
  <2>2. CASE p \in DOMAIN cached
    <3>1. Holds(p, cached[p]) BY <2>1, <2>2
    <3>2. Holds(p, cached[p])' BY <1>1, <1>3, <3>1 DEF Holds
    <3> QED BY <2>2, <3>2
  <2>3. CASE p \notin DOMAIN cached
    <3>1. Cardinality(Ids(p)) <= strays[p] BY <2>1, <2>3
    <3>2. Cardinality(Ids(p)') <= strays[p]
      <4> DEFINE a == Cardinality(Ids(p)')
                 b == Cardinality(Ids(p))
      <4>1. a <= b /\ a \in Nat /\ b \in Nat BY <1>7
      <4>2. b <= strays[p] /\ strays[p] \in Nat BY <1>8, <3>1
      <4> HIDE DEF a, b
      <4>3. a <= strays[p] BY <4>1, <4>2
      <4> QED BY <4>3 DEF a
    <3> QED BY <2>3, <3>2
  <2> QED BY <2>2, <2>3
<1> QED BY <1>1, <1>2, <1>5, <1>6, <1>8, <1>9, <1>10 DEF SyncInv

LEMMA AppearSync ==
    ASSUME SyncInv, Appear
    PROVE  SyncInv'
<1>1. PICK d \in hidden : hidden' = hidden \ {d} /\ store' = store \cup {d} BY DEF Appear
<1>2. UNCHANGED <<world, search, cached, sync, ids, torn, strays>> BY DEF Appear, External, history
<1>3. Documents' = Documents /\ Listed' = Listed BY <1>1, <1>2 DEF Documents, Listed
<1>4. DocumentsOK BY DEF SyncInv
<1>5. DocumentsOK'
  <2>1. \A e : IsDocument(e)' <=> IsDocument(e) BY <1>2 DEF IsDocument
  <2>2. \A e \in hidden' : e \in hidden /\ e # d BY <1>1
  <2>3. \A e \in hidden' : e \notin store' BY <1>1, <1>4, <2>2 DEF DocumentsOK
  <2> QED BY <1>2, <1>3, <1>4, <2>1, <2>2, <2>3 DEF DocumentsOK
<1>6. \A p : Ids(p)' \subseteq Ids(p) /\ HiddenIds(p)' \subseteq HiddenIds(p)
  BY <1>1, <1>3 DEF Ids, HiddenIds, IdsIn
<1>7. \A e \in store : e.state = "active" => e \in store' BY <1>1
<1>8. \A e \in Documents' : \E f \in Documents : e.id = f.id /\ e.path = f.path /\ e.hash = f.hash BY <1>3
<1> QED BY <1>2, <1>5, <1>6, <1>7, <1>8, StoreMoves

\* An import ends.
LEMMA BecomesSync ==
    ASSUME SyncInv, NEW d \in store, d.state = "pending", NEW state, Becomes(d, state),
           UNCHANGED <<world, search, cached, sync, ids, torn, strays>>
    PROVE  SyncInv'
<1> DEFINE x == [d EXCEPT !.state = state]
<1>1. store' = (store \ {d}) \cup {x} /\ hidden' = hidden BY DEF Becomes
<1>2. DocumentsOK BY DEF SyncInv
<1>3. /\ x.id = d.id /\ x.path = d.path /\ x.hash = d.hash
      /\ x = [id |-> x.id, path |-> x.path, hash |-> x.hash, text |-> x.text, state |-> x.state]
  <2>1. d = [id |-> d.id, path |-> d.path, hash |-> d.hash, text |-> d.text, state |-> d.state]
    BY <1>2 DEF DocumentsOK, Documents, IsDocument
  <2> QED BY <2>1
<1>4. d \in Documents /\ d \notin hidden /\ d.id \in 1..ids
  BY <1>2 DEF DocumentsOK, Documents, IsDocument
<1> HIDE DEF x
<1>5. Documents' = (Documents \ {d}) \cup {x} BY <1>1, <1>4 DEF Documents
<1>6. \A e : IsDocument(e)' <=> IsDocument(e) BY DEF IsDocument
<1>7. \A e \in Documents' : \E f \in Documents : e.id = f.id /\ e.path = f.path /\ e.hash = f.hash
  BY <1>3, <1>4, <1>5
<1>8. DocumentsOK'
  <2>1. IsDocument(x) BY <1>3, <1>4 DEF IsDocument
  <2>2. Listed' = Listed BY DEF Listed
  <2>3. \A e \in Documents' \cup Listed' : IsDocument(e)' BY <1>2, <1>5, <1>6, <2>1, <2>2 DEF DocumentsOK
  <2>4. \A e, f \in Documents' : e.id = f.id => e = f BY <1>2, <1>3, <1>4, <1>5 DEF DocumentsOK
  <2>5. \A e \in hidden' : e \notin store'
    <3>1. x \notin hidden BY <1>2, <1>3, <1>4 DEF DocumentsOK, Documents
    <3> QED BY <1>1, <1>2, <3>1 DEF DocumentsOK
  <2>6. \A e \in Listed', f \in Documents' : e.id = f.id => e.path = f.path /\ f \notin hidden'
    <3>1. x \notin hidden BY <1>2, <1>3, <1>4 DEF DocumentsOK, Documents
    <3> QED BY <1>1, <1>2, <1>3, <1>4, <1>5, <2>2, <3>1 DEF DocumentsOK
  <2>7. ids' \in Nat BY <1>2 DEF DocumentsOK
  <2> QED BY <2>3, <2>4, <2>5, <2>6, <2>7 DEF DocumentsOK
<1>9. \A p : Ids(p)' \subseteq Ids(p) /\ HiddenIds(p)' \subseteq HiddenIds(p)
  BY <1>1, <1>7 DEF Ids, HiddenIds, IdsIn
<1>10. \A e \in store : e.state = "active" => e \in store' BY <1>1
<1> QED BY <1>7, <1>8, <1>9, <1>10, StoreMoves

LEMMA ProcessSync ==
    ASSUME SyncInv, Process
    PROVE  SyncInv'
<1>1. UNCHANGED <<world, search, cached, sync, ids, torn, strays>> BY DEF Process, External, history
<1>2. CASE \E d \in store : d.state = "pending" /\ (Becomes(d, "active") \/ Becomes(d, "failed"))
  BY <1>1, <1>2, BecomesSync
<1>3. CASE \E d \in hidden : hidden' = hidden \ {d} /\ UNCHANGED store
  <2>1. DocumentsOK BY DEF SyncInv
  <2>2. Documents' \subseteq Documents /\ Listed' = Listed /\ hidden' \subseteq hidden /\ store' = store
    BY <1>1, <1>3 DEF Documents, Listed
  <2>3. DocumentsOK'
    <3>1. \A e : IsDocument(e)' <=> IsDocument(e) BY <1>1 DEF IsDocument
    <3> QED BY <1>1, <2>1, <2>2, <3>1 DEF DocumentsOK
  <2>4. \A p : Ids(p)' \subseteq Ids(p) /\ HiddenIds(p)' \subseteq HiddenIds(p)
    BY <2>2 DEF Ids, HiddenIds, IdsIn
  <2>5. \A e \in store : e.state = "active" => e \in store' BY <2>2
  <2>6. \A e \in Documents' : \E f \in Documents : e.id = f.id /\ e.path = f.path /\ e.hash = f.hash BY <2>2
  <2> QED BY <1>1, <2>3, <2>4, <2>5, <2>6, StoreMoves
<1> QED BY <1>2, <1>3 DEF Process

-----------------------------------------------------------------------------
(* Project knowledge: the synchronisation, request by request *)

LEMMA ListSync ==
    ASSUME SyncInv, ListDocuments
    PROVE  SyncInv'
<1>1. /\ sync.at = "list" /\ UNCHANGED <<world, search, cached, torn, strays>>
      /\ store' = store /\ hidden' = hidden /\ ids' = ids
  BY DEF ListDocuments, SyncOnly, CreateStore, history, remote
<1>2. PICK existing \in ExistingByPath :
        sync' = [sync EXCEPT !.at = "work", !.obsolete = store \ Managed,
                             !.outdated = existing \ {d \in existing : UpToDate(d)},
                             !.todo = DOMAIN sync.corpus \ {d.path : d \in {d \in existing : UpToDate(d)}}]
  BY DEF ListDocuments
<1> DEFINE current == {d \in existing : UpToDate(d)}
           obsolete == store \ Managed
           outdated == existing \ current
           todo == DOMAIN sync.corpus \ {d.path : d \in current}
<1>3. /\ existing \subseteq Managed
      /\ \A d \in Managed : Cardinality({x \in existing : x.path = d.path}) = 1
  BY <1>2 DEF ExistingByPath
<1>4. /\ DocumentsOK /\ SyncOK /\ StraysCounted /\ IsSync(sync) /\ strays \in [Paths -> Nat]
      /\ DOMAIN sync.corpus \subseteq Paths /\ ids \in Nat
  BY DEF SyncInv, SyncOK, DocumentsOK
<1>5. Managed \subseteq store /\ \A d \in store : d \in Managed <=> d.path \in DOMAIN sync.corpus
  BY DEF Managed
\* A path has one document that exists.
<1>6. /\ \A d, e \in existing : d.path = e.path => d = e
      /\ \A d \in Managed : \E e \in existing : e.path = d.path
  <2>1. \A d \in Managed : \E e : {x \in existing : x.path = d.path} = {e}
    <3> SUFFICES ASSUME NEW d \in Managed
                 PROVE  \E e : {x \in existing : x.path = d.path} = {e}
      OBVIOUS
    <3> DEFINE X == {x \in existing : x.path = d.path}
    <3>1. IsFiniteSet(X)
      <4> DEFINE f == [x \in X |-> x.id]
      <4>1. f \in Injection(X, 1..ids)
        <5>1. \A x \in X : x \in Documents BY <1>3, <1>5 DEF Documents
        <5>2. \A x \in X : x.id \in 1..ids BY <1>4, <5>1 DEF DocumentsOK, IsDocument
        <5>3. \A x, y \in X : x.id = y.id => x = y BY <1>4, <5>1 DEF DocumentsOK
        <5> QED BY <5>2, <5>3 DEF Injection, IsInjective
      <4>2. IsFiniteSet(1..ids) BY <1>4, FS_Interval
      <4> HIDE DEF f, X
      <4> QED BY <4>1, <4>2, FS_Injection
    <3>2. Cardinality(X) = 1 BY <1>3
    <3> HIDE DEF X
    <3>3. \E e : X = {e} BY <3>1, <3>2, FS_Singleton
    <3> QED BY <3>3 DEF X
  <2> QED BY <1>3, <2>1
<1> HIDE DEF current, obsolete, outdated, todo
<1>7. /\ sync'.at = "work" /\ sync'.corpus = sync.corpus /\ sync'.obsolete = obsolete
      /\ sync'.outdated = outdated /\ sync'.todo = todo /\ sync'.failed = sync.failed /\ IsSync(sync')
  <2>1. sync' = WorkOn(sync, obsolete, outdated, todo)
    BY <1>2, Zenon DEF current, obsolete, outdated, todo, WorkOn
  <2>2. /\ IsSync(sync') /\ sync'.at = "work" /\ sync'.corpus = sync.corpus /\ sync'.obsolete = obsolete
        /\ sync'.outdated = outdated /\ sync'.todo = todo /\ sync'.failed = sync.failed
    BY <1>4, <2>1, ListedOnce
  <2> QED BY <2>2
<1>8. current \subseteq existing /\ outdated \subseteq existing /\ existing \subseteq store
      /\ obsolete \subseteq store /\ outdated \cap current = {} /\ obsolete \cap existing = {}
  BY <1>3, <1>5 DEF current, obsolete, outdated
<1>9. /\ Documents' = Documents /\ Listed' = obsolete \cup outdated /\ Listed' \subseteq store
      /\ store \subseteq Documents /\ Own' = {} /\ Awaited' = {} /\ Awaited = {}
  BY <1>1, <1>7, <1>8 DEF Documents, Listed, Own, Awaited
<1>10. \A p : Ids(p)' = Ids(p) /\ HiddenIds(p)' = HiddenIds(p)
  BY <1>1, <1>9 DEF Ids, HiddenIds
<1>11. DocumentsOK'
  <2>1. \A e : IsDocument(e)' <=> IsDocument(e) BY <1>1 DEF IsDocument
  <2> QED BY <1>1, <1>4, <1>9, <2>1 DEF DocumentsOK
<1>12. ~sync.failed BY <1>1, <1>4 DEF SyncOK
<1>13. SyncOK'
  <2>1. \A d \in outdated : d.path \in todo
    <3>1. \A d \in outdated : d.path \in DOMAIN sync.corpus BY <1>3, <1>5, <1>8
    <3>2. \A d \in outdated : d.path \notin {e.path : e \in current} BY <1>6, <1>8
    <3> QED BY <3>1, <3>2 DEF todo
  <2>2. todo \subseteq DOMAIN sync.corpus BY DEF todo
  <2>3. ~Importing' BY <1>7 DEF Importing
  <2> QED BY <1>4, <1>7, <1>12, <2>1, <2>2, <2>3 DEF SyncOK
<1>14. StraysCounted' BY <1>1, <1>4, <1>9, <1>10 DEF StraysCounted
<1>15. DoneSoFar'
  <2> SUFFICES ASSUME NEW p \in Paths
               PROVE  IF p \in DOMAIN sync.corpus \ todo THEN Holds(p, sync.corpus[p])'
                      ELSE Cardinality(Ids(p) \ Doomed') <= strays[p]
    <3>1. \A q : Ids(q)' \ (Doomed' \cup Own') = Ids(q) \ Doomed' BY <1>9, <1>10
    <3> QED BY <1>1, <1>7, <3>1 DEF DoneSoFar
  <2>1. Doomed' = {d.id : d \in obsolete \cup outdated} BY <1>9 DEF Doomed
  <2>2. Ids(p) \in SUBSET (1..ids) /\ strays[p] \in Nat BY <1>4, IdsAreIds
  <2>3. CASE p \in DOMAIN sync.corpus \ todo
    <3>1. PICK d \in current : d.path = p BY <2>3 DEF todo
    <3>2. d \in store /\ UpToDate(d) /\ d \in Documents BY <1>8, <1>9 DEF current
    <3>3. d.id \notin Doomed'
      <4>1. \A e \in obsolete \cup outdated : e \in Documents /\ e # d BY <1>8, <1>9
      <4> QED BY <1>4, <2>1, <3>2, <4>1 DEF DocumentsOK
    <3>4. d \in store' /\ d.path = p /\ d.hash = sync.corpus[p] /\ d.state = "active"
      BY <1>1, <3>1, <3>2 DEF UpToDate
    <3>5. Holds(p, sync.corpus[p])' BY <1>7, <3>3, <3>4 DEF Holds
    <3> QED BY <2>3, <3>5
  <2>4. CASE ~(p \in DOMAIN sync.corpus \ todo) /\ \E d \in Managed : d.path = p
    <3>1. PICK e \in existing : e.path = p BY <1>6, <2>4
    <3>2. p \in DOMAIN sync.corpus /\ p \in todo BY <1>3, <1>5, <2>4
    <3>3. e \notin current BY <3>1, <3>2 DEF todo
    <3>4. e \in outdated BY <3>3 DEF outdated
    <3>5. e.id \in Doomed' BY <2>1, <3>4
    <3>6. e.id \in Ids(p) BY <1>8, <1>9, <3>1 DEF Ids, IdsIn
    <3> DEFINE A == Ids(p)
               B == Ids(p) \ {e.id}
               C == Ids(p) \ Doomed'
    <3>7. A \in SUBSET (1..ids) /\ B \in SUBSET (1..ids) /\ C \in SUBSET B BY <2>2, <3>5
    <3>8. Cardinality(A) <= strays[p] + 1 BY <1>4 DEF StraysCounted
    <3>9. Cardinality(B) = Cardinality(A) - 1 /\ Cardinality(A) \in Nat
      BY <1>4, <3>6, <3>7, AllButOne
    <3> HIDE DEF A, B, C
    <3>10. Cardinality(C) <= Cardinality(B) /\ Cardinality(C) \in Nat /\ Cardinality(B) \in Nat
      BY <1>4, <3>7, Fewer
    <3>11. Cardinality(C) <= strays[p] BY <2>2, <3>8, <3>9, <3>10
    <3> QED BY <2>4, <3>11 DEF C
  <2>5. CASE ~(p \in DOMAIN sync.corpus \ todo) /\ ~\E d \in Managed : d.path = p
    <3>1. \A d \in store : d.path = p => d \in obsolete BY <2>5 DEF obsolete
    <3> DEFINE C == Ids(p) \ Doomed'
               D == HiddenIds(p) \ Awaited
    <3>2. C \subseteq D
      <4>1. \A x \in Ids(p) : \E d \in Documents : d.id = x /\ d.path = p BY DEF Ids, IdsIn
      <4>2. \A d \in Documents : d.path = p /\ d.id \notin Doomed' => d \in hidden
        BY <2>1, <3>1 DEF Documents
      <4> QED BY <1>9, <4>1, <4>2 DEF HiddenIds, IdsIn
    <3>3. D \in SUBSET (1..ids) /\ C \in SUBSET D BY <1>4, <3>2, IdsAreIds
    <3>4. Cardinality(D) <= strays[p] BY <1>4 DEF StraysCounted
    <3> HIDE DEF C, D
    <3>5. Cardinality(C) <= Cardinality(D) /\ Cardinality(C) \in Nat /\ Cardinality(D) \in Nat
      BY <1>4, <3>3, Fewer
    <3>6. Cardinality(C) <= strays[p] BY <2>2, <3>4, <3>5
    <3> QED BY <2>5, <3>6 DEF C
  <2> QED BY <2>3, <2>4, <2>5
<1>16. CacheHolds'
  <2>1. NoSync.at = "none" BY DEF NoSync
  <2> QED BY <1>7, <2>1 DEF CacheHolds
<1>17. CallersOK' BY <1>1, CallersStay DEF SyncInv
<1> QED BY <1>1, <1>4, <1>11, <1>13, <1>14, <1>15, <1>16, <1>17 DEF SyncInv

\* The parts of the invariant, as a step that leaves the cache alone starts with them.
LEMMA SyncParts ==
    ASSUME SyncInv
    PROVE  /\ CallersOK /\ DocumentsOK /\ SyncOK /\ StraysCounted /\ DoneSoFar /\ CacheHolds
           /\ strays \in [Paths -> Nat] /\ ids \in Nat /\ IsSync(sync)
           /\ DOMAIN sync.corpus \subseteq Paths /\ sync.todo \subseteq DOMAIN sync.corpus
  BY DEF SyncInv, SyncOK, DocumentsOK

\* While the synchronisation goes on, the cache does not matter.
LEMMA GoesOn ==
    ASSUME SyncInv, sync'.at # "none", UNCHANGED <<world, search>>,
           strays' \in [Paths -> Nat], DocumentsOK', SyncOK', StraysCounted', DoneSoFar'
    PROVE  SyncInv'
<1>1. CallersOK' BY CallersStay DEF SyncInv
<1>2. CacheHolds'
  <2>1. NoSync.at = "none" BY DEF NoSync
  <2> QED BY <2>1 DEF CacheHolds
<1> QED BY <1>1, <1>2 DEF SyncInv

LEMMA DeleteSync ==
    ASSUME SyncInv, Delete
    PROVE  SyncInv'
<1>1. PICK d \in Deletable :
        /\ store' = {x \in store : x.id # d.id} /\ hidden' = hidden /\ ids' = ids
        /\ sync' = Without(sync, d)
  BY DEF Delete, DeleteDocument, Without
<1>2. /\ sync.at = "work" /\ d \in Listed
  <2>1. sync.at = "work" BY <1>1 DEF Deletable
  <2>2. d \in sync.obsolete \/ d \in Outdated BY <1>1 DEF Deletable
  <2> QED BY <2>1, <2>2 DEF Listed, Outdated
<1>3. UNCHANGED <<world, search, cached, strays>> BY DEF Delete, SyncOnly, history
<1>4. /\ IsSync(sync') /\ sync'.at = "work" /\ sync'.corpus = sync.corpus
      /\ sync'.obsolete = sync.obsolete \ {d} /\ sync'.outdated = sync.outdated \ {d}
      /\ sync'.todo = sync.todo /\ sync'.failed = sync.failed
  BY <1>1, <1>2, SyncParts, Struck
<1>5. /\ Documents' \subseteq Documents /\ Listed' = Listed \ {d}
      /\ Awaited = {} /\ Awaited' = {} /\ Own = {} /\ Own' = {}
  BY <1>1, <1>2, <1>4 DEF Documents, Listed, Awaited, Own
<1>6. \A x \in Documents' : x.id # d.id
  <2>1. \A x \in hidden : x.id # d.id BY <1>2, SyncParts DEF DocumentsOK, Documents
  <2> QED BY <1>1, <2>1 DEF Documents
<1>7. DocumentsOK'
  <2>1. \A x : IsDocument(x)' <=> IsDocument(x) BY <1>1 DEF IsDocument
  <2> QED BY <1>1, <1>5, <2>1, SyncParts DEF DocumentsOK
<1>8. SyncOK'
  <2>1. ~Importing' BY <1>4 DEF Importing
  <2>2. \A x \in sync.outdated : x.path \in sync.todo BY SyncParts DEF SyncOK
  <2>3. ~sync.failed BY <1>2, SyncParts DEF SyncOK
  <2> QED BY <1>4, <2>1, <2>2, <2>3, SyncParts DEF SyncOK
<1>9. \A p : Ids(p)' \subseteq Ids(p) /\ HiddenIds(p)' = HiddenIds(p)
  BY <1>1, <1>5 DEF Ids, HiddenIds, IdsIn
<1>10. StraysCounted' BY <1>3, <1>5, <1>9, StillCounted, SyncParts
<1>11. DoneSoFar'
  <2> SUFFICES ASSUME NEW p \in Paths
               PROVE  IF p \in DOMAIN sync.corpus \ sync.todo THEN Holds(p, sync.corpus[p])'
                      ELSE Cardinality(Ids(p)' \ Doomed') <= strays[p]
    <3>1. \A q : Ids(q)' \ (Doomed' \cup Own') = Ids(q)' \ Doomed' BY <1>5
    <3> QED BY <1>3, <1>4, <3>1 DEF DoneSoFar
  <2>1. Doomed' \subseteq Doomed BY <1>5 DEF Doomed
  <2>2. IF p \in DOMAIN sync.corpus \ sync.todo THEN Holds(p, sync.corpus[p])
        ELSE Cardinality(Ids(p) \ Doomed) <= strays[p]
    <3>1. ~sync.failed BY <1>2, SyncParts DEF SyncOK
    <3>2. Ids(p) \ (Doomed \cup Own) = Ids(p) \ Doomed BY <1>5
    <3> QED BY <1>2, <3>1, <3>2, SyncParts DEF DoneSoFar
  <2>3. CASE p \in DOMAIN sync.corpus \ sync.todo
    <3>1. PICK e \in store : /\ e.path = p /\ e.hash = sync.corpus[p] /\ e.state = "active"
                             /\ e.id \notin Doomed
      BY <2>2, <2>3 DEF Holds
    <3>2. d.id \in Doomed BY <1>2 DEF Doomed
    <3>3. e \in store' BY <1>1, <3>1, <3>2
    <3>4. Holds(p, sync.corpus[p])' BY <1>4, <2>1, <3>1, <3>3 DEF Holds
    <3> QED BY <2>3, <3>4
  <2>4. CASE ~(p \in DOMAIN sync.corpus \ sync.todo)
    <3> DEFINE C == Ids(p)' \ Doomed'
               D == Ids(p) \ Doomed
    <3>1. C \subseteq D
      <4>1. \A x \in Ids(p)' : x \in Ids(p) /\ x # d.id
        <5>1. \A x \in Ids(p)' : \E e \in Documents' : e.id = x BY DEF Ids, IdsIn
        <5> QED BY <1>6, <1>9, <5>1
      <4>2. \A x \in Doomed : x = d.id \/ x \in Doomed' BY <1>5 DEF Doomed
      <4> QED BY <4>1, <4>2
    <3>2. D \in SUBSET (1..ids) /\ C \in SUBSET D /\ ids \in Nat BY <3>1, IdsAreIds, SyncParts
    <3>3. Cardinality(D) <= strays[p] /\ strays[p] \in Nat BY <2>2, <2>4, SyncParts
    <3> HIDE DEF C, D
    <3>4. Cardinality(C) <= Cardinality(D) /\ Cardinality(C) \in Nat /\ Cardinality(D) \in Nat
      BY <3>2, Fewer
    <3>5. Cardinality(C) <= strays[p] BY <3>3, <3>4
    <3> QED BY <2>4, <3>5 DEF C
  <2> QED BY <2>3, <2>4
<1>12. strays' \in [Paths -> Nat] /\ sync'.at # "none" BY <1>3, <1>4, SyncParts
<1> QED BY <1>3, <1>7, <1>8, <1>10, <1>11, <1>12, GoesOn

\* Nothing has changed in the store, and the same documents are doomed.
LEMMA SameStore ==
    ASSUME SyncInv, UNCHANGED <<store, hidden, ids>>, Listed' = Listed
    PROVE  /\ Documents' = Documents /\ Doomed' = Doomed /\ DocumentsOK'
           /\ \A p : Ids(p)' = Ids(p) /\ HiddenIds(p)' = HiddenIds(p)
           /\ \A p, hash : Holds(p, hash)' <=> Holds(p, hash)
           /\ Imported' <=> Imported
<1>1. Documents' = Documents /\ Doomed' = Doomed BY DEF Documents, Doomed
<1>2. DocumentsOK' BY <1>1, SyncParts DEF DocumentsOK, IsDocument
<1>3. \A p : Ids(p)' = Ids(p) /\ HiddenIds(p)' = HiddenIds(p) BY <1>1 DEF Ids, HiddenIds
<1>4. \A p, hash : Holds(p, hash)' <=> Holds(p, hash) BY <1>1 DEF Holds
<1>5. Imported' <=> Imported BY DEF Imported
<1> QED BY <1>1, <1>2, <1>3, <1>4, <1>5

LEMMA UploadSync ==
    ASSUME SyncInv, Upload
    PROVE  SyncInv'
<1>1. /\ sync.at = "work" /\ sync.todo # {} /\ Deletable = {} /\ sync' = At(sync, "import")
      /\ UNCHANGED <<store, hidden, ids, world, search, strays>>
  BY DEF Upload, UploadFile, Uploading, Goes, SyncOnly, history, At
<1>2. /\ IsSync(sync') /\ sync'.at = "import" /\ sync'.corpus = sync.corpus
      /\ sync'.obsolete = sync.obsolete /\ sync'.outdated = sync.outdated
      /\ sync'.todo = sync.todo /\ sync'.failed = sync.failed
  <2>1. "import" \in Stages BY DEF Stages
  <2> QED BY <1>1, <2>1, SyncParts, Moved
<1>3. sync.obsolete = {} /\ Outdated = {}
  <2>1. sync.obsolete = {} BY <1>1 DEF Deletable
  <2> QED BY <1>1, <2>1 DEF Deletable
<1>4. /\ Listed' = Listed /\ Outdated' = Outdated /\ Awaited = {} /\ Awaited' = {} /\ Own = {} /\ Own' = {}
  BY <1>1, <1>2 DEF Listed, Outdated, Path, Awaited, Own
<1>5. ~sync.failed BY <1>1, SyncParts DEF SyncOK
<1>6. SyncOK'
  <2>1. SyncOK BY SyncParts
  <2> QED BY <1>1, <1>2, <1>3, <1>4, <1>5, <2>1 DEF SyncOK
<1>7. StraysCounted' BY <1>1, <1>4, SameStore, SyncParts DEF StraysCounted
<1>8. DoneSoFar' BY <1>1, <1>2, <1>4, <1>5, SameStore, SyncParts DEF DoneSoFar
<1>9. strays' \in [Paths -> Nat] /\ sync'.at # "none" /\ DocumentsOK'
  BY <1>1, <1>2, <1>4, SameStore, SyncParts
<1> QED BY <1>1, <1>6, <1>7, <1>8, <1>9, GoesOn

New == [id |-> ids + 1, path |-> Path, hash |-> sync.corpus[Path], text |-> content,
        state |-> "pending"]

\* An import gives the store one document more, which it does not show yet.
LEMMA Imports ==
    ASSUME SyncInv, ImportFile, Listed' = Listed
    PROVE  /\ ids' = ids + 1 /\ store' = store /\ hidden' = hidden \cup {New}
           /\ Documents' = Documents \cup {New} /\ Doomed' = Doomed /\ DocumentsOK'
           /\ \A p : /\ Ids(p)' = IF p = Path THEN Ids(p) \cup {ids + 1} ELSE Ids(p)
                     /\ HiddenIds(p)' = IF p = Path THEN HiddenIds(p) \cup {ids + 1} ELSE HiddenIds(p)
           /\ \A d \in Documents' : d.id = ids' => d = New
<1>1. /\ ids' = ids + 1 /\ ids \in Nat /\ store' = store /\ hidden' = hidden \cup {New}
  BY SyncParts DEF ImportFile, New
<1>2. Documents' = Documents \cup {New} /\ Doomed' = Doomed BY <1>1 DEF Documents, Doomed
<1>3. DocumentsOK BY SyncParts
<1>4. \A d \in Documents \cup Listed : IsDocument(d) /\ d.id \in 1..ids
  BY <1>3 DEF DocumentsOK, IsDocument
<1>5. New.id = ids + 1 /\ New.path = Path /\ New \notin Documents
  BY <1>1, <1>4 DEF New
<1>6. \A d \in Documents \cup Listed : d.id # New.id BY <1>1, <1>4, <1>5
<1>7. DocumentsOK'
  <2>1. \A d \in Documents' \cup Listed' : IsDocument(d)'
    <3>1. \A d \in Documents \cup Listed : d.id \in 1..ids' BY <1>1, <1>4
    <3>2. \A d \in Documents \cup Listed : IsDocument(d)' BY <1>4, <3>1 DEF IsDocument
    <3>3. \A d \in {New} : IsDocument(d)'
      <4>1. New.id \in 1..ids' BY <1>1, <1>5
      <4>2. New = [id |-> New.id, path |-> New.path, hash |-> New.hash, text |-> New.text,
                     state |-> New.state]
        BY DEF New
      <4> QED BY <4>1, <4>2 DEF IsDocument
    <3> QED BY <1>2, <3>2, <3>3
  <2>2. \A d, e \in Documents' : d.id = e.id => d = e BY <1>2, <1>3, <1>6 DEF DocumentsOK
  <2>3. \A d \in hidden' : d \notin store' BY <1>1, <1>3, <1>5 DEF DocumentsOK, Documents
  <2>4. \A d \in Listed', e \in Documents' : d.id = e.id => d.path = e.path /\ e \notin hidden'
    <3> SUFFICES ASSUME NEW d \in Listed, NEW e \in Documents', d.id = e.id
                 PROVE  d.path = e.path /\ e \notin hidden'
      OBVIOUS
    <3>1. e \in Documents /\ e # New BY <1>2, <1>6
    <3> QED BY <1>1, <1>3, <3>1 DEF DocumentsOK
  <2>5. ids' \in Nat BY <1>1
  <2> QED BY <2>1, <2>2, <2>3, <2>4, <2>5 DEF DocumentsOK
<1>8. \A p : /\ Ids(p)' = IF p = Path THEN Ids(p) \cup {ids + 1} ELSE Ids(p)
             /\ HiddenIds(p)' = IF p = Path THEN HiddenIds(p) \cup {ids + 1} ELSE HiddenIds(p)
  <2> TAKE p
  <2>1. Ids(p)' = IF p = Path THEN Ids(p) \cup {ids + 1} ELSE Ids(p) BY <1>2, <1>5 DEF Ids, IdsIn
  <2>2. HiddenIds(p)' = IF p = Path THEN HiddenIds(p) \cup {ids + 1} ELSE HiddenIds(p)
    BY <1>1, <1>5 DEF HiddenIds, IdsIn
  <2> QED BY <2>1, <2>2
<1>9. \A d \in Documents' : d.id = ids' => d = New BY <1>1, <1>2, <1>5, <1>6
<1> QED BY <1>1, <1>2, <1>7, <1>8, <1>9

LEMMA OneMore ==
    ASSUME NEW n \in Nat, NEW T \in SUBSET (1..n), NEW x
    PROVE  Cardinality(T \cup {x}) <= Cardinality(T) + 1 /\ Cardinality(T) \in Nat
           /\ Cardinality(T \cup {x}) \in Nat
<1>1. IsFiniteSet(T) /\ Cardinality(T) \in Nat BY IdSet
<1>2. /\ IsFiniteSet(T \cup {x})
      /\ Cardinality(T \cup {x}) = IF x \in T THEN Cardinality(T) ELSE Cardinality(T) + 1
  BY <1>1, FS_AddElement
<1>3. Cardinality(T \cup {x}) \in Nat BY <1>2, FS_CardinalityType
<1> QED BY <1>1, <1>2, <1>3

LEMMA ImportSync ==
    ASSUME SyncInv, Import
    PROVE  SyncInv'
<1>1. /\ sync.at = "import" /\ ImportFile /\ sync' = At(sync, "poll")
      /\ UNCHANGED <<world, search, strays>>
  BY DEF Import, ImportFile, Goes, SyncOnly, history, At
<1>2. /\ IsSync(sync') /\ sync'.at = "poll" /\ sync'.corpus = sync.corpus
      /\ sync'.obsolete = sync.obsolete /\ sync'.outdated = sync.outdated
      /\ sync'.todo = sync.todo /\ sync'.failed = sync.failed
  <2>1. "poll" \in Stages BY DEF Stages
  <2> QED BY <1>1, <2>1, SyncParts, Moved
<1>3. /\ sync.obsolete = {} /\ Outdated = {} /\ ~sync.failed /\ sync.todo # {}
  <2>1. Importing BY <1>1 DEF Importing
  <2> QED BY <1>1, <2>1, SyncParts DEF SyncOK
<1>4. /\ Listed' = Listed /\ Outdated' = Outdated /\ Path' = Path /\ Awaited = {} /\ Own = {}
  BY <1>1, <1>2 DEF Listed, Outdated, Path, Awaited, Own
<1>5. Path \in sync.todo /\ Path \in Paths BY <1>3, PathIsToDo, SyncParts
<1>6. /\ ids' = ids + 1 /\ ids \in Nat /\ store' = store /\ Doomed' = Doomed /\ DocumentsOK'
      /\ \A p : /\ Ids(p)' = IF p = Path THEN Ids(p) \cup {ids + 1} ELSE Ids(p)
                /\ HiddenIds(p)' = IF p = Path THEN HiddenIds(p) \cup {ids + 1} ELSE HiddenIds(p)
      /\ \A d \in Documents' : d.id = ids' => d = New
  BY <1>1, <1>4, Imports, SyncParts
<1>7. Awaited' = {ids + 1} /\ Own' = {ids + 1} BY <1>2, <1>6 DEF Awaited, Own
<1>8. SyncOK'
  <2>1. \A d \in Documents' : d.id = ids' => d.path = Path /\ d.hash = sync.corpus[Path]
    BY <1>6 DEF New
  <2>2. SyncOK BY SyncParts
  <2>3. sync'.at # "discard" /\ sync'.at \notin {"none", "list"} /\ ~sync'.failed BY <1>2, <1>3
  <2> QED BY <1>2, <1>3, <1>4, <2>1, <2>2, <2>3 DEF SyncOK
\* Before the import, the path has no document but strays.
<1>9. \A p \in Paths : p \in sync.todo \/ p \notin DOMAIN sync.corpus =>
        Cardinality(Ids(p) \ Doomed) <= strays[p]
  <2>1. \A p : Ids(p) \ (Doomed \cup Own) = Ids(p) \ Doomed BY <1>4
  <2> QED BY <1>1, <1>3, <2>1, SyncParts DEF DoneSoFar
<1>10. Ids(Path) \cap Doomed = {}
  <2>1. \A x \in Ids(Path) : \E d \in Documents : d.id = x /\ d.path = Path BY DEF Ids, IdsIn
  <2>2. \A x \in Doomed : \E d \in sync.outdated : d.id = x /\ d.path # Path
    BY <1>3 DEF Doomed, Listed, Outdated
  <2>3. \A d \in sync.outdated, e \in Documents : d.id = e.id => d.path = e.path
    BY SyncParts DEF DocumentsOK, Listed
  <2> QED BY <2>1, <2>2, <2>3
<1>11. StraysCounted'
  <2> SUFFICES ASSUME NEW p \in Paths
               PROVE  /\ Cardinality(Ids(p)') <= strays[p] + 1
                      /\ Cardinality(HiddenIds(p)' \ Awaited') <= strays[p]
    BY <1>1 DEF StraysCounted
  <2>1. Ids(p) \in SUBSET (1..ids) /\ HiddenIds(p) \in SUBSET (1..ids) /\ strays[p] \in Nat
    BY IdsAreIds, SyncParts
  <2>2. Cardinality(Ids(p)') <= strays[p] + 1
    <3>1. CASE p # Path
      <4>1. Ids(p)' = Ids(p) BY <1>6, <3>1
      <4> QED BY <4>1, SyncParts DEF StraysCounted
    <3>2. CASE p = Path
      <4> DEFINE A == Ids(p)
                 n == ids + 1
      <4>1. Ids(p)' = A \cup {n} BY <1>6, <3>2
      <4>2. A \ Doomed = A BY <1>10, <3>2
      <4>3. Cardinality(A) <= strays[p] BY <1>5, <1>9, <3>2, <4>2
      <4>4. A \in SUBSET (1..ids) BY <2>1
      <4> HIDE DEF A, n
      <4>5. Cardinality(A \cup {n}) <= Cardinality(A) + 1 /\ Cardinality(A) \in Nat
            /\ Cardinality(A \cup {n}) \in Nat
        BY <1>6, <4>4, OneMore
      <4>6. Cardinality(A \cup {n}) <= strays[p] + 1 BY <2>1, <4>3, <4>5
      <4> QED BY <4>1, <4>6
    <3> QED BY <3>1, <3>2
  <2>3. HiddenIds(p)' \ Awaited' = HiddenIds(p) \ Awaited
    <3>1. ids + 1 \notin HiddenIds(p) BY <1>6, <2>1
    <3> QED BY <1>4, <1>6, <1>7, <3>1
  <2>4. Cardinality(HiddenIds(p)' \ Awaited') <= strays[p] BY <2>3, SyncParts DEF StraysCounted
  <2> QED BY <2>2, <2>4
<1>12. DoneSoFar'
  <2>1. \A p : Ids(p)' \ (Doomed' \cup Own') = Ids(p) \ (Doomed \cup Own)
    <3> TAKE p
    <3>1. ids + 1 \notin Ids(p) BY <1>6, IdsAreIds, SyncParts
    <3> QED BY <1>4, <1>6, <1>7, <3>1
  <2>2. \A p, hash : Holds(p, hash)' <=> Holds(p, hash) BY <1>6 DEF Holds
  <2> QED BY <1>1, <1>2, <1>3, <2>1, <2>2, SyncParts DEF DoneSoFar
<1>13. strays' \in [Paths -> Nat] /\ sync'.at # "none" BY <1>1, <1>2, SyncParts
<1> QED BY <1>1, <1>6, <1>8, <1>11, <1>12, <1>13, GoesOn

\* Of a document the store shows, no copy is hidden.
LEMMA ShownNotHidden ==
    ASSUME DocumentsOK, NEW d \in store
    PROVE  \A p : d.id \notin HiddenIds(p)
<1>1. \A e \in hidden : e.id # d.id BY DEF DocumentsOK, Documents
<1> QED BY <1>1 DEF HiddenIds, IdsIn

LEMMA PollSync ==
    ASSUME SyncInv, Poll
    PROVE  SyncInv'
<1>1. /\ sync.at = "poll" /\ Imported /\ sync' = At(sync, "discard")
      /\ UNCHANGED <<store, hidden, ids, world, search, strays>>
  BY DEF Poll, Goes, SyncOnly, history, At, remote
<1>2. /\ IsSync(sync') /\ sync'.at = "discard" /\ sync'.corpus = sync.corpus
      /\ sync'.obsolete = sync.obsolete /\ sync'.outdated = sync.outdated
      /\ sync'.todo = sync.todo /\ sync'.failed = sync.failed
  <2>1. "discard" \in Stages BY DEF Stages
  <2> QED BY <1>1, <2>1, SyncParts, Moved
<1>3. /\ Listed' = Listed /\ Outdated' = Outdated /\ Path' = Path /\ Awaited = {ids} /\ Awaited' = {}
      /\ Own' = Own /\ Importing /\ ~sync.failed
  <2>1. ~sync.failed BY <1>1, SyncParts DEF SyncOK
  <2> QED BY <1>1, <1>2, <2>1 DEF Listed, Outdated, Path, Awaited, Own, Importing
<1>4. SyncOK'
  <2>1. SyncOK BY SyncParts
  <2>2. Documents' = Documents /\ Imported' BY <1>1, <1>3, SameStore
  <2> QED BY <1>1, <1>2, <1>3, <2>1, <2>2 DEF SyncOK
<1>5. StraysCounted'
  <2>1. \A p : ids \notin HiddenIds(p)
    <3>1. \E d \in store : d.id = ids BY <1>1 DEF Imported
    <3> QED BY <3>1, ShownNotHidden, SyncParts
  <2>2. \A p : HiddenIds(p)' \ Awaited' = HiddenIds(p) \ Awaited BY <1>1, <1>3, <2>1, SameStore
  <2> QED BY <1>1, <1>3, <2>2, SameStore, SyncParts DEF StraysCounted
<1>6. DoneSoFar' BY <1>1, <1>2, <1>3, SameStore, SyncParts DEF DoneSoFar
<1>7. strays' \in [Paths -> Nat] /\ sync'.at # "none" /\ DocumentsOK'
  BY <1>1, <1>2, <1>3, SameStore, SyncParts
<1> QED BY <1>1, <1>4, <1>5, <1>6, <1>7, GoesOn

-----------------------------------------------------------------------------
(* Project knowledge: failures *)

\* The import is given up: if the store does not show the document yet, it is a stray.
LEMMA GivenUpCounts ==
    ASSUME SyncInv, NEW x \in Paths, Awaited' = {},
           strays' = IF \E d \in hidden' : d.id = ids' THEN [strays EXCEPT ![x] = @ + 1] ELSE strays,
           \A p : p # x => Ids(p)' = Ids(p) /\ HiddenIds(p)' = HiddenIds(p) \ Awaited,
           Cardinality(Ids(x)') <= Cardinality(Ids(x)) + 1,
           Cardinality(HiddenIds(x)') <= Cardinality(HiddenIds(x) \ Awaited) + 1,
           \/ \E d \in hidden' : d.id = ids'
           \/ Ids(x)' = Ids(x) /\ HiddenIds(x)' = HiddenIds(x) \ Awaited,
           Ids(x)' \subseteq 1..ids', HiddenIds(x)' \subseteq 1..ids', ids' \in Nat
    PROVE  strays' \in [Paths -> Nat] /\ StraysCounted'
<1> DEFINE more == \E d \in hidden' : d.id = ids'
           a == Cardinality(Ids(x))
           b == Cardinality(Ids(x)')
           c == Cardinality(HiddenIds(x) \ Awaited)
           d == Cardinality(HiddenIds(x)')
<1>1. strays \in [Paths -> Nat] /\ StraysCounted BY SyncParts
<1>2. strays' = IF more THEN [strays EXCEPT ![x] = @ + 1] ELSE strays OBVIOUS
<1>3. a \in Nat /\ b \in Nat /\ c \in Nat /\ d \in Nat
  <2>1. /\ Ids(x) \in SUBSET (1..ids) /\ HiddenIds(x) \ Awaited \in SUBSET (1..ids) /\ ids \in Nat
    BY IdsAreIds, SyncParts
  <2> QED BY <2>1, IdSet
<1>4. a <= strays[x] + 1 /\ c <= strays[x] /\ strays[x] \in Nat BY <1>1 DEF StraysCounted
<1>5. b <= a + 1 /\ d <= c + 1 /\ (more \/ (b = a /\ d = c)) OBVIOUS
<1> HIDE DEF more
<1>6. /\ \A p \in Paths : p # x => strays'[p] = strays[p]
      /\ strays'[x] = IF more THEN strays[x] + 1 ELSE strays[x]
      /\ strays' \in [Paths -> Nat]
  BY <1>1, <1>2
<1>7. b <= strays'[x] + 1 /\ d <= strays'[x]
  <2> HIDE DEF a, b, c, d
  <2> QED BY <1>3, <1>4, <1>5, <1>6
<1>8. \A p \in Paths : /\ Cardinality(Ids(p)') <= strays'[p] + 1
                       /\ Cardinality(HiddenIds(p)' \ Awaited') <= strays'[p]
  <2> TAKE p \in Paths
  <2>1. HiddenIds(p)' \ Awaited' = HiddenIds(p)' OBVIOUS
  <2>2. CASE p = x BY <1>7, <2>1, <2>2
  <2>3. CASE p # x
    <3>1. Ids(p)' = Ids(p) /\ HiddenIds(p)' = HiddenIds(p) \ Awaited BY <2>3
    <3>2. strays'[p] = strays[p] BY <1>6, <2>3
    <3>3. /\ Cardinality(Ids(p)) <= strays[p] + 1
          /\ Cardinality(HiddenIds(p) \ Awaited) <= strays[p] BY <1>1 DEF StraysCounted
    <3> QED BY <2>1, <3>1, <3>2, <3>3
  <2> QED BY <2>2, <2>3
<1> QED BY <1>6, <1>8 DEF StraysCounted

\* The awaited import is of the path to replace.
LEMMA AwaitedOfPath ==
    ASSUME SyncInv, sync.at = "poll"
    PROVE  /\ Path \in Paths
           /\ \A p : p # Path => ids \notin HiddenIds(p) /\ ids \notin Ids(p)
           /\ (~\E d \in hidden : d.id = ids) => \A p : ids \notin HiddenIds(p)
<1>1. Path \in Paths
  <2>1. sync.todo # {} BY SyncParts DEF SyncOK, Importing
  <2> QED BY <2>1, PathIsToDo, SyncParts
<1>2. \A d \in Documents : d.id = ids => d.path = Path BY SyncParts DEF SyncOK
<1>3. \A p : p # Path => ids \notin HiddenIds(p) /\ ids \notin Ids(p)
  BY <1>2 DEF HiddenIds, Ids, IdsIn, Documents
<1>4. (~\E d \in hidden : d.id = ids) => \A p : ids \notin HiddenIds(p)
  BY DEF HiddenIds, IdsIn
<1> QED BY <1>1, <1>3, <1>4

\* Of the import a synchronisation waits for, nothing changes in the store.
LEMMA AwaitedCounts ==
    ASSUME SyncInv, sync.at = "poll", UNCHANGED <<store, hidden, ids>>, Awaited' = {},
           strays' = IF \E d \in hidden : d.id = ids THEN [strays EXCEPT ![Path] = @ + 1] ELSE strays
    PROVE  strays' \in [Paths -> Nat] /\ StraysCounted'
<1>1. PICK x : x = Path OBVIOUS
<1>2. /\ x \in Paths
      /\ \A p : p # x => ids \notin HiddenIds(p)
      /\ (~\E d \in hidden : d.id = ids) => ids \notin HiddenIds(x)
  BY <1>1, AwaitedOfPath
<1>3. Awaited = {ids} BY DEF Awaited
<1>4. \A p : Ids(p)' = Ids(p) /\ HiddenIds(p)' = HiddenIds(p)
  BY DEF Ids, HiddenIds, Documents
<1>5. \A p : p # x => HiddenIds(p)' = HiddenIds(p) \ Awaited BY <1>2, <1>3, <1>4
<1>6. /\ Ids(x) \in SUBSET (1..ids) /\ HiddenIds(x) \in SUBSET (1..ids) /\ ids \in Nat
  BY IdsAreIds, SyncParts
<1>7. Cardinality(Ids(x)') <= Cardinality(Ids(x)) + 1
  <2>1. Cardinality(Ids(x)) \in Nat BY <1>6, IdSet
  <2> QED BY <1>4, <2>1
<1>8. Cardinality(HiddenIds(x)') <= Cardinality(HiddenIds(x) \ Awaited) + 1
  BY <1>3, <1>4, <1>6, AllButOne
<1>9. (\E d \in hidden' : d.id = ids') \/ (Ids(x)' = Ids(x) /\ HiddenIds(x)' = HiddenIds(x) \ Awaited)
  BY <1>2, <1>3, <1>4
<1>10. strays' = IF \E d \in hidden' : d.id = ids' THEN [strays EXCEPT ![x] = @ + 1] ELSE strays
  BY <1>1
<1>11. Ids(x)' \subseteq 1..ids' /\ HiddenIds(x)' \subseteq 1..ids' /\ ids' \in Nat BY <1>4, <1>6
<1> QED BY <1>2, <1>4, <1>5, <1>7, <1>8, <1>9, <1>10, <1>11, GivenUpCounts

\* The synchronisation will delete the upload and fail.
LEMMA FailingOK ==
    ASSUME SyncInv, Importing, sync' = Failing(sync)
    PROVE  /\ IsSync(sync') /\ sync'.at = "discard" /\ sync'.failed /\ sync'.todo = sync.todo
           /\ Listed' = Listed /\ Awaited' = {} /\ SyncOK' /\ DoneSoFar'
<1>1. /\ IsSync(sync') /\ sync'.at = "discard" /\ sync'.corpus = sync.corpus
      /\ sync'.obsolete = sync.obsolete /\ sync'.outdated = sync.outdated
      /\ sync'.todo = sync.todo /\ sync'.failed = TRUE
  BY SyncParts, GivenUp
<1>2. Listed' = Listed /\ Awaited' = {} BY <1>1 DEF Listed, Awaited
<1>3. Path' = Path /\ Outdated' = Outdated BY <1>1 DEF Path, Outdated
<1>4. sync'.failed /\ sync'.at # "poll" BY <1>1
<1>5. SyncOK'
  <2>1. SyncOK BY SyncParts
  <2>2. sync.todo # {} /\ sync.obsolete = {} /\ Outdated = {} BY <2>1 DEF SyncOK
  <2>3. DOMAIN sync.corpus \subseteq Paths /\ sync.todo \subseteq DOMAIN sync.corpus BY SyncParts
  <2>4. \A d \in sync.outdated : d.path \in sync.todo BY <2>1 DEF SyncOK
  <2>5. sync'.at \notin {"none", "list", "poll"} BY <1>1
  <2> QED BY <1>1, <1>3, <1>4, <2>2, <2>3, <2>4, <2>5 DEF SyncOK
<1>6. DoneSoFar' BY <1>4 DEF DoneSoFar
<1> QED BY <1>1, <1>2, <1>4, <1>5, <1>6

LEMMA GiveUpSync ==
    ASSUME SyncInv, GiveUp
    PROVE  SyncInv'
<1>1. /\ sync.at = "poll" /\ sync' = Failing(sync) /\ Importing
      /\ UNCHANGED <<store, hidden, ids, world, search>>
  BY DEF GiveUp, Throws, remote, Failing, Importing
<1>2. /\ IsSync(sync') /\ sync'.at = "discard" /\ sync'.failed /\ sync'.todo = sync.todo
      /\ Listed' = Listed /\ Awaited' = {} /\ SyncOK' /\ DoneSoFar'
  BY <1>1, FailingOK
<1>3. strays' = IF \E d \in hidden : d.id = ids THEN [strays EXCEPT ![Path] = @ + 1] ELSE strays
  <2>1. strays \in [Paths -> Nat] BY SyncParts
  <2> DEFINE more == \E d \in hidden : d.id = ids
  <2>2. strays' = [strays EXCEPT ![Path] = IF more THEN @ + 1 ELSE @] BY <1>1 DEF GiveUp, Throws
  <2> HIDE DEF more
  <2>3. strays' = IF more THEN [strays EXCEPT ![Path] = @ + 1] ELSE strays BY <2>1, <2>2
  <2> QED BY <2>3 DEF more
<1>4. strays' \in [Paths -> Nat] /\ StraysCounted' BY <1>1, <1>2, <1>3, AwaitedCounts
<1>5. DocumentsOK' /\ sync'.at # "none" BY <1>1, <1>2, SameStore
<1> QED BY <1>1, <1>2, <1>4, <1>5, GoesOn

LEMMA ImportFailsSync ==
    ASSUME SyncInv, ImportFails
    PROVE  SyncInv'
<1>1. /\ sync.at = "import" /\ sync' = Failing(sync) /\ Importing /\ UNCHANGED <<world, search>>
  BY DEF ImportFails, Throws, Failing, Importing
<1>2. /\ IsSync(sync') /\ sync'.at = "discard" /\ sync'.failed /\ sync'.todo = sync.todo
      /\ Listed' = Listed /\ Awaited' = {} /\ SyncOK' /\ DoneSoFar'
  BY <1>1, FailingOK
<1>3. Awaited = {} /\ sync'.at # "none" BY <1>1, <1>2 DEF Awaited
<1>4. CASE ImportFile /\ Throws
  <2>1. PICK x : x = Path OBVIOUS
  <2>2. x \in Paths
    <3>1. sync.todo # {} BY <1>1, SyncParts DEF SyncOK
    <3> QED BY <2>1, <3>1, PathIsToDo, SyncParts
  <2>3. /\ ids' = ids + 1 /\ hidden' = hidden \cup {New} /\ DocumentsOK' /\ ids \in Nat
        /\ \A p : /\ Ids(p)' = IF p = x THEN Ids(p) \cup {ids + 1} ELSE Ids(p)
                  /\ HiddenIds(p)' = IF p = x THEN HiddenIds(p) \cup {ids + 1} ELSE HiddenIds(p)
    BY <1>2, <1>4, <2>1, Imports, SyncParts
  <2>4. \E d \in hidden' : d.id = ids'
    <3>1. New.id = ids' BY <2>3 DEF New
    <3>2. New \in hidden' BY <2>3
    <3> QED BY <3>1, <3>2
  <2>5. strays' = [strays EXCEPT ![x] = @ + 1] BY <1>4, <2>1, <2>4 DEF Throws
  <2>6. Ids(x) \in SUBSET (1..ids) /\ HiddenIds(x) \in SUBSET (1..ids) BY IdsAreIds, SyncParts
  <2>7. Cardinality(Ids(x)') <= Cardinality(Ids(x)) + 1
    <3>1. Ids(x)' = Ids(x) \cup {ids + 1} BY <2>3
    <3>2. Cardinality(Ids(x) \cup {ids + 1}) <= Cardinality(Ids(x)) + 1 BY <2>3, <2>6, OneMore
    <3> QED BY <3>1, <3>2
  <2>8. Cardinality(HiddenIds(x)') <= Cardinality(HiddenIds(x) \ Awaited) + 1
    <3>1. HiddenIds(x)' = HiddenIds(x) \cup {ids + 1} /\ HiddenIds(x) \ Awaited = HiddenIds(x)
      BY <1>3, <2>3
    <3>2. Cardinality(HiddenIds(x) \cup {ids + 1}) <= Cardinality(HiddenIds(x)) + 1
      BY <2>3, <2>6, OneMore
    <3> QED BY <3>1, <3>2
  <2>9. \A p : p # x => Ids(p)' = Ids(p) /\ HiddenIds(p)' = HiddenIds(p) \ Awaited BY <1>3, <2>3
  <2>10. Ids(x)' \subseteq 1..ids' /\ HiddenIds(x)' \subseteq 1..ids' /\ ids' \in Nat BY <2>3, <2>6
  <2>11. strays' = IF \E d \in hidden' : d.id = ids' THEN [strays EXCEPT ![x] = @ + 1] ELSE strays
    BY <2>4, <2>5
  <2>12. strays' \in [Paths -> Nat] /\ StraysCounted'
    BY <1>2, <2>2, <2>4, <2>7, <2>8, <2>9, <2>10, <2>11, GivenUpCounts
  <2> QED BY <1>1, <1>2, <1>3, <2>3, <2>12, GoesOn
<1>5. CASE UNCHANGED <<remote, strays>>
  <2>1. UNCHANGED <<store, hidden, ids, strays>> BY <1>5 DEF remote
  <2>2. DocumentsOK' /\ strays' \in [Paths -> Nat] BY <1>2, <2>1, SameStore, SyncParts
  <2>3. StraysCounted' BY <1>2, <1>3, <2>1, SameStore, SyncParts DEF StraysCounted
  <2> QED BY <1>1, <1>2, <1>3, <2>2, <2>3, GoesOn
<1> QED BY <1>4, <1>5 DEF ImportFails

LEMMA DiscardedSync ==
    ASSUME SyncInv, sync.at = "discard", Discarded, UNCHANGED <<store, hidden, ids, strays>>
    PROVE  SyncInv'
<1>1. CASE sync.failed
  <2>1. sync' = NoSync /\ torn' /\ search' = Waiters([c \in Callers |-> Is("idle")]) /\ UNCHANGED world
    BY <1>1 DEF Discarded, Reject
  <2>2. CallersOK' BY <2>1, IdleCorpus, WaitersOK, SyncParts
  <2> QED BY <2>1, <2>2, SyncEnds
<1>2. CASE ~sync.failed
  <2>1. sync' = Done(sync, Path) /\ UNCHANGED <<world, search>> BY <1>2 DEF Discarded, Done
  <2>2. /\ IsSync(sync') /\ sync'.at = "work" /\ sync'.corpus = sync.corpus
        /\ sync'.obsolete = sync.obsolete /\ sync'.outdated = sync.outdated
        /\ sync'.todo = sync.todo \ {Path} /\ sync'.failed = sync.failed
    BY <2>1, SyncParts, Replaced
  <2>3. /\ Importing /\ sync.obsolete = {} /\ Outdated = {} /\ sync.todo # {} /\ Imported
        /\ \A d \in Documents : d.id = ids => d.path = Path /\ d.hash = sync.corpus[Path]
        /\ \A d \in sync.outdated : d.path \in sync.todo
    <3>1. Importing BY DEF Importing
    <3> QED BY <1>2, <3>1, SyncParts DEF SyncOK
  <2>4. Path \in sync.todo /\ Path \in Paths BY <2>3, PathIsToDo, SyncParts
  <2>5. /\ Listed' = Listed /\ Awaited = {} /\ Awaited' = {} /\ Own = {ids} /\ Own' = {}
    BY <2>2 DEF Listed, Awaited, Own
  <2>6. SyncOK'
    <3>1. \A d \in sync.outdated : d.path \in sync.todo \ {Path} BY <2>3 DEF Outdated
    <3>2. ~Importing' /\ sync'.at \notin {"none", "list", "poll", "discard"} BY <2>2 DEF Importing
    <3> QED BY <1>2, <2>2, <3>1, <3>2, SyncParts DEF SyncOK
  <2>7. StraysCounted' BY <2>5, SameStore, SyncParts DEF StraysCounted
  <2>8. Holds(Path, sync.corpus[Path])
    <3>1. PICK d \in store : d.id = ids /\ d.state = "active" BY <2>3 DEF Imported
    <3>2. d \in Documents /\ d.path = Path /\ d.hash = sync.corpus[Path] BY <2>3, <3>1 DEF Documents
    <3>3. d.id \notin Doomed
      <4>1. \A e \in sync.outdated : e.path # Path BY <2>3 DEF Outdated
      <4>2. \A e \in Listed : e.id = d.id => e.path = d.path BY <3>2, SyncParts DEF DocumentsOK
      <4> QED BY <2>3, <3>2, <4>1, <4>2 DEF Doomed, Listed
    <3> QED BY <3>1, <3>2, <3>3 DEF Holds
  <2>9. DoneSoFar'
    <3> SUFFICES ASSUME NEW p \in Paths
                 PROVE  IF p \in DOMAIN sync.corpus \ (sync.todo \ {Path}) THEN Holds(p, sync.corpus[p])
                        ELSE Cardinality(Ids(p) \ Doomed) <= strays[p]
      <4>1. \A q : Ids(q)' \ (Doomed' \cup Own') = Ids(q) \ Doomed BY <2>5, SameStore
      <4>2. \A q, hash : Holds(q, hash)' <=> Holds(q, hash) BY <2>5, SameStore
      <4> QED BY <2>2, <4>1, <4>2 DEF DoneSoFar
    <3>1. IF p \in DOMAIN sync.corpus \ sync.todo THEN Holds(p, sync.corpus[p])
          ELSE Cardinality(Ids(p) \ (Doomed \cup Own)) <= strays[p]
      BY <1>2, SyncParts DEF DoneSoFar
    <3>2. CASE p = Path
      <4>1. p \in DOMAIN sync.corpus \ (sync.todo \ {Path}) BY <2>4, <3>2, SyncParts
      <4> QED BY <2>8, <3>2, <4>1
    <3>3. CASE p # Path
      <4>1. ids \notin Ids(p) BY <2>3, <3>3 DEF Ids, IdsIn
      <4>2. Ids(p) \ (Doomed \cup Own) = Ids(p) \ Doomed BY <2>5, <4>1
      <4>3. p \in DOMAIN sync.corpus \ (sync.todo \ {Path}) <=> p \in DOMAIN sync.corpus \ sync.todo
        BY <3>3
      <4> QED BY <3>1, <4>2, <4>3
    <3> QED BY <3>2, <3>3
  <2>10. DocumentsOK' /\ strays' \in [Paths -> Nat] /\ sync'.at # "none"
    BY <2>2, <2>5, SameStore, SyncParts
  <2> QED BY <2>1, <2>6, <2>7, <2>9, <2>10, GoesOn
<1> QED BY <1>1, <1>2

-----------------------------------------------------------------------------
(* Project knowledge: its end *)

LEMMA SucceedSync ==
    ASSUME SyncInv, Succeed
    PROVE  SyncInv'
<1>1. /\ sync.at = "work" /\ sync.todo = {} /\ sync.obsolete = {} /\ cached' = sync.corpus
      /\ sync' = NoSync /\ search' = Waiters([c \in Callers |-> Ready(c)])
      /\ UNCHANGED <<world, store, hidden, ids, strays>>
  BY DEF Succeed, remote
<1>2. CallersOK'
  <2>1. \A c \in Callers : DOMAIN Ready(c).corpus \subseteq Paths BY IdleCorpus DEF Ready
  <2> QED BY <1>1, <2>1, WaitersOK, SyncParts
<1>3. sync.outdated = {} /\ ~sync.failed BY <1>1, SyncParts DEF SyncOK
<1>4. /\ sync'.at = "none" /\ sync'.obsolete = {} /\ sync'.outdated = {} /\ sync'.todo = {}
      /\ ~sync'.failed /\ sync'.corpus = NoCorpus
  BY <1>1 DEF NoSync
<1>5. /\ Listed = {} /\ Listed' = {} /\ Doomed = {} /\ Doomed' = {} /\ Awaited = {} /\ Awaited' = {}
      /\ Own = {} /\ Listed' = Listed
  BY <1>1, <1>3, <1>4 DEF Listed, Doomed, Awaited, Own
<1>6. DocumentsOK' BY <1>1, <1>5, SameStore
<1>7. SyncOK'
  <2>1. DOMAIN NoCorpus = {} BY DEF NoCorpus
  <2>2. ~Importing' BY <1>4 DEF Importing
  <2> QED BY <1>1, <1>4, <1>5, <2>1, <2>2, NoSyncIsSync DEF SyncOK
<1>8. StraysCounted' BY <1>1, <1>5, SameStore, SyncParts DEF StraysCounted
<1>9. DoneSoFar' BY <1>4 DEF DoneSoFar
<1>10. CacheHolds'
  <2>1. \A p \in Paths : IF p \in DOMAIN sync.corpus THEN Holds(p, sync.corpus[p])
                         ELSE Cardinality(Ids(p)) <= strays[p]
    <3>1. \A p : Ids(p) \ (Doomed \cup Own) = Ids(p) BY <1>5
    <3> QED BY <1>1, <1>3, <3>1, SyncParts DEF DoneSoFar
  <2>2. \A p : Ids(p)' = Ids(p) BY <1>1, <1>5, SameStore
  <2>3. \A p, hash : Holds(p, hash)' <=> Holds(p, hash) BY <1>1, <1>5, SameStore
  <2> QED BY <1>1, <2>1, <2>2, <2>3 DEF CacheHolds
<1>11. strays' \in [Paths -> Nat] BY <1>1, SyncParts
<1> QED BY <1>2, <1>6, <1>7, <1>8, <1>9, <1>10, <1>11 DEF SyncInv

LEMMA RequestFailsSync ==
    ASSUME SyncInv, RequestFails
    PROVE  SyncInv'
<1>1. /\ sync' = NoSync /\ torn' /\ search' = Waiters([c \in Callers |-> Is("idle")])
      /\ UNCHANGED <<world, strays>>
  BY DEF RequestFails, Reject
<1>2. CallersOK' BY <1>1, IdleCorpus, WaitersOK, SyncParts
<1>3. sync.at \in {"list", "work"} /\ ids' = ids /\ hidden' = hidden /\ store' \subseteq store
  <2>1. CASE sync.at = "list" /\ UNCHANGED remote BY <2>1 DEF remote
  <2>2. CASE CreateStore BY <2>2 DEF CreateStore
  <2>3. CASE \E d \in Deletable : DeleteDocument(d) \/ UNCHANGED remote
    <3>1. sync.at = "work" BY <2>3 DEF Deletable
    <3> QED BY <2>3, <3>1 DEF DeleteDocument, remote
  <2>4. CASE UploadFile BY <2>4 DEF UploadFile, Uploading
  <2>5. CASE Uploading /\ UNCHANGED <<remote, leaked>> BY <2>5 DEF Uploading, remote
  <2> QED BY <2>1, <2>2, <2>3, <2>4, <2>5 DEF RequestFails
<1> QED BY <1>1, <1>2, <1>3, SyncEnds

LEMMA RestartSync ==
    ASSUME SyncInv, Restart
    PROVE  SyncInv'
<1>1. /\ manifest' \in Manifests /\ search' \in Starts(manifest') /\ cached' = NoCorpus /\ sync' = NoSync
      /\ strays' = IF sync.at = "poll" /\ \E d \in hidden : d.id = ids
                   THEN [strays EXCEPT ![Path] = @ + 1] ELSE strays
      /\ UNCHANGED <<store, hidden, ids>>
  BY DEF Restart, remote
<1>2. CallersOK'
  <2>1. manifest' \subseteq Paths BY <1>1, KnowledgeAssumption DEF KnowledgeAssumption
  <2>2. DOMAIN Read(manifest').corpus = manifest' BY DEF Read
  <2>3. PICK boot \in {Is("idle"), Read(manifest')} :
           search' = [c \in Callers |-> IF c = Boot THEN boot ELSE Is("idle")]
    BY <1>1 DEF Starts
  <2> QED BY <1>1, <2>1, <2>2, <2>3, IdleCorpus DEF CallersOK
<1>3. CASE sync.at # "poll"
  <2>1. strays' = strays /\ store' \subseteq store BY <1>1, <1>3
  <2> QED BY <1>1, <1>2, <1>3, <2>1, SyncEnds
<1>4. CASE sync.at = "poll"
  <2>1. /\ Listed' = {} /\ sync'.at = "none" /\ sync'.todo = {} /\ ~sync'.failed
        /\ sync'.outdated = {} /\ sync'.obsolete = {} /\ sync'.corpus = NoCorpus
    BY <1>1 DEF Listed, NoSync
  <2>2. Awaited' = {} BY <2>1 DEF Awaited
  <2>3. strays' \in [Paths -> Nat] /\ StraysCounted' BY <1>1, <1>4, <2>2, AwaitedCounts
  <2>4. DocumentsOK'
    <3>1. Documents' = Documents BY <1>1 DEF Documents
    <3>2. \A x : IsDocument(x)' <=> IsDocument(x) BY <1>1 DEF IsDocument
    <3> QED BY <1>1, <2>1, <3>1, <3>2, SyncParts DEF DocumentsOK
  <2>5. SyncOK'
    <3>1. DOMAIN NoCorpus = {} BY DEF NoCorpus
    <3>2. ~Importing' BY <2>1 DEF Importing
    <3> QED BY <1>1, <2>1, <3>1, <3>2, NoSyncIsSync DEF SyncOK
  <2>6. DoneSoFar' /\ CacheHolds' BY <1>1, <2>1 DEF DoneSoFar, CacheHolds
  <2> QED BY <1>2, <2>3, <2>4, <2>5, <2>6 DEF SyncInv
<1> QED BY <1>3, <1>4

LEMMA NextSync ==
    ASSUME SyncInv, [Next]_vars
    PROVE  SyncInv'
<1>1. CASE \E c \in Searchers : Search(c)
  <2>1. Searchers \subseteq Callers BY DEF Callers
  <2> QED BY <1>1, <2>1, SearchSync
<1>2. CASE \E c \in Callers : EnsureCorpusReady(c) \/ Ask(c) BY <1>2, EnsureSync, SearchSync
<1>3. CASE SyncNext
  <2>1. CASE ListDocuments BY <2>1, ListSync
  <2>2. CASE Delete BY <2>2, DeleteSync
  <2>3. CASE Upload BY <2>3, UploadSync
  <2>4. CASE Import BY <2>4, ImportSync
  <2>5. CASE Poll BY <2>5, PollSync
  <2>6. CASE GiveUp BY <2>6, GiveUpSync
  <2>7. CASE Discard BY <2>7, DiscardedSync DEF Discard, DeleteFile
  <2>8. CASE Succeed BY <2>8, SucceedSync
  <2>9. CASE RequestFails BY <2>9, RequestFailsSync
  <2>10. CASE ImportFails BY <2>10, ImportFailsSync
  <2>11. CASE DiscardFails BY <2>11, DiscardedSync DEF DiscardFails, DeleteFile, remote
  <2> QED BY <1>3, <2>1, <2>2, <2>3, <2>4, <2>5, <2>6, <2>7, <2>8, <2>9, <2>10, <2>11 DEF SyncNext
<1>4. CASE Appear BY <1>4, AppearSync
<1>5. CASE Process BY <1>5, ProcessSync
<1>6. CASE \E p \in Paths : Edit(p) BY <1>6, EditSync
<1>7. CASE Restart BY <1>7, RestartSync
<1>8. CASE UNCHANGED vars BY <1>8, StutterSync
<1> QED BY <1>1, <1>2, <1>3, <1>4, <1>5, <1>6, <1>7, <1>8 DEF Next

-----------------------------------------------------------------------------
(* Project knowledge: what the documents say *)

\* Of a file that was not edited between its hashing and its upload, hash, upload and
\* document agree.
DocumentsSay == \A d \in Documents : d.path \notin drifted => d.text = d.hash
UploadSays == sync.at = "import" /\ Path \notin drifted => content = sync.corpus[Path]
HashesSay ==
    /\ DOMAIN disk = Paths
    /\ \A p \in ToUpload : p \notin drifted => sync.corpus[p] = disk[p]
    /\ \A c \in Callers : \A p \in DOMAIN search[c].corpus : p \notin drifted => search[c].corpus[p] = disk[p]
TextsInv == DocumentsSay /\ UploadSays /\ HashesSay

LEMMA InitTexts ==
    ASSUME Init
    PROVE  TextsInv
<1>1. /\ sync = NoSync /\ store = {} /\ hidden = {} /\ search \in Starts(manifest)
      /\ disk = [p \in Paths |-> CHOOSE text \in Texts : TRUE]
  BY DEF Init
<1>2. sync.at = "none" /\ ToUpload = {} BY <1>1 DEF NoSync, ToUpload
<1>3. DocumentsSay BY <1>1 DEF DocumentsSay, Documents
<1>4. PICK boot \in {Is("idle"), Read(manifest)} :
        search = [c \in Callers |-> IF c = Boot THEN boot ELSE Is("idle")]
  BY <1>1 DEF Starts
<1>5. \A p \in DOMAIN Read(manifest).corpus : Read(manifest).corpus[p] = disk[p] BY DEF Read
<1>6. DOMAIN Is("idle").corpus = {} BY DEF Is, NoCorpus
<1>7. HashesSay BY <1>1, <1>2, <1>4, <1>5, <1>6 DEF HashesSay
<1>8. UploadSays BY <1>2 DEF UploadSays
<1> QED BY <1>3, <1>7, <1>8 DEF TextsInv

\* A step that edits no file and adds no path to upload.
LEMMA TextsKeep ==
    ASSUME TextsInv, UNCHANGED <<disk, drifted>>, DocumentsSay',
           sync'.at # "import" \/ UNCHANGED <<sync, content>>,
           ToUpload' = {} \/ (sync'.corpus = sync.corpus /\ ToUpload' \subseteq ToUpload),
           \A c \in Callers : search'[c].corpus = search[c].corpus \/ DOMAIN search'[c].corpus = {}
    PROVE  TextsInv'
<1>1. UploadSays'
  <2>1. sync' = sync => Path' = Path BY DEF Path
  <2> QED BY <2>1 DEF TextsInv, UploadSays
<1>2. HashesSay' BY DEF TextsInv, HashesSay
<1> QED BY <1>1, <1>2 DEF TextsInv

\* No document is added, and none changes what it says.
LEMMA SameTexts ==
    ASSUME DocumentsSay, drifted' = drifted,
           \A d \in Documents' : \E e \in Documents : d.path = e.path /\ d.hash = e.hash /\ d.text = e.text
    PROVE  DocumentsSay'
  BY DEF DocumentsSay

LEMMA ToUploadOf ==
    /\ sync.at = "list" => ToUpload = DOMAIN sync.corpus
    /\ sync.at \in {"import", "poll", "discard"} => ToUpload = sync.todo \ {Path}
    /\ sync.at \in {"none", "work"} => ToUpload = sync.todo
    /\ sync = NoSync => ToUpload = {}
<1>1. NoSync.at = "none" /\ NoSync.todo = {} BY DEF NoSync
<1> QED BY <1>1 DEF ToUpload

\* The same for the next state.
LEMMA ToUploadNext ==
    /\ sync'.at = "list" => ToUpload' = DOMAIN sync'.corpus
    /\ sync'.at \in {"import", "poll", "discard"} => ToUpload' = sync'.todo \ {Path'}
    /\ sync'.at \in {"none", "work"} => ToUpload' = sync'.todo
    /\ sync' = NoSync => ToUpload' = {}
<1>1. NoSync.at = "none" /\ NoSync.todo = {} BY DEF NoSync
<1> QED BY <1>1 DEF ToUpload

LEMMA WaitersRead ==
    ASSUME NEW next, search' = Waiters(next), \A c \in Callers : DOMAIN next[c].corpus = {}
    PROVE  \A c \in Callers : search'[c].corpus = search[c].corpus \/ DOMAIN search'[c].corpus = {}
  BY DEF Waiters

LEMMA NothingRead == \A at : DOMAIN Is(at).corpus = {}
  BY DEF Is, NoCorpus

\* A synchronisation that ends has nothing left to upload.
LEMMA SyncEndsTexts ==
    ASSUME TextsInv, sync' = NoSync, UNCHANGED <<disk, drifted>>, hidden' = hidden, store' \subseteq store,
           \A c \in Callers : search'[c].corpus = search[c].corpus \/ DOMAIN search'[c].corpus = {}
    PROVE  TextsInv'
<1>1. sync'.at = "none" /\ ToUpload' = {} BY ToUploadNext DEF NoSync
<1>2. DocumentsSay'
  <2>1. Documents' \subseteq Documents BY DEF Documents
  <2> QED BY <2>1, SameTexts DEF TextsInv
<1> QED BY <1>1, <1>2, TextsKeep

LEMMA CallersTexts ==
    ASSUME SyncInv, TextsInv, NEW c \in Callers, EnsureCorpusReady(c) \/ Search(c) \/ Ask(c)
    PROVE  TextsInv'
<1>1. UNCHANGED <<disk, drifted, store, hidden, content>>
  BY DEF EnsureCorpusReady, Search, Ask, world, remote
<1>2. DocumentsSay' BY <1>1 DEF TextsInv, DocumentsSay, Documents
<1>3. DOMAIN search = Callers BY DEF SyncInv, CallersOK
<1>4. CASE Search(c)
  <2>1. search' = [search EXCEPT ![c] = Read(manifest)] /\ sync' = sync BY <1>4 DEF Search
  <2>2. \A p \in DOMAIN Read(manifest).corpus : Read(manifest).corpus[p] = disk[p] BY DEF Read
  <2>3. Path' = Path /\ ToUpload' = ToUpload BY <2>1 DEF Path, ToUpload
  <2>4. HashesSay' BY <1>1, <1>3, <2>1, <2>2, <2>3 DEF TextsInv, HashesSay
  <2>5. UploadSays' BY <1>1, <2>1, <2>3 DEF TextsInv, UploadSays
  <2> QED BY <1>2, <2>4, <2>5 DEF TextsInv
<1>5. CASE sync' = sync /\ \E at : search' = [search EXCEPT ![c] = Is(at)]
  <2>1. \A x \in Callers : search'[x].corpus = search[x].corpus \/ DOMAIN search'[x].corpus = {}
    BY <1>3, <1>5, NothingRead
  <2>2. ToUpload' = ToUpload BY <1>5 DEF ToUpload, Path
  <2> QED BY <1>1, <1>2, <1>5, <2>1, <2>2, TextsKeep
<1>6. CASE EnsureCorpusReady(c) /\ sync = NoSync /\ search[c].corpus # cached
  <2>1. /\ search' = [search EXCEPT ![c] = Is("waiting")]
        /\ sync' = [NoSync EXCEPT !.at = "list", !.corpus = search[c].corpus]
    BY <1>6 DEF EnsureCorpusReady
  <2>2. sync'.at = "list" /\ sync'.corpus = search[c].corpus BY <2>1 DEF NoSync
  <2>3. ToUpload' = DOMAIN search[c].corpus BY <2>2, ToUploadNext
  <2>4. \A x \in Callers : search'[x].corpus = search[x].corpus \/ DOMAIN search'[x].corpus = {}
    BY <1>3, <2>1, NothingRead
  <2>5. HashesSay' BY <1>1, <2>2, <2>3, <2>4 DEF TextsInv, HashesSay
  <2>6. UploadSays' BY <2>2 DEF UploadSays
  <2> QED BY <1>2, <2>5, <2>6 DEF TextsInv
<1> QED BY <1>4, <1>5, <1>6 DEF EnsureCorpusReady, Ask, Ready

\* The file is edited: what a caller or the synchronisation read of it before is marked.
LEMMA EditTexts ==
    ASSUME SyncInv, TextsInv, NEW p \in Paths, Edit(p)
    PROVE  TextsInv'
<1>1. /\ UNCHANGED <<search, sync, store, hidden, content>> /\ drifted' = drifted \cup (Hashed \cap {p})
  BY DEF Edit, remote
<1>2. PICK text : disk' = [disk EXCEPT ![p] = text] BY DEF Edit
<1>3. ToUpload' = ToUpload /\ Path' = Path /\ Documents' = Documents
  BY <1>1 DEF ToUpload, Path, Documents
<1>4. drifted \subseteq drifted' BY <1>1
<1>5. DocumentsSay' BY <1>3, <1>4 DEF TextsInv, DocumentsSay
<1>6. UploadSays' BY <1>1, <1>3, <1>4 DEF TextsInv, UploadSays
<1>7. ToUpload \subseteq Paths
  <2>1. sync.todo \subseteq Paths /\ DOMAIN sync.corpus \subseteq Paths BY SyncParts
  <2> QED BY <2>1 DEF ToUpload
<1>8. \A q : q \in Hashed /\ q \notin drifted' => q # p BY <1>1
<1>9. HashesSay'
  <2>1. DOMAIN disk = Paths /\ DOMAIN disk' = Paths /\ \A q \in Paths : q # p => disk'[q] = disk[q]
    BY <1>2 DEF TextsInv, HashesSay
  <2>2. \A q \in ToUpload : q \notin drifted' => sync.corpus[q] = disk'[q]
    <3>1. ToUpload \subseteq Hashed BY DEF Hashed
    <3> QED BY <1>4, <1>7, <1>8, <2>1, <3>1 DEF TextsInv, HashesSay
  <2>3. \A c \in Callers : \A q \in DOMAIN search[c].corpus :
          q \notin drifted' => search[c].corpus[q] = disk'[q]
    <3> TAKE c \in Callers
    <3>1. DOMAIN search[c].corpus \subseteq Hashed BY DEF Hashed
    <3>2. DOMAIN search[c].corpus \subseteq Paths BY SyncParts DEF CallersOK
    <3> QED BY <1>4, <1>8, <2>1, <3>1, <3>2 DEF TextsInv, HashesSay
  <2> QED BY <1>1, <1>3, <2>1, <2>2, <2>3 DEF HashesSay
<1> QED BY <1>5, <1>6, <1>9 DEF TextsInv

\* The server starts again, and reads what the files say now.
LEMMA RestartTexts ==
    ASSUME TextsInv, Restart
    PROVE  TextsInv'
<1>1. /\ sync' = NoSync /\ search' \in Starts(manifest') /\ UNCHANGED <<disk, drifted, store, hidden>>
  BY DEF Restart, remote
<1>2. ToUpload' = {} /\ sync'.at = "none" BY <1>1, ToUploadNext DEF NoSync
<1>3. DocumentsSay' BY <1>1 DEF TextsInv, DocumentsSay, Documents
<1>4. UploadSays' BY <1>2 DEF UploadSays
<1>5. PICK boot \in {Is("idle"), Read(manifest')} :
        search' = [c \in Callers |-> IF c = Boot THEN boot ELSE Is("idle")]
  BY <1>1 DEF Starts
<1>6. \A p \in DOMAIN Read(manifest').corpus : Read(manifest').corpus[p] = disk[p] BY DEF Read
<1>7. HashesSay' BY <1>1, <1>2, <1>5, <1>6, NothingRead DEF TextsInv, HashesSay
<1> QED BY <1>3, <1>4, <1>7 DEF TextsInv

\* What the store does changes no document's words.
LEMMA StoreTexts ==
    ASSUME SyncInv, TextsInv, Appear \/ Process
    PROVE  TextsInv'
<1>1. UNCHANGED <<disk, drifted, sync, content, search>> BY DEF Appear, Process, External, world
<1>2. ToUpload' = ToUpload BY <1>1 DEF ToUpload, Path
<1>3. \A d \in Documents' : \E e \in Documents : d.path = e.path /\ d.hash = e.hash /\ d.text = e.text
  <2>1. CASE Documents' \subseteq Documents BY <2>1
  <2>2. ASSUME NEW d \in store, NEW state, Becomes(d, state)
        PROVE  \A x \in Documents' : \E e \in Documents :
                 x.path = e.path /\ x.hash = e.hash /\ x.text = e.text
    <3> DEFINE x == [d EXCEPT !.state = state]
    <3>1. d \in Documents BY DEF Documents
    <3>2. x.path = d.path /\ x.hash = d.hash /\ x.text = d.text
      <4>1. d = [id |-> d.id, path |-> d.path, hash |-> d.hash, text |-> d.text, state |-> d.state]
        BY <3>1, SyncParts DEF DocumentsOK, IsDocument
      <4> QED BY <4>1
    <3> HIDE DEF x
    <3>3. Documents' \subseteq Documents \cup {x} BY <2>2 DEF Becomes, Documents, x
    <3> QED BY <3>1, <3>2, <3>3
  <2>3. Documents' \subseteq Documents \/ \E d \in store : \E state : Becomes(d, state)
    BY DEF Appear, Process, Documents
  <2> QED BY <2>1, <2>2, <2>3
<1>4. DocumentsSay' BY <1>1, <1>3, SameTexts DEF TextsInv
<1> QED BY <1>1, <1>2, <1>4, TextsKeep

\* An import makes a document of the upload.
LEMMA ImportTexts ==
    ASSUME SyncInv, TextsInv, ImportFile, drifted' = drifted
    PROVE  DocumentsSay'
<1>1. Documents' = Documents \cup {New} BY DEF ImportFile, Documents, New
<1>2. New.path = Path /\ New.hash = sync.corpus[Path] /\ New.text = content BY DEF New
<1>3. sync.at = "import" BY DEF ImportFile
<1> QED BY <1>1, <1>2, <1>3 DEF TextsInv, DocumentsSay, UploadSays

LEMMA DiscardedTexts ==
    ASSUME SyncInv, TextsInv, sync.at = "discard", Discarded, UNCHANGED <<store, hidden>>
    PROVE  TextsInv'
<1>1. UNCHANGED <<disk, drifted>> BY DEF Discarded, Reject, world
<1>2. CASE sync.failed
  <2>1. sync' = NoSync /\ search' = Waiters([c \in Callers |-> Is("idle")])
    BY <1>2 DEF Discarded, Reject
  <2>2. \A c \in Callers : search'[c].corpus = search[c].corpus \/ DOMAIN search'[c].corpus = {}
    BY <2>1, NothingRead, WaitersRead
  <2> QED BY <1>1, <2>1, <2>2, SyncEndsTexts
<1>3. CASE ~sync.failed
  <2>1. sync' = Done(sync, Path) /\ search' = search BY <1>3 DEF Discarded, Done
  <2>2. sync'.at = "work" /\ sync'.corpus = sync.corpus /\ sync'.todo = sync.todo \ {Path}
    BY <2>1, SyncParts, Replaced
  <2>3. ToUpload' = ToUpload BY <2>2, ToUploadOf, ToUploadNext
  <2>4. DocumentsSay' BY <1>1 DEF TextsInv, DocumentsSay, Documents
  <2> QED BY <1>1, <2>1, <2>2, <2>3, <2>4, TextsKeep
<1> QED BY <1>2, <1>3

LEMMA SyncNextTexts ==
    ASSUME SyncInv, TextsInv, SyncNext
    PROVE  TextsInv'
<1>1. UNCHANGED <<disk, drifted>>
  BY DEF SyncNext, ListDocuments, Delete, Upload, Import, Poll, GiveUp, Discard, Discarded, Succeed,
         RequestFails, ImportFails, DiscardFails, Throws, Reject, SyncOnly, world
<1>2. CASE ListDocuments
  <2>1. /\ sync.at = "list" /\ UNCHANGED <<store, hidden, search>>
    BY <1>2 DEF ListDocuments, SyncOnly, CreateStore, remote
  <2>2. PICK obsolete, outdated, todo :
          sync' = WorkOn(sync, obsolete, outdated, todo) /\ todo \subseteq DOMAIN sync.corpus
    <3>1. PICK existing \in ExistingByPath :
            sync' = [sync EXCEPT !.at = "work", !.obsolete = store \ Managed,
                                 !.outdated = existing \ {d \in existing : UpToDate(d)},
                                 !.todo = DOMAIN sync.corpus \ {d.path : d \in {d \in existing : UpToDate(d)}}]
      BY <1>2 DEF ListDocuments
    <3> DEFINE outdated == existing \ {d \in existing : UpToDate(d)}
               todo == DOMAIN sync.corpus \ {d.path : d \in {d \in existing : UpToDate(d)}}
    <3>2. sync' = WorkOn(sync, store \ Managed, outdated, todo) BY <3>1, Zenon DEF WorkOn
    <3>3. todo \subseteq DOMAIN sync.corpus OBVIOUS
    <3> QED BY <3>2, <3>3
  <2>3. sync'.at = "work" /\ sync'.corpus = sync.corpus /\ sync'.todo = todo
    BY <2>2, ListedOnce, SyncParts
  <2>4. ToUpload' \subseteq ToUpload BY <2>1, <2>2, <2>3, ToUploadOf, ToUploadNext
  <2>5. DocumentsSay' BY <1>1, <2>1 DEF TextsInv, DocumentsSay, Documents
  <2> QED BY <1>1, <2>1, <2>3, <2>4, <2>5, TextsKeep
<1>3. CASE Delete
  <2>1. PICK d \in Deletable : DeleteDocument(d) /\ sync' = Without(sync, d)
    BY <1>3, Zenon DEF Delete, Without
  <2>2. sync.at = "work" /\ search' = search BY <1>3, <2>1 DEF Deletable, Delete, SyncOnly
  <2>3. sync'.at = "work" /\ sync'.corpus = sync.corpus /\ sync'.todo = sync.todo
    BY <2>1, <2>2, Struck, SyncParts
  <2>4. ToUpload' = ToUpload BY <2>2, <2>3, ToUploadOf, ToUploadNext
  <2>5. DocumentsSay'
    <3>1. Documents' \subseteq Documents BY <2>1 DEF DeleteDocument, Documents
    <3> QED BY <1>1, <3>1, SameTexts DEF TextsInv
  <2> QED BY <1>1, <2>2, <2>3, <2>4, <2>5, TextsKeep
\* The upload says what the file says now, and that is what was hashed unless it is marked.
<1>4. CASE Upload
  <2>1. /\ sync.at = "work" /\ sync.todo # {} /\ sync' = At(sync, "import") /\ content' = disk[Path]
        /\ UNCHANGED <<store, hidden, search>>
    BY <1>4 DEF Upload, UploadFile, Uploading, Goes, SyncOnly, At
  <2>2. sync'.at = "import" /\ sync'.corpus = sync.corpus /\ sync'.todo = sync.todo
    <3>1. "import" \in Stages BY DEF Stages
    <3> QED BY <2>1, <3>1, Moved, SyncParts
  <2>3. Path' = Path BY <2>2 DEF Path
  <2>4. Path \in sync.todo BY <2>1, PathIsToDo, SyncParts
  <2>5. ToUpload = sync.todo /\ ToUpload' \subseteq ToUpload
    BY <2>1, <2>2, <2>3, ToUploadOf, ToUploadNext
  <2>6. UploadSays' BY <1>1, <2>1, <2>2, <2>3, <2>4, <2>5 DEF TextsInv, HashesSay, UploadSays
  <2>7. HashesSay' BY <1>1, <2>1, <2>2, <2>5 DEF TextsInv, HashesSay
  <2>8. DocumentsSay' BY <1>1, <2>1 DEF TextsInv, DocumentsSay, Documents
  <2> QED BY <2>6, <2>7, <2>8 DEF TextsInv
<1>5. CASE Import \/ Poll \/ GiveUp \/ ImportFails
  <2>1. /\ sync.at \in {"import", "poll"} /\ search' = search
        /\ sync' = At(sync, "poll") \/ sync' = At(sync, "discard") \/ sync' = Failing(sync)
    BY <1>5 DEF Import, ImportFile, Poll, GiveUp, ImportFails, Throws, Goes, SyncOnly, At, Failing
  <2>2. sync'.at \in {"poll", "discard"} /\ sync'.corpus = sync.corpus /\ sync'.todo = sync.todo
    <3>1. IsSync(sync) /\ "poll" \in Stages /\ "discard" \in Stages BY SyncParts DEF Stages
    <3>2. CASE sync' = At(sync, "poll") BY <3>1, <3>2, Moved
    <3>3. CASE sync' = At(sync, "discard") BY <3>1, <3>3, Moved
    <3>4. CASE sync' = Failing(sync) BY <3>1, <3>4, GivenUp
    <3> QED BY <2>1, <3>2, <3>3, <3>4
  <2>3. Path' = Path BY <2>2 DEF Path
  <2>4. ToUpload' = ToUpload BY <2>1, <2>2, <2>3, ToUploadOf, ToUploadNext
  <2>5. ImportFile \/ UNCHANGED <<store, hidden>>
    BY <1>5 DEF Import, Poll, GiveUp, ImportFails, remote
  <2>6. DocumentsSay' BY <1>1, <2>5, ImportTexts DEF TextsInv, DocumentsSay, Documents
  <2> QED BY <1>1, <2>1, <2>2, <2>4, <2>6, TextsKeep
<1>6. CASE Discard \/ DiscardFails
  BY <1>6, DiscardedTexts DEF Discard, DiscardFails, DeleteFile, remote
<1>7. CASE Succeed
  <2>1. sync' = NoSync /\ search' = Waiters([c \in Callers |-> Ready(c)]) /\ UNCHANGED <<store, hidden>>
    BY <1>7 DEF Succeed, remote
  <2>2. \A c \in Callers : DOMAIN Ready(c).corpus = {} BY NothingRead DEF Ready
  <2>3. \A c \in Callers : search'[c].corpus = search[c].corpus \/ DOMAIN search'[c].corpus = {}
    BY <2>1, <2>2, WaitersRead
  <2> QED BY <1>1, <2>1, <2>3, SyncEndsTexts
<1>8. CASE RequestFails
  <2>1. sync' = NoSync /\ search' = Waiters([c \in Callers |-> Is("idle")])
    BY <1>8 DEF RequestFails, Reject
  <2>2. hidden' = hidden /\ store' \subseteq store
    BY <1>8 DEF RequestFails, CreateStore, DeleteDocument, UploadFile, remote
  <2>3. \A c \in Callers : search'[c].corpus = search[c].corpus \/ DOMAIN search'[c].corpus = {}
    BY <2>1, NothingRead, WaitersRead
  <2> QED BY <1>1, <2>1, <2>2, <2>3, SyncEndsTexts
<1> QED BY <1>2, <1>3, <1>4, <1>5, <1>6, <1>7, <1>8 DEF SyncNext

LEMMA NextTexts ==
    ASSUME SyncInv, TextsInv, [Next]_vars
    PROVE  TextsInv'
<1>1. CASE \E c \in Searchers : Search(c)
  <2>1. Searchers \subseteq Callers BY DEF Callers
  <2> QED BY <1>1, <2>1, CallersTexts
<1>2. CASE \E c \in Callers : EnsureCorpusReady(c) \/ Ask(c) BY <1>2, CallersTexts
<1>3. CASE SyncNext BY <1>3, SyncNextTexts
<1>4. CASE Appear \/ Process BY <1>4, StoreTexts
<1>5. CASE \E p \in Paths : Edit(p) BY <1>5, EditTexts
<1>6. CASE Restart BY <1>6, RestartTexts
<1>7. CASE UNCHANGED vars
  <2>1. UNCHANGED <<disk, drifted, sync, content, search, store, hidden>>
    BY <1>7 DEF vars, world, remote
  <2>2. ToUpload' = ToUpload /\ DocumentsSay'
    BY <2>1 DEF ToUpload, Path, TextsInv, DocumentsSay, Documents
  <2> QED BY <2>1, <2>2, TextsKeep
<1> QED BY <1>1, <1>2, <1>3, <1>4, <1>5, <1>6, <1>7 DEF Next

-----------------------------------------------------------------------------
(* Project knowledge: the theorems *)

\* The documents the store shows of a path are no more than the ids it has.
LEMMA CountByIds ==
    ASSUME DocumentsOK, NEW p
    PROVE  Cardinality(DocumentsOf(p)) <= Cardinality(Ids(p)) /\ Cardinality(Ids(p)) \in Nat
           /\ Cardinality(DocumentsOf(p)) \in Nat
<1> DEFINE X == DocumentsOf(p)
           f == [x \in X |-> x.id]
<1>1. f \in Injection(X, Ids(p))
  <2>1. \A x \in X : x \in Documents /\ x.path = p BY DEF DocumentsOf, Documents
  <2>2. \A x \in X : x.id \in Ids(p) BY <2>1 DEF Ids, IdsIn
  <2>3. \A x, y \in X : x.id = y.id => x = y BY <2>1 DEF DocumentsOK
  <2> QED BY <2>2, <2>3 DEF Injection, IsInjective
<1>2. IsFiniteSet(Ids(p)) /\ Cardinality(Ids(p)) \in Nat
  <2>1. Ids(p) \in SUBSET (1..ids) /\ ids \in Nat BY IdsAreIds DEF DocumentsOK
  <2> QED BY <2>1, IdSet
<1> HIDE DEF X, f
<1>3. IsFiniteSet(X) /\ Cardinality(X) <= Cardinality(Ids(p)) BY <1>1, <1>2, FS_Injection
<1>4. Cardinality(X) \in Nat BY <1>3, FS_CardinalityType
<1> QED BY <1>2, <1>3, <1>4 DEF X

LEMMA SyncMatches ==
    ASSUME SyncInv, TextsInv
    PROVE  StoreMatchesCache
<1> SUFFICES ASSUME cached # NoCorpus, sync = NoSync, ~torn, NEW p \in Paths
             PROVE  /\ p \in DOMAIN cached =>
                        \E d \in DocumentsOf(p) :
                            /\ d.hash = cached[p] /\ d.state = "active"
                            /\ p \notin drifted => d.text = cached[p]
                    /\ Cardinality(DocumentsOf(p)) <= strays[p] + (IF p \in DOMAIN cached THEN 1 ELSE 0)
  BY DEF StoreMatchesCache
<1>1. IF p \in DOMAIN cached THEN Holds(p, cached[p]) ELSE Cardinality(Ids(p)) <= strays[p]
  BY SyncParts DEF CacheHolds
<1>2. Cardinality(Ids(p)) <= strays[p] + 1 /\ strays[p] \in Nat BY SyncParts DEF StraysCounted
<1>3. /\ Cardinality(DocumentsOf(p)) <= Cardinality(Ids(p)) /\ Cardinality(Ids(p)) \in Nat
      /\ Cardinality(DocumentsOf(p)) \in Nat
  BY CountByIds, SyncParts
<1> DEFINE a == Cardinality(DocumentsOf(p))
           b == Cardinality(Ids(p))
<1>4. CASE p \in DOMAIN cached
  <2>1. \E d \in DocumentsOf(p) : /\ d.hash = cached[p] /\ d.state = "active"
                                  /\ p \notin drifted => d.text = cached[p]
    <3>1. PICK d \in store : d.path = p /\ d.hash = cached[p] /\ d.state = "active"
      BY <1>1, <1>4 DEF Holds
    <3>2. p \notin drifted => d.text = d.hash BY <3>1 DEF TextsInv, DocumentsSay, Documents
    <3> QED BY <3>1, <3>2 DEF DocumentsOf
  <2>2. a <= strays[p] + 1
    <3> HIDE DEF a, b
    <3>1. a <= b /\ a \in Nat /\ b \in Nat /\ b <= strays[p] + 1 BY <1>2, <1>3 DEF a, b
    <3> QED BY <1>2, <3>1
  <2> QED BY <1>4, <2>1, <2>2
<1>5. CASE p \notin DOMAIN cached
  <2>1. a <= strays[p] + 0
    <3> HIDE DEF a, b
    <3>1. a <= b /\ a \in Nat /\ b \in Nat /\ b <= strays[p] BY <1>1, <1>3, <1>5 DEF a, b
    <3> QED BY <1>2, <3>1
  <2> QED BY <1>5, <2>1
<1> QED BY <1>4, <1>5

\* The documents the last synchronisation is trusted for are in the store, ready, each under
\* its hash, and with its text if the file was not edited between its hashing and its upload,
\* whatever requests fail, whenever the server stops and however late an import shows up
\* (ensureCorpusReady, syncCorpus, uploadFile).
THEOREM StoreMatchesCacheAlways == Spec => []StoreMatchesCache
<1>1. Init => SyncInv /\ TextsInv BY InitSync, InitTexts
<1>2. SyncInv /\ TextsInv /\ [Next]_vars => (SyncInv /\ TextsInv)' BY NextSync, NextTexts
<1>3. SyncInv /\ TextsInv => StoreMatchesCache BY SyncMatches
<1> QED BY <1>1, <1>2, <1>3, PTL DEF Spec

\* Uploads: each is counted by the synchronisation that has it, or has leaked.
FilesInv == leaked \in Nat /\ UploadsAreDeleted

LEMMA FilesStay ==
    ASSUME FilesInv, UNCHANGED <<files, leaked>>, Importing' <=> Importing
    PROVE  FilesInv'
  BY DEF FilesInv, UploadsAreDeleted, Importing

LEMMA InitFiles ==
    ASSUME Init
    PROVE  FilesInv
<1>1. files = 0 /\ leaked = 0 /\ sync.at = "none" BY DEF Init, NoSync
<1> QED BY <1>1 DEF FilesInv, UploadsAreDeleted

\* A discard, whether its synchronisation goes on or fails.
LEMMA DiscardedFiles ==
    ASSUME SyncInv, Discarded
    PROVE  ~Importing'
<1>1. CASE sync.failed
  <2>1. sync' = NoSync BY <1>1 DEF Discarded, Reject
  <2> QED BY <2>1 DEF Importing, NoSync
<1>2. CASE ~sync.failed
  <2>1. sync' = Done(sync, Path) BY <1>2 DEF Discarded, Done
  <2>2. sync'.at = "work" BY <2>1, Replaced, SyncParts
  <2> QED BY <2>2 DEF Importing
<1> QED BY <1>1, <1>2

LEMMA SyncNextFiles ==
    ASSUME SyncInv, FilesInv, SyncNext
    PROVE  FilesInv'
<1>1. leaked \in Nat /\ files = leaked + (IF Importing THEN 1 ELSE 0)
  BY DEF FilesInv, UploadsAreDeleted, Importing
<1>2. SUFFICES leaked' \in Nat /\ files' = leaked' + (IF Importing' THEN 1 ELSE 0)
  BY DEF FilesInv, UploadsAreDeleted, Importing
<1>3. CASE ListDocuments
  <2>1. files' = files /\ leaked' = leaked /\ ~Importing
    BY <1>3 DEF ListDocuments, SyncOnly, CreateStore, remote, history, Importing
  <2>2. PICK obsolete, outdated, todo : sync' = WorkOn(sync, obsolete, outdated, todo)
    BY <1>3, Zenon DEF ListDocuments, WorkOn
  <2>3. sync'.at = "work" BY <2>2, ListedOnce, SyncParts
  <2>4. ~Importing' BY <2>3 DEF Importing
  <2> QED BY <1>1, <2>1, <2>4
<1>4. CASE Delete
  <2>1. files' = files /\ leaked' = leaked
    BY <1>4 DEF Delete, DeleteDocument, SyncOnly, history
  <2>2. PICK d : sync' = Without(sync, d) BY <1>4, Zenon DEF Delete, Without
  <2>3. sync'.at = sync.at BY <2>2, Struck, SyncParts
  <2>4. Importing' <=> Importing BY <2>3 DEF Importing
  <2> QED BY <1>1, <2>1, <2>4
<1>5. CASE Upload
  <2>1. /\ files' = files + 1 /\ leaked' = leaked /\ ~Importing /\ sync' = At(sync, "import")
    BY <1>5 DEF Upload, UploadFile, Uploading, Goes, SyncOnly, history, Importing, At
  <2>2. sync'.at = "import"
    <3>1. "import" \in Stages BY DEF Stages
    <3> QED BY <2>1, <3>1, Moved, SyncParts
  <2>3. Importing' BY <2>2 DEF Importing
  <2> QED BY <1>1, <2>1, <2>3
<1>6. CASE Import \/ Poll
  <2>1. /\ files' = files /\ leaked' = leaked /\ Importing
        /\ sync' = At(sync, "poll") \/ sync' = At(sync, "discard")
    BY <1>6 DEF Import, ImportFile, Poll, Goes, SyncOnly, history, remote, Importing, At
  <2>2. sync'.at \in {"poll", "discard"}
    <3>1. "poll" \in Stages /\ "discard" \in Stages BY DEF Stages
    <3> QED BY <2>1, <3>1, Moved, SyncParts
  <2>3. Importing' BY <2>2 DEF Importing
  <2> QED BY <1>1, <2>1, <2>3
<1>7. CASE GiveUp \/ ImportFails
  <2>1. /\ files' = files /\ leaked' = leaked /\ Importing /\ sync' = Failing(sync)
    BY <1>7 DEF GiveUp, ImportFails, Throws, ImportFile, remote, Importing, Failing
  <2>2. sync'.at = "discard" BY <2>1, GivenUp, SyncParts
  <2>3. Importing' BY <2>2 DEF Importing
  <2> QED BY <1>1, <2>1, <2>3
<1>8. CASE Discard
  <2>1. files' = files - 1 /\ leaked' = leaked /\ Importing
    BY <1>8 DEF Discard, DeleteFile, Importing
  <2>2. ~Importing' BY <1>8, DiscardedFiles DEF Discard
  <2> QED BY <1>1, <2>1, <2>2
<1>9. CASE Succeed
  <2>1. files' = files /\ leaked' = leaked /\ ~Importing /\ sync' = NoSync
    BY <1>9 DEF Succeed, remote, Importing
  <2>2. ~Importing' BY <2>1 DEF Importing, NoSync
  <2> QED BY <1>1, <2>1, <2>2
<1>10. CASE RequestFails
  <2>1. sync' = NoSync BY <1>10 DEF RequestFails, Reject
  <2>2. ~Importing' BY <2>1 DEF Importing, NoSync
  <2>3. ~Importing /\ ((files' = files /\ leaked' = leaked) \/ (files' = files + 1 /\ leaked' = leaked + 1))
    BY <1>10 DEF RequestFails, CreateStore, Deletable, DeleteDocument, UploadFile, Uploading, remote,
                 Importing
  <2> QED BY <1>1, <2>2, <2>3
<1>11. CASE DiscardFails
  <2>1. Importing /\ ((files' = files - 1 /\ leaked' = leaked) \/ (files' = files /\ leaked' = leaked + 1))
    BY <1>11 DEF DiscardFails, DeleteFile, remote, Importing
  <2>2. ~Importing' BY <1>11, DiscardedFiles DEF DiscardFails
  <2> QED BY <1>1, <2>1, <2>2
<1> QED BY <1>3, <1>4, <1>5, <1>6, <1>7, <1>8, <1>9, <1>10, <1>11 DEF SyncNext

LEMMA NextFiles ==
    ASSUME SyncInv, FilesInv, [Next]_vars
    PROVE  FilesInv'
<1>1. CASE SyncNext BY <1>1, SyncNextFiles
<1>2. CASE Restart
  <2>1. /\ sync' = NoSync /\ files' = files
        /\ leaked' = IF Importing THEN leaked + 1 ELSE leaked
    BY <1>2 DEF Restart, remote, Importing
  <2>2. ~Importing' BY <2>1 DEF Importing, NoSync
  <2> QED BY <2>1, <2>2 DEF FilesInv, UploadsAreDeleted, Importing
<1>3. CASE \E c \in Callers : EnsureCorpusReady(c)
  <2>1. PICK c \in Callers : EnsureCorpusReady(c) BY <1>3
  <2>2. files' = files /\ leaked' = leaked BY <2>1 DEF EnsureCorpusReady, remote, history
  <2>3. sync' = sync \/ (sync = NoSync /\ sync' = [NoSync EXCEPT !.at = "list", !.corpus = search[c].corpus])
    BY <2>1 DEF EnsureCorpusReady
  <2>4. [NoSync EXCEPT !.at = "list", !.corpus = search[c].corpus].at = "list" /\ NoSync.at = "none"
    BY DEF NoSync
  <2>5. Importing' <=> Importing BY <2>3, <2>4 DEF Importing
  <2> QED BY <2>2, <2>5, FilesStay
<1>4. CASE \/ \E c \in Searchers : Search(c)
           \/ \E c \in Callers : Ask(c)
           \/ Appear \/ Process \/ (\E p \in Paths : Edit(p)) \/ UNCHANGED vars
  <2>1. files' = files /\ leaked' = leaked /\ sync' = sync
    BY <1>4 DEF Search, Ask, Appear, Process, External, Edit, vars, remote, history
  <2>2. Importing' <=> Importing BY <2>1 DEF Importing
  <2> QED BY <2>1, <2>2, FilesStay
<1> QED BY <1>1, <1>2, <1>3, <1>4 DEF Next

\* However an import ends, its upload is deleted (importDocument's finally), but for those
\* that are lost when the server stops, the upload's answer does or the deletion fails.
THEOREM UploadsAreDeletedAlways == Spec => []UploadsAreDeleted
<1>1. Init => SyncInv /\ FilesInv BY InitSync, InitFiles
<1>2. SyncInv /\ FilesInv /\ [Next]_vars => (SyncInv /\ FilesInv)' BY NextSync, NextFiles
<1>3. FilesInv => UploadsAreDeleted BY DEF FilesInv
<1> QED BY <1>1, <1>2, <1>3, PTL DEF Spec
=============================================================================
