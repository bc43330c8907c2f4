----------------------------- MODULE ChatProofs -----------------------------
(***************************************************************************)
(* Proofs about the chats: the durable current chat, for every number of   *)
(* requests, attempts and lost connections, and the renderer's chat        *)
(* memory, for every number of turns, corrections, switches and failures.  *)
(***************************************************************************)
EXTENDS CurrentChat, ChatMemory, FiniteSetTheorems, TLAPS

---------------------------------------------------------------------------
(* The current chat: the inductive invariant *)

\* One transaction at a time has its row in the index, and it has demoted
\* every chat that is current.
IndexGuards ==
  /\ \A r, q \in Requests : pc[r] = "commit" /\ pc[q] = "commit" => r = q
  /\ \A r \in Requests : pc[r] = "commit" => current \subseteq updated[r]

\* The row of a request that is still running is not there yet.
NotYetThere == \A r \in Requests : pc[r] \notin Finished => r \notin chats

\* A request that is still running has an attempt left.
RetriesLeft == \A r \in Requests : pc[r] \notin Finished => attempt[r] < MaxAttempts

\* The UPDATE of the present attempt missed a current chat only if somebody
\* has committed one since, which no refusal has been charged to yet.
MissedIsNew ==
  \A r \in Requests :
    pc[r] \in {"locking", "insert"} /\ ~(current \subseteq updated[r])
      => attempt[r] < Cardinality(Others(r))

IInv ==
  /\ TypeOK
  /\ AtMostOneCurrent
  /\ IndexGuards
  /\ NotYetThere
  /\ RetriesLeft
  /\ IsFiniteSet(chats)
  /\ RefusalsArePaidFor
  /\ MissedIsNew

\* What the actions have in common.
AnyStep(r) == Step(r) \/ LoseConnection(r) \/ CommitUnanswered(r)

LEMMA NextSteps == Next => (\E r \in Requests : AnyStep(r)) \/ UNCHANGED vars
  BY DEF Next, Quiet, AnyStep

---------------------------------------------------------------------------
(* Counting the chats of the others *)

LEMMA OthersCounted ==
  ASSUME IsFiniteSet(chats), NEW r
  PROVE  IsFiniteSet(Others(r)) /\ Cardinality(Others(r)) \in Nat
<1>1. Others(r) \in SUBSET chats
  BY DEF Others
<1> QED BY <1>1, FS_Subset, FS_CardinalityType

\* A commit adds one to what every other request counts, and nothing to its own.
LEMMA CommitCounted ==
  ASSUME IsFiniteSet(chats), CurrentChatAssumption,
         NEW q \in Requests, q \notin chats, chats' = chats \cup {q},
         NEW r \in Requests
  PROVE  /\ IsFiniteSet(chats')
         /\ Cardinality(Others(r)') = IF r = q THEN Cardinality(Others(r))
                                               ELSE Cardinality(Others(r)) + 1
<1>1. IsFiniteSet(chats')
  BY FS_AddElement
<1>2. CASE r = q
  <2>1. Others(r)' = Others(r)
    BY <1>2 DEF Others
  <2> QED BY <1>1, <1>2, <2>1
<1>3. CASE r # q
  <2>1. Others(r)' = Others(r) \cup {q} /\ q \notin Others(r)
    BY <1>3 DEF Others, CurrentChatAssumption, Requests
  <2>2. Cardinality(Others(r) \cup {q}) = Cardinality(Others(r)) + 1
    BY <2>1, OthersCounted, FS_AddElement
  <2> QED BY <1>1, <1>3, <2>1, <2>2
<1> QED BY <1>2, <1>3

---------------------------------------------------------------------------
(* Initial states *)

LEMMA InitEstablishes == Init => IInv
<1> SUFFICES ASSUME Init PROVE IInv
  OBVIOUS
<1> USE CurrentChatAssumption DEF CurrentChatAssumption, Init
<1>1. TypeOK
  BY DEF TypeOK, AllChats, Steps, Finished
<1>2. AtMostOneCurrent /\ IndexGuards /\ NotYetThere /\ RetriesLeft
  BY DEF AtMostOneCurrent, IndexGuards, NotYetThere, RetriesLeft, Requests
<1>3. IsFiniteSet(chats)
  BY FS_Singleton
<1>4. RefusalsArePaidFor /\ MissedIsNew
  BY <1>3, OthersCounted DEF RefusalsArePaidFor, MissedIsNew, Others
<1> QED BY <1>1, <1>2, <1>3, <1>4 DEF IInv

---------------------------------------------------------------------------
(* Steps *)

\* Every step keeps the types and leaves a running request an attempt.
LEMMA StepTypes ==
  ASSUME IInv, NEW r \in Requests, AnyStep(r)
  PROVE  TypeOK' /\ RetriesLeft'
<1> USE CurrentChatAssumption DEF CurrentChatAssumption, IInv, AnyStep, Step, Goto
<1>1. chats' \subseteq AllChats /\ current' \subseteq chats'
  BY DEF TypeOK, AllChats, Begin, FindCurrent, FindNone, SeeCurrent, Demote, Insert,
         Conflict, CommitAnswered, Commit, LoseConnection, CommitUnanswered
<1>2. pc' \in [Requests -> Steps]
  BY DEF TypeOK, Steps, Finished, Begin, FindCurrent, FindNone, SeeCurrent, Demote, Insert,
         Conflict, CommitAnswered, Commit, LoseConnection, CommitUnanswered
<1>3. attempt' \in [Requests -> 0..MaxAttempts] /\ RetriesLeft'
  <2>1. CASE Conflict(r)
    <3>1. attempt[r] \in 0..MaxAttempts /\ attempt[r] < MaxAttempts
      BY <2>1 DEF Conflict, IndexReady, TypeOK, RetriesLeft, Finished
    <3> QED BY <2>1, <3>1 DEF Conflict, TypeOK, RetriesLeft, Finished
  <2>2. CASE ~Conflict(r)
    BY <2>2 DEF TypeOK, RetriesLeft, Finished, Begin, FindCurrent, FindNone, SeeCurrent,
         Demote, Insert, CommitAnswered, Commit, LoseConnection, CommitUnanswered, IndexReady
  <2> QED BY <2>1, <2>2
<1>4. updated' \in [Requests -> SUBSET AllChats]
  BY DEF TypeOK, Begin, FindCurrent, FindNone, SeeCurrent, Demote, Insert,
         Conflict, CommitAnswered, Commit, LoseConnection, CommitUnanswered
<1>5. result' \in [Requests -> AllChats \cup {NoChat}]
  BY DEF TypeOK, AllChats, Begin, FindCurrent, FindNone, SeeCurrent, Demote, Insert,
         Conflict, CommitAnswered, Commit, LoseConnection, CommitUnanswered
<1>6. lost' \in 0..MaxLost
  BY DEF TypeOK, Begin, FindCurrent, FindNone, SeeCurrent, Demote, Insert,
         Conflict, CommitAnswered, Commit, LoseConnection, CommitUnanswered
<1> QED BY <1>1, <1>2, <1>3, <1>4, <1>5, <1>6 DEF TypeOK

\* Steps that are not a commit touch no committed row.
LEMMA OnlyCommitsWrite ==
  ASSUME NEW r \in Requests, AnyStep(r), pc[r] # "commit"
  PROVE  chats' = chats /\ current' = current
  BY DEF AnyStep, Step, Begin, FindCurrent, FindNone, SeeCurrent, Demote, Insert,
         Conflict, CommitAnswered, Commit, LoseConnection, CommitUnanswered

\* A commit, answered or not.
LEMMA CommitFacts ==
  ASSUME IInv, NEW r \in Requests, Commit(r),
         CommitAnswered(r) \/ CommitUnanswered(r)
  PROVE  /\ current' = {r}
         /\ chats' = chats \cup {r} /\ r \notin chats
         /\ attempt' = attempt
         /\ pc' \in [Requests -> Steps] /\ pc'[r] \in Finished
         /\ \A q \in Requests \ {r} : pc'[q] = pc[q] /\ updated'[q] = updated[q]
<1>1. current \subseteq updated[r] /\ pc[r] \notin Finished
  BY DEF IInv, IndexGuards, Commit, Finished
<1> QED BY <1>1 DEF IInv, TypeOK, NotYetThere, Commit, CommitAnswered, CommitUnanswered,
                  Goto, Finished, Steps

LEMMA StepKeepsIndex ==
  ASSUME IInv, NEW r \in Requests, AnyStep(r)
  PROVE  AtMostOneCurrent' /\ IndexGuards'
<1>1. CASE CommitAnswered(r) \/ CommitUnanswered(r)
  <2>1. Commit(r)
    BY <1>1 DEF CommitAnswered, CommitUnanswered
  <2>2. \A q \in Requests : pc'[q] # "commit"
    BY <1>1, <2>1, CommitFacts DEF IInv, IndexGuards, Commit, Finished
  <2> QED BY <1>1, <2>1, <2>2, CommitFacts DEF AtMostOneCurrent, IndexGuards
<1>2. CASE Insert(r)
  <2>1. pc' = [pc EXCEPT ![r] = "commit"] /\ UNCHANGED <<current, updated>>
    BY <1>2 DEF Insert, Goto
  <2>2. current \subseteq updated[r] /\ \A q \in Requests \ {r} : pc[q] # "commit"
    BY <1>2 DEF Insert, IndexReady, RowPending
  <2> QED BY <2>1, <2>2 DEF IInv, TypeOK, AtMostOneCurrent, IndexGuards
<1>3. CASE ~(CommitAnswered(r) \/ CommitUnanswered(r)) /\ ~Insert(r)
  <2>1. current' = current
    BY <1>3 DEF AnyStep, Step, Begin, FindCurrent, FindNone, SeeCurrent, Demote,
         Conflict, LoseConnection
  <2>2. pc'[r] # "commit" /\ \A q \in Requests \ {r} : pc'[q] = pc[q] /\ updated'[q] = updated[q]
    BY <1>3 DEF IInv, TypeOK, AnyStep, Step, Begin, FindCurrent, FindNone, SeeCurrent, Demote,
         Conflict, LoseConnection, Goto
  <2> QED BY <2>1, <2>2 DEF IInv, AtMostOneCurrent, IndexGuards
<1> QED BY <1>1, <1>2, <1>3

LEMMA StepKeepsRows ==
  ASSUME IInv, NEW r \in Requests, AnyStep(r)
  PROVE  NotYetThere' /\ IsFiniteSet(chats')
<1>1. CASE CommitAnswered(r) \/ CommitUnanswered(r)
  <2>1. Commit(r)
    BY <1>1 DEF CommitAnswered, CommitUnanswered
  <2>2. IsFiniteSet(chats \cup {r})
    BY FS_AddElement DEF IInv
  <2> QED BY <1>1, <2>1, <2>2, CommitFacts DEF IInv, NotYetThere
<1>2. CASE ~(CommitAnswered(r) \/ CommitUnanswered(r))
  <2>1. chats' = chats /\ pc[r] \notin Finished
    BY <1>2 DEF AnyStep, Step, Begin, FindCurrent, FindNone, SeeCurrent, Demote, Insert,
         Conflict, LoseConnection, IndexReady, Finished
  <2>2. \A q \in Requests \ {r} : pc'[q] = pc[q]
    BY <1>2 DEF IInv, TypeOK, AnyStep, Step, Begin, FindCurrent, FindNone, SeeCurrent, Demote,
         Insert, Conflict, LoseConnection, Goto
  <2> QED BY <2>1, <2>2 DEF IInv, NotYetThere
<1> QED BY <1>1, <1>2

\* The accounting of refusals: a commit credits every other request with one
\* new chat, and a refusal spends one that MissedIsNew has kept for it.
LEMMA StepKeepsAccounts ==
  ASSUME IInv, NEW r \in Requests, AnyStep(r)
  PROVE  RefusalsArePaidFor' /\ MissedIsNew'
<1> USE DEF IInv
<1>0. \A q \in Requests : Cardinality(Others(q)) \in Nat /\ attempt[q] \in Nat
  BY OthersCounted DEF TypeOK
<1>1. CASE CommitAnswered(r) \/ CommitUnanswered(r)
  <2>1. Commit(r)
    BY <1>1 DEF CommitAnswered, CommitUnanswered
  <2>2. /\ attempt' = attempt /\ pc'[r] \in Finished
        /\ \A q \in Requests \ {r} : pc'[q] = pc[q] /\ updated'[q] = updated[q]
    BY <1>1, <2>1, CommitFacts
  <2>3. \A q \in Requests :
          Cardinality(Others(q)') = IF q = r THEN Cardinality(Others(q))
                                             ELSE Cardinality(Others(q)) + 1
    BY <1>1, <2>1, CommitFacts, CommitCounted, CurrentChatAssumption
  <2>4. RefusalsArePaidFor'
    BY <1>0, <2>2, <2>3 DEF RefusalsArePaidFor
  <2>5. MissedIsNew'
    BY <1>0, <2>2, <2>3 DEF RefusalsArePaidFor, MissedIsNew, Finished
  <2> QED BY <2>4, <2>5
<1>2. CASE ~(CommitAnswered(r) \/ CommitUnanswered(r))
  <2>0. UNCHANGED <<chats, current>>
    BY <1>2 DEF AnyStep, Step, Begin, FindCurrent, FindNone, SeeCurrent, Demote, Insert,
         Conflict, LoseConnection
  <2>1. \A q \in Requests : Others(q)' = Others(q)
    BY <2>0 DEF Others
  <2>2. CASE Conflict(r)
    <3>1. /\ attempt' = [attempt EXCEPT ![r] = @ + 1]
          /\ updated' = [updated EXCEPT ![r] = {}]
          /\ pc' \in [Requests -> Steps] /\ pc'[r] \in {"refused", "begin"}
          /\ \A q \in Requests \ {r} : pc'[q] = pc[q]
      BY <2>2 DEF Conflict, Goto, TypeOK, Steps, Finished
    <3>2. attempt[r] < Cardinality(Others(r))
      BY <2>2 DEF Conflict, IndexReady, MissedIsNew
    <3>3. attempt[r] + 1 <= Cardinality(Others(r))
      BY <1>0, <3>2
    <3> QED BY <1>0, <2>0, <2>1, <3>1, <3>3 DEF RefusalsArePaidFor, MissedIsNew, TypeOK
  <2>3. CASE SeeCurrent(r) \/ Demote(r)
    <3>1. /\ attempt' = attempt
          /\ \A q \in Requests \ {r} : pc'[q] = pc[q] /\ updated'[q] = updated[q]
      BY <2>3 DEF SeeCurrent, Demote, Goto, TypeOK
    <3>2. ~(current \subseteq updated'[r]) => pc[r] = "locking" /\ ~(current \subseteq updated[r])
      BY <2>3 DEF SeeCurrent, Demote, TypeOK
    <3> QED BY <2>0, <2>1, <3>1, <3>2 DEF RefusalsArePaidFor, MissedIsNew
  <2>4. CASE ~Conflict(r) /\ ~SeeCurrent(r) /\ ~Demote(r)
    <3>1. /\ attempt' = attempt /\ pc'[r] \notin {"locking", "insert"}
          /\ \A q \in Requests \ {r} : pc'[q] = pc[q] /\ updated'[q] = updated[q]
      BY <1>2, <2>4 DEF AnyStep, Step, Begin, FindCurrent, FindNone, Insert,
           LoseConnection, Goto, TypeOK
    <3> QED BY <2>0, <2>1, <3>1 DEF RefusalsArePaidFor, MissedIsNew
  <2> QED BY <2>2, <2>3, <2>4
<1> QED BY <1>1, <1>2

---------------------------------------------------------------------------
(* Theorems *)

LEMMA StepsPreserve == IInv /\ [Next]_vars => IInv'
<1> SUFFICES ASSUME IInv, [Next]_vars PROVE IInv'
  OBVIOUS
<1>1. CASE UNCHANGED vars
  BY <1>1 DEF vars, IInv, TypeOK, AtMostOneCurrent, IndexGuards, NotYetThere, RetriesLeft,
       RefusalsArePaidFor, MissedIsNew, Others
<1>2. ASSUME NEW r \in Requests, AnyStep(r) PROVE IInv'
  BY <1>2, StepTypes, StepKeepsIndex, StepKeepsRows, StepKeepsAccounts DEF IInv
<1> QED BY <1>1, <1>2, NextSteps

\* The invariant that carries the others.
THEOREM Invariance == Spec => []IInv
  BY InitEstablishes, StepsPreserve, PTL DEF Spec

\* Every variable keeps its type; no request makes more attempts than it has.
THEOREM TypeCorrect == Spec => []TypeOK
<1>1. IInv => TypeOK
  BY DEF IInv
<1> QED BY <1>1, Invariance, PTL

\* createChat() and getOrCreateCurrentChat() never leave two current chats.
THEOREM AtMostOneCurrentAlways == Spec => []AtMostOneCurrent
<1>1. IInv => AtMostOneCurrent
  BY DEF IInv
<1> QED BY <1>1, Invariance, PTL

\* withCurrentChatRetry() runs out only when as many others have succeeded.
THEOREM RefusalsPaidFor == Spec => []RefusalsArePaidFor
<1>1. IInv => RefusalsArePaidFor
  BY DEF IInv
<1> QED BY <1>1, Invariance, PTL

\* No transaction of the two ever leaves the user without a current chat.
THEOREM CurrentStays == Spec => CurrentNeverVanishes
<1>1. IInv /\ [Next]_vars => (current # {} => current' # {})
  <2> SUFFICES ASSUME IInv, [Next]_vars, current # {} PROVE current' # {}
    OBVIOUS
  <2>1. CASE UNCHANGED vars
    BY <2>1 DEF vars
  <2>2. ASSUME NEW r \in Requests, AnyStep(r) PROVE current' # {}
    BY <2>2, OnlyCommitsWrite DEF AnyStep, Step, Begin, FindCurrent, FindNone, SeeCurrent,
         Demote, Insert, Conflict, LoseConnection, CommitAnswered, CommitUnanswered, Commit
  <2> QED BY <2>1, <2>2, NextSteps
<1> QED BY <1>1, Invariance, PTL DEF Spec, CurrentNeverVanishes

-----------------------------------------------------------------------------
(* Chat memory: the inductive invariant *)

Awaits == {"none", "queued", "chat", "sent", "answered"}
Tasks == [at : Awaits, does : {"append", "update"}, text : Nat, message : Nat, ok : BOOLEAN,
          retry : BOOLEAN, behind : Turns \cup {None}, chat : Chats \cup {None}]
TurnRecords == [state : {"unsaid", "shown", "gone"}, text : Nat, message : Nat]
Calls == [at : {"none", "sent", "answered", "listing"}, chat : Chats \cup {None}]

MemoryTypeOK ==
    /\ existing \subseteq Chats /\ currentChat \in Chats \cup {None}
    /\ messages \in Seq([turn : Turns, chat : Chats \cup {None}, text : Nat])
    /\ active \in Chats \cup {None} /\ tail \in Turns \cup {None}
    /\ lookup \in [Callers -> Calls] /\ switch \in [Switchers -> Calls]
    /\ turn \in [Turns -> TurnRecords] /\ op \in [Turns -> Tasks]
    /\ said \in [Turns -> [surface : Nat, place : Nat]]
    /\ surface \in Nat /\ texts \in Nat
    /\ failed \subseteq Turns /\ unseen \subseteq Turns /\ overtaken \in BOOLEAN

\* Who looks the chat up for a turn is its task, and gets one; a switch has one.
CallsOK ==
    /\ \A t \in Turns : /\ op[t].at = "chat" <=> lookup[t].at # "none"
                        /\ lookup[t].at # "listing"
                        /\ lookup[t].at = "answered" => lookup[t].chat # None
    /\ \A w \in Switchers : switch[w].at = "answered" => switch[w].chat # None

\* Message id was made for turn t.
Mine(t, id) == id \in 1..Len(messages) /\ messages[id].turn = t
HasMessage(t) == \E id \in Nat : Mine(t, id)

\* An append whose message is not there yet; a task whose request was served.
ToAppend(t) == op[t].at \in {"queued", "chat", "sent"} /\ op[t].does = "append"
Served(t) == op[t].at = "answered" /\ op[t].ok

TaskOK(t) ==
    /\ op[t].at = "none" => op[t] = Idle
    /\ op[t].at # "answered" => op[t].ok
    /\ op[t].at # "queued" => op[t].behind = None
    /\ ToAppend(t) \/ (Served(t) /\ op[t].does = "append") => op[t].retry
    /\ op[t].at # "none" /\ op[t].does = "update" => Mine(t, op[t].message)
    /\ Served(t) => Mine(t, op[t].message) /\ messages[op[t].message].text = op[t].text
    /\ ~op[t].ok => t \in unseen /\ t \in failed

TurnOK(t) ==
    /\ turn[t].state = "unsaid" => op[t] = Idle /\ turn[t].message = 0 /\ ~HasMessage(t)
    /\ turn[t].message # 0 => Mine(t, turn[t].message)
    /\ turn[t].state = "shown" => said[t].surface = surface
    /\ said[t].surface <= surface

\* A turn that is shown knows its message, or it is being made, or a request failed.
KnowsMessage(t) ==
    turn[t].state = "shown" =>
        /\ op[t].at = "none" /\ turn[t].message = 0 => t \in failed
        /\ ToAppend(t) \/ (Served(t) /\ op[t].does = "append") => turn[t].message = 0
        /\ op[t].at # "none" /\ op[t].ok /\ op[t].does = "update" => op[t].message = turn[t].message

\* What is not seen by the task at work will be, by the loop that follows it.
TextSeen(t) ==
    turn[t].state = "shown" /\ t \notin unseen =>
        /\ op[t].at = "none" => turn[t].message # 0 /\ messages[turn[t].message].text = turn[t].text
        /\ op[t].at # "none" /\ ~op[t].retry => op[t].text = turn[t].text

StoredOnce(t) ==
    t \notin failed =>
        /\ ToAppend(t) => ~HasMessage(t)
        /\ \A i, j \in Nat : Mine(t, i) /\ Mine(t, j) => i = j

\* Where the message of a turn that is shown is, or will be.
Placed(t) ==
    /\ active = None => op[t].at # "sent" /\ ~Served(t)
    /\ ~overtaken /\ turn[t].state = "shown" =>
          /\ op[t].at = "sent" => op[t].chat = active
          /\ Served(t) => messages[op[t].message].chat = active
          /\ turn[t].message # 0 => messages[turn[t].message].chat = active

TurnFine(t) ==
    TaskOK(t) /\ TurnOK(t) /\ KnowsMessage(t) /\ TextSeen(t) /\ StoredOnce(t) /\ Placed(t)

\* A chain of tasks, as ranks: each waits for the one of its surface that is next before
\* it, and the end of the present chain is the last of the present surface.
Busy(ops) == {t \in Turns : ops[t].at # "none"}
Line(ops, end, of, now, r, n) ==
    /\ \A t \in Busy(ops) : r[t] < n
    /\ \A t, u \in Busy(ops) : of[t].surface = of[u].surface /\ r[t] = r[u] => t = u
    /\ \A t, u \in Busy(ops) : of[t].surface = of[u].surface /\ r[u] < r[t] =>
          ops[t].behind # None /\ r[u] <= r[ops[t].behind]
    /\ \A t \in Busy(ops) : ops[t].behind # None =>
          /\ ops[t].behind \in Busy(ops) /\ of[ops[t].behind].surface = of[t].surface
          /\ r[ops[t].behind] < r[t]
    /\ end # None => end \in Busy(ops) /\ of[end].surface = now
    /\ \A t \in Busy(ops) : of[t].surface = now => end # None /\ r[t] <= r[end]

\* While the append of a turn is to come, those of later turns come after it.
Earlier(v, u) == said[u].surface = said[v].surface /\ said[v].place < said[u].place
Appending(r) ==
    \A v \in Turns, u \in Turns \ Unsaid : ToAppend(v) /\ v \notin failed /\ Earlier(v, u)
        => op[u].at # "none" /\ r[v] < r[u] /\ ~HasMessage(u)
InLine == \E r \in [Turns -> Nat], n \in Nat : Line(op, tail, said, surface, r, n) /\ Appending(r)

Places ==
    /\ IsFiniteSet(Turns \ Unsaid)
    /\ \A t \in Turns \ Unsaid : said[t].place < Cardinality(Turns \ Unsaid)

MemoryInv ==
    /\ MemoryTypeOK /\ CallsOK /\ Places /\ InLine /\ StoredInOrder
    /\ \A t \in Turns : TurnFine(t)
    /\ active = None => messages = <<>>

-----------------------------------------------------------------------------
(* The chain *)

RankTypes(ops, end, of, now, r, n) ==
    /\ ops \in [Turns -> Tasks] /\ end \in Turns \cup {None}
    /\ of \in [Turns -> [surface : Nat, place : Nat]] /\ now \in Nat
    /\ r \in [Turns -> Nat] /\ n \in Nat

\* A chain is where its tasks are busy, which one each is behind, and their surfaces.
LEMMA LineKept ==
    ASSUME NEW ops, NEW end, NEW of, NEW now, NEW r, NEW n, RankTypes(ops, end, of, now, r, n),
           Line(ops, end, of, now, r, n), NEW others \in [Turns -> Tasks], NEW since,
           \A t \in Turns : /\ ops[t].at = "none" <=> others[t].at = "none"
                            /\ ops[t].behind = others[t].behind,
           \A t \in Busy(ops) : since[t].surface = of[t].surface
    PROVE  Line(others, end, since, now, r, n)
<1>1. Busy(others) = Busy(ops) BY DEF Busy
<1>2. \A t \in Busy(ops) : t \in Turns BY DEF Busy
<1>3. \A t \in Busy(ops) : others[t].behind # None =>
         others[t].behind \in Busy(ops) /\ since[others[t].behind].surface = since[t].surface
  BY <1>2 DEF Line
<1> QED BY <1>1, <1>2, <1>3 DEF Line

\* The task in front leaves: the next one is in front.
Leaves(ops, t) == [u \in Turns |-> IF u = t THEN Idle
                                   ELSE IF ops[u].behind = t THEN [ops[u] EXCEPT !.behind = None]
                                   ELSE ops[u]]
LEMMA LineLeaves ==
    ASSUME ChatMemoryAssumption, NEW ops, NEW end, NEW of, NEW now, NEW r, NEW n,
           RankTypes(ops, end, of, now, r, n),
           Line(ops, end, of, now, r, n), NEW t \in Busy(ops), ops[t].behind = None
    PROVE  /\ Leaves(ops, t) \in [Turns -> Tasks] /\ Busy(Leaves(ops, t)) = Busy(ops) \ {t}
           /\ Line(Leaves(ops, t), IF end = t THEN None ELSE end, of, now, r, n)
<1> DEFINE next == Leaves(ops, t)
<1>1. t \in Turns /\ None \notin Turns BY DEF Busy, ChatMemoryAssumption
<1>2. Idle \in Tasks /\ Idle.at = "none" BY DEF Idle, Tasks, Awaits
<1>3. \A u \in Turns : [ops[u] EXCEPT !.behind = None] \in Tasks
  <2> TAKE u \in Turns
  <2>1. ops[u] \in Tasks BY DEF RankTypes
  <2> QED BY <2>1, Zenon DEF Tasks
<1>4. next \in [Turns -> Tasks] BY <1>2, <1>3 DEF Leaves, RankTypes
<1>5. \A u \in Turns \ {t} : /\ next[u].at = ops[u].at
                             /\ next[u].behind = IF ops[u].behind = t THEN None ELSE ops[u].behind
  <2> TAKE u \in Turns \ {t}
  <2>1. ops[u] \in Tasks BY DEF RankTypes
  <2> QED BY <2>1 DEF Leaves, Tasks
<1>6. Busy(next) = Busy(ops) \ {t}
  <2>1. next[t].at = "none" BY <1>1, <1>2 DEF Leaves
  <2> QED BY <1>1, <1>5, <2>1 DEF Busy
<1>7. \A u \in Busy(ops) \ {t} : of[u].surface = of[t].surface => r[t] < r[u]
  <2> TAKE u \in Busy(ops) \ {t}
  <2>1. r[u] \in Nat /\ r[t] \in Nat BY DEF RankTypes, Busy
  <2> QED BY <2>1 DEF Line
<1> HIDE DEF next
<1>8. \A u, v \in Busy(ops) \ {t} : of[u].surface = of[v].surface /\ r[v] < r[u] =>
         ops[u].behind # t /\ ops[u].behind # None /\ r[v] <= r[ops[u].behind]
  <2> SUFFICES ASSUME NEW u \in Busy(ops) \ {t}, NEW v \in Busy(ops) \ {t},
                      of[u].surface = of[v].surface, r[v] < r[u]
               PROVE  ops[u].behind # t /\ ops[u].behind # None /\ r[v] <= r[ops[u].behind]
    OBVIOUS
  <2>1. ops[u].behind # None /\ r[v] <= r[ops[u].behind]
        /\ of[ops[u].behind].surface = of[u].surface BY DEF Line
  <2>2. r[v] \in Nat /\ r[t] \in Nat BY DEF RankTypes, Busy
  <2> QED BY <1>7, <2>1, <2>2
<1>9. \A u \in Busy(next) : u \in Turns \ {t} /\ u \in Busy(ops) BY <1>6 DEF Busy
<1>10. \A u \in Busy(next) : next[u].behind # None =>
          /\ next[u].behind \in Busy(next) /\ of[next[u].behind].surface = of[u].surface
          /\ r[next[u].behind] < r[u]
  BY <1>5, <1>6, <1>9 DEF Line
<1>11. \A u \in Busy(next) : of[u].surface = now => end # t /\ end # None /\ r[u] <= r[end]
  <2> TAKE u \in Busy(next)
  <2>1. r[u] \in Nat /\ r[t] \in Nat BY <1>9, <1>1 DEF RankTypes
  <2> QED BY <1>6, <1>7, <1>9, <2>1 DEF Line
<1>12. \A u, v \in Busy(next) : of[u].surface = of[v].surface /\ r[v] < r[u] =>
          next[u].behind # None /\ r[v] <= r[next[u].behind]
  BY <1>5, <1>6, <1>8, <1>9
<1>13. Line(next, IF end = t THEN None ELSE end, of, now, r, n)
  BY <1>6, <1>9, <1>10, <1>11, <1>12 DEF Line
<1> QED BY <1>4, <1>6, <1>13 DEF next

\* A task joins the end.
Queued(task, end) == [task EXCEPT !.at = "queued", !.behind = end]
LEMMA QueuedTask ==
    ASSUME NEW task \in Tasks, NEW end \in Turns \cup {None}
    PROVE  /\ Queued(task, end) \in Tasks
           /\ Queued(task, end).at = "queued" /\ Queued(task, end).behind = end
           /\ Queued(task, end).does = task.does /\ Queued(task, end).text = task.text
           /\ Queued(task, end).message = task.message /\ Queued(task, end).ok = task.ok
           /\ Queued(task, end).retry = task.retry
  BY Zenon DEF Queued, Tasks, Awaits

LEMMA LineJoins ==
    ASSUME ChatMemoryAssumption, NEW ops, NEW end, NEW of, NEW now, NEW r, NEW n,
           RankTypes(ops, end, of, now, r, n),
           Line(ops, end, of, now, r, n), NEW t \in Turns \ Busy(ops), of[t].surface = now,
           NEW task \in Tasks, NEW others, others = [ops EXCEPT ![t] = Queued(task, end)]
    PROVE  /\ others \in [Turns -> Tasks] /\ Busy(others) = Busy(ops) \cup {t}
           /\ [r EXCEPT ![t] = n] \in [Turns -> Nat]
           /\ Line(others, t, of, now, [r EXCEPT ![t] = n], n + 1)
<1> DEFINE q == [r EXCEPT ![t] = n]
<1>1. None \notin Turns BY DEF ChatMemoryAssumption
<1>2. others \in [Turns -> Tasks] /\ others[t].at = "queued" /\ others[t].behind = end
      /\ \A u \in Turns \ {t} : others[u] = ops[u]
  BY QueuedTask DEF RankTypes
<1>3. q \in [Turns -> Nat] /\ q[t] = n /\ \A u \in Turns \ {t} : q[u] = r[u] BY DEF RankTypes
<1>4. Busy(others) = Busy(ops) \cup {t} BY <1>2 DEF Busy
<1>5. \A u \in Busy(ops) : u \in Turns \ {t} /\ r[u] \in Nat /\ r[u] < n
  BY DEF Busy, RankTypes, Line
<1> HIDE DEF q
<1>6. /\ n \in Nat /\ \A u \in Busy(others) : u = t \/ u \in Busy(ops)
      /\ \A u \in Busy(ops) : u # t /\ u \in Turns /\ q[u] = r[u] /\ q[u] < n /\ q[u] \in Nat
  BY <1>3, <1>4, <1>5 DEF RankTypes
<1>7. \A u \in Busy(others) : q[u] < n + 1 BY <1>3, <1>4, <1>5, <1>6
<1>8. \A u, v \in Busy(others) : of[u].surface = of[v].surface /\ q[u] = q[v] => u = v
  <2>1. \A u, v \in Busy(ops) : of[u].surface = of[v].surface /\ r[u] = r[v] => u = v BY DEF Line
  <2> QED BY <1>3, <1>4, <1>5, <1>6, <2>1
<1>9. \A u \in Busy(others) : others[u].behind # None =>
         /\ others[u].behind \in Busy(others) /\ of[others[u].behind].surface = of[u].surface
         /\ q[others[u].behind] < q[u]
  <2> SUFFICES ASSUME NEW u \in Busy(others), others[u].behind # None
               PROVE  /\ others[u].behind \in Busy(others)
                      /\ of[others[u].behind].surface = of[u].surface
                      /\ q[others[u].behind] < q[u]
    OBVIOUS
  <2>1. CASE u = t
    <3>1. end \in Busy(ops) /\ of[end].surface = now BY <1>2, <2>1 DEF Line
    <3>2. end # t /\ q[end] = r[end] /\ r[end] < n BY <1>3, <1>5, <3>1
    <3>3. others[u].behind = end /\ q[u] = n /\ of[u].surface = now BY <1>2, <1>3, <2>1
    <3> QED BY <1>4, <3>1, <3>2, <3>3
  <2>2. CASE u # t
    <3>1. u \in Busy(ops) /\ others[u] = ops[u] BY <1>2, <1>4, <1>5, <2>2
    <3>2. ops[u].behind \in Busy(ops) /\ of[ops[u].behind].surface = of[u].surface
          /\ r[ops[u].behind] < r[u] BY <3>1 DEF Line
    <3> QED BY <1>3, <1>4, <1>5, <3>1, <3>2
  <2> QED BY <2>1, <2>2
<1>10. \A u, v \in Busy(others) : of[u].surface = of[v].surface /\ q[v] < q[u] =>
          others[u].behind # None /\ q[v] <= q[others[u].behind]
  <2> SUFFICES ASSUME NEW u \in Busy(others), NEW v \in Busy(others),
                      of[u].surface = of[v].surface, q[v] < q[u]
               PROVE  others[u].behind # None /\ q[v] <= q[others[u].behind]
    OBVIOUS
  <2>1. v # t /\ v \in Busy(ops)
    <3>1. q[u] <= n /\ q[u] \in Nat
      <4>1. u = t \/ (q[u] < n /\ q[u] \in Nat) BY <1>6
      <4>2. q[t] = n /\ n \in Nat BY <1>3, <1>6
      <4> QED BY <4>1, <4>2
    <3>2. v # t
      <4>1. v = t => q[v] = n /\ n \in Nat BY <1>3, <1>6
      <4> QED BY <3>1, <4>1
    <3> QED BY <1>6, <3>2
  <2>2. CASE u = t
    <3>1. end # None /\ r[v] <= r[end] /\ end \in Busy(ops) BY <2>1, <2>2 DEF Line
    <3> QED BY <1>2, <1>6, <2>1, <2>2, <3>1
  <2>3. CASE u # t
    <3>1. u \in Busy(ops) /\ others[u] = ops[u] /\ r[v] < r[u] BY <1>2, <1>6, <2>1, <2>3
    <3>2. ops[u].behind # None /\ r[v] <= r[ops[u].behind] /\ ops[u].behind \in Busy(ops)
      BY <2>1, <3>1 DEF Line
    <3> QED BY <1>6, <2>1, <3>1, <3>2
  <2> QED BY <2>2, <2>3
<1>11. \A u \in Busy(others) : of[u].surface = now => t # None /\ q[u] <= q[t]
  BY <1>1, <1>3, <1>4, <1>5, <1>6
<1>12. Line(others, t, of, now, q, n + 1) BY <1>4, <1>7, <1>8, <1>9, <1>10, <1>11 DEF Line
<1> QED BY <1>2, <1>3, <1>4, <1>12 DEF q

\* A switch leaves the chain as it is and begins another.
LEMMA LineSwitched ==
    ASSUME NEW ops, NEW end, NEW of, NEW now, NEW r, NEW n, RankTypes(ops, end, of, now, r, n),
           Line(ops, end, of, now, r, n), \A t \in Turns : of[t].surface <= now
    PROVE  Line(ops, None, of, now + 1, r, n)
<1>1. \A t \in Busy(ops) : t \in Turns /\ of[t].surface # now + 1 BY DEF Busy, RankTypes
<1> QED BY <1>1 DEF Line

-----------------------------------------------------------------------------
(* What a step may leave alone *)

\* The messages of turn u are the same.
OwnKept(u) ==
    \A id \in Nat : /\ Mine(u, id)' <=> Mine(u, id)
                    /\ Mine(u, id) => messages'[id] = messages[id]

SameTask(u) ==
    /\ op'[u].at = op[u].at /\ op'[u].does = op[u].does /\ op'[u].text = op[u].text
    /\ op'[u].message = op[u].message /\ op'[u].ok = op[u].ok /\ op'[u].retry = op[u].retry
    /\ op'[u].chat = op[u].chat /\ op'[u].behind \in {op[u].behind, None}
    /\ op[u] = Idle => op'[u] = Idle

\* The active chat is the same, is the first one, or overtakes another.
ActiveStep ==
    \/ UNCHANGED <<active, overtaken>>
    \/ active' # None /\ (active = None \/ overtaken')

LEMMA OwnKeptSame == ASSUME messages' = messages, NEW u \in Turns PROVE OwnKept(u)
  BY DEF OwnKept, Mine

Rewritten(id, text) == [messages EXCEPT ![id].text = text]
LEMMA OwnKeptRewritten ==
    ASSUME MemoryTypeOK, NEW t \in Turns, NEW id \in Nat, Mine(t, id), NEW text,
           messages' = Rewritten(id, text), NEW u \in Turns
    PROVE  /\ u # t => OwnKept(u)
           /\ \A k \in Nat : Mine(u, k)' <=> Mine(u, k)
           /\ Len(messages') = Len(messages)
           /\ \A k \in 1..Len(messages) : messages'[k].turn = messages[k].turn
                                          /\ messages'[k].chat = messages[k].chat
           /\ messages'[id].text = text
<1> DEFINE Message == [turn : Turns, chat : Chats \cup {None}, text : Nat]
<1>1. messages \in Seq(Message) /\ id \in 1..Len(messages) BY DEF MemoryTypeOK, Mine
<1>2. messages[id] \in Message
  <2> HIDE DEF Message
  <2> QED BY <1>1
<1>3. /\ [messages[id] EXCEPT !.text = text].turn = messages[id].turn
      /\ [messages[id] EXCEPT !.text = text].chat = messages[id].chat
      /\ [messages[id] EXCEPT !.text = text].text = text BY <1>2
<1>4. /\ Len(messages') = Len(messages)
      /\ \A k \in 1..Len(messages) : messages'[k] = IF k = id THEN [messages[id] EXCEPT !.text = text]
                                                    ELSE messages[k]
  <2>1. DOMAIN messages = 1..Len(messages) /\ Len(messages) \in Nat BY <1>1
  <2>2. DOMAIN messages' = DOMAIN messages BY DEF Rewritten
  <2>3. \A k \in DOMAIN messages : messages'[k] = IF k = id THEN [messages[id] EXCEPT !.text = text]
                                                  ELSE messages[k] BY DEF Rewritten
  <2>4. Len(messages') = Len(messages) BY <1>1 DEF Rewritten
  <2> QED BY <2>1, <2>3, <2>4
<1>5. \A k \in 1..Len(messages) : messages'[k].turn = messages[k].turn
                                  /\ messages'[k].chat = messages[k].chat
  BY <1>3, <1>4
<1>6. \A k \in Nat : Mine(u, k)' <=> Mine(u, k) BY <1>4, <1>5 DEF Mine
<1>7. messages'[id].text = text BY <1>1, <1>3, <1>4
<1>8. u # t => OwnKept(u)
  <2> SUFFICES ASSUME u # t, NEW k \in Nat, Mine(u, k) PROVE messages'[k] = messages[k]
    BY <1>6 DEF OwnKept
  <2>1. k # id BY DEF Mine
  <2> QED BY <1>4, <2>1 DEF Mine
<1> QED BY <1>4, <1>5, <1>6, <1>7, <1>8

LEMMA OwnKeptAppended ==
    ASSUME MemoryTypeOK, NEW t \in Turns, NEW m \in [turn : Turns, chat : Chats \cup {None}, text : Nat],
           m.turn = t, messages' = Append(messages, m), NEW u \in Turns
    PROVE  /\ u # t => OwnKept(u)
           /\ \A k \in Nat : Mine(u, k)' <=> Mine(u, k) \/ (u = t /\ k = Len(messages) + 1)
           /\ Len(messages') = Len(messages) + 1 /\ messages'[Len(messages) + 1] = m
           /\ \A k \in 1..Len(messages) : messages'[k] = messages[k]
<1>1. /\ Len(messages') = Len(messages) + 1 /\ messages'[Len(messages) + 1] = m
      /\ Len(messages) \in Nat
      /\ \A k \in 1..Len(messages) : messages'[k] = messages[k]
  BY DEF MemoryTypeOK
<1>2. \A k \in Nat : Mine(u, k)' <=> Mine(u, k) \/ (u = t /\ k = Len(messages) + 1)
  BY <1>1 DEF Mine
<1>3. u # t => OwnKept(u) BY <1>1, <1>2 DEF OwnKept, Mine
<1> QED BY <1>1, <1>2, <1>3

\* A turn the step does not touch.
LEMMA UntouchedFine ==
    ASSUME MemoryTypeOK, active = None => messages = <<>>, ActiveStep, surface' = surface,
           NEW u \in Turns, TurnFine(u), OwnKept(u), SameTask(u),
           turn'[u] = turn[u], said'[u] = said[u],
           u \in failed' <=> u \in failed, u \in unseen' <=> u \in unseen
    PROVE  TurnFine(u)'
<1>1. turn[u].message \in Nat /\ op[u].message \in Nat
  <2>1. turn[u] \in TurnRecords /\ op[u] \in Tasks BY DEF MemoryTypeOK
  <2> QED BY <2>1 DEF TurnRecords, Tasks
<1>2. HasMessage(u)' <=> HasMessage(u) BY DEF HasMessage, OwnKept
<1>3. Mine(u, turn[u].message)' <=> Mine(u, turn[u].message)
  <2> DEFINE k == turn'[u].message
  <2>1. k \in Nat /\ k = turn[u].message BY <1>1
  <2> QED BY <2>1 DEF OwnKept, Mine
<1>4. Mine(u, op[u].message)' <=> Mine(u, op[u].message)
  <2>1. op'[u].message = op[u].message /\ op[u].message \in Nat BY <1>1 DEF SameTask
  <2> QED BY <2>1 DEF OwnKept, Mine
<1>5. Mine(u, turn[u].message) => messages'[turn'[u].message] = messages[turn[u].message]
  BY <1>1 DEF OwnKept
<1>6. Mine(u, op[u].message) => messages'[op'[u].message] = messages[op[u].message]
  BY <1>1 DEF OwnKept, SameTask
<1>7. TaskOK(u)' BY <1>4, <1>6 DEF TaskOK, TurnFine, SameTask, ToAppend, Served
<1>8. TurnOK(u)' BY <1>2, <1>3 DEF TurnOK, TurnFine, SameTask
<1>9. KnowsMessage(u)' BY DEF KnowsMessage, TurnFine, SameTask, ToAppend, Served
<1>10. TextSeen(u)'
  <2>1. turn[u].message # 0 => Mine(u, turn[u].message) BY DEF TurnFine, TurnOK
  <2> QED BY <1>5, <2>1 DEF TextSeen, TurnFine, SameTask
<1>11. StoredOnce(u)' BY <1>2 DEF StoredOnce, TurnFine, SameTask, ToAppend, OwnKept
<1>12. Placed(u)'
  <2>1. turn[u].message # 0 => Mine(u, turn[u].message) BY DEF TurnFine, TurnOK
  <2>2. Served(u) => Mine(u, op[u].message) BY DEF TurnFine, TaskOK
  <2>3. Served(u)' <=> Served(u) BY DEF Served, SameTask
  <2>4. CASE UNCHANGED <<active, overtaken>>
    BY <1>5, <1>6, <2>1, <2>2, <2>3, <2>4 DEF Placed, TurnFine, SameTask
  <2>5. CASE active' # None /\ overtaken' BY <2>5 DEF Placed
  <2>6. CASE active' # None /\ active = None
    <3>1. turn[u].message = 0 BY <1>1, <2>1, <2>6 DEF Mine
    <3> QED BY <2>3, <2>6, <3>1 DEF Placed, TurnFine, SameTask
  <2> QED BY <2>4, <2>5, <2>6 DEF ActiveStep
<1> QED BY <1>7, <1>8, <1>9, <1>10, <1>11, <1>12 DEF TurnFine

\* A step at the front of a chain, or none.
LEMMA QuietLine ==
    ASSUME MemoryTypeOK, InLine, op' \in [Turns -> Tasks],
           \A t \in Turns : /\ op'[t].at = "none" <=> op[t].at = "none"
                            /\ op'[t].behind = op[t].behind
                            /\ ToAppend(t)' => ToAppend(t)
                            /\ HasMessage(t)' =>
                                 HasMessage(t) \/ (op[t].at # "none" /\ op[t].behind = None),
           UNCHANGED <<said, surface, tail, Unsaid>>, failed \subseteq failed'
    PROVE  InLine'
<1>1. PICK r \in [Turns -> Nat], n \in Nat : Line(op, tail, said, surface, r, n) /\ Appending(r)
  BY DEF InLine
<1>2. Line(op, tail, said, surface, r, n) BY <1>1
<1>3. RankTypes(op, tail, said, surface, r, n) BY DEF RankTypes, MemoryTypeOK
<1>4. Line(op', tail, said, surface, r, n) BY <1>2, <1>3, LineKept
<1>5. Line(op', tail', said', surface', r, n) BY <1>4
<1>6. Appending(r)'
  <2> SUFFICES ASSUME NEW v \in Turns, NEW u \in Turns \ Unsaid,
                      ToAppend(v)', v \notin failed', Earlier(v, u)
               PROVE  op'[u].at # "none" /\ r[v] < r[u] /\ ~HasMessage(u)'
    BY DEF Appending, Earlier
  <2>1. op[u].at # "none" /\ r[v] < r[u] /\ ~HasMessage(u) BY <1>1 DEF Appending
  <2>2. v \in Busy(op) /\ u \in Busy(op) BY <2>1 DEF ToAppend, Busy
  <2>3. op[u].behind # None BY <1>2, <2>1, <2>2 DEF Line, Earlier
  <2> QED BY <2>1, <2>3
<1> QED BY <1>5, <1>6 DEF InLine

LEMMA SameOrder ==
    ASSUME StoredInOrder, Len(messages') = Len(messages),
           \A i \in 1..Len(messages) : messages'[i].turn = messages[i].turn,
           \A i \in 1..Len(messages) : said'[messages[i].turn] = said[messages[i].turn],
           failed \subseteq failed'
    PROVE  StoredInOrder'
  BY DEF StoredInOrder

LEMMA SamePlaces == ASSUME Places, UNCHANGED <<Unsaid, said>> PROVE Places' BY DEF Places

\* Steps about other things.
LEMMA ElsewhereKeeps ==
    ASSUME MemoryInv, UNCHANGED <<messages, active, tail, turn, op, history>>
    PROVE  /\ Places' /\ InLine' /\ StoredInOrder' /\ (active' = None => messages' = <<>>)
           /\ \A t \in Turns : TurnFine(t)'
<1>1. UNCHANGED <<said, surface, failed, unseen, overtaken, Unsaid>> BY DEF history, Unsaid
<1>2. \A t \in Turns : TurnFine(t)'
  <2> TAKE t \in Turns
  <2>1. OwnKept(t) BY OwnKeptSame
  <2>2. SameTask(t) /\ ActiveStep BY <1>1 DEF SameTask, ActiveStep
  <2> QED BY <1>1, <2>1, <2>2, UntouchedFine DEF MemoryInv
<1>3. InLine'
  <2>1. \A t \in Turns : (ToAppend(t)' <=> ToAppend(t)) /\ (HasMessage(t)' <=> HasMessage(t))
    BY DEF ToAppend, HasMessage, Mine
  <2>2. op' \in [Turns -> Tasks] BY DEF MemoryInv, MemoryTypeOK
  <2> QED BY <1>1, <2>1, <2>2, QuietLine DEF MemoryInv
<1>4. StoredInOrder' BY <1>1, SameOrder DEF MemoryInv
<1>5. Places' BY <1>1, SamePlaces DEF MemoryInv
<1> QED BY <1>2, <1>3, <1>4, <1>5 DEF MemoryInv

-----------------------------------------------------------------------------
(* Storing a turn, step by step *)

LEMMA Tasked ==
    ASSUME NEW text \in Nat
    PROVE  /\ Idle \in Tasks /\ AppendOf(text) \in Tasks
           /\ Idle.at = "none" /\ Idle.ok /\ Idle.behind = None
           /\ AppendOf(text).does = "append" /\ AppendOf(text).ok
           /\ AppendOf(text).retry /\ AppendOf(text).text = text
  BY DEF Idle, Tasks, Awaits, AppendOf

LEMMA Record ==
    ASSUME MemoryTypeOK, NEW t \in Turns
    PROVE  /\ op[t] \in Tasks /\ op[t].message \in Nat /\ op[t].at \in Awaits
           /\ op[t].does \in {"append", "update"} /\ op[t].text \in Nat
           /\ op[t].ok \in BOOLEAN /\ op[t].retry \in BOOLEAN
           /\ op[t].behind \in Turns \cup {None} /\ op[t].chat \in Chats \cup {None}
           /\ turn[t] \in TurnRecords /\ turn[t].message \in Nat /\ turn[t].text \in Nat
           /\ turn[t].state \in {"unsaid", "shown", "gone"}
           /\ said[t].surface \in Nat /\ said[t].place \in Nat
<1>1. op[t] \in Tasks /\ turn[t] \in TurnRecords
      /\ said[t] \in [surface : Nat, place : Nat] BY DEF MemoryTypeOK
<1> QED BY <1>1 DEF Tasks, TurnRecords

LEMMA MessageFields ==
    ASSUME MemoryTypeOK, NEW i \in 1..Len(messages)
    PROVE  messages[i].turn \in Turns /\ messages[i].text \in Nat
           /\ messages[i].chat \in Chats \cup {None} /\ i \in Nat
<1> DEFINE Message == [turn : Turns, chat : Chats \cup {None}, text : Nat]
<1>1. messages \in Seq(Message) BY DEF MemoryTypeOK
<1>2. messages[i] \in Message
  <2> HIDE DEF Message
  <2> QED BY <1>1
<1>3. Len(messages) \in Nat BY <1>1
<1> QED BY <1>2, <1>3

\* A task that joins the chain of the present surface.
Joins(t, task) == op' = [op EXCEPT ![t] = Queued(task, tail)] /\ tail' = t

LEMMA JoinsFacts ==
    ASSUME MemoryTypeOK, NEW t \in Turns, NEW task \in Tasks, Joins(t, task)
    PROVE  /\ op' \in [Turns -> Tasks] /\ tail' \in Turns
           /\ \A u \in Turns \ {t} : op'[u] = op[u]
           /\ op'[t].at = "queued" /\ op'[t].behind = tail
           /\ op'[t].does = task.does /\ op'[t].text = task.text
           /\ op'[t].message = task.message /\ op'[t].ok = task.ok
           /\ op'[t].retry = task.retry
<1>1. tail \in Turns \cup {None} /\ op \in [Turns -> Tasks] BY DEF MemoryTypeOK
<1>2. op'[t] = Queued(task, tail) BY <1>1 DEF Joins
<1>3. Queued(task, tail) \in Tasks BY <1>1, QueuedTask
<1>4. op' \in [Turns -> Tasks] /\ \A u \in Turns \ {t} : op'[u] = op[u]
  BY <1>1, <1>3 DEF Joins
<1> QED BY <1>1, <1>2, <1>4, QueuedTask DEF Joins

\* The chain when a turn of the present surface joins it that was not in it.
LEMMA JoinsInLine ==
    ASSUME ChatMemoryAssumption, MemoryTypeOK, InLine,
           NEW t \in Turns, op[t].at = "none", NEW task \in Tasks, Joins(t, task),
           said' \in [Turns -> [surface : Nat, place : Nat]], surface' = surface,
           said'[t].surface = surface, failed \subseteq failed',
           \A u \in Turns \ {t} : said'[u] = said[u],
           \A u \in Turns : HasMessage(u)' => HasMessage(u),
           \A u \in Turns \ {t} : u \in Unsaid' <=> u \in Unsaid,
           \* nothing it would have to wait for, and nothing that would have to wait for it
           \A v \in Turns \ {t} : ToAppend(v) /\ v \notin failed /\ Earlier(v, t)'
                                   => ~HasMessage(t) /\ t \in Turns \ Unsaid',
           task.does = "append" /\ t \notin failed' =>
               \A u \in Turns \ Unsaid' : ~Earlier(t, u)'
    PROVE  InLine'
<1>1. PICK r \in [Turns -> Nat], n \in Nat : Line(op, tail, said, surface, r, n) /\ Appending(r)
  BY DEF InLine
<1>2. Line(op, tail, said, surface, r, n) BY <1>1
<1>3. RankTypes(op, tail, said, surface, r, n) /\ RankTypes(op, tail, said', surface, r, n)
  BY DEF RankTypes, MemoryTypeOK
<1>4. \A u \in Busy(op) : u \in Turns \ {t} BY DEF Busy
<1>5. Line(op, tail, said', surface, r, n)
  <2>1. \A u \in Busy(op) : said'[u].surface = said[u].surface BY <1>4
  <2>2. op \in [Turns -> Tasks] BY DEF MemoryTypeOK
  <2> QED BY <1>2, <1>3, <2>1, <2>2, LineKept
<1>6. t \in Turns \ Busy(op) BY <1>4
<1> DEFINE q == [r EXCEPT ![t] = n]
<1>7. q \in [Turns -> Nat] /\ Line(op', t, said', surface, q, n + 1)
  BY <1>3, <1>5, <1>6, LineJoins DEF Joins
<1>8. q[t] = n /\ \A u \in Turns \ {t} : q[u] = r[u] OBVIOUS
<1> HIDE DEF q
<1>9. Line(op', tail', said', surface', q, n + 1) BY <1>7 DEF Joins
<1>10. \A u \in Turns \ {t} : op'[u] = op[u] BY JoinsFacts
<1>11. op'[t].at = "queued" /\ op'[t].does = task.does BY JoinsFacts
<1>12. Appending(q)'
  <2> SUFFICES ASSUME NEW v \in Turns, NEW u \in Turns \ Unsaid',
                      ToAppend(v)', v \notin failed', Earlier(v, u)'
               PROVE  op'[u].at # "none" /\ q[v] < q[u] /\ ~HasMessage(u)'
    BY <1>7 DEF Appending
  <2>1. v # t BY <1>11 DEF ToAppend
  <2>2. ToAppend(v) /\ v \notin failed BY <1>10, <2>1 DEF ToAppend
  <2>3. CASE u = t
    <3>1. v \in Busy(op) BY <2>2 DEF ToAppend, Busy
    <3>2. r[v] < n BY <1>2, <3>1 DEF Line
    <3> QED BY <1>8, <1>11, <2>1, <2>2, <2>3, <3>2
  <2>4. CASE u # t
    <3>1. Earlier(v, u) /\ u \in Turns \ Unsaid BY <2>1, <2>4 DEF Earlier
    <3>2. op[u].at # "none" /\ r[v] < r[u] /\ ~HasMessage(u)
      BY <1>1, <2>2, <3>1 DEF Appending
    <3> QED BY <1>8, <1>10, <2>1, <2>4, <3>2
  <2> QED BY <2>3, <2>4
<1>13. n + 1 \in Nat OBVIOUS
<1> QED BY <1>7, <1>9, <1>12, <1>13 DEF InLine

\* What every action has to keep.
Kept == /\ Places' /\ InLine' /\ StoredInOrder' /\ (active' = None => messages' = <<>>)
        /\ \A t \in Turns : TurnFine(t)'

LEMMA SayKeeps == ASSUME ChatMemoryAssumption, MemoryInv, NEW t \in Turns, Say(t) PROVE Kept /\ MemoryTypeOK'
<1>1. MemoryTypeOK /\ TurnFine(t) BY DEF MemoryInv
<1>2. turn[t].state = "unsaid" /\ op[t] = Idle /\ turn[t].message = 0 /\ ~HasMessage(t)
  BY <1>1 DEF Say, Unsaid, TurnFine, TurnOK
<1> DEFINE task == AppendOf(turn[t].text)
           s == Cardinality(Turns \ Unsaid)
<1>3. task \in Tasks /\ task.does = "append" /\ task.ok /\ task.retry /\ task.text = turn[t].text
      /\ op[t].at = "none"
  BY <1>1, <1>2, Record, Tasked
<1>4. Joins(t, task) /\ unseen' = unseen \ {t}
  BY <1>2, <1>3 DEF Say, Persist, Chained, Joins, Queued
<1> HIDE DEF task
<1>5. /\ turn' \in [Turns -> TurnRecords] /\ turn'[t].state = "shown"
      /\ turn'[t].message = 0 /\ turn'[t].text = turn[t].text
      /\ \A u \in Turns \ {t} : turn'[u] = turn[u]
  <2>1. turn' = [turn EXCEPT ![t].state = "shown"] /\ turn \in [Turns -> TurnRecords]
    BY <1>1 DEF Say, MemoryTypeOK
  <2>2. turn[t] \in TurnRecords BY <2>1
  <2>3. [turn[t] EXCEPT !.state = "shown"] \in TurnRecords BY <2>2, Zenon DEF TurnRecords
  <2> QED BY <1>2, <2>1, <2>2, <2>3 DEF TurnRecords
<1>6. s \in Nat /\ IsFiniteSet(Turns \ Unsaid)
  BY FS_CardinalityType DEF MemoryInv, Places
<1>7. /\ said' \in [Turns -> [surface : Nat, place : Nat]]
      /\ said'[t].surface = surface /\ said'[t].place = s
      /\ \A u \in Turns \ {t} : said'[u] = said[u]
  BY <1>1, <1>6 DEF Say, MemoryTypeOK
<1>8. UNCHANGED <<messages, active, surface, failed, overtaken, texts, existing, currentChat, lookup, switch>>
  BY DEF Say, backend, bounds
<1>9. Turns \ Unsaid' = (Turns \ Unsaid) \cup {t} /\ t \notin Turns \ Unsaid
  BY <1>2, <1>5 DEF Unsaid
<1>10. IsFiniteSet(Turns \ Unsaid') /\ Cardinality(Turns \ Unsaid') = s + 1
  <2> DEFINE S == Turns \ Unsaid
  <2>1. IsFiniteSet(S) /\ t \notin S /\ Turns \ Unsaid' = S \cup {t} BY <1>6, <1>9
  <2> HIDE DEF S
  <2>2. IsFiniteSet(S \cup {t}) /\ Cardinality(S \cup {t}) = Cardinality(S) + 1
    BY <2>1, FS_AddElement
  <2> QED BY <2>1, <2>2 DEF S
<1>11. \A u \in Turns \ Unsaid : u # t /\ said'[u].place < s
  BY <1>7, <1>9 DEF MemoryInv, Places
<1>12. Places'
  <2> SUFFICES ASSUME NEW u \in Turns \ Unsaid' PROVE said'[u].place < s + 1
    BY <1>10 DEF Places
  <2>1. said'[u].place \in Nat BY <1>7
  <2> QED BY <1>6, <1>7, <1>9, <1>11, <2>1
<1>13. \A u \in Turns : HasMessage(u)' <=> HasMessage(u) BY <1>8 DEF HasMessage, Mine
<1>14. InLine'
  <2>1. \A u \in Turns \ Unsaid' : ~Earlier(t, u)'
    <3> SUFFICES ASSUME NEW u \in Turns \ Unsaid', said'[t].place < said'[u].place PROVE FALSE
      BY DEF Earlier
    <3>1. u # t BY <1>6, <1>7
    <3>2. said'[u].place < s BY <1>9, <1>11, <3>1
    <3>3. said'[u].place \in Nat BY <1>7
    <3> QED BY <1>6, <1>7, <3>2, <3>3
  <2>2. \A u \in Turns \ {t} : u \in Unsaid' <=> u \in Unsaid BY <1>5 DEF Unsaid
  <2>3. InLine /\ failed \subseteq failed' /\ surface' = surface BY <1>8 DEF MemoryInv
  <2>4. ~HasMessage(t) /\ t \in Turns \ Unsaid' BY <1>2, <1>9
  <2> QED BY <1>1, <1>3, <1>4, <1>7, <1>13, <2>1, <2>2, <2>3, <2>4, JoinsInLine
<1>15. StoredInOrder'
  <2>1. \A i \in 1..Len(messages) : messages[i].turn \in Turns /\ messages[i].turn # t
    <3> TAKE i \in 1..Len(messages)
    <3>1. i \in Nat /\ messages[i].turn = t => Mine(t, i) BY DEF Mine
    <3>2. messages[i].turn \in Turns BY <1>1, MessageFields
    <3> QED BY <1>2, <3>1, <3>2 DEF HasMessage
  <2> QED BY <1>7, <1>8, <2>1, SameOrder DEF MemoryInv
<1>16. \A u \in Turns \ {t} : TurnFine(u)'
  <2> TAKE u \in Turns \ {t}
  <2>1. OwnKept(u) BY <1>8, OwnKeptSame
  <2>2. op'[u] = op[u] BY <1>3, <1>4, <1>1, JoinsFacts
  <2>3. SameTask(u) /\ ActiveStep BY <1>8, <2>2 DEF SameTask, ActiveStep
  <2> QED BY <1>1, <1>4, <1>5, <1>7, <1>8, <2>1, <2>3, UntouchedFine DEF MemoryInv
<1>17. /\ op' \in [Turns -> Tasks] /\ tail' \in Turns
       /\ op'[t].at = "queued" /\ op'[t].does = "append" /\ op'[t].ok /\ op'[t].retry
  BY <1>1, <1>3, <1>4, JoinsFacts
<1>18. TurnFine(t)'
  <2>1. TaskOK(t)' BY <1>17 DEF TaskOK, Served
  <2>2. TurnOK(t)' BY <1>1, <1>5, <1>7, <1>8 DEF TurnOK, MemoryTypeOK
  <2>3. KnowsMessage(t)' BY <1>5, <1>17 DEF KnowsMessage
  <2>4. TextSeen(t)' BY <1>17 DEF TextSeen
  <2>5. StoredOnce(t)'
    <3>1. ~HasMessage(t)' BY <1>2, <1>13
    <3> QED BY <3>1 DEF StoredOnce, HasMessage
  <2>6. Placed(t)' BY <1>5, <1>17 DEF Placed, Served
  <2> QED BY <2>1, <2>2, <2>3, <2>4, <2>5, <2>6 DEF TurnFine
<1>19. MemoryTypeOK' BY <1>1, <1>4, <1>5, <1>7, <1>8, <1>17 DEF MemoryTypeOK
<1> QED BY <1>8, <1>12, <1>14, <1>15, <1>16, <1>18, <1>19 DEF Kept, MemoryInv

-----------------------------------------------------------------------------
(* The task of a turn moves on *)

\* The task of turn t goes on in its place in the chain.
GoesOn(t) ==
    /\ op' \in [Turns -> Tasks] /\ \A u \in Turns \ {t} : op'[u] = op[u]
    /\ op[t].at # "none" /\ op'[t].at # "none" /\ op'[t].behind = op[t].behind
    /\ ToAppend(t)' => ToAppend(t)

\* Turns other than the one whose task goes on, and the chain.
LEMMA GoesOnKeeps ==
    ASSUME MemoryInv, NEW t \in Turns, GoesOn(t), ActiveStep, active = None \/ active' # None,
           UNCHANGED <<said, surface, tail, turn>>,
           failed \subseteq failed', \A u \in Turns \ {t} : u \in failed' => u \in failed,
           \A u \in Turns \ {t} : u \in unseen' <=> u \in unseen,
           \A u \in Turns \ {t} : OwnKept(u),
           HasMessage(t)' => HasMessage(t) \/ op[t].behind = None
    PROVE  Places' /\ InLine' /\ \A u \in Turns \ {t} : TurnFine(u)'
<1>1. Unsaid' = Unsaid BY DEF Unsaid
<1>2. Places' BY <1>1, SamePlaces DEF MemoryInv
<1>3. \A u \in Turns \ {t} : HasMessage(u)' <=> HasMessage(u) BY DEF OwnKept, HasMessage
<1>4. InLine'
  <2>1. \A u \in Turns : /\ op'[u].at = "none" <=> op[u].at = "none"
                         /\ op'[u].behind = op[u].behind
                         /\ ToAppend(u)' => ToAppend(u)
                         /\ HasMessage(u)' =>
                              HasMessage(u) \/ (op[u].at # "none" /\ op[u].behind = None)
    <3> TAKE u \in Turns
    <3>1. CASE u = t BY <3>1 DEF GoesOn
    <3>2. CASE u # t BY <1>3, <3>2 DEF GoesOn, ToAppend
    <3> QED BY <3>1, <3>2
  <2>2. op' \in [Turns -> Tasks] BY DEF GoesOn
  <2> QED BY <1>1, <2>1, <2>2, QuietLine DEF MemoryInv
<1>5. \A u \in Turns \ {t} : TurnFine(u)'
  <2> TAKE u \in Turns \ {t}
  <2>1. SameTask(u) BY DEF GoesOn, SameTask
  <2>2. TurnFine(u) /\ MemoryTypeOK /\ (active = None => messages = <<>>) BY DEF MemoryInv
  <2> QED BY <2>1, <2>2, UntouchedFine
<1> QED BY <1>2, <1>4, <1>5

\* What the parts of a task become.
Sends(t, chat) == [op EXCEPT ![t].at = "sent", ![t].chat = chat]
LEMMA SentTask ==
    ASSUME MemoryTypeOK, NEW t \in Turns, NEW chat \in Chats \cup {None}, op' = Sends(t, chat)
    PROVE  /\ op' \in [Turns -> Tasks] /\ \A u \in Turns \ {t} : op'[u] = op[u]
           /\ op'[t].at = "sent" /\ op'[t].chat = chat
           /\ op'[t].does = op[t].does /\ op'[t].text = op[t].text
           /\ op'[t].message = op[t].message /\ op'[t].ok = op[t].ok
           /\ op'[t].retry = op[t].retry /\ op'[t].behind = op[t].behind
<1>1. op \in [Turns -> Tasks] BY DEF MemoryTypeOK
<1>2. op[t] \in Tasks BY <1>1
<1> DEFINE s == [op[t] EXCEPT !.at = "sent", !.chat = chat]
<1>3. op' = [op EXCEPT ![t] = s] BY <1>1 DEF Sends
<1>4. s \in Tasks BY <1>2, Zenon DEF Tasks, Awaits
<1>5. /\ s.at = "sent" /\ s.chat = chat /\ s.does = op[t].does /\ s.text = op[t].text
      /\ s.message = op[t].message /\ s.ok = op[t].ok /\ s.retry = op[t].retry
      /\ s.behind = op[t].behind
  BY <1>2, Zenon DEF Tasks
<1> HIDE DEF s
<1> QED BY <1>1, <1>3, <1>4, <1>5

LooksUp(t) == [op EXCEPT ![t].at = "chat"]
LEMMA LookingTask ==
    ASSUME MemoryTypeOK, NEW t \in Turns, op' = LooksUp(t)
    PROVE  /\ op' \in [Turns -> Tasks] /\ \A u \in Turns \ {t} : op'[u] = op[u]
           /\ op'[t].at = "chat" /\ op'[t].chat = op[t].chat
           /\ op'[t].does = op[t].does /\ op'[t].text = op[t].text
           /\ op'[t].message = op[t].message /\ op'[t].ok = op[t].ok
           /\ op'[t].retry = op[t].retry /\ op'[t].behind = op[t].behind
<1>1. op \in [Turns -> Tasks] BY DEF MemoryTypeOK
<1>2. op[t] \in Tasks BY <1>1
<1> DEFINE s == [op[t] EXCEPT !.at = "chat"]
<1>3. op' = [op EXCEPT ![t] = s] BY <1>1 DEF LooksUp
<1>4. s \in Tasks BY <1>2, Zenon DEF Tasks, Awaits
<1>5. /\ s.at = "chat" /\ s.chat = op[t].chat /\ s.does = op[t].does /\ s.text = op[t].text
      /\ s.message = op[t].message /\ s.ok = op[t].ok /\ s.retry = op[t].retry
      /\ s.behind = op[t].behind
  BY <1>2, Zenon DEF Tasks
<1> HIDE DEF s
<1> QED BY <1>1, <1>3, <1>4, <1>5

LEMMA AnsweredTask ==
    ASSUME MemoryTypeOK, NEW t \in Turns, NEW id \in Nat, op' = Answered(t, id)
    PROVE  /\ op' \in [Turns -> Tasks] /\ \A u \in Turns \ {t} : op'[u] = op[u]
           /\ op'[t].at = "answered" /\ op'[t].message = id
           /\ op'[t].does = op[t].does /\ op'[t].text = op[t].text /\ op'[t].ok = op[t].ok
           /\ op'[t].retry = op[t].retry /\ op'[t].behind = op[t].behind
<1>1. op \in [Turns -> Tasks] BY DEF MemoryTypeOK
<1>2. op[t] \in Tasks BY <1>1
<1> DEFINE s == [op[t] EXCEPT !.at = "answered", !.message = id, !.chat = None]
<1>3. op' = [op EXCEPT ![t] = s] BY <1>1 DEF Answered
<1>4. s \in Tasks BY <1>2, Zenon DEF Tasks, Awaits
<1>5. /\ s.at = "answered" /\ s.message = id /\ s.does = op[t].does /\ s.text = op[t].text
      /\ s.ok = op[t].ok /\ s.retry = op[t].retry /\ s.behind = op[t].behind
  BY <1>2, Zenon DEF Tasks
<1> HIDE DEF s
<1> QED BY <1>1, <1>3, <1>4, <1>5

LEMMA FailedTask ==
    ASSUME MemoryTypeOK, NEW t \in Turns, op' = Failed(t)
    PROVE  /\ op' \in [Turns -> Tasks] /\ \A u \in Turns \ {t} : op'[u] = op[u]
           /\ op'[t].at = "answered" /\ ~op'[t].ok /\ op'[t].behind = None
           /\ op'[t].does = "append" /\ op'[t].retry = op[t].retry
<1>1. op \in [Turns -> Tasks] BY DEF MemoryTypeOK
<1>2. op[t].retry \in BOOLEAN BY Record
<1> DEFINE s == [Idle EXCEPT !.at = "answered", !.ok = FALSE, !.retry = op[t].retry]
<1>3. op' = [op EXCEPT ![t] = s] BY DEF Failed
<1>4. s \in Tasks BY <1>2 DEF Tasks, Awaits, Idle
<1>5. s.at = "answered" /\ ~s.ok /\ s.behind = None /\ s.does = "append" /\ s.retry = op[t].retry
  BY DEF Idle
<1> HIDE DEF s
<1> QED BY <1>1, <1>3, <1>4, <1>5

LEMMA RunKeeps ==
    ASSUME ChatMemoryAssumption, MemoryInv, NEW t \in Turns, Run(t) PROVE Kept /\ MemoryTypeOK' /\ CallsOK'
<1>1. MemoryTypeOK /\ TurnFine(t) /\ op[t].at = "queued" /\ op[t].behind = None
      /\ (active = None => messages = <<>>) /\ CallsOK
  BY DEF MemoryInv, Run
<1>2. UNCHANGED <<messages, active, tail, turn, said, surface, failed, unseen, overtaken, existing,
                  currentChat, switch, texts>>
  BY DEF Run, backend, bounds, history
<1>3. /\ op' \in [Turns -> Tasks] /\ \A u \in Turns \ {t} : op'[u] = op[u]
      /\ op'[t].at \in {"chat", "sent"}
      /\ op'[t].at = "sent" => op'[t].chat = active /\ active # None
      /\ op'[t].does = op[t].does /\ op'[t].text = op[t].text
      /\ op'[t].message = op[t].message /\ op'[t].ok = op[t].ok
      /\ op'[t].retry = op[t].retry /\ op'[t].behind = op[t].behind
  <2>1. active \in Chats \cup {None} BY <1>1 DEF MemoryTypeOK
  <2>2. CASE active # None
    <3>1. op' = Sends(t, active) BY <2>2 DEF Run, Sends
    <3> QED BY <1>1, <2>1, <2>2, <3>1, SentTask
  <2>3. CASE active = None
    <3>1. op' = LooksUp(t) BY <2>3 DEF Run, LooksUp
    <3> QED BY <1>1, <2>3, <3>1, LookingTask
  <2> QED BY <2>2, <2>3
<1>4. GoesOn(t) BY <1>1, <1>3 DEF GoesOn, ToAppend
<1>5. \A u \in Turns : OwnKept(u) /\ (HasMessage(u)' <=> HasMessage(u))
  BY <1>2, OwnKeptSame DEF HasMessage, OwnKept
<1>6. ActiveStep /\ (active = None \/ active' # None) BY <1>2 DEF ActiveStep
<1>7. Places' /\ InLine' /\ \A u \in Turns \ {t} : TurnFine(u)'
  BY <1>2, <1>4, <1>5, <1>6, GoesOnKeeps
<1>8. StoredInOrder' BY <1>2, SameOrder DEF MemoryInv
<1>9. TurnFine(t)'
  <2>1. /\ TaskOK(t) /\ TurnOK(t) /\ KnowsMessage(t) /\ TextSeen(t) /\ StoredOnce(t) /\ Placed(t)
        /\ \A id \in Nat : Mine(t, id)' <=> Mine(t, id)
    BY <1>1, <1>5 DEF TurnFine, OwnKept
  <2>2. op[t].message \in Nat /\ turn[t].message \in Nat BY <1>1, Record
  <2>3. Mine(t, op[t].message)' <=> Mine(t, op[t].message) BY <1>2, <1>3 DEF Mine
  <2>4. Mine(t, turn[t].message)' <=> Mine(t, turn[t].message) BY <1>2 DEF Mine
  <2>5. TaskOK(t)' BY <1>1, <1>2, <1>3, <2>1, <2>3 DEF TaskOK, ToAppend, Served
  <2>6. TurnOK(t)'
    <3>1. turn[t].state # "unsaid" BY <1>1, <2>1, Tasked DEF TurnOK
    <3> QED BY <1>2, <2>1, <2>4, <3>1 DEF TurnOK
  <2>7. KnowsMessage(t)' BY <1>1, <1>2, <1>3, <2>1 DEF KnowsMessage, ToAppend, Served
  <2>8. TextSeen(t)' BY <1>1, <1>2, <1>3, <2>1 DEF TextSeen
  <2>9. StoredOnce(t)' BY <1>1, <1>2, <1>3, <1>5, <2>1 DEF StoredOnce, ToAppend
  <2>10. Placed(t)' BY <1>1, <1>2, <1>3, <2>1 DEF Placed, Served
  <2> QED BY <2>5, <2>6, <2>7, <2>8, <2>9, <2>10 DEF TurnFine
<1>10. /\ lookup' \in [Callers -> Calls]
       /\ \A u \in Turns \ {t} : lookup'[u] = lookup[u]
       /\ op'[t].at = "sent" => lookup'[t] = lookup[t]
       /\ op'[t].at = "chat" => lookup'[t] = Asked
  <2>1. Asked \in Calls /\ t \in Callers /\ Turns \subseteq Callers BY DEF Asked, Calls, Callers
  <2>2. lookup \in [Callers -> Calls] BY <1>1 DEF MemoryTypeOK
  <2>3. CASE active # None
    <3>1. lookup' = lookup /\ op' = Sends(t, active) BY <2>3 DEF Run, Sends
    <3>2. op'[t].at = "sent" BY <3>1, <1>1, SentTask DEF MemoryTypeOK
    <3> QED BY <2>2, <3>1, <3>2
  <2>4. CASE active = None
    <3>1. lookup' = [lookup EXCEPT ![t] = Asked] BY <2>4 DEF Run
    <3>2. op'[t].at = "chat" BY <1>3, <2>4
    <3> QED BY <2>1, <2>2, <3>1, <3>2
  <2> QED BY <2>3, <2>4
<1>11. CallsOK'
  <2>1. Asked.at = "sent" BY DEF Asked
  <2> QED BY <1>1, <1>2, <1>3, <1>10, <2>1 DEF CallsOK
<1>12. MemoryTypeOK' BY <1>1, <1>2, <1>3, <1>10 DEF MemoryTypeOK
<1> QED BY <1>1, <1>2, <1>7, <1>8, <1>9, <1>11, <1>12 DEF Kept

\* Who is said: no message is of another turn.
LEMMA MessageSaid ==
    ASSUME MemoryInv, NEW i \in 1..Len(messages)
    PROVE  messages[i].turn \in Turns \ Unsaid /\ HasMessage(messages[i].turn)
<1>1. messages[i].turn \in Turns /\ i \in Nat BY MessageFields DEF MemoryInv
<1>2. Mine(messages[i].turn, i) BY DEF Mine
<1>3. HasMessage(messages[i].turn) BY <1>1, <1>2 DEF HasMessage
<1> QED BY <1>1, <1>3 DEF MemoryInv, TurnFine, TurnOK, Unsaid

\* A request that is served: the turn's task is at the front, and busy.
LEMMA SentFacts ==
    ASSUME MemoryInv, NEW t \in Turns, op[t].at # "none"
    PROVE  /\ turn[t].state # "unsaid" /\ MemoryTypeOK /\ TurnFine(t)
           /\ TaskOK(t) /\ TurnOK(t) /\ KnowsMessage(t) /\ TextSeen(t) /\ StoredOnce(t) /\ Placed(t)
<1>1. TurnFine(t) /\ MemoryTypeOK BY DEF MemoryInv
<1> QED BY <1>1, Tasked DEF TurnFine, TurnOK

LEMMA ServeAppendKeeps ==
    ASSUME ChatMemoryAssumption, MemoryInv, NEW t \in Turns,
           op[t].at = "sent", op[t].does = "append",
           messages' = Append(messages, [turn |-> t, chat |-> op[t].chat, text |-> op[t].text]),
           op' = Answered(t, Len(messages) + 1),
           UNCHANGED <<existing, currentChat, memory, turn, bounds, history>>
    PROVE  Kept /\ MemoryTypeOK'
<1>1. /\ turn[t].state # "unsaid" /\ MemoryTypeOK
      /\ TaskOK(t) /\ TurnOK(t) /\ KnowsMessage(t) /\ TextSeen(t) /\ StoredOnce(t) /\ Placed(t)
  BY SentFacts
<1>2. UNCHANGED <<active, tail, lookup, switch, turn, said, surface, failed, unseen, overtaken, texts>>
  BY DEF memory, bounds, history
<1> DEFINE m == [turn |-> t, chat |-> op[t].chat, text |-> op[t].text]
           Message == [turn : Turns, chat : Chats \cup {None}, text : Nat]
<1>0. PICK id : id = Len(messages) + 1 OBVIOUS
<1>3. m \in Message /\ m.turn = t /\ m.chat = op[t].chat /\ m.text = op[t].text
  BY <1>1, Record
<1>4. messages' = Append(messages, m) OBVIOUS
<1>5. messages \in Seq(Message) BY <1>1 DEF MemoryTypeOK
<1>6. id \in Nat /\ messages' \in Seq(Message)
  <2> HIDE DEF m, Message
  <2> QED BY <1>0, <1>3, <1>4, <1>5
<1>7. \A u \in Turns :
         /\ u # t => OwnKept(u)
         /\ \A k \in Nat : Mine(u, k)' <=> Mine(u, k) \/ (u = t /\ k = id)
  <2> HIDE DEF m
  <2> QED BY <1>0, <1>1, <1>3, <1>4, OwnKeptAppended
<1>8. /\ Len(messages') = id /\ messages'[id] = m
      /\ \A k \in 1..Len(messages) : messages'[k] = messages[k]
  <2> HIDE DEF m
  <2> QED BY <1>0, <1>1, <1>3, <1>4, OwnKeptAppended
<1> HIDE DEF m, Message
<1>9. /\ op' \in [Turns -> Tasks] /\ \A u \in Turns \ {t} : op'[u] = op[u]
      /\ op'[t].at = "answered" /\ op'[t].message = id
      /\ op'[t].does = op[t].does /\ op'[t].text = op[t].text /\ op'[t].ok = op[t].ok
      /\ op'[t].retry = op[t].retry /\ op'[t].behind = op[t].behind
  BY <1>0, <1>1, <1>6, AnsweredTask
<1>10. ActiveStep /\ (active = None \/ active' # None) BY <1>2 DEF ActiveStep
<1>11. op[t].behind = None /\ op[t].ok /\ op[t].retry /\ active # None
  BY <1>1 DEF TaskOK, ToAppend, Placed
<1>12. GoesOn(t) BY <1>9, <1>11 DEF GoesOn, ToAppend
<1>13. Places' /\ InLine' /\ \A u \in Turns \ {t} : TurnFine(u)'
  BY <1>2, <1>7, <1>10, <1>11, <1>12, GoesOnKeeps
<1>14. StoredInOrder'
  <2> SUFFICES ASSUME NEW i \in 1..Len(messages'), NEW j \in 1..Len(messages'), i < j,
                      Earlier(messages'[j].turn, messages'[i].turn)
               PROVE  messages'[j].turn \in failed
    BY <1>2 DEF StoredInOrder, Earlier
  <2>1. i \in 1..Len(messages) /\ messages'[i] = messages[i] BY <1>0, <1>6, <1>8
  <2>2. CASE j \in 1..Len(messages)
    <3>1. messages'[j] = messages[j] BY <1>8, <2>2
    <3>2. StoredInOrder BY DEF MemoryInv
    <3> QED BY <2>1, <2>2, <3>1, <3>2 DEF StoredInOrder, Earlier
  <2>3. CASE j = id
    <3>1. messages'[j].turn = t BY <1>3, <1>8, <2>3
    <3>2. messages[i].turn \in Turns \ Unsaid /\ HasMessage(messages[i].turn) BY <2>1, MessageSaid
    <3>3. Earlier(t, messages[i].turn) BY <2>1, <3>1
    <3>4. ToAppend(t) BY DEF ToAppend
    <3>5. PICK r \in [Turns -> Nat], n \in Nat : Appending(r) BY DEF MemoryInv, InLine
    <3> QED BY <3>1, <3>2, <3>3, <3>4, <3>5 DEF Appending
  <2> QED BY <1>0, <1>6, <1>8, <2>2, <2>3
<1>15. TurnFine(t)'
  <2>1. turn[t].message \in Nat BY <1>1, Record
  <2>2. Mine(t, id)' BY <1>6, <1>7
  <2>3. Mine(t, op[t].message)' /\ messages'[op'[t].message] = m
    <3> QED BY <1>8, <1>9, <2>2 DEF Mine
  <2>4. turn[t].message # 0 => Mine(t, turn[t].message)'
    <3>1. turn[t].message # 0 => Mine(t, turn[t].message) BY <1>1 DEF TurnOK
    <3>2. Mine(t, turn[t].message) => Mine(t, turn[t].message)' BY <1>0, <1>2, <1>8, <1>6 DEF Mine
    <3> QED BY <3>1, <3>2
  <2>5. TaskOK(t)' BY <1>3, <1>9, <1>11, <2>3 DEF TaskOK, ToAppend, Served
  <2>6. TurnOK(t)' BY <1>1, <1>2, <2>4 DEF TurnOK
  <2>7. KnowsMessage(t)' BY <1>1, <1>2, <1>9 DEF KnowsMessage, ToAppend
  <2>8. TextSeen(t)' BY <1>1, <1>2, <1>9 DEF TextSeen
  <2>9. StoredOnce(t)' BY <1>1, <1>2, <1>7, <1>9 DEF StoredOnce, ToAppend, HasMessage
  <2>10. Placed(t)'
    <3>1. turn[t].state = "shown" => turn[t].message = 0 BY <1>1 DEF KnowsMessage, ToAppend
    <3>2. ~overtaken /\ turn[t].state = "shown" => m.chat = active BY <1>1, <1>3 DEF Placed
    <3> QED BY <1>2, <1>9, <1>11, <2>3, <3>1, <3>2 DEF Placed
  <2> QED BY <2>5, <2>6, <2>7, <2>8, <2>9, <2>10 DEF TurnFine
<1>16. MemoryTypeOK'
  <2>1. UNCHANGED <<existing, currentChat>> OBVIOUS
  <2> QED BY <1>1, <1>2, <1>6, <1>9, <2>1 DEF MemoryTypeOK, Message
<1> QED BY <1>2, <1>11, <1>13, <1>14, <1>15, <1>16 DEF Kept

LEMMA OneReplaced ==
    ASSUME NEW S, NEW s \in Seq(S), NEW i \in 1..Len(s), NEW e \in S
    PROVE  [s EXCEPT ![i] = e] \in Seq(S)
  OBVIOUS

LEMMA ServeUpdateKeeps ==
    ASSUME ChatMemoryAssumption, MemoryInv, NEW t \in Turns,
           op[t].at = "sent", op[t].does = "update", messages[op[t].message].chat = op[t].chat,
           messages' = [messages EXCEPT ![op[t].message].text = op[t].text],
           op' = Answered(t, op[t].message),
           UNCHANGED <<existing, currentChat, memory, turn, bounds, history>>
    PROVE  Kept /\ MemoryTypeOK'
<1>1. /\ turn[t].state # "unsaid" /\ MemoryTypeOK
      /\ TaskOK(t) /\ TurnOK(t) /\ KnowsMessage(t) /\ TextSeen(t) /\ StoredOnce(t) /\ Placed(t)
  BY SentFacts
<1>2. UNCHANGED <<active, tail, lookup, switch, turn, said, surface, failed, unseen, overtaken, texts>>
  BY DEF memory, bounds, history
<1> DEFINE Message == [turn : Turns, chat : Chats \cup {None}, text : Nat]
<1>0. PICK id : id = op[t].message OBVIOUS
<1>3. id \in Nat /\ Mine(t, id) /\ op[t].text \in Nat BY <1>0, <1>1, Record DEF TaskOK
<1>4. messages' = Rewritten(id, op[t].text) BY <1>0 DEF Rewritten
<1>5. \A u \in Turns : /\ u # t => OwnKept(u)
                       /\ \A k \in Nat : Mine(u, k)' <=> Mine(u, k)
  BY <1>1, <1>3, <1>4, OwnKeptRewritten
<1>6. /\ Len(messages') = Len(messages) /\ messages'[id].text = op[t].text
      /\ \A k \in 1..Len(messages) : messages'[k].turn = messages[k].turn
                                     /\ messages'[k].chat = messages[k].chat
  BY <1>1, <1>3, <1>4, OwnKeptRewritten
<1>7. messages \in Seq(Message) BY <1>1 DEF MemoryTypeOK
<1>8. messages' \in Seq(Message)
  <2>1. id \in 1..Len(messages) BY <1>3 DEF Mine
  <2>2. messages[id] \in Message
    <3> HIDE DEF Message
    <3> QED BY <1>7, <2>1
  <2>3. [messages[id] EXCEPT !.text = op[t].text] \in Message BY <1>3, <2>2
  <2>4. PICK m \in Message : m = [messages[id] EXCEPT !.text = op[t].text] BY <2>3
  <2>5. messages' = [messages EXCEPT ![id] = m] BY <1>4, <2>4 DEF Rewritten
  <2> HIDE DEF Message
  <2>6. [messages EXCEPT ![id] = m] \in Seq(Message) BY <1>7, <2>1, OneReplaced
  <2> QED BY <2>5, <2>6
<1>9. /\ op' \in [Turns -> Tasks] /\ \A u \in Turns \ {t} : op'[u] = op[u]
      /\ op'[t].at = "answered" /\ op'[t].message = id
      /\ op'[t].does = op[t].does /\ op'[t].text = op[t].text /\ op'[t].ok = op[t].ok
      /\ op'[t].retry = op[t].retry /\ op'[t].behind = op[t].behind
  BY <1>0, <1>1, <1>3, AnsweredTask
<1> HIDE DEF Message
<1>10. ActiveStep /\ (active = None \/ active' # None) BY <1>2 DEF ActiveStep
<1>11. op[t].behind = None /\ op[t].ok /\ active # None BY <1>1 DEF TaskOK, Placed
<1>12. GoesOn(t) BY <1>9, <1>11 DEF GoesOn, ToAppend
<1>13. Places' /\ InLine' /\ \A u \in Turns \ {t} : TurnFine(u)'
  BY <1>2, <1>5, <1>10, <1>11, <1>12, GoesOnKeeps
<1>14. StoredInOrder' BY <1>2, <1>6, SameOrder DEF MemoryInv
<1>15. TurnFine(t)'
  <2>1. turn[t].message \in Nat BY <1>1, Record
  <2>2. Mine(t, id)' /\ id \in 1..Len(messages) BY <1>3, <1>5 DEF Mine
  <2>3. Mine(t, op[t].message)'
    <3>1. op'[t].message = id /\ id = op[t].message BY <1>0, <1>9
    <3> QED BY <2>2, <3>1 DEF Mine
  <2>4. turn[t].message # 0 => Mine(t, turn[t].message)'
    <3>1. turn[t].message # 0 => Mine(t, turn[t].message) BY <1>1 DEF TurnOK
    <3>2. Mine(t, turn[t].message) => Mine(t, turn[t].message)' BY <1>2, <1>6 DEF Mine
    <3> QED BY <3>1, <3>2
  <2>5. TaskOK(t)' BY <1>6, <1>9, <1>11, <2>3 DEF TaskOK, ToAppend, Served
  <2>6. TurnOK(t)' BY <1>1, <1>2, <2>4 DEF TurnOK
  <2>7. KnowsMessage(t)' BY <1>0, <1>1, <1>2, <1>9, <1>11 DEF KnowsMessage, ToAppend, Served
  <2>8. TextSeen(t)' BY <1>1, <1>2, <1>9 DEF TextSeen
  <2>9. StoredOnce(t)' BY <1>1, <1>2, <1>5, <1>9 DEF StoredOnce, ToAppend, HasMessage
  <2>10. Placed(t)'
    <3>1. ~overtaken /\ turn[t].state = "shown" => messages[id].chat = active BY <1>0, <1>1 DEF Placed
    <3>2. messages'[id].chat = messages[id].chat BY <1>6, <2>2
    <3>3. ~overtaken /\ turn[t].state = "shown" /\ turn[t].message # 0 =>
             messages'[turn[t].message].chat = active
      <4>1. turn[t].message # 0 => turn[t].message \in 1..Len(messages) BY <1>1 DEF TurnOK, Mine
      <4> QED BY <1>1, <1>6, <4>1 DEF Placed
    <3> QED BY <1>2, <1>9, <1>11, <3>1, <3>2, <3>3 DEF Placed
  <2> QED BY <2>5, <2>6, <2>7, <2>8, <2>9, <2>10 DEF TurnFine
<1>16. MemoryTypeOK'
  <2>1. UNCHANGED <<existing, currentChat>> OBVIOUS
  <2> QED BY <1>1, <1>2, <1>8, <1>9, <2>1 DEF MemoryTypeOK, Message
<1> QED BY <1>2, <1>11, <1>13, <1>14, <1>15, <1>16 DEF Kept

\* A request that fails, or is refused.
LEMMA FailureKeeps ==
    ASSUME ChatMemoryAssumption, MemoryInv, NEW t \in Turns,
           op[t].at \in {"chat", "sent", "answered"}, op' = Failed(t),
           failed' = failed \cup {t}, unseen' = unseen \cup {t},
           UNCHANGED <<existing, currentChat, messages, active, tail, turn, said, surface, overtaken>>
    PROVE  Kept /\ op' \in [Turns -> Tasks] /\ \A u \in Turns \ {t} : op'[u] = op[u]
<1>1. /\ turn[t].state # "unsaid" /\ MemoryTypeOK
      /\ TaskOK(t) /\ TurnOK(t) /\ KnowsMessage(t) /\ TextSeen(t) /\ StoredOnce(t) /\ Placed(t)
  BY SentFacts
<1>2. /\ op' \in [Turns -> Tasks] /\ \A u \in Turns \ {t} : op'[u] = op[u]
      /\ op'[t].at = "answered" /\ ~op'[t].ok /\ op'[t].behind = None
      /\ op'[t].does = "append"
  BY <1>1, FailedTask
<1>3. op[t].behind = None BY <1>1 DEF TaskOK
<1>4. GoesOn(t) BY <1>2, <1>3 DEF GoesOn, ToAppend
<1>5. \A u \in Turns : OwnKept(u) /\ (HasMessage(u)' <=> HasMessage(u))
  BY OwnKeptSame DEF HasMessage, OwnKept
<1>6. ActiveStep /\ (active = None \/ active' # None) BY DEF ActiveStep
<1>7. Places' /\ InLine' /\ \A u \in Turns \ {t} : TurnFine(u)'
  BY <1>3, <1>4, <1>5, <1>6, GoesOnKeeps
<1>8. StoredInOrder' BY SameOrder DEF MemoryInv
<1>9. TurnFine(t)'
  <2>1. turn[t].message # 0 => Mine(t, turn[t].message)' BY <1>1 DEF TurnOK, Mine
  <2>2. TaskOK(t)' BY <1>2 DEF TaskOK, ToAppend, Served
  <2>3. TurnOK(t)' BY <1>1, <2>1 DEF TurnOK
  <2>4. KnowsMessage(t)' BY <1>2 DEF KnowsMessage, ToAppend, Served
  <2>5. TextSeen(t)' BY DEF TextSeen
  <2>6. StoredOnce(t)' BY DEF StoredOnce
  <2>7. Placed(t)' BY <1>1, <1>2 DEF Placed, Served
  <2> QED BY <2>2, <2>3, <2>4, <2>5, <2>6, <2>7 DEF TurnFine
<1> QED BY <1>2, <1>7, <1>8, <1>9 DEF Kept, MemoryInv

LEMMA FailKeeps ==
    ASSUME ChatMemoryAssumption, MemoryInv, NEW t \in Turns, Fail(t)
    PROVE  Kept /\ MemoryTypeOK' /\ CallsOK'
<1>1. UNCHANGED <<existing, currentChat, messages, active, tail, switch, turn, said, surface, overtaken, texts>>
      /\ op' = Failed(t) /\ failed' = failed \cup {t} /\ unseen' = unseen \cup {t}
      /\ op[t].at \in {"chat", "sent", "answered"}
  BY DEF Fail, backend
<1>2. Kept /\ op' \in [Turns -> Tasks] /\ \A u \in Turns \ {t} : op'[u] = op[u]
  BY <1>1, FailureKeeps
<1>3. MemoryTypeOK /\ CallsOK BY DEF MemoryInv
<1>4. op'[t].at = "answered" BY <1>1, <1>3, FailedTask
<1>5. lookup \in [Callers -> Calls] /\ NoCall \in Calls /\ NoCall.at = "none" /\ Turns \subseteq Callers
  BY <1>3 DEF MemoryTypeOK, NoCall, Calls, Callers
<1>6. lookup' \in [Callers -> Calls] /\ lookup'[t] = NoCall
      /\ \A u \in Turns \ {t} : lookup'[u] = lookup[u]
  BY <1>5 DEF Fail
<1>7. CallsOK' BY <1>1, <1>2, <1>3, <1>4, <1>5, <1>6 DEF CallsOK
<1>8. MemoryTypeOK' BY <1>1, <1>2, <1>3, <1>6 DEF MemoryTypeOK
<1> QED BY <1>2, <1>7, <1>8

LEMMA NotFoundKeeps ==
    ASSUME ChatMemoryAssumption, MemoryInv, NEW t \in Turns, NotFound(t)
    PROVE  Kept /\ MemoryTypeOK' /\ CallsOK'
<1>1. UNCHANGED <<existing, currentChat, messages, active, tail, lookup, switch, turn, said, surface, overtaken, texts>>
      /\ op' = Failed(t) /\ failed' = failed \cup {t} /\ unseen' = unseen \cup {t}
      /\ op[t].at = "sent"
  BY DEF NotFound, backend, memory, bounds
<1>2. Kept /\ op' \in [Turns -> Tasks] /\ \A u \in Turns \ {t} : op'[u] = op[u]
  BY <1>1, FailureKeeps
<1>3. MemoryTypeOK /\ CallsOK BY DEF MemoryInv
<1>4. op'[t].at = "answered" BY <1>1, <1>3, FailedTask
<1>5. CallsOK' BY <1>1, <1>2, <1>3, <1>4 DEF CallsOK
<1>6. MemoryTypeOK' BY <1>1, <1>2, <1>3 DEF MemoryTypeOK
<1> QED BY <1>2, <1>5, <1>6

LEMMA ServeKeeps ==
    ASSUME ChatMemoryAssumption, MemoryInv, NEW t \in Turns, Serve(t)
    PROVE  Kept /\ MemoryTypeOK' /\ CallsOK'
<1>1. op[t].at = "sent" /\ UNCHANGED <<existing, currentChat, memory, turn, bounds, history>>
  BY DEF Serve
<1>2. MemoryTypeOK /\ CallsOK /\ UNCHANGED <<lookup, switch>> BY <1>1 DEF MemoryInv, memory
<1>3. PICK id \in Nat : op' = Answered(t, id) /\ Kept /\ MemoryTypeOK'
  <2>1. CASE op[t].does = "append"
    <3>1. /\ messages' = Append(messages, [turn |-> t, chat |-> op[t].chat, text |-> op[t].text])
          /\ op' = Answered(t, Len(messages) + 1)
      BY <2>1 DEF Serve
    <3>2. Len(messages) + 1 \in Nat BY <1>2 DEF MemoryTypeOK
    <3> QED BY <1>1, <2>1, <3>1, <3>2, ServeAppendKeeps
  <2>2. CASE op[t].does # "append"
    <3>1. /\ op[t].does = "update" /\ messages[op[t].message].chat = op[t].chat
          /\ messages' = [messages EXCEPT ![op[t].message].text = op[t].text]
          /\ op' = Answered(t, op[t].message)
      BY <2>2 DEF Serve
    <3>2. op[t].message \in Nat BY <1>2, Record
    <3> QED BY <1>1, <3>1, <3>2, ServeUpdateKeeps
  <2> QED BY <2>1, <2>2
<1>4. op'[t].at = "answered" /\ \A u \in Turns \ {t} : op'[u] = op[u]
  BY <1>2, <1>3, AnsweredTask
<1>5. CallsOK' BY <1>1, <1>2, <1>4 DEF CallsOK
<1> QED BY <1>3, <1>5

\* A correction: the task at work sees it, or one for it joins the chain.
LEMMA CorrectKeeps ==
    ASSUME ChatMemoryAssumption, MemoryInv, NEW t \in Turns, Correct(t)
    PROVE  Kept /\ MemoryTypeOK' /\ CallsOK'
<1>1. /\ MemoryTypeOK /\ CallsOK /\ turn[t].state = "shown" /\ TurnFine(t)
      /\ TaskOK(t) /\ TurnOK(t) /\ KnowsMessage(t) /\ TextSeen(t) /\ StoredOnce(t) /\ Placed(t)
  BY DEF MemoryInv, Correct, TurnFine
<1>2. UNCHANGED <<existing, currentChat, messages, active, lookup, switch, said, surface, failed, overtaken>>
  BY DEF Correct, backend
<1>3. texts' \in Nat /\ turn[t].message \in Nat BY <1>1, Record DEF Correct, MemoryTypeOK
<1>4. /\ turn' \in [Turns -> TurnRecords] /\ turn'[t].state = "shown"
      /\ turn'[t].message = turn[t].message /\ turn'[t].text = texts'
      /\ \A u \in Turns \ {t} : turn'[u] = turn[u]
  <2>1. turn' = [turn EXCEPT ![t].text = texts'] /\ turn \in [Turns -> TurnRecords]
    BY <1>1 DEF Correct, MemoryTypeOK
  <2>2. turn[t] \in TurnRecords BY <2>1
  <2>3. [turn[t] EXCEPT !.text = texts'] \in TurnRecords BY <1>3, <2>2, Zenon DEF TurnRecords
  <2> QED BY <1>1, <2>1, <2>2, <2>3 DEF TurnRecords
<1>5. Unsaid' = Unsaid /\ t \notin Unsaid BY <1>1, <1>4 DEF Unsaid
<1>6. Places' BY <1>2, <1>5, SamePlaces DEF MemoryInv
<1>7. StoredInOrder' BY <1>2, SameOrder DEF MemoryInv
<1>8. \A u \in Turns : OwnKept(u) /\ (HasMessage(u)' <=> HasMessage(u))
  BY <1>2, OwnKeptSame DEF HasMessage, OwnKept
<1>9. ActiveStep /\ (active' = None => messages' = <<>>) BY <1>2 DEF ActiveStep, MemoryInv
<1>10. turn'[t].message # 0 => Mine(t, turn'[t].message) BY <1>1, <1>4 DEF TurnOK
<1>11. TurnOK(t)' BY <1>1, <1>2, <1>4 DEF TurnOK, Mine
<1>12. CASE op[t].at # "none"
  <2>1. UNCHANGED <<op, tail>>
        /\ unseen' = IF op[t].retry THEN unseen ELSE unseen \cup {t}
    BY <1>12 DEF Correct, Persist
  <2>2. \A u \in Turns \ {t} : TurnFine(u)'
    <3> TAKE u \in Turns \ {t}
    <3>1. SameTask(u) BY <2>1 DEF SameTask
    <3> QED BY <1>1, <1>2, <1>4, <1>8, <1>9, <2>1, <3>1, UntouchedFine DEF MemoryInv
  <2>3. TurnFine(t)'
    <3>1. TaskOK(t)' BY <1>1, <1>2, <2>1 DEF TaskOK, ToAppend, Served, Mine
    <3>2. KnowsMessage(t)' BY <1>1, <1>2, <1>4, <2>1 DEF KnowsMessage, ToAppend, Served
    <3>3. TextSeen(t)' BY <1>12, <2>1 DEF TextSeen
    <3>4. StoredOnce(t)' BY <1>1, <1>2, <1>8, <2>1 DEF StoredOnce, ToAppend, Mine
    <3>5. Placed(t)' BY <1>1, <1>2, <1>4, <2>1 DEF Placed, Served
    <3> QED BY <1>11, <3>1, <3>2, <3>3, <3>4, <3>5 DEF TurnFine
  <2>4. InLine'
    <3>1. \A u \in Turns : ToAppend(u)' => ToAppend(u) BY <2>1 DEF ToAppend
    <3>2. op' \in [Turns -> Tasks] BY <1>1, <2>1 DEF MemoryTypeOK
    <3> QED BY <1>1, <1>2, <1>5, <1>8, <2>1, <3>1, <3>2, QuietLine DEF MemoryInv
  <2>5. MemoryTypeOK' BY <1>1, <1>2, <1>3, <1>4, <2>1 DEF MemoryTypeOK
  <2>6. CallsOK' BY <1>1, <1>2, <2>1 DEF CallsOK
  <2> QED BY <1>6, <1>7, <1>9, <2>2, <2>3, <2>4, <2>5, <2>6 DEF Kept
<1>13. CASE op[t].at = "none"
  <2> DEFINE new == IF turn[t].message = 0 THEN AppendOf(texts')
                    ELSE UpdateOf(turn[t].message, texts', FALSE)
  <2>0. PICK task : task = new OBVIOUS
  <2>1. /\ task \in Tasks /\ task.ok /\ task.text = texts'
        /\ task.does \in {"append", "update"} /\ (task.does = "append" => task.retry)
        /\ task.does = "append" <=> turn[t].message = 0
        /\ task.does = "update" => task.message = turn[t].message /\ ~task.retry
    <3>1. CASE turn[t].message = 0
      <4>1. task = AppendOf(texts') BY <2>0, <3>1
      <4> QED BY <1>3, <3>1, <4>1, Tasked
    <3>2. CASE turn[t].message # 0
      <4>1. PICK id \in Nat : id = turn[t].message BY <1>3
      <4>2. task = UpdateOf(id, texts', FALSE) BY <2>0, <3>2, <4>1
      <4>3. /\ task.does = "update" /\ task.ok /\ task.message = id /\ task.text = texts'
            /\ task \in Tasks /\ task.retry = FALSE
        BY <1>3, <4>1, <4>2 DEF UpdateOf, Idle, Tasks, Awaits
      <4> QED BY <3>2, <4>1, <4>3
    <3> QED BY <3>1, <3>2
  <2>2. Joins(t, task) /\ unseen' = unseen \ {t}
    BY <1>13, <2>0 DEF Correct, Persist, Chained, Joins, Queued
  <2> HIDE DEF new
  <2>3. /\ op' \in [Turns -> Tasks] /\ tail' \in Turns
        /\ \A u \in Turns \ {t} : op'[u] = op[u]
        /\ op'[t].at = "queued" /\ op'[t].does = task.does /\ op'[t].text = task.text
        /\ op'[t].message = task.message /\ op'[t].ok = task.ok /\ op'[t].retry = task.retry
    BY <1>1, <2>1, <2>2, JoinsFacts
  <2>4. \A u \in Turns \ {t} : TurnFine(u)'
    <3> TAKE u \in Turns \ {t}
    <3>1. SameTask(u) BY <2>3 DEF SameTask
    <3> QED BY <1>1, <1>2, <1>4, <1>8, <1>9, <2>2, <3>1, UntouchedFine DEF MemoryInv
  <2>5. task.does = "append" => t \in failed BY <1>1, <1>13, <2>1 DEF KnowsMessage
  <2>6. TurnFine(t)'
    <3>1. TaskOK(t)'
      <4>1. task.does = "update" => Mine(t, op'[t].message)
        BY <1>4, <1>10, <2>1, <2>3
      <4>2. task.does = "update" => op'[t].message \in 1..Len(messages')
                                    /\ messages'[op'[t].message].turn = t
        BY <1>2, <4>1 DEF Mine
      <4> QED BY <2>1, <2>3, <4>2 DEF TaskOK, ToAppend, Served, Mine
    <3>2. KnowsMessage(t)' BY <1>4, <2>1, <2>3 DEF KnowsMessage, ToAppend, Served
    <3>3. TextSeen(t)' BY <1>4, <2>1, <2>3 DEF TextSeen
    <3>4. StoredOnce(t)'
      <4>1. t \notin failed' => ~ToAppend(t)' BY <1>2, <2>3, <2>5 DEF ToAppend
      <4> QED BY <1>1, <1>2, <4>1 DEF StoredOnce, Mine
    <3>5. Placed(t)' BY <1>1, <1>2, <1>4, <2>3 DEF Placed, Served
    <3> QED BY <1>11, <3>1, <3>2, <3>3, <3>4, <3>5 DEF TurnFine
  <2>7. InLine'
    <3>1. /\ MemoryTypeOK /\ InLine /\ surface' = surface /\ failed \subseteq failed'
          /\ said' \in [Turns -> [surface : Nat, place : Nat]] /\ said'[t].surface = surface
          /\ \A u \in Turns \ {t} : said'[u] = said[u]
      BY <1>1, <1>2 DEF MemoryInv, MemoryTypeOK, TurnOK
    <3>2. \A v \in Turns \ {t} : ToAppend(v) /\ v \notin failed /\ Earlier(v, t)'
                                   => ~HasMessage(t) /\ t \in Turns \ Unsaid'
      <4> SUFFICES ASSUME NEW v \in Turns \ {t}, ToAppend(v), v \notin failed, Earlier(v, t)
                   PROVE  FALSE
        BY <1>2 DEF Earlier
      <4>1. PICK r \in [Turns -> Nat], n \in Nat : Appending(r) BY <3>1 DEF InLine
      <4> QED BY <1>5, <1>13, <4>1 DEF Appending
    <3>3. task.does = "append" /\ t \notin failed' =>
               \A u \in Turns \ Unsaid' : ~Earlier(t, u)'
      BY <1>2, <2>5
    <3>4. \A u \in Turns \ {t} : u \in Unsaid' <=> u \in Unsaid BY <1>5
    <3> QED BY <1>8, <1>13, <2>1, <2>2, <3>1, <3>2, <3>3, <3>4, JoinsInLine
  <2>8. MemoryTypeOK' BY <1>1, <1>2, <1>3, <1>4, <2>2, <2>3 DEF MemoryTypeOK
  <2>9. CallsOK' BY <1>1, <1>2, <1>13, <2>3 DEF CallsOK
  <2> QED BY <1>6, <1>7, <1>9, <2>4, <2>6, <2>7, <2>8, <2>9 DEF Kept
<1> QED BY <1>12, <1>13

-----------------------------------------------------------------------------
(* An answer *)

\* The others, once the task in front has left the chain: one may be in front now.
LEMMA LeavesOthers ==
    ASSUME ChatMemoryAssumption, MemoryTypeOK, NEW t \in Turns, NEW u \in Turns \ {t}
    PROVE  /\ Leaves(op, t)[u].at = op[u].at /\ Leaves(op, t)[u].does = op[u].does
           /\ Leaves(op, t)[u].text = op[u].text /\ Leaves(op, t)[u].message = op[u].message
           /\ Leaves(op, t)[u].ok = op[u].ok /\ Leaves(op, t)[u].retry = op[u].retry
           /\ Leaves(op, t)[u].chat = op[u].chat
           /\ Leaves(op, t)[u].behind \in {op[u].behind, None}
           /\ op[u] = Idle => Leaves(op, t)[u] = Idle
<1>1. op[u] \in Tasks BY Record
<1> DEFINE s == [op[u] EXCEPT !.behind = None]
<1>2. /\ s.at = op[u].at /\ s.does = op[u].does /\ s.text = op[u].text
      /\ s.message = op[u].message /\ s.ok = op[u].ok /\ s.retry = op[u].retry
      /\ s.chat = op[u].chat /\ s.behind = None
  BY <1>1, Zenon DEF Tasks
<1>3. op[u] = Idle => op[u].behind # t BY DEF Idle, ChatMemoryAssumption
<1>4. Leaves(op, t)[u] = IF op[u].behind = t THEN s ELSE op[u] BY DEF Leaves
<1> HIDE DEF s
<1> QED BY <1>2, <1>3, <1>4

\* The chain after an answer, before who awaited it goes on.
LEMMA LeavesInLine ==
    ASSUME ChatMemoryAssumption, MemoryInv, NEW t \in Turns, op[t].at = "answered"
    PROVE  \E r \in [Turns -> Nat], n \in Nat :
              /\ Line(Leaves(op, t), End(t), said, surface, r, n)
              /\ RankTypes(Leaves(op, t), End(t), said, surface, r, n)
              /\ \A v \in Turns, u \in Turns \ Unsaid :
                    ToAppend(v) /\ v \notin failed /\ Earlier(v, u)
                      => /\ v # t /\ u # t /\ op[u].at # "none" /\ r[v] < r[u] /\ ~HasMessage(u)
<1>1. PICK r \in [Turns -> Nat], n \in Nat : Line(op, tail, said, surface, r, n) /\ Appending(r)
  BY DEF MemoryInv, InLine
<1>2. MemoryTypeOK /\ TaskOK(t) BY SentFacts
<1>3. RankTypes(op, tail, said, surface, r, n) BY <1>2 DEF RankTypes, MemoryTypeOK
<1>4. t \in Busy(op) /\ op[t].behind = None BY <1>2 DEF Busy, TaskOK
<1>5. Line(op, tail, said, surface, r, n) BY <1>1
<1>6. /\ Leaves(op, t) \in [Turns -> Tasks]
      /\ Line(Leaves(op, t), IF tail = t THEN None ELSE tail, said, surface, r, n)
  BY <1>3, <1>4, <1>5, LineLeaves
<1>7. End(t) = IF tail = t THEN None ELSE tail BY DEF End
<1>8. RankTypes(Leaves(op, t), End(t), said, surface, r, n) BY <1>3, <1>6, <1>7 DEF RankTypes
<1>9. ASSUME NEW v \in Turns, NEW u \in Turns \ Unsaid,
             ToAppend(v), v \notin failed, Earlier(v, u)
      PROVE  v # t /\ u # t /\ op[u].at # "none" /\ r[v] < r[u] /\ ~HasMessage(u)
  <2>1. v # t BY <1>9 DEF ToAppend
  <2>2. op[u].at # "none" /\ r[v] < r[u] /\ ~HasMessage(u) BY <1>1, <1>9 DEF Appending
  <2>3. v \in Busy(op) /\ u \in Busy(op) BY <1>9, <2>2 DEF ToAppend, Busy
  <2>4. op[u].behind # None BY <1>5, <1>9, <2>2, <2>3 DEF Line, Earlier
  <2> QED BY <1>4, <2>1, <2>2, <2>4
<1> QED BY <1>6, <1>7, <1>8, <1>9

\* A step after which the others are where they were, but for the one behind.
LEMMA SettledKeeps ==
    ASSUME ChatMemoryAssumption, MemoryInv, NEW t \in Turns, op[t].at = "answered",
           \A u \in Turns \ {t} : op'[u] = Leaves(op, t)[u] /\ turn'[u] = turn[u],
           turn'[t].state = turn[t].state,
           UNCHANGED <<existing, currentChat, messages, active, said, surface, failed, unseen, overtaken>>
    PROVE  /\ Places' /\ StoredInOrder' /\ (active' = None => messages' = <<>>)
           /\ \A u \in Turns \ {t} : TurnFine(u)'
           /\ Unsaid' = Unsaid
<1>1. Unsaid' = Unsaid BY DEF Unsaid
<1>2. Places' BY <1>1, SamePlaces DEF MemoryInv
<1>3. StoredInOrder' BY SameOrder DEF MemoryInv
<1>4. ActiveStep /\ (active' = None => messages' = <<>>) BY DEF ActiveStep, MemoryInv
<1>5. \A u \in Turns \ {t} : TurnFine(u)'
  <2> TAKE u \in Turns \ {t}
  <2>1. MemoryTypeOK /\ TurnFine(u) /\ TaskOK(u) BY DEF MemoryInv, TurnFine
  <2>2. SameTask(u)
    <3>1. op'[u] = Leaves(op, t)[u] OBVIOUS
    <3> QED BY <2>1, <3>1, LeavesOthers DEF SameTask
  <2>3. OwnKept(u) BY OwnKeptSame
  <2> QED BY <1>4, <2>1, <2>2, <2>3, UntouchedFine DEF MemoryInv
<1> QED BY <1>1, <1>2, <1>3, <1>4, <1>5

\* Who awaited the answer is done.
LEMMA DoneKeeps ==
    ASSUME ChatMemoryAssumption, MemoryInv, NEW t \in Turns, op[t].at = "answered",
           op' = Leaves(op, t), tail' = End(t), turn' \in [Turns -> TurnRecords],
           \A u \in Turns \ {t} : turn'[u] = turn[u],
           turn'[t].state = turn[t].state, turn'[t].text = turn[t].text,
           turn'[t].message = IF op[t].ok THEN MessageId(t) ELSE turn[t].message,
           op[t].ok => ~Differs(t),
           UNCHANGED <<existing, currentChat, messages, active, said, surface, failed, unseen,
                       overtaken, texts, lookup, switch>>
    PROVE  Kept /\ MemoryTypeOK' /\ CallsOK'
<1>1. /\ turn[t].state # "unsaid" /\ MemoryTypeOK
      /\ TaskOK(t) /\ TurnOK(t) /\ KnowsMessage(t) /\ TextSeen(t) /\ StoredOnce(t) /\ Placed(t)
  BY SentFacts
<1>2. /\ Places' /\ StoredInOrder' /\ (active' = None => messages' = <<>>)
      /\ \A u \in Turns \ {t} : TurnFine(u)'
      /\ Unsaid' = Unsaid
  BY SettledKeeps
<1>3. op'[t] = Idle /\ Idle.at = "none" /\ Idle.ok /\ Idle.behind = None
  BY <1>1, Record, Tasked DEF Leaves
<1>4. /\ op[t].at # "none" /\ turn[t].message \in Nat /\ op[t].message \in Nat
      /\ op[t].does \in {"append", "update"} /\ op[t].retry \in BOOLEAN
  BY <1>1, Record
<1>5. op[t].ok => Mine(t, op[t].message) /\ messages[op[t].message].text = op[t].text
  BY <1>1 DEF TaskOK, Served
<1>6. turn[t].message # 0 => Mine(t, turn[t].message) BY <1>1 DEF TurnOK
<1>7. turn'[t].message # 0 => Mine(t, turn'[t].message) BY <1>5, <1>6 DEF MessageId
\* what a turn that is shown knows now
<1>8. turn[t].state = "shown" /\ op[t].ok => turn'[t].message = op[t].message
  BY <1>1, <1>4 DEF MessageId, KnowsMessage, Served, TaskOK
<1>9. turn[t].state = "shown" /\ op[t].ok /\ t \notin unseen => turn[t].text = op[t].text
  BY <1>1, <1>4 DEF Differs, TextSeen
<1>10. TurnFine(t)'
  <2>1. TaskOK(t)' BY <1>3 DEF TaskOK, ToAppend, Served
  <2>2. TurnOK(t)' BY <1>1, <1>7 DEF TurnOK, Mine
  <2>3. KnowsMessage(t)'
    <3>1. turn[t].state = "shown" /\ op[t].ok => turn'[t].message # 0
      BY <1>5, <1>8 DEF Mine
    <3>2. ~op[t].ok => t \in failed BY <1>1 DEF TaskOK
    <3> QED BY <1>3, <3>1, <3>2 DEF KnowsMessage, ToAppend, Served
  <2>4. TextSeen(t)'
    <3>1. ~op[t].ok => t \in unseen BY <1>1 DEF TaskOK
    <3>2. turn[t].state = "shown" /\ op[t].ok => turn'[t].message # 0
      BY <1>5, <1>8 DEF Mine
    <3> QED BY <1>3, <1>5, <1>8, <1>9, <3>1, <3>2 DEF TextSeen
  <2>5. StoredOnce(t)' BY <1>1, <1>3 DEF StoredOnce, ToAppend, Mine
  <2>6. Placed(t)'
    <3>1. turn[t].state = "shown" /\ op[t].ok /\ ~overtaken => messages[op[t].message].chat = active
      BY <1>1 DEF Placed, Served
    <3>2. turn[t].state = "shown" /\ ~op[t].ok /\ ~overtaken /\ turn[t].message # 0
             => messages[turn[t].message].chat = active
      BY <1>1 DEF Placed
    <3> QED BY <1>3, <1>8, <3>1, <3>2 DEF Placed, Served
  <2> QED BY <2>1, <2>2, <2>3, <2>4, <2>5, <2>6 DEF TurnFine
<1>11. InLine'
  <2>1. PICK r \in [Turns -> Nat], n \in Nat :
              /\ Line(Leaves(op, t), End(t), said, surface, r, n)
              /\ RankTypes(Leaves(op, t), End(t), said, surface, r, n)
              /\ \A v \in Turns, u \in Turns \ Unsaid :
                    ToAppend(v) /\ v \notin failed /\ Earlier(v, u)
                      => /\ v # t /\ u # t /\ op[u].at # "none" /\ r[v] < r[u] /\ ~HasMessage(u)
    BY LeavesInLine
  <2>2. Line(op', tail', said', surface', r, n) BY <2>1
  <2>3. \A u \in Turns \ {t} : op'[u].at = op[u].at /\ op'[u].does = op[u].does
    BY <1>1, LeavesOthers
  <2>4. Appending(r)'
    <3> SUFFICES ASSUME NEW v \in Turns, NEW u \in Turns \ Unsaid,
                        ToAppend(v)', v \notin failed, Earlier(v, u)
                 PROVE  op'[u].at # "none" /\ r[v] < r[u] /\ ~HasMessage(u)'
      BY <1>2 DEF Appending, Earlier
    <3>1. v # t BY <1>3 DEF ToAppend
    <3>2. ToAppend(v) BY <2>3, <3>1 DEF ToAppend
    <3>3. u # t /\ op[u].at # "none" /\ r[v] < r[u] /\ ~HasMessage(u) BY <2>1, <3>2
    <3>4. HasMessage(u)' <=> HasMessage(u) BY DEF HasMessage, Mine
    <3> QED BY <2>3, <3>3, <3>4
  <2> QED BY <2>2, <2>4 DEF InLine
<1>12. op' \in [Turns -> Tasks] /\ tail' \in Turns \cup {None}
  <2>1. \E r, n : RankTypes(Leaves(op, t), End(t), said, surface, r, n) BY LeavesInLine
  <2> QED BY <2>1 DEF RankTypes
<1>13. MemoryTypeOK' BY <1>1, <1>12 DEF MemoryTypeOK
<1>14. CallsOK'
  <2>1. \A u \in Turns \ {t} : op'[u].at = op[u].at
    BY <1>1, LeavesOthers
  <2>2. CallsOK BY DEF MemoryInv
  <2> QED BY <1>3, <2>1, <2>2 DEF CallsOK
<1> QED BY <1>2, <1>10, <1>11, <1>13, <1>14 DEF Kept

\* Who awaited the answer sees another text, and goes on with an update of its own.
LEMMA AgainKeeps ==
    ASSUME ChatMemoryAssumption, MemoryInv, NEW t \in Turns, op[t].at = "answered", op[t].ok,
           Differs(t), NEW task \in Tasks, task.does = "update", task.ok, task.retry,
           task.message = op[t].message, task.text = turn[t].text,
           op' = [Leaves(op, t) EXCEPT ![t] = Queued(task, End(t))], tail' = t,
           turn' \in [Turns -> TurnRecords],
           \A u \in Turns \ {t} : turn'[u] = turn[u],
           turn'[t].state = turn[t].state, turn'[t].text = turn[t].text,
           turn'[t].message = MessageId(t),
           UNCHANGED <<existing, currentChat, messages, active, said, surface, failed, unseen,
                       overtaken, texts, lookup, switch>>
    PROVE  Kept /\ MemoryTypeOK' /\ CallsOK'
<1>1. /\ turn[t].state = "shown" /\ MemoryTypeOK
      /\ TaskOK(t) /\ TurnOK(t) /\ KnowsMessage(t) /\ TextSeen(t) /\ StoredOnce(t) /\ Placed(t)
  BY SentFacts DEF Differs
<1>2. PICK r \in [Turns -> Nat], n \in Nat :
         /\ Line(Leaves(op, t), End(t), said, surface, r, n)
         /\ RankTypes(Leaves(op, t), End(t), said, surface, r, n)
         /\ \A v \in Turns, u \in Turns \ Unsaid :
               ToAppend(v) /\ v \notin failed /\ Earlier(v, u)
                 => /\ v # t /\ u # t /\ op[u].at # "none" /\ r[v] < r[u] /\ ~HasMessage(u)
  BY LeavesInLine
<1>3. Leaves(op, t) \in [Turns -> Tasks] /\ End(t) \in Turns \cup {None} BY <1>2 DEF RankTypes
<1>4. /\ op' \in [Turns -> Tasks]
      /\ op'[t].at = "queued" /\ op'[t].does = "update" /\ op'[t].ok /\ op'[t].retry
      /\ op'[t].message = op[t].message /\ op'[t].text = turn[t].text
      /\ \A u \in Turns \ {t} : op'[u] = Leaves(op, t)[u]
  BY <1>3, QueuedTask
<1>5. /\ Places' /\ StoredInOrder' /\ (active' = None => messages' = <<>>)
      /\ \A u \in Turns \ {t} : TurnFine(u)'
      /\ Unsaid' = Unsaid
  BY <1>4, SettledKeeps
<1>6. \A u \in Turns \ {t} : op'[u].at = op[u].at /\ op'[u].does = op[u].does
  <2> TAKE u \in Turns \ {t}
  <2>1. op'[u] = Leaves(op, t)[u] BY <1>4
  <2> QED BY <1>1, <2>1, LeavesOthers
<1>7. InLine'
  <2>1. t \in Turns \ Busy(Leaves(op, t)) /\ said[t].surface = surface
    BY <1>1, Tasked, Record DEF Leaves, Busy, TurnOK
  <2> DEFINE q == [r EXCEPT ![t] = n]
  <2>2. q \in [Turns -> Nat] /\ Line(op', t, said, surface, q, n + 1)
    BY <1>2, <2>1, LineJoins
  <2>3. q[t] = n /\ \A u \in Turns \ {t} : q[u] = r[u] OBVIOUS
  <2> HIDE DEF q
  <2>4. Line(op', tail', said', surface', q, n + 1) BY <2>2
  <2>5. Appending(q)'
    <3> SUFFICES ASSUME NEW v \in Turns, NEW u \in Turns \ Unsaid,
                        ToAppend(v)', v \notin failed, Earlier(v, u)
                 PROVE  op'[u].at # "none" /\ q[v] < q[u] /\ ~HasMessage(u)'
      BY <1>5, <2>2 DEF Appending, Earlier
    <3>1. v # t BY <1>4 DEF ToAppend
    <3>2. ToAppend(v) BY <1>6, <3>1 DEF ToAppend
    <3>3. u # t /\ op[u].at # "none" /\ r[v] < r[u] /\ ~HasMessage(u) BY <1>2, <3>2
    <3>4. HasMessage(u)' <=> HasMessage(u) BY DEF HasMessage, Mine
    <3> QED BY <1>6, <2>3, <3>1, <3>3, <3>4
  <2>6. n + 1 \in Nat OBVIOUS
  <2> QED BY <2>2, <2>4, <2>5, <2>6 DEF InLine
<1>8. turn[t].message \in Nat /\ op[t].message \in Nat /\ op[t].does \in {"append", "update"}
      /\ op[t].retry
  BY <1>1, Record DEF Differs
<1>9. Mine(t, op[t].message) BY <1>1 DEF TaskOK, Served
<1>10. turn'[t].message = op[t].message /\ op[t].message # 0
  BY <1>1, <1>8, <1>9 DEF MessageId, KnowsMessage, Served, Mine
<1>11. TurnFine(t)'
  <2>1. TaskOK(t)' BY <1>4, <1>9 DEF TaskOK, ToAppend, Served, Mine
  <2>2. TurnOK(t)' BY <1>1, <1>9, <1>10 DEF TurnOK, Mine
  <2>3. KnowsMessage(t)' BY <1>4, <1>10 DEF KnowsMessage, ToAppend, Served
  <2>4. TextSeen(t)' BY <1>4 DEF TextSeen
  <2>5. StoredOnce(t)' BY <1>1, <1>4 DEF StoredOnce, ToAppend, Mine
  <2>6. Placed(t)'
    <3>1. ~overtaken => messages[op[t].message].chat = active BY <1>1 DEF Placed, Served
    <3> QED BY <1>4, <1>10, <3>1 DEF Placed, Served
  <2> QED BY <2>1, <2>2, <2>3, <2>4, <2>5, <2>6 DEF TurnFine
<1>12. MemoryTypeOK' BY <1>1, <1>4 DEF MemoryTypeOK
<1>13. CallsOK'
  <2>1. CallsOK BY DEF MemoryInv
  <2> QED BY <1>4, <1>6, <2>1 DEF CallsOK
<1> QED BY <1>5, <1>7, <1>11, <1>12, <1>13 DEF Kept

LEMMA SettleKeeps ==
    ASSUME ChatMemoryAssumption, MemoryInv, NEW t \in Turns, Settle(t)
    PROVE  Kept /\ MemoryTypeOK' /\ CallsOK'
<1>1. /\ op[t].at = "answered" /\ MemoryTypeOK
      /\ UNCHANGED <<existing, currentChat, messages, active, lookup, switch, said, surface, failed,
                     unseen, overtaken, texts>>
  BY DEF Settle, MemoryInv, backend, bounds, history
<1>2. OpsAfter(t) = Leaves(op, t) BY DEF OpsAfter, Leaves
<1>3. turn \in [Turns -> TurnRecords] /\ turn[t] \in TurnRecords /\ MessageId(t) \in Nat
      /\ turn[t].message \in Nat /\ turn[t].text \in Nat /\ op[t].message \in Nat
      /\ op[t].ok \in BOOLEAN
  BY <1>1, Record DEF MemoryTypeOK, MessageId
<1>4. /\ turn' \in [Turns -> TurnRecords] /\ \A u \in Turns \ {t} : turn'[u] = turn[u]
      /\ turn'[t].state = turn[t].state /\ turn'[t].text = turn[t].text
      /\ turn'[t].message = IF op[t].ok THEN MessageId(t) ELSE turn[t].message
  <2>1. CASE op[t].ok
    <3>1. PICK id \in Nat : id = MessageId(t) BY <1>3
    <3>2. turn' = [turn EXCEPT ![t].message = id] BY <2>1, <3>1 DEF Settle
    <3>3. [turn[t] EXCEPT !.message = id] \in TurnRecords BY <1>3, Zenon DEF TurnRecords
    <3> QED BY <1>3, <2>1, <3>1, <3>2, <3>3 DEF TurnRecords
  <2>2. CASE ~op[t].ok
    <3>1. turn' = turn BY <2>2 DEF Settle
    <3> QED BY <1>3, <2>2, <3>1
  <2> QED BY <2>1, <2>2
<1>5. CASE op[t].ok /\ Differs(t)
  <2>1. PICK task : task = UpdateOf(op[t].message, turn[t].text, TRUE) OBVIOUS
  <2>2. /\ task \in Tasks /\ task.does = "update" /\ task.ok /\ task.retry
        /\ task.message = op[t].message /\ task.text = turn[t].text
    BY <1>3, <2>1 DEF UpdateOf, Idle, Tasks, Awaits
  <2>3. op' = [Leaves(op, t) EXCEPT ![t] = Queued(task, End(t))] /\ tail' = t
    BY <1>2, <1>5, <2>1 DEF Settle, Chained, Queued
  <2> QED BY <1>1, <1>4, <1>5, <2>2, <2>3, AgainKeeps
<1>6. CASE ~(op[t].ok /\ Differs(t))
  <2>1. op' = Leaves(op, t) /\ tail' = End(t) BY <1>2, <1>6 DEF Settle
  <2> QED BY <1>1, <1>4, <1>6, <2>1, DoneKeeps
<1> QED BY <1>5, <1>6

-----------------------------------------------------------------------------
(* Looking up and switching the chat *)

\* What is shown now are stored messages: no turn is shown.
LEMMA ReplacedFine ==
    ASSUME MemoryInv, turn' = Replaced, UNCHANGED <<messages, op, said, failed, unseen>>,
           surface' \in {surface, surface + 1}, active = None \/ active' # None
    PROVE  /\ turn' \in [Turns -> TurnRecords] /\ Unsaid' = Unsaid
           /\ \A t \in Turns : TurnFine(t)'
<1>1. MemoryTypeOK BY DEF MemoryInv
<1>2. Gone \in TurnRecords /\ Gone.state = "gone" /\ Gone.message = 0 BY DEF Gone, TurnRecords
<1>3. \A t \in Turns : turn'[t] = IF turn[t].state = "shown" THEN Gone ELSE turn[t]
  BY DEF Replaced
<1>4. turn' \in [Turns -> TurnRecords] BY <1>1, <1>2 DEF Replaced, MemoryTypeOK
<1>5. \A t \in Turns : turn'[t].state # "shown" /\ (turn'[t].state = "unsaid" <=> turn[t].state = "unsaid")
  BY <1>2, <1>3
<1>6. \A t \in Turns : TurnFine(t)'
  <2> TAKE t \in Turns
  <2>1. /\ TaskOK(t) /\ TurnOK(t) /\ StoredOnce(t) /\ Placed(t)
        /\ turn'[t].state # "shown" /\ (turn'[t].state = "unsaid" <=> turn[t].state = "unsaid")
    BY <1>5 DEF MemoryInv, TurnFine
  <2>2. TaskOK(t)' BY <2>1 DEF TaskOK, ToAppend, Served, Mine
  <2>3. TurnOK(t)'
    <3>1. said[t].surface \in Nat /\ surface \in Nat BY <1>1, Record DEF MemoryTypeOK
    <3>2. said[t].surface <= surface' BY <2>1, <3>1 DEF TurnOK
    <3> QED BY <1>2, <1>3, <2>1, <3>2 DEF TurnOK, HasMessage, Mine
  <2>4. KnowsMessage(t)' /\ TextSeen(t)' BY <2>1 DEF KnowsMessage, TextSeen
  <2>5. StoredOnce(t)' BY <2>1 DEF StoredOnce, ToAppend, HasMessage, Mine
  <2>6. Placed(t)' BY <2>1 DEF Placed, Served
  <2> QED BY <2>2, <2>3, <2>4, <2>5, <2>6 DEF TurnFine
<1>7. Unsaid' = Unsaid BY <1>5 DEF Unsaid
<1> QED BY <1>4, <1>6, <1>7

LEMMA SetActiveChatStateKeeps ==
    ASSUME ChatMemoryAssumption, MemoryInv, NEW w \in Switchers, SetActiveChatState(w)
    PROVE  Kept /\ MemoryTypeOK' /\ CallsOK'
<1>1. MemoryTypeOK /\ CallsOK BY DEF MemoryInv
<1>2. /\ UNCHANGED <<existing, currentChat, messages, lookup, op, said, failed, unseen, overtaken, texts>>
      /\ active' = switch[w].chat /\ tail' = None /\ turn' = Replaced /\ surface' = surface + 1
  BY DEF SetActiveChatState, backend, bounds
<1>3. switch[w] \in Calls /\ switch[w].chat # None
  BY <1>1 DEF SetActiveChatState, MemoryTypeOK, CallsOK
<1>4. active' \in Chats /\ active' # None BY <1>2, <1>3 DEF Calls
<1>5. /\ turn' \in [Turns -> TurnRecords] /\ Unsaid' = Unsaid
      /\ \A t \in Turns : TurnFine(t)'
  BY <1>2, <1>4, ReplacedFine
<1>6. Places' BY <1>2, <1>5, SamePlaces DEF MemoryInv
<1>7. StoredInOrder' BY <1>2, SameOrder DEF MemoryInv
<1>8. InLine'
  <2>1. PICK r \in [Turns -> Nat], n \in Nat : Line(op, tail, said, surface, r, n) /\ Appending(r)
    BY DEF MemoryInv, InLine
  <2>2. RankTypes(op, tail, said, surface, r, n) BY <1>1 DEF RankTypes, MemoryTypeOK
  <2>3. \A t \in Turns : said[t].surface <= surface BY DEF MemoryInv, TurnFine, TurnOK
  <2>4. Line(op, tail, said, surface, r, n) BY <2>1
  <2>5. Line(op, None, said, surface + 1, r, n) BY <2>2, <2>3, <2>4, LineSwitched
  <2>6. Line(op', tail', said', surface', r, n) BY <1>2, <2>5
  <2>7. Appending(r)' BY <1>2, <1>5, <2>1 DEF Appending, Earlier, ToAppend, HasMessage, Mine
  <2> QED BY <2>6, <2>7 DEF InLine
<1>9. switch' \in [Switchers -> Calls] /\ \A x \in Switchers : switch'[x] \in {switch[x], NoCall}
  <2>1. NoCall \in Calls BY DEF NoCall, Calls
  <2>2. switch \in [Switchers -> Calls] /\ switch' = [switch EXCEPT ![w] = NoCall]
    BY <1>1 DEF MemoryTypeOK, SetActiveChatState
  <2> QED BY <2>1, <2>2
<1>10. CallsOK'
  <2>1. NoCall.at = "none" BY DEF NoCall
  <2> QED BY <1>1, <1>2, <1>9, <2>1 DEF CallsOK
<1>11. tail' \in Turns \cup {None} /\ surface' \in Nat BY <1>1, <1>2 DEF MemoryTypeOK
<1>12. MemoryTypeOK' BY <1>1, <1>2, <1>4, <1>5, <1>9, <1>11 DEF MemoryTypeOK
<1> QED BY <1>4, <1>5, <1>6, <1>7, <1>8, <1>10, <1>12 DEF Kept

LEMMA HydratedKeeps ==
    ASSUME ChatMemoryAssumption, MemoryInv, Hydrated
    PROVE  Kept /\ MemoryTypeOK' /\ CallsOK'
<1>1. MemoryTypeOK /\ CallsOK BY DEF MemoryInv
<1>2. /\ UNCHANGED <<existing, currentChat, messages, active, tail, switch, op, said, surface, failed,
                     unseen, overtaken, texts>>
      /\ turn' = Replaced
  BY DEF Hydrated, backend, bounds, history
<1>3. /\ turn' \in [Turns -> TurnRecords] /\ Unsaid' = Unsaid
      /\ \A t \in Turns : TurnFine(t)'
  BY <1>2, ReplacedFine
<1>4. Places' BY <1>2, <1>3, SamePlaces DEF MemoryInv
<1>5. StoredInOrder' BY <1>2, SameOrder DEF MemoryInv
<1>6. InLine'
  <2>1. \A t \in Turns : (ToAppend(t)' <=> ToAppend(t)) /\ (HasMessage(t)' <=> HasMessage(t))
    BY <1>2 DEF ToAppend, HasMessage, Mine
  <2>2. op' \in [Turns -> Tasks] BY <1>1, <1>2 DEF MemoryTypeOK
  <2> QED BY <1>1, <1>2, <1>3, <2>1, <2>2, QuietLine DEF MemoryInv
<1>7. lookup' \in [Callers -> Calls] /\ \A t \in Turns : lookup'[t] = lookup[t]
  <2>1. NoCall \in Calls /\ Turns \subseteq Callers \ {"boot"}
    BY DEF NoCall, Calls, Callers, ChatMemoryAssumption
  <2> QED BY <1>1, <2>1 DEF MemoryTypeOK, Hydrated
<1>8. CallsOK' BY <1>1, <1>2, <1>7 DEF CallsOK
<1>9. MemoryTypeOK' BY <1>1, <1>2, <1>3, <1>7 DEF MemoryTypeOK
<1>10. active' = None => messages' = <<>> BY <1>2 DEF MemoryInv
<1> QED BY <1>3, <1>4, <1>5, <1>6, <1>8, <1>9, <1>10 DEF Kept

\* The parts of the state that only lookups and switches change.
CallTypes ==
    /\ existing' \subseteq Chats /\ currentChat' \in Chats \cup {None}
    /\ lookup' \in [Callers -> Calls] /\ switch' \in [Switchers -> Calls]
LEMMA CallStepKeeps ==
    ASSUME MemoryInv, CallTypes, UNCHANGED <<messages, active, tail, turn, op, texts, history>>, CallsOK'
    PROVE  Kept /\ MemoryTypeOK' /\ CallsOK'
<1>1. Kept BY ElsewhereKeeps DEF Kept
<1>2. UNCHANGED <<said, surface, failed, unseen, overtaken>> BY DEF history
<1> QED BY <1>1, <1>2 DEF MemoryInv, MemoryTypeOK, CallTypes

LEMMA LookupStepKeeps ==
    ASSUME ChatMemoryAssumption, MemoryInv,
           StartLookup \/ (\E k \in Callers : ServeLookup(k) \/ LookupFails(k))
    PROVE  Kept /\ MemoryTypeOK' /\ CallsOK'
<1>1. MemoryTypeOK /\ CallsOK BY DEF MemoryInv
<1>2. /\ lookup \in [Callers -> Calls] /\ Turns \subseteq Callers \ {"start", "boot"}
      /\ existing \subseteq Chats /\ currentChat \in Chats \cup {None}
  BY <1>1 DEF MemoryTypeOK, Callers, ChatMemoryAssumption
<1>3. NoCall \in Calls /\ Asked \in Calls BY DEF NoCall, Asked, Calls
<1>4. CASE StartLookup
  <2>1. UNCHANGED <<existing, currentChat, messages, active, tail, switch, turn, op, texts, history>>
        /\ lookup' = [lookup EXCEPT !["start"] = Asked]
    BY <1>4 DEF StartLookup, backend, bounds
  <2>2. lookup' \in [Callers -> Calls] /\ \A t \in Turns : lookup'[t] = lookup[t]
    BY <1>2, <1>3, <2>1
  <2>3. CallsOK' BY <1>1, <2>1, <2>2 DEF CallsOK
  <2>4. CallTypes BY <1>1, <2>1, <2>2 DEF CallTypes, MemoryTypeOK
  <2> QED BY <2>1, <2>3, <2>4, CallStepKeeps
<1>5. ASSUME NEW k \in Callers, LookupFails(k) PROVE Kept /\ MemoryTypeOK' /\ CallsOK'
  <2>1. UNCHANGED <<existing, currentChat, messages, active, tail, switch, turn, op, texts, history>>
        /\ lookup' = [lookup EXCEPT ![k] = NoCall] /\ k \notin Turns
    BY <1>5 DEF LookupFails, backend, bounds
  <2>2. lookup' \in [Callers -> Calls] /\ \A t \in Turns : lookup'[t] = lookup[t]
    BY <1>2, <1>3, <2>1
  <2>3. CallsOK' BY <1>1, <2>1, <2>2 DEF CallsOK
  <2>4. CallTypes BY <1>1, <2>1, <2>2 DEF CallTypes, MemoryTypeOK
  <2> QED BY <2>1, <2>3, <2>4, CallStepKeeps
<1>6. ASSUME NEW k \in Callers, ServeLookup(k) PROVE Kept /\ MemoryTypeOK' /\ CallsOK'
  <2>1. UNCHANGED <<messages, active, tail, switch, turn, op, texts, history>> /\ lookup[k].at = "sent"
    BY <1>6 DEF ServeLookup, bounds
  <2>2. PICK c \in Chats \cup {None} :
           /\ lookup' = [lookup EXCEPT ![k] = [at |-> "answered", chat |-> c]]
           /\ k # "boot" => c # None
           /\ existing' \subseteq Chats /\ currentChat' \in Chats \cup {None}
    <3>1. CASE currentChat # None \/ k = "boot"
      <4>1. ServeLookup(k) BY <1>6
      <4>2. CASE UNCHANGED <<existing, currentChat>>
                 /\ lookup' = [lookup EXCEPT ![k] = [at |-> "answered", chat |-> currentChat]]
        BY <1>2, <3>1, <4>2
      <4>3. CASE ~(UNCHANGED <<existing, currentChat>>
                 /\ lookup' = [lookup EXCEPT ![k] = [at |-> "answered", chat |-> currentChat]])
        BY <3>1, <4>1, <4>3 DEF ServeLookup
      <4> QED BY <4>2, <4>3
    <3>2. CASE ~(currentChat # None \/ k = "boot")
      <4>1. PICK c \in Chats :
               NewChat(c) /\ lookup' = [lookup EXCEPT ![k] = [at |-> "answered", chat |-> c]]
        BY <1>6, <3>2 DEF ServeLookup
      <4>2. c # None BY DEF ChatMemoryAssumption
      <4> QED BY <1>2, <4>1, <4>2 DEF NewChat
    <3> QED BY <3>1, <3>2
  <2>3. [at |-> "answered", chat |-> c] \in Calls BY DEF Calls
  <2>4. lookup' \in [Callers -> Calls] /\ lookup'[k] = [at |-> "answered", chat |-> c]
        /\ \A x \in Callers \ {k} : lookup'[x] = lookup[x]
    BY <1>2, <2>2, <2>3
  <2>5. CallsOK'
    <3>1. \A t \in Turns : /\ op'[t].at = "chat" <=> lookup'[t].at # "none"
                           /\ lookup'[t].at # "listing"
                           /\ lookup'[t].at = "answered" => lookup'[t].chat # None
      <4> TAKE t \in Turns
      <4>1. t \in Callers /\ t # "boot" BY <1>2
      <4>2. CASE t = k BY <1>1, <2>1, <2>2, <2>4, <4>1, <4>2 DEF CallsOK
      <4>3. CASE t # k BY <1>1, <2>1, <2>4, <4>1, <4>3 DEF CallsOK
      <4> QED BY <4>2, <4>3
    <3> QED BY <1>1, <2>1, <3>1 DEF CallsOK
  <2>6. CallTypes BY <1>1, <2>1, <2>2, <2>4 DEF CallTypes, MemoryTypeOK
  <2> QED BY <2>1, <2>5, <2>6, CallStepKeeps
<1> QED BY <1>4, <1>5, <1>6

LEMMA SwitchStepKeeps ==
    ASSUME ChatMemoryAssumption, MemoryInv, NEW w \in Switchers,
           \/ \E c \in Chats : SwitchToChat(w, c)
           \/ CreateAndSwitch(w) \/ ServeCreate(w) \/ SwitchFails(w)
    PROVE  Kept /\ MemoryTypeOK' /\ CallsOK'
<1>1. MemoryTypeOK /\ CallsOK BY DEF MemoryInv
<1>2. /\ switch \in [Switchers -> Calls] /\ existing \subseteq Chats
      /\ currentChat \in Chats \cup {None}
  BY <1>1 DEF MemoryTypeOK
<1>3. /\ UNCHANGED <<messages, active, tail, lookup, turn, op, texts, history>>
      /\ existing' \subseteq Chats /\ currentChat' \in Chats \cup {None}
      /\ \E call \in Calls : /\ switch' = [switch EXCEPT ![w] = call]
                             /\ call.at = "answered" => call.chat # None
  <2>1. ASSUME NEW c \in Chats
        PROVE  /\ [at |-> "answered", chat |-> c] \in Calls
               /\ [at |-> "answered", chat |-> c].chat # None
    BY DEF Calls, ChatMemoryAssumption
  <2>2. NoCall \in Calls /\ Asked \in Calls /\ NoCall.at = "none" /\ Asked.at = "sent"
    BY DEF NoCall, Asked, Calls
  <2>3. ASSUME NEW c \in Chats, SwitchToChat(w, c)
        PROVE  /\ UNCHANGED <<existing, currentChat, messages, active, tail, lookup, turn, op, texts, history>>
               /\ switch' = [switch EXCEPT ![w] = [at |-> "answered", chat |-> c]]
    BY <2>3 DEF SwitchToChat, Switches, backend
  <2>4. ASSUME CreateAndSwitch(w)
        PROVE  /\ UNCHANGED <<existing, currentChat, messages, active, tail, lookup, turn, op, texts, history>>
               /\ switch' = [switch EXCEPT ![w] = Asked]
    BY <2>4 DEF CreateAndSwitch, Switches, backend
  <2>5. ASSUME SwitchFails(w)
        PROVE  /\ UNCHANGED <<existing, currentChat, messages, active, tail, lookup, turn, op, texts, history>>
               /\ switch' = [switch EXCEPT ![w] = NoCall]
    BY <2>5 DEF SwitchFails, backend, bounds
  <2>6. CASE ServeCreate(w)
    <3>1. PICK c \in Chats : NewChat(c) /\ switch' = [switch EXCEPT ![w] = [at |-> "answered", chat |-> c]]
      BY <2>6 DEF ServeCreate
    <3>2. UNCHANGED <<messages, active, tail, lookup, turn, op, texts, history>>
      BY <2>6 DEF ServeCreate, bounds
    <3>3. existing' \subseteq Chats /\ currentChat' \in Chats BY <1>2, <3>1 DEF NewChat
    <3> QED BY <2>1, <3>1, <3>2, <3>3
  <2> QED BY <1>2, <2>1, <2>2, <2>3, <2>4, <2>5, <2>6
<1>4. switch' \in [Switchers -> Calls]
      /\ \A x \in Switchers : switch'[x].at = "answered" => switch'[x].chat # None
  BY <1>1, <1>2, <1>3 DEF CallsOK
<1>5. CallsOK' BY <1>1, <1>3, <1>4 DEF CallsOK
<1>6. CallTypes BY <1>1, <1>3, <1>4 DEF CallTypes, MemoryTypeOK
<1> QED BY <1>3, <1>5, <1>6, CallStepKeeps

\* The answer of a lookup that chooses a chat.
LEMMA ChosenKeeps ==
    ASSUME ChatMemoryAssumption, MemoryInv, NEW c \in Chats, SetActive(c),
           UNCHANGED <<messages, tail, turn, said, surface, failed, unseen>>,
           \/ UNCHANGED op
           \/ \E t \in Turns : op[t].at = "chat" /\ op' = Sends(t, c)
    PROVE  Kept /\ op' \in [Turns -> Tasks]
<1>1. MemoryTypeOK BY DEF MemoryInv
<1>2. c # None /\ active' = c /\ overtaken' = (overtaken \/ (active # None /\ active # c))
  BY DEF SetActive, ChatMemoryAssumption
<1>3. ActiveStep /\ active' # None
  <2>1. CASE active = None BY <1>2, <2>1 DEF ActiveStep
  <2>2. CASE active = c
    <3>1. overtaken \in BOOLEAN BY <1>1 DEF MemoryTypeOK
    <3>2. CASE overtaken BY <1>2, <2>2, <3>2 DEF ActiveStep
    <3>3. CASE ~overtaken
      <4>1. overtaken = FALSE BY <3>1, <3>3
      <4>2. overtaken' = FALSE BY <1>2, <2>2, <4>1
      <4> QED BY <1>2, <2>2, <4>1, <4>2 DEF ActiveStep
    <3> QED BY <3>2, <3>3
  <2>3. CASE active # None /\ active # c BY <1>2, <2>3 DEF ActiveStep
  <2> QED BY <2>1, <2>2, <2>3
<1>4. \A u \in Turns : OwnKept(u) /\ (HasMessage(u)' <=> HasMessage(u))
  BY OwnKeptSame DEF HasMessage, OwnKept
<1>5. StoredInOrder' BY SameOrder DEF MemoryInv
<1>6. CASE UNCHANGED op
  <2>1. Unsaid' = Unsaid BY DEF Unsaid
  <2>2. Places' BY <2>1, SamePlaces DEF MemoryInv
  <2>3. \A u \in Turns : TurnFine(u)'
    <3> TAKE u \in Turns
    <3>1. SameTask(u) BY <1>6 DEF SameTask
    <3> QED BY <1>1, <1>3, <1>4, <3>1, UntouchedFine DEF MemoryInv
  <2>4. InLine'
    <3>1. \A u \in Turns : ToAppend(u)' => ToAppend(u) BY <1>6 DEF ToAppend
    <3>2. op' \in [Turns -> Tasks] BY <1>1, <1>6 DEF MemoryTypeOK
    <3> QED BY <1>1, <1>4, <1>6, <2>1, <3>1, <3>2, QuietLine DEF MemoryInv
  <2> QED BY <1>1, <1>3, <1>5, <1>6, <2>2, <2>3, <2>4 DEF Kept, MemoryTypeOK
<1>7. ASSUME NEW t \in Turns, op[t].at = "chat", op' = Sends(t, c)
      PROVE  Kept /\ op' \in [Turns -> Tasks]
  <2>1. /\ turn[t].state # "unsaid"
        /\ TaskOK(t) /\ TurnOK(t) /\ KnowsMessage(t) /\ TextSeen(t) /\ StoredOnce(t) /\ Placed(t)
    BY <1>7, SentFacts
  <2>2. /\ op' \in [Turns -> Tasks] /\ \A u \in Turns \ {t} : op'[u] = op[u]
        /\ op'[t].at = "sent" /\ op'[t].chat = c
        /\ op'[t].does = op[t].does /\ op'[t].text = op[t].text
        /\ op'[t].message = op[t].message /\ op'[t].ok = op[t].ok
        /\ op'[t].retry = op[t].retry /\ op'[t].behind = op[t].behind
    BY <1>1, <1>7, SentTask
  <2>3. GoesOn(t) BY <1>7, <2>2 DEF GoesOn, ToAppend
  <2>4. Places' /\ InLine' /\ \A u \in Turns \ {t} : TurnFine(u)'
    BY <1>3, <1>4, <2>3, GoesOnKeeps
  <2>5. turn[t].message \in Nat /\ op[t].message \in Nat BY <1>1, Record
  <2>6. TurnFine(t)'
    <3>1. TaskOK(t)' BY <1>7, <2>1, <2>2 DEF TaskOK, ToAppend, Served, Mine
    <3>2. TurnOK(t)' BY <2>1 DEF TurnOK, Mine
    <3>3. KnowsMessage(t)' BY <1>7, <2>1, <2>2 DEF KnowsMessage, ToAppend, Served
    <3>4. TextSeen(t)' BY <1>7, <2>1, <2>2 DEF TextSeen
    <3>5. StoredOnce(t)' BY <1>4, <1>7, <2>1, <2>2 DEF StoredOnce, ToAppend, Mine
    <3>6. Placed(t)'
      <4>1. ~overtaken' /\ turn[t].state = "shown" /\ turn[t].message # 0
               => messages[turn[t].message].chat = active'
        <5>1. turn[t].message # 0 => messages # <<>> BY <2>1, <2>5 DEF TurnOK, Mine
        <5>2. turn[t].message # 0 => active # None BY <5>1 DEF MemoryInv
        <5> QED BY <1>2, <2>1, <5>2 DEF Placed
      <4> QED BY <1>2, <2>2, <4>1 DEF Placed, Served
    <3> QED BY <3>1, <3>2, <3>3, <3>4, <3>5, <3>6 DEF TurnFine
  <2> QED BY <1>3, <1>5, <2>2, <2>4, <2>6 DEF Kept
<1> QED BY <1>6, <1>7

LEMMA LookedUpKeeps ==
    ASSUME ChatMemoryAssumption, MemoryInv, NEW k \in Callers, LookedUp(k)
    PROVE  Kept /\ MemoryTypeOK' /\ CallsOK'
<1>1. MemoryTypeOK /\ CallsOK BY DEF MemoryInv
<1>2. /\ UNCHANGED <<existing, currentChat, messages, tail, switch, turn, texts, said, surface, failed, unseen>>
      /\ lookup[k].at = "answered"
  BY DEF LookedUp, backend, bounds
<1>3. lookup \in [Callers -> Calls] /\ lookup[k] \in Calls /\ lookup[k].chat \in Chats \cup {None}
      /\ Turns \subseteq Callers \ {"start", "boot"}
  BY <1>1 DEF MemoryTypeOK, Calls, Callers, ChatMemoryAssumption
<1>4. /\ lookup' \in [Callers -> Calls] /\ \A x \in Callers \ {k} : lookup'[x] = lookup[x]
      /\ k # "boot" => lookup'[k] = NoCall
  <2>1. NoCall \in Calls BY DEF NoCall, Calls
  <2>2. [lookup[k] EXCEPT !.at = "listing"] \in Calls BY <1>3, Zenon DEF Calls
  <2> QED BY <1>3, <2>1, <2>2 DEF LookedUp
<1>5. NoCall.at = "none" BY DEF NoCall
<1>6. CASE k \in Turns
  <2>1. op[k].at = "chat" /\ lookup[k].chat # None /\ k # "boot"
    BY <1>1, <1>2, <1>3, <1>6 DEF CallsOK
  <2>2. PICK c \in Chats : c = lookup[k].chat BY <1>3, <2>1
  <2>3. SetActive(c) /\ op' = Sends(k, c) BY <1>6, <2>1, <2>2 DEF LookedUp, Sends
  <2>4. Kept /\ op' \in [Turns -> Tasks] BY <1>2, <1>6, <2>1, <2>3, ChosenKeeps
  <2>5. op'[k].at = "sent" /\ \A u \in Turns \ {k} : op'[u] = op[u]
    BY <1>1, <1>6, <2>3, SentTask
  <2>6. CallsOK' BY <1>1, <1>2, <1>3, <1>4, <1>5, <1>6, <2>1, <2>5 DEF CallsOK
  <2>7. active' \in Chats /\ overtaken' \in BOOLEAN
    BY <1>1, <2>3 DEF SetActive, MemoryTypeOK
  <2>8. MemoryTypeOK' BY <1>1, <1>2, <1>4, <2>4, <2>7 DEF MemoryTypeOK
  <2> QED BY <2>4, <2>6, <2>8
<1>7. CASE k \notin Turns
  <2>1. UNCHANGED op BY <1>7 DEF LookedUp
  <2>2. CallsOK' BY <1>1, <1>2, <1>3, <1>4, <1>7, <2>1 DEF CallsOK
  <2>3. CASE lookup[k].chat = None
    <3>1. UNCHANGED <<active, overtaken>> BY <2>3 DEF LookedUp
    <3>2. UNCHANGED <<messages, active, tail, turn, op, history>>
      BY <1>2, <2>1, <3>1 DEF history
    <3>3. UNCHANGED <<messages, active, tail, turn, op, texts, history>> /\ CallTypes
      BY <1>1, <1>2, <1>4, <3>2 DEF CallTypes, MemoryTypeOK
    <3> QED BY <2>2, <3>3, CallStepKeeps
  <2>4. CASE lookup[k].chat # None
    <3>1. PICK c \in Chats : c = lookup[k].chat BY <1>3, <2>4
    <3>2. SetActive(c) BY <2>4, <3>1 DEF LookedUp
    <3>3. Kept /\ op' \in [Turns -> Tasks] BY <1>2, <2>1, <3>2, ChosenKeeps
    <3>4. active' \in Chats /\ overtaken' \in BOOLEAN
      BY <1>1, <3>2 DEF SetActive, MemoryTypeOK
    <3>5. MemoryTypeOK' BY <1>1, <1>2, <1>4, <3>3, <3>4 DEF MemoryTypeOK
    <3> QED BY <2>2, <3>3, <3>5
  <2> QED BY <2>3, <2>4
<1> QED BY <1>6, <1>7

-----------------------------------------------------------------------------
(* Every behaviour *)

LEMMA InitMemory == ASSUME ChatMemoryAssumption, MemoryInit PROVE MemoryInv
<1>1. Idle \in Tasks /\ Idle.at = "none" /\ Idle.ok /\ Idle.behind = None
  BY DEF Idle, Tasks, Awaits
<1>2. NoCall \in Calls /\ Asked \in Calls /\ NoCall.at = "none" /\ Asked.at = "sent"
  BY DEF NoCall, Asked, Calls
<1>3. /\ messages = <<>> /\ Len(messages) = 0 /\ active = None /\ tail = None /\ surface = 0
      /\ failed = {} /\ unseen = {} /\ overtaken = FALSE /\ texts = 1
      /\ op = [t \in Turns |-> Idle]
  BY DEF MemoryInit
<1>4. \A t \in Turns : /\ turn[t].state = "unsaid" /\ turn[t].text = 1 /\ turn[t].message = 0
                      /\ said[t].surface = 0 /\ op[t] = Idle
  BY <1>3 DEF MemoryInit
<1>5. turn \in [Turns -> TurnRecords] /\ said \in [Turns -> [surface : Nat, place : Nat]]
      /\ op \in [Turns -> Tasks]
  BY <1>1, <1>3 DEF MemoryInit, TurnRecords
<1>6. lookup \in [Callers -> Calls] /\ switch \in [Switchers -> Calls]
      /\ existing \subseteq Chats /\ currentChat \in Chats \cup {None}
  BY <1>2 DEF MemoryInit
<1>7. messages \in Seq([turn : Turns, chat : Chats \cup {None}, text : Nat]) BY <1>3
<1>8. MemoryTypeOK BY <1>3, <1>5, <1>6, <1>7 DEF MemoryTypeOK
<1>9. CallsOK
  <2>1. \A t \in Turns : lookup[t] = NoCall
    BY DEF MemoryInit, Callers, ChatMemoryAssumption
  <2>2. \A w \in Switchers : switch[w] = NoCall BY DEF MemoryInit
  <2> QED BY <1>1, <1>2, <1>4, <2>1, <2>2 DEF CallsOK
<1>10. Turns \ Unsaid = {} BY <1>4 DEF Unsaid
<1>11. Places BY <1>10, FS_EmptySet DEF Places
<1>12. Busy(op) = {} BY <1>1, <1>4 DEF Busy
<1>13. InLine
  <2> DEFINE r == [t \in Turns |-> 0]
  <2>1. r \in [Turns -> Nat] OBVIOUS
  <2> HIDE DEF r
  <2>2. Line(op, tail, said, surface, r, 0) BY <1>3, <1>12 DEF Line
  <2>3. Appending(r) BY <1>10 DEF Appending
  <2> QED BY <2>1, <2>2, <2>3 DEF InLine
<1>14. \A t \in Turns : TurnFine(t)
  <2> TAKE t \in Turns
  <2>1. \A id \in Nat : ~Mine(t, id) BY <1>3 DEF Mine
  <2>2. TaskOK(t) BY <1>1, <1>4 DEF TaskOK, ToAppend, Served
  <2>3. TurnOK(t) BY <1>3, <1>4, <2>1 DEF TurnOK, HasMessage
  <2>4. KnowsMessage(t) /\ TextSeen(t) BY <1>4 DEF KnowsMessage, TextSeen
  <2>5. StoredOnce(t) BY <2>1 DEF StoredOnce, HasMessage
  <2>6. Placed(t) BY <1>1, <1>4 DEF Placed, Served
  <2> QED BY <2>2, <2>3, <2>4, <2>5, <2>6 DEF TurnFine
<1>15. StoredInOrder BY <1>3 DEF StoredInOrder
<1> QED BY <1>3, <1>8, <1>9, <1>11, <1>13, <1>14, <1>15 DEF MemoryInv

LEMMA NextMemory == ASSUME ChatMemoryAssumption, MemoryInv, [MemoryNext]_memoryVars PROVE MemoryInv'
<1>1. ASSUME Kept, MemoryTypeOK', CallsOK' PROVE MemoryInv' BY <1>1 DEF Kept, MemoryInv
<1>2. ASSUME NEW t \in Turns, Say(t) PROVE Kept /\ MemoryTypeOK' /\ CallsOK'
  <2>1. Kept /\ MemoryTypeOK' BY <1>2, SayKeeps
  <2>2. UNCHANGED <<lookup, switch>> BY <1>2 DEF Say
  <2>3. op[t] = Idle /\ MemoryTypeOK /\ CallsOK
    BY <1>2 DEF Say, Unsaid, MemoryInv, TurnFine, TurnOK
  <2>4. op[t].at = "none" BY <2>3 DEF Idle
  <2>5. PICK task \in Tasks : Joins(t, task)
    <3>1. AppendOf(turn[t].text) \in Tasks BY <2>3, Record, Tasked
    <3>2. Joins(t, AppendOf(turn[t].text)) BY <1>2, <2>4 DEF Say, Persist, Chained, Joins, Queued
    <3> QED BY <3>1, <3>2
  <2>6. op'[t].at = "queued" /\ \A u \in Turns \ {t} : op'[u] = op[u]
    BY <2>3, <2>5, JoinsFacts
  <2>7. CallsOK' BY <2>2, <2>3, <2>4, <2>6 DEF CallsOK
  <2> QED BY <2>1, <2>7
<1>3. ASSUME NEW t \in Turns, Correct(t) \/ Run(t) \/ Serve(t) \/ Fail(t) \/ NotFound(t) \/ Settle(t)
      PROVE  Kept /\ MemoryTypeOK' /\ CallsOK'
  BY <1>3, CorrectKeeps, RunKeeps, ServeKeeps, FailKeeps, NotFoundKeeps, SettleKeeps
<1>4. CASE StartLookup \/ (\E k \in Callers : ServeLookup(k) \/ LookupFails(k))
  BY <1>1, <1>4, LookupStepKeeps
<1>5. CASE Hydrated BY <1>1, <1>5, HydratedKeeps
<1>6. ASSUME NEW k \in Callers, LookedUp(k) PROVE MemoryInv' BY <1>1, <1>6, LookedUpKeeps
<1>7. ASSUME NEW w \in Switchers,
             \/ \E c \in Chats : SwitchToChat(w, c)
             \/ CreateAndSwitch(w) \/ ServeCreate(w) \/ SwitchFails(w)
      PROVE MemoryInv'
  BY <1>1, <1>7, SwitchStepKeeps
<1>8. ASSUME NEW w \in Switchers, SetActiveChatState(w) PROVE MemoryInv'
  BY <1>1, <1>8, SetActiveChatStateKeeps
<1>9. CASE UNCHANGED memoryVars
  <2>1. UNCHANGED <<existing, currentChat, messages, active, tail, lookup, switch, turn, op, texts, history>>
    BY <1>9 DEF memoryVars, backend, memory, bounds
  <2>2. CallTypes /\ CallsOK' BY <2>1 DEF CallTypes, CallsOK, MemoryInv, MemoryTypeOK
  <2> QED BY <1>1, <2>1, <2>2, CallStepKeeps
<1> QED BY <1>1, <1>2, <1>3, <1>4, <1>5, <1>6, <1>7, <1>8, <1>9 DEF MemoryNext

\* What the tasks of all turns, on every chain, keep true of turns and messages.
THEOREM MemoryInvariance == MemorySpec => []MemoryInv
<1>1. MemoryInit => MemoryInv BY InitMemory, ChatMemoryAssumption
<1>2. MemoryInv /\ [MemoryNext]_memoryVars => MemoryInv' BY NextMemory, ChatMemoryAssumption
<1> QED BY <1>1, <1>2, PTL DEF MemorySpec

\* What is shown was stored in the chat that is active (currentChatMemory's
\* setActiveChatState), unless a lookup's answer came after another chat was chosen.
THEOREM ShownWhereStoredAlways == MemorySpec => []ShownWhereStored
<1>1. MemoryInv => ShownWhereStored BY DEF MemoryInv, TurnFine, Placed, ShownWhereStored
<1> QED BY <1>1, MemoryInvariance, PTL

\* The messages of a surface are in the order in which its turns were said, however
\* many turns are corrected meanwhile (pendingAppend), but for failures.
THEOREM StoredInOrderAlways == MemorySpec => []StoredInOrder
<1>1. MemoryInv => StoredInOrder BY DEF MemoryInv
<1> QED BY <1>1, MemoryInvariance, PTL

\* However often a turn is persisted, it becomes one message, unless a request of it
\* failed (persistConversationTurn, pendingPersistByEntryId).
THEOREM StoredOnceEachAlways == MemorySpec => []StoredOnceEach
<1>1. MemoryInv => StoredOnceEach
  <2> SUFFICES ASSUME MemoryInv, NEW i \in 1..Len(messages), NEW j \in 1..Len(messages),
                      i # j, messages[i].turn = messages[j].turn
               PROVE  messages[i].turn \in failed
    BY DEF StoredOnceEach
  <2>1. messages[i].turn \in Turns /\ i \in Nat /\ j \in Nat BY MessageFields DEF MemoryInv
  <2>2. StoredOnce(messages[i].turn) BY <2>1 DEF MemoryInv, TurnFine
  <2> QED BY <2>1, <2>2 DEF StoredOnce, Mine
<1> QED BY <1>1, MemoryInvariance, PTL

\* When nothing is at work for a turn that is shown, its message says what it says,
\* unless a request failed or a correction came during another one's update.
THEOREM ReconciledAlways == MemorySpec => []Reconciled
<1>1. MemoryInv => Reconciled BY DEF MemoryInv, TurnFine, TextSeen, Reconciled
<1> QED BY <1>1, MemoryInvariance, PTL
=============================================================================
