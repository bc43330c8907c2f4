---------------------------- MODULE ChatHistory ----------------------------
(***************************************************************************)
(* The messages of one chat, its durable summary and its live sessions:    *)
(* appendMessage(), updateMessage() and endLiveSession() of the chat-      *)
(* memory service, as concurrent READ COMMITTED transactions (CurrentChat  *)
(* describes that isolation level).  Transactions on two chats share no    *)
(* row, so one chat is enough.                                             *)
(*                                                                         *)
(* The text of a message is reduced to its version: 0 as appended, then    *)
(* the name of the request that edited it last.  A summary is the texts it *)
(* was built from and the sequence it covers.                              *)
(***************************************************************************)
EXTENDS Integers, FiniteSets

CONSTANTS Appends,       \* requests that append a message
          Edits,         \* requests that update a message
          Ends,          \* requests that end a live session
          Sessions,      \* live-session rows of the chat
          Nobody,
          SummaryTurns,  \* messages a summary is built from
          FirstMessages  \* bound: messages the chat may have at the start

ASSUME ChatHistoryAssumption ==
  /\ Appends \cap Edits = {} /\ Appends \cap Ends = {} /\ Edits \cap Ends = {}
  /\ Nobody \notin Appends \cup Edits \cup Ends
  /\ SummaryTurns \in Nat \ {0}
  /\ FirstMessages \in Nat

Requests == Appends \cup Edits \cup Ends
Steps == {"begin", "touch", "answered", "failed", "insert", "readSummary", "list",
          "upsert", "commitEdit", "listAtEnd", "readAtEnd", "upsertAtEnd", "commitEnd"}

VARIABLES messages,   \* committed messages: sequence -> author of the text
          allocator,  \* chats.next_message_sequence, committed
          summary,    \* committed chat_summaries row, or NoSummary
          ended,      \* live sessions with a committed end
          pc,         \* the next statement of each request
          target,     \* the sequence or the session each request is about
          draft       \* the summary each request has built

historyVars == <<messages, allocator, summary, ended, pc, target, draft>>

NoSummary == [covered |-> 0, texts |-> <<>>]

\* listMessages(limit) and buildDurableChatSummary(): the newest messages.
SummaryOf(rows) == IF DOMAIN rows = {} THEN NoSummary ELSE
  LET newest == {i \in DOMAIN rows :
                   Cardinality({j \in DOMAIN rows : j > i}) < SummaryTurns}
      covered == CHOOSE i \in newest : \A j \in newest : j <= i
  IN [covered |-> covered, texts |-> [i \in newest |-> rows[i]]]

HistoryInit ==
  /\ \E n \in 0..FirstMessages :
       /\ messages = [i \in 1..n |-> Nobody]
       /\ allocator = n + 1
  /\ summary \in {NoSummary, SummaryOf(messages)}
  /\ ended = {}
  /\ pc = [r \in Requests |-> "begin"]
  /\ target = [r \in Requests |-> Nobody]
  /\ draft = [r \in Requests |-> NoSummary]

Goto(r, step) == pc' = [pc EXCEPT ![r] = step]

\* Row locks: a transaction holds the rows it has written until it ends.
Refreshing == {"readSummary", "list", "upsert", "commitEdit"}
HoldingChat == Refreshing \cup {"insert"}
HoldingMessage == Refreshing \cup {"touch"}
HoldingSession == {"listAtEnd", "readAtEnd", "upsertAtEnd", "commitEnd"}
ChatRowFree(r) == \A q \in Requests \ {r} : pc[q] \notin HoldingChat
MessageRowFree(r, i) ==
  \A q \in Edits \ {r} : ~(pc[q] \in HoldingMessage /\ target[q] = i)
SessionRowFree(r, s) ==
  \A q \in Ends \ {r} : ~(pc[q] \in HoldingSession /\ target[q] = s)
\* ON CONFLICT waits for another transaction's uncommitted row.
Upserted(q) == draft[q] # NoSummary /\ pc[q] \in {"commitEdit", "commitEnd"}
SummaryRowFree(r) == \A q \in Requests \ {r} : ~Upserted(q)

---------------------------------------------------------------------------
(* appendMessage *)

\* Mutant: MAX(sequence) + 1, without the lock on the chats row.
AllocateUnlocked(r) ==
  /\ r \in Appends /\ pc[r] = "begin"
  /\ target' = [target EXCEPT ![r] = allocator]
  /\ Goto(r, "insert")
  /\ UNCHANGED <<messages, allocator, summary, ended, draft>>

\* Mutant: The allocation is committed on its own.
AllocateAutocommitted(r) ==
  /\ r \in Appends /\ pc[r] = "begin"
  /\ ChatRowFree(r)
  /\ target' = [target EXCEPT ![r] = allocator]
  /\ allocator' = allocator + 1
  /\ Goto(r, "insert")
  /\ UNCHANGED <<messages, summary, ended, draft>>

\* UPDATE chats SET next_message_sequence = next_message_sequence + 1 ...
AllocateSequence(r) ==
  /\ r \in Appends /\ pc[r] = "begin"
  /\ ChatRowFree(r)
  /\ target' = [target EXCEPT ![r] = allocator]
  /\ Goto(r, "insert")
  /\ UNCHANGED <<messages, allocator, summary, ended, draft>>

\* INSERT INTO messages ..., which meets no row of another transaction, and
\* COMMIT.
CommitAppend(r) ==
  /\ pc[r] = "insert"
  /\ messages' = [i \in DOMAIN messages \cup {target[r]} |->
                    IF i = target[r] THEN r ELSE messages[i]]
  /\ allocator' = target[r] + 1
  /\ Goto(r, "answered")
  /\ UNCHANGED <<summary, ended, target, draft>>

---------------------------------------------------------------------------
(* updateMessage *)

\* The messages as the transaction of an edit sees them.
EditedBy(r) == [messages EXCEPT ![target[r]] = r]

\* UPDATE messages SET content_text ...
EditMessage(r) ==
  /\ r \in Edits /\ pc[r] = "begin"
  /\ \E i \in DOMAIN messages :
       /\ MessageRowFree(r, i)
       /\ target' = [target EXCEPT ![r] = i]
  /\ Goto(r, "touch")
  /\ UNCHANGED <<messages, allocator, summary, ended, draft>>

\* UPDATE chats SET updated_at ...
TouchChat(r) ==
  /\ pc[r] = "touch"
  /\ ChatRowFree(r)
  /\ Goto(r, "readSummary")
  /\ UNCHANGED <<messages, allocator, summary, ended, target, draft>>

\* Mutant: An edit of the newest message does not refresh the summary.
ReadSummaryStrict(r) ==
  /\ pc[r] = "readSummary"
  /\ Goto(r, IF target[r] < summary.covered THEN "list" ELSE "commitEdit")
  /\ UNCHANGED <<messages, allocator, summary, ended, target, draft>>

\* Only a summary that covers the message has to be built again.
ReadSummary(r) ==
  /\ pc[r] = "readSummary"
  /\ Goto(r, IF target[r] <= summary.covered THEN "list" ELSE "commitEdit")
  /\ UNCHANGED <<messages, allocator, summary, ended, target, draft>>

ListMessages(r) ==
  /\ pc[r] = "list"
  /\ draft' = [draft EXCEPT ![r] = SummaryOf(EditedBy(r))]
  /\ Goto(r, "upsert")
  /\ UNCHANGED <<messages, allocator, summary, ended, target>>

UpsertSummary(r) ==
  /\ pc[r] = "upsert"
  /\ SummaryRowFree(r)
  /\ Goto(r, "commitEdit")
  /\ UNCHANGED <<messages, allocator, summary, ended, target, draft>>

CommitEdit(r) ==
  /\ pc[r] = "commitEdit"
  /\ messages' = EditedBy(r)
  /\ summary' = IF Upserted(r) THEN draft[r] ELSE summary
  /\ Goto(r, "answered")
  /\ UNCHANGED <<allocator, ended, target, draft>>

---------------------------------------------------------------------------
(* endLiveSession *)

\* SELECT ... FOR UPDATE and UPDATE live_sessions ...
EndSession(r) ==
  /\ r \in Ends /\ pc[r] = "begin"
  /\ \E s \in Sessions :
       /\ SessionRowFree(r, s)
       /\ target' = [target EXCEPT ![r] = s]
  /\ Goto(r, "listAtEnd")
  /\ UNCHANGED <<messages, allocator, summary, ended, draft>>

ListAtEnd(r) ==
  /\ pc[r] = "listAtEnd"
  /\ draft' = [draft EXCEPT ![r] = SummaryOf(messages)]
  /\ Goto(r, "readAtEnd")
  /\ UNCHANGED <<messages, allocator, summary, ended, target>>

\* shouldReplaceDurableChatSummary()
Replaces(next, existing) == next.covered > existing.covered

ReadAtEnd(r) ==
  /\ pc[r] = "readAtEnd"
  /\ IF Replaces(draft[r], summary)
     THEN Goto(r, "upsertAtEnd") /\ UNCHANGED draft
     ELSE Goto(r, "commitEnd") /\ draft' = [draft EXCEPT ![r] = NoSummary]
  /\ UNCHANGED <<messages, allocator, summary, ended, target>>

UpsertAtEnd(r) ==
  /\ pc[r] = "upsertAtEnd"
  /\ SummaryRowFree(r)
  /\ Goto(r, "commitEnd")
  /\ UNCHANGED <<messages, allocator, summary, ended, target, draft>>

CommitEnd(r) ==
  /\ pc[r] = "commitEnd"
  /\ ended' = ended \cup {target[r]}
  /\ summary' = IF Upserted(r) THEN draft[r] ELSE summary
  /\ Goto(r, "answered")
  /\ UNCHANGED <<messages, allocator, target, draft>>

---------------------------------------------------------------------------
\* Any statement may fail: the whole transaction is rolled back.
Rollback(r) ==
  /\ pc[r] \notin {"begin", "answered", "failed"}
  /\ Goto(r, "failed")
  /\ UNCHANGED <<messages, allocator, summary, ended, target, draft>>

Step(r) ==
  \/ AllocateSequence(r) \/ CommitAppend(r)
  \/ EditMessage(r) \/ TouchChat(r) \/ ReadSummary(r)
  \/ ListMessages(r) \/ UpsertSummary(r) \/ CommitEdit(r)
  \/ EndSession(r) \/ ListAtEnd(r) \/ ReadAtEnd(r)
  \/ UpsertAtEnd(r) \/ CommitEnd(r)

\* Every request has been answered (an edit needs a message to edit).
Quiet ==
  /\ \A r \in Requests : pc[r] \in {"answered", "failed"}
                          \/ (r \in Edits /\ messages = <<>>)
  /\ UNCHANGED historyVars

HistoryNext == (\E r \in Requests : Step(r) \/ Rollback(r)) \/ Quiet

HistorySpec == HistoryInit /\ [][HistoryNext]_historyVars

---------------------------------------------------------------------------
(* Properties *)

\* Committed sequences are 1, 2, 3 ... without a gap, whichever transactions
\* run side by side and whichever are rolled back.
SequencesDense == DOMAIN messages = 1..(allocator - 1)

\* A committed message stays, and only an edit changes its text: no two
\* appends are ever given the same sequence.
AppendsKeepHistory ==
  [][\A i \in DOMAIN messages :
       /\ i \in DOMAIN messages'
       /\ messages'[i] # messages[i] => messages'[i] \in Edits]_historyVars

\* Until a session has ended, the summary gives every message it covers its
\* present text: edits are serialised by the chats row they touch.
SummaryIsFresh ==
  ended = {} => \A i \in DOMAIN summary.texts : summary.texts[i] = messages[i]

\* Nor does it come to cover less.
EditsKeepCoverage == [][ended' = {} => summary'.covered >= summary.covered]_historyVars
=============================================================================
