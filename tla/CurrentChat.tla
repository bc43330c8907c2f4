---------------------------- MODULE CurrentChat ----------------------------
(***************************************************************************)
(* The durable current chat: createChat() and getOrCreateCurrentChat() of  *)
(* PostgresChatMemoryRepository, run concurrently against one database.    *)
(*                                                                         *)
(* Each request is one transaction, retried when the unique partial index  *)
(* idx_chats_current refuses its row.  PostgreSQL runs it at its default   *)
(* isolation level, READ COMMITTED: every statement sees the rows          *)
(* committed when it starts, an UPDATE waits for the writer of a row it    *)
(* wants and then tests the row again, and an INSERT that meets the        *)
(* uncommitted work of another transaction in a unique index waits for     *)
(* that transaction to end.                                                *)
(*                                                                         *)
(* A request inserts at most one row that survives, so the row is named    *)
(* after the request: the random id only has to be new.                    *)
(***************************************************************************)
EXTENDS Naturals, FiniteSets

CONSTANTS Creates,      \* requests to POST /chat-memory/chats
          Ensures,      \* requests to PUT /chat-memory/chats/current
          OldChat,      \* a chat that may be current from the start
          NoChat,
          MaxAttempts,  \* attempts of withCurrentChatRetry
          MaxLost       \* bound: connections the database may lose

ASSUME CurrentChatAssumption ==
  /\ Creates \cap Ensures = {}
  /\ OldChat \notin Creates \cup Ensures
  /\ NoChat \notin Creates \cup Ensures \cup {OldChat}
  /\ MaxAttempts \in Nat \ {0}
  /\ MaxLost \in Nat

Requests == Creates \cup Ensures
AllChats == Requests \cup {OldChat}

VARIABLES chats,     \* committed rows
          current,   \* those with is_current
          pc,        \* the next statement of each request
          attempt,   \* attempts of each request the index has refused
          updated,   \* rows the UPDATE of each request sees, then has locked
          result,    \* the chat each request answers with
          lost       \* connections lost so far

vars == <<chats, current, pc, attempt, updated, result, lost>>

Finished == {"answered", "refused", "lost"}
Steps == {"begin", "select", "demote", "locking", "insert", "commit"} \cup Finished

Init ==
  /\ chats = {OldChat}
  /\ current \in SUBSET chats
  /\ pc = [r \in Requests |-> "begin"]
  /\ attempt = [r \in Requests |-> 0]
  /\ updated = [r \in Requests |-> {}]
  /\ result = [r \in Requests |-> NoChat]
  /\ lost = 0

\* Rows another transaction has updated and not yet committed.
LockedAgainst(r) ==
  UNION {updated[q] : q \in {p \in Requests \ {r} : pc[p] # "locking"}}

\* Another transaction holds an uncommitted current row.
RowPending(r) == \E q \in Requests \ {r} : pc[q] = "commit"

---------------------------------------------------------------------------
(* Statements *)

Goto(r, step) == pc' = [pc EXCEPT ![r] = step]

Begin(r) ==
  /\ pc[r] = "begin"
  /\ Goto(r, IF r \in Ensures THEN "select" ELSE "demote")
  /\ UNCHANGED <<chats, current, attempt, updated, result, lost>>

\* SELECT ... WHERE is_current LIMIT 1: an existing current chat is the answer.
FindCurrent(r) ==
  /\ pc[r] = "select"
  /\ \E c \in current : result' = [result EXCEPT ![r] = c]
  /\ Goto(r, "answered")
  /\ UNCHANGED <<chats, current, attempt, updated, lost>>

FindNone(r) ==
  /\ pc[r] = "select"
  /\ current = {}
  /\ Goto(r, "demote")
  /\ UNCHANGED <<chats, current, attempt, updated, result, lost>>

\* UPDATE chats SET is_current = false WHERE is_current: the rows it sees ...
SeeCurrent(r) ==
  /\ pc[r] = "demote"
  /\ updated' = [updated EXCEPT ![r] = current]
  /\ Goto(r, "locking")
  /\ UNCHANGED <<chats, current, attempt, result, lost>>

\* Mutant: The UPDATE runs outside the transaction.
DemoteAutocommitted(r) ==
  /\ pc[r] = "locking"
  /\ updated[r] \cap LockedAgainst(r) = {}
  /\ current' = current \ updated[r]
  /\ updated' = [updated EXCEPT ![r] = {}]
  /\ Goto(r, "insert")
  /\ UNCHANGED <<chats, attempt, result, lost>>

\* ... and, once their writers have ended, those that are still current.
Demote(r) ==
  /\ pc[r] = "locking"
  /\ updated[r] \cap LockedAgainst(r) = {}
  /\ updated' = [updated EXCEPT ![r] = @ \cap current]
  /\ Goto(r, "insert")
  /\ UNCHANGED <<chats, current, attempt, result, lost>>

\* The index decides on an INSERT only when no running transaction could
\* still change its mind.
IndexReady(r) ==
  /\ pc[r] = "insert"
  /\ ~RowPending(r)
  /\ (current \ updated[r]) \cap LockedAgainst(r) = {}

\* Mutant: The unique partial index is dropped.
InsertUnindexed(r) ==
  /\ pc[r] = "insert"
  /\ Goto(r, "commit")
  /\ UNCHANGED <<chats, current, attempt, updated, result, lost>>

Insert(r) ==
  /\ IndexReady(r)
  /\ current \subseteq updated[r]
  /\ Goto(r, "commit")
  /\ UNCHANGED <<chats, current, attempt, updated, result, lost>>

\* Mutant: Only the INSERT is tried again, under what the first UPDATE saw.
ConflictRetriesInsert(r) ==
  /\ IndexReady(r)
  /\ ~(current \subseteq updated[r])
  /\ attempt' = [attempt EXCEPT ![r] = @ + 1]
  /\ Goto(r, IF attempt[r] + 1 = MaxAttempts THEN "refused" ELSE "insert")
  /\ UNCHANGED <<chats, current, updated, result, lost>>

\* A unique violation: ROLLBACK, and withCurrentChatRetry starts again.
Conflict(r) ==
  /\ IndexReady(r)
  /\ ~(current \subseteq updated[r])
  /\ attempt' = [attempt EXCEPT ![r] = @ + 1]
  /\ updated' = [updated EXCEPT ![r] = {}]
  /\ Goto(r, IF attempt[r] + 1 = MaxAttempts THEN "refused" ELSE "begin")
  /\ UNCHANGED <<chats, current, result, lost>>

Commit(r) ==
  /\ pc[r] = "commit"
  /\ chats' = chats \cup {r}
  /\ current' = (current \ updated[r]) \cup {r}
  /\ updated' = [updated EXCEPT ![r] = {}]

CommitAnswered(r) ==
  /\ Commit(r)
  /\ result' = [result EXCEPT ![r] = r]
  /\ Goto(r, "answered")
  /\ UNCHANGED <<attempt, lost>>

\* The row is durable, and the connection is lost before the answer.
CommitUnanswered(r) ==
  /\ Commit(r)
  /\ lost < MaxLost
  /\ lost' = lost + 1
  /\ Goto(r, "lost")
  /\ UNCHANGED <<attempt, result>>

\* Mutant: The client is released without a ROLLBACK.
LoseConnectionHolding(r) ==
  /\ pc[r] \notin Finished
  /\ lost < MaxLost
  /\ lost' = lost + 1
  /\ Goto(r, "lost")
  /\ UNCHANGED <<chats, current, attempt, updated, result>>

\* Any other error is thrown at once; ROLLBACK releases what the transaction
\* holds before its client goes back to the pool.
LoseConnection(r) ==
  /\ pc[r] \notin Finished
  /\ lost < MaxLost
  /\ lost' = lost + 1
  /\ updated' = [updated EXCEPT ![r] = {}]
  /\ Goto(r, "lost")
  /\ UNCHANGED <<chats, current, attempt, result>>

---------------------------------------------------------------------------
Step(r) ==
  \/ Begin(r) \/ FindCurrent(r) \/ FindNone(r) \/ SeeCurrent(r)
  \/ Demote(r) \/ Insert(r) \/ Conflict(r) \/ CommitAnswered(r)

\* Every request has been answered: nothing is left to run.
Quiet == /\ \A r \in Requests : pc[r] \in Finished
         /\ UNCHANGED vars

Next == (\E r \in Requests : Step(r) \/ LoseConnection(r) \/ CommitUnanswered(r)) \/ Quiet

Spec == Init /\ [][Next]_vars

\* The database runs every statement that does not have to wait.
FairSpec == Spec /\ \A r \in Requests : WF_vars(Step(r))

---------------------------------------------------------------------------
(* Properties *)

TypeOK ==
  /\ chats \subseteq AllChats
  /\ current \subseteq chats
  /\ pc \in [Requests -> Steps]
  /\ attempt \in [Requests -> 0..MaxAttempts]
  /\ updated \in [Requests -> SUBSET AllChats]
  /\ result \in [Requests -> AllChats \cup {NoChat}]
  /\ lost \in 0..MaxLost

\* Never two current chats: whatever the order of the statements, a request
\* commits its row only when every other current row is one it demoted.
AtMostOneCurrent == \A c, d \in current : c = d

\* Once a chat is current some chat always is: demoting and inserting become
\* visible together, and a transaction that fails in between undoes both.
CurrentNeverVanishes == [][current # {} => current' # {}]_vars

\* A refused attempt is always paid for by a chat another request has created,
\* so that three attempts are enough unless three other requests succeed.
Others(r) == chats \ {OldChat, r}
RefusalsArePaidFor == \A r \in Requests : attempt[r] <= Cardinality(Others(r))

\* Every request ends, whatever locks it meets and whoever fails.
RequestsEnd == \A r \in Requests : <>(pc[r] \in Finished)

=============================================================================
