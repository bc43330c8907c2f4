------------------------------ MODULE ChatMemory ------------------------------
(***************************************************************************)
(* The renderer's side of chat memory: which chat is active, and how the   *)
(* turns shown on the surface are stored in it.                            *)
(*                                                                         *)
(* A turn that settles is appended to the active chat; a correction of it  *)
(* updates the message it became.  Appends and updates run one after       *)
(* another along a chain of promises, and each looks the chat up when its  *)
(* turn comes.  A selected or created chat replaces the surface and the    *)
(* chain, while the requests of the old one go on.                         *)
(*                                                                         *)
(* A request is served and answered in two steps, or fails, before or      *)
(* after it was served.  Reads that choose nothing (a chat by its id, the  *)
(* messages to show) are part of the wait for the answer.                  *)
(***************************************************************************)
EXTENDS Integers, Sequences, FiniteSets

CONSTANTS Chats, Turns, None,
          Switchers,    \* switches of the chat at once (bound)
          MaxSwitches,  \* switches begun (bound)
          MaxText,      \* texts of turns, each correction a new one (bound)
          MaxFailures   \* requests that fail (bound)

ASSUME ChatMemoryAssumption ==
    /\ None \notin Chats \cup Turns
    /\ Turns \cap {"start", "boot"} = {}
    /\ MaxSwitches \in Nat /\ MaxText \in Nat \ {0} /\ MaxFailures \in Nat

VARIABLES
    existing,    \* the chats of the backend
    currentChat, \* the one whose is_current is set
    messages,   \* its messages, in the order they were appended
    active,     \* activeChat
    tail,       \* pendingAppend: the turn whose task it is, None when resolved
    lookup,     \* what each caller that found no active chat awaits
    switch,     \* what each switch of the chat awaits
    turn,       \* the turns of the conversation
    op,         \* pendingPersistByEntryId: what the persist task of a turn awaits
    switches,   \* how many switches have begun
    texts,      \* how many texts there have been
    failures,   \* how many requests have failed
    said,       \* history: the surface a turn was said on, and its place among the turns
    surface,    \* history: how many times the surface and the chain were replaced
    failed,     \* history: turns of which a request failed
    unseen,     \* history: turns whose text their last persist task did not see
    overtaken   \* history: a lookup's answer replaced another active chat

backend == <<existing, currentChat, messages>>
memory == <<active, tail, lookup, switch>>
bounds == <<switches, texts, failures>>
history == <<said, surface, failed, unseen, overtaken>>
memoryVars == <<backend, memory, turn, op, bounds, history>>

\* at: none, queued (behind another task), chat (it is looked up), sent or answered;
\* does: append or update.  retry: who awaits it compares what was stored with the
\* turn, and goes on while they differ.
Idle == [at |-> "none", does |-> "append", text |-> 1, message |-> 0, ok |-> TRUE,
         retry |-> FALSE, behind |-> None, chat |-> None]

\* start: getCurrentChat of a session's start; boot: hydrateCurrentChatIfPresent.
Callers == Turns \cup {"start", "boot"}
NoCall == [at |-> "none", chat |-> None]
Asked == [at |-> "sent", chat |-> None]

MemoryInit ==
    /\ existing \in SUBSET Chats
    /\ currentChat \in IF existing = {} THEN {None} ELSE existing
    /\ messages = <<>>
    /\ active = None /\ tail = None
    /\ lookup = [c \in Callers |-> IF c = "boot" THEN Asked ELSE NoCall]
    /\ switch = [w \in Switchers |-> NoCall]
    /\ turn = [t \in Turns |-> [state |-> "unsaid", text |-> 1, message |-> 0]]
    /\ op = [t \in Turns |-> Idle]
    /\ switches = 0 /\ texts = 1 /\ failures = 0
    /\ said = [t \in Turns |-> [surface |-> 0, place |-> 0]]
    /\ surface = 0 /\ failed = {} /\ unseen = {} /\ overtaken = FALSE
-----------------------------------------------------------------------------
(* Storing a turn.                                                         *)

AppendOf(text) == [Idle EXCEPT !.text = text, !.retry = TRUE]
UpdateOf(id, text, retry) ==
    [Idle EXCEPT !.does = "update", !.message = id, !.text = text, !.retry = retry]

\* Mutant: a task does not wait for the one before it.
Unchained(t, task, ops, end) ==
    /\ op' = [ops EXCEPT ![t] = [task EXCEPT !.at = "queued"]]
    /\ tail' = t

\* appendMessageToCurrentChat, updateMessageInCurrentChat: the task of turn t waits
\* for the end of the chain, the tasks of the others being ops.
Chained(t, task, ops, end) ==
    /\ op' = [ops EXCEPT ![t] = [task EXCEPT !.at = "queued", !.behind = end]]
    /\ tail' = t

\* persistConversationTurn of turn t, which has this text and became message id: a
\* task that is still at work is awaited instead.
Persist(t, text, id) ==
    IF op[t].at # "none"
    THEN /\ unseen' = IF op[t].retry THEN unseen ELSE unseen \cup {t}
         /\ UNCHANGED <<op, tail>>
    ELSE /\ Chained(t, IF id = 0 THEN AppendOf(text) ELSE UpdateOf(id, text, FALSE), op, tail)
         /\ unseen' = unseen \ {t}

Unsaid == {t \in Turns : turn[t].state = "unsaid"}

\* A turn settles: a typed one, or a spoken one whose transcript is complete.
Say(t) ==
    /\ t \in Unsaid
    /\ turn' = [turn EXCEPT ![t].state = "shown"]
    /\ Persist(t, turn[t].text, 0)
    /\ said' = [said EXCEPT ![t] = [surface |-> surface, place |-> Cardinality(Turns \ Unsaid)]]
    /\ UNCHANGED <<backend, active, lookup, switch, bounds, surface, failed, overtaken>>

\* A late transcript changes the text of a settled turn.
Correct(t) ==
    /\ turn[t].state = "shown" /\ texts < MaxText
    /\ texts' = texts + 1
    /\ turn' = [turn EXCEPT ![t].text = texts']
    /\ Persist(t, texts', turn[t].message)
    /\ UNCHANGED <<backend, active, lookup, switch, switches, failures, said, surface, failed, overtaken>>

\* The task in front has settled: the chat is looked up now.
Run(t) ==
    /\ op[t].at = "queued" /\ op[t].behind = None
    /\ IF active # None
       THEN op' = [op EXCEPT ![t].at = "sent", ![t].chat = active] /\ UNCHANGED lookup
       ELSE /\ op' = [op EXCEPT ![t].at = "chat"]
            /\ lookup' = [lookup EXCEPT ![t] = Asked]
    /\ UNCHANGED <<backend, active, tail, switch, turn, bounds, history>>

Answered(t, id) == [op EXCEPT ![t].at = "answered", ![t].message = id, ![t].chat = None]
Failed(t) == [op EXCEPT ![t] = [Idle EXCEPT !.at = "answered", !.ok = FALSE, !.retry = op[t].retry]]

\* The backend appends the message, or updates it where it finds it in that chat.
Serve(t) ==
    /\ op[t].at = "sent"
    /\ \/ /\ op[t].does = "append"
          /\ messages' = Append(messages, [turn |-> t, chat |-> op[t].chat, text |-> op[t].text])
          /\ op' = Answered(t, Len(messages) + 1)
       \/ /\ op[t].does = "update" /\ messages[op[t].message].chat = op[t].chat
          /\ messages' = [messages EXCEPT ![op[t].message].text = op[t].text]
          /\ op' = Answered(t, op[t].message)
    /\ UNCHANGED <<existing, currentChat, memory, turn, bounds, history>>

\* The request fails: it is refused, the backend cannot be reached, or the answer
\* is lost.  An update for another chat than the message's is always refused.
Fail(t) ==
    /\ \/ op[t].at \in {"chat", "sent"} \/ (op[t].at = "answered" /\ op[t].ok)
    /\ failures < MaxFailures /\ failures' = failures + 1
    /\ op' = Failed(t)
    /\ lookup' = [lookup EXCEPT ![t] = NoCall]
    /\ failed' = failed \cup {t} /\ unseen' = unseen \cup {t}
    /\ UNCHANGED <<backend, active, tail, switch, turn, switches, texts, said, surface, overtaken>>

NotFound(t) ==
    /\ op[t].at = "sent" /\ op[t].does = "update"
    /\ messages[op[t].message].chat # op[t].chat
    /\ op' = Failed(t)
    /\ failed' = failed \cup {t} /\ unseen' = unseen \cup {t}
    /\ UNCHANGED <<backend, memory, turn, bounds, said, surface, overtaken>>

\* The tasks and the end of the chain once the task of t has settled.
OpsAfter(t) == [u \in Turns |-> IF u = t THEN Idle
                              ELSE IF op[u].behind = t THEN [op[u] EXCEPT !.behind = None]
                              ELSE op[u]]
End(t) == IF tail = t THEN None ELSE tail

\* Mutant: the first persist of a turn does not look at the turn again.
NeverDiffers(t) == FALSE

\* The loop that follows the first append: the turn, still shown, has another text.
Differs(t) == op[t].retry /\ turn[t].state = "shown" /\ turn[t].text # op[t].text

\* Mutant: the turn is not told which message it became.
ForgetsId(t) == turn[t].message

\* persistedMessageId of turn t after an answer.
MessageId(t) ==
    IF op[t].retry /\ turn[t].state = "shown" /\ turn[t].message = 0
    THEN op[t].message ELSE turn[t].message

\* The answer: the next task may run, and the one who awaited this one goes on.
Settle(t) ==
    /\ op[t].at = "answered"
    /\ IF op[t].ok
       THEN /\ turn' = [turn EXCEPT ![t].message = MessageId(t)]
            /\ IF Differs(t)
               THEN Chained(t, UpdateOf(op[t].message, turn[t].text, TRUE), OpsAfter(t), End(t))
               ELSE op' = OpsAfter(t) /\ tail' = End(t)
       ELSE op' = OpsAfter(t) /\ tail' = End(t) /\ UNCHANGED turn
    /\ UNCHANGED <<backend, active, lookup, switch, bounds, history>>
-----------------------------------------------------------------------------
(* Looking up the chat.                                                    *)

\* The start of a session needs a chat.
StartLookup ==
    /\ active = None /\ lookup["start"].at = "none"
    /\ lookup' = [lookup EXCEPT !["start"] = Asked]
    /\ UNCHANGED <<backend, active, tail, switch, turn, op, bounds, history>>

NewChat(c) ==
    /\ c \notin existing
    /\ existing' = existing \cup {c} /\ currentChat' = c

\* getOrCreateCurrentChat; at boot getCurrentChat, which creates none.
ServeLookup(k) ==
    /\ lookup[k].at = "sent"
    /\ \/ /\ currentChat # None \/ k = "boot"
          /\ lookup' = [lookup EXCEPT ![k] = [at |-> "answered", chat |-> currentChat]]
          /\ UNCHANGED <<existing, currentChat>>
       \/ /\ currentChat = None /\ k # "boot"
          /\ \E c \in Chats :
                NewChat(c) /\ lookup' = [lookup EXCEPT ![k] = [at |-> "answered", chat |-> c]]
    /\ UNCHANGED <<messages, active, tail, switch, turn, op, bounds, history>>

\* The answer becomes the active chat, whatever is active by now; a persist task
\* goes on with it, boot lists its messages.
SetActive(c) ==
    /\ active' = c
    /\ overtaken' = (overtaken \/ (active # None /\ active # c))

LookedUp(k) ==
    /\ lookup[k].at = "answered"
    /\ IF lookup[k].chat = None THEN UNCHANGED <<active, overtaken>> ELSE SetActive(lookup[k].chat)
    /\ lookup' = [lookup EXCEPT ![k] = IF k = "boot" /\ lookup[k].chat # None
                                       THEN [@ EXCEPT !.at = "listing"] ELSE NoCall]
    /\ op' = IF k \in Turns THEN [op EXCEPT ![k].at = "sent", ![k].chat = lookup[k].chat] ELSE op
    /\ UNCHANGED <<backend, tail, switch, turn, bounds, said, surface, failed, unseen>>

LookupFails(k) ==
    /\ k \notin Turns /\ lookup[k].at # "none"
    /\ lookup' = [lookup EXCEPT ![k] = NoCall]
    /\ UNCHANGED <<backend, active, tail, switch, turn, op, bounds, history>>

\* replaceConversationTurns: what is shown now are the stored messages.
Gone == [state |-> "gone", text |-> 1, message |-> 0]
Replaced == [t \in Turns |-> IF turn[t].state = "shown" THEN Gone ELSE turn[t]]

\* The messages are there: hydrateCurrentChatIfPresent shows them.
Hydrated ==
    /\ lookup["boot"].at = "listing"
    /\ lookup' = [lookup EXCEPT !["boot"] = NoCall]
    /\ turn' = Replaced
    /\ UNCHANGED <<backend, active, tail, switch, op, bounds, history>>
-----------------------------------------------------------------------------
(* Switching the chat.                                                     *)

Switches(w, call) ==
    /\ switch[w].at = "none"
    /\ switches < MaxSwitches /\ switches' = switches + 1
    /\ switch' = [switch EXCEPT ![w] = call]
    /\ UNCHANGED <<backend, active, tail, lookup, turn, op, texts, failures, history>>

\* switchToChat of a chat of the history: what it awaits are reads.
SwitchToChat(w, c) == c \in existing /\ Switches(w, [at |-> "answered", chat |-> c])

CreateAndSwitch(w) == Switches(w, Asked)

ServeCreate(w) ==
    /\ switch[w].at = "sent"
    /\ \E c \in Chats : NewChat(c) /\ switch' = [switch EXCEPT ![w] = [at |-> "answered", chat |-> c]]
    /\ UNCHANGED <<messages, active, tail, lookup, turn, op, bounds, history>>

SwitchFails(w) ==
    /\ switch[w].at # "none"
    /\ switch' = [switch EXCEPT ![w] = NoCall]
    /\ UNCHANGED <<backend, active, tail, lookup, turn, op, bounds, history>>

\* Mutant: the turns of the chat that is left stay on the surface.
LeavesTurns(w) ==
    /\ switch[w].at = "answered"
    /\ switch' = [switch EXCEPT ![w] = NoCall]
    /\ active' = switch[w].chat /\ tail' = None
    /\ surface' = surface + 1
    /\ UNCHANGED <<backend, lookup, turn, op, bounds, said, failed, unseen, overtaken>>

\* setActiveChatState: the chat, the surface and the chain are replaced at once.
SetActiveChatState(w) ==
    /\ switch[w].at = "answered"
    /\ switch' = [switch EXCEPT ![w] = NoCall]
    /\ active' = switch[w].chat /\ tail' = None
    /\ turn' = Replaced
    /\ surface' = surface + 1
    /\ UNCHANGED <<backend, lookup, op, bounds, said, failed, unseen, overtaken>>

MemoryNext ==
    \/ \E t \in Turns : \/ Say(t) \/ Correct(t) \/ Run(t) \/ Serve(t) \/ Fail(t) \/ NotFound(t)
                        \/ Settle(t)
    \/ StartLookup \/ Hydrated
    \/ \E k \in Callers : ServeLookup(k) \/ LookedUp(k) \/ LookupFails(k)
    \/ \E w \in Switchers :
         \/ \E c \in Chats : SwitchToChat(w, c)
         \/ CreateAndSwitch(w) \/ ServeCreate(w) \/ SwitchFails(w) \/ SetActiveChatState(w)

MemorySpec == MemoryInit /\ [][MemoryNext]_memoryVars
-----------------------------------------------------------------------------
\* A turn that is shown was stored in the chat that is active: a switch takes the
\* old turns from the surface with the old chat, and what the chain still stores of
\* them, wherever that lands, is of no turn that is shown.  A lookup whose answer
\* comes after a switch breaks it; the code has no guard against that.
ShownWhereStored ==
    ~overtaken => \A t \in Turns : turn[t].state = "shown" /\ turn[t].message # 0
                     => messages[turn[t].message].chat = active

\* The turns said on one surface are stored in the order they were said, however
\* slow the requests and whichever chat they land in; unless one failed and was
\* stored when it was corrected.
StoredInOrder ==
    \A i, j \in 1..Len(messages) :
        LET u == messages[i].turn  v == messages[j].turn
        IN i < j /\ said[u].surface = said[v].surface /\ said[v].place < said[u].place
           => v \in failed

\* A turn becomes a second message only if a request of it failed.
StoredOnceEach ==
    \A i, j \in 1..Len(messages) :
        i # j /\ messages[i].turn = messages[j].turn => messages[i].turn \in failed

\* When no task is at work for a turn that is shown, its message has its text,
\* unless a request failed or a correction came during the update for another
\* one, which nobody repeats.
Reconciled ==
    \A t \in Turns : turn[t].state = "shown" /\ op[t].at = "none" /\ t \notin unseen
        => turn[t].message # 0 /\ messages[turn[t].message].text = turn[t].text
=============================================================================
