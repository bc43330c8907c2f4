------------------------------ MODULE SpeechTurn ------------------------------
(***************************************************************************)
(* The turns of a spoken conversation: what the renderer makes of the      *)
(* transcripts, the audio and the turn events of a live session.           *)
(*                                                                         *)
(* Text that is still coming is shown in a transcript artifact, one of the *)
(* user and one of the assistant per voice turn.  A fence says whether a   *)
(* voice turn is open.  Settling it, or a reset, turns the artifacts into  *)
(* turns of the conversation, which are stored (ChatMemory).               *)
(*                                                                         *)
(* The user's text is the set of the utterances in it, the assistant's     *)
(* that of the voice turns it was heard in.  Every handler is one step: it *)
(* runs to its end before the next event.  Typed turns, the places on the  *)
(* timeline and the answers' metadata are left out.                        *)
(***************************************************************************)
EXTENDS Integers, Sequences

CONSTANTS MaxUtterances,  \* utterances spoken (bound)
          MaxVoiceTurns,  \* voice turns opened (bound)
          MaxArtifacts,   \* artifacts made (bound)
          MaxSwitches     \* switches of the chat (bound)

ASSUME SpeechTurnAssumption ==
    /\ MaxUtterances \in Nat /\ MaxVoiceTurns \in Nat
    /\ MaxArtifacts \in Nat /\ MaxSwitches \in Nat

VARIABLES
    link,         \* the session: none, live, resuming, ending (by the user), failing
    interrupted,  \* voiceSessionStatus is 'interrupted' or recovering from it
    context,      \* the conversation context
    buffer,       \* currentVoiceTranscript
    artifacts,    \* every artifact made
    turns,        \* every voice turn of the conversation made
    switches,     \* how many switches of the chat there were
    heard,        \* history: how many utterances there were
    missed,       \* history: utterances cut off when the surface was cleared
    unseen,       \* history: utterances that came after a turn in which none had come
    again         \* history: utterances shown anew after they had become a turn

conversation == <<context, buffer, artifacts, turns>>
history == <<heard, missed, unseen, again>>
vars == <<link, interrupted, conversation, switches, history>>

Utterances == 1..MaxUtterances
None == 0

\* there: in the store; of: the voice turn; attached: the turn it has become.
Removed == [role |-> "assistant", there |-> FALSE, text |-> {}, settled |-> TRUE,
            interrupted |-> FALSE, attached |-> None, of |-> None]

\* turn counts the voice turns; user, assistant: the current artifacts; reserved:
\* the place on the timeline for speech that has become no turn yet.
Idle == [fence |-> "idle", turn |-> 0, queued |-> FALSE, reserved |-> FALSE, draft |-> {},
         user |-> None, assistant |-> None, lastUser |-> None, lastAssistant |-> None]
Silence == [user |-> {}, assistant |-> {}]

Now == [context |-> context, buffer |-> buffer, artifacts |-> artifacts, turns |-> turns]
Becomes(s) ==
    /\ s.context.turn <= MaxVoiceTurns /\ Len(s.artifacts) <= MaxArtifacts
    /\ context' = s.context /\ buffer' = s.buffer
    /\ artifacts' = s.artifacts /\ turns' = s.turns

Init ==
    /\ link = "none" /\ interrupted = FALSE
    /\ context = Idle /\ buffer = Silence
    /\ artifacts = <<>> /\ turns = <<>>
    /\ switches = 0 /\ heard = 0 /\ missed = {} /\ unseen = {} /\ again = {}
-----------------------------------------------------------------------------
(* The fence, the artifacts and the turns of a state s of the conversation. *)

Open(s) == s.context.fence = "open"
IsSettled(s) == s.context.fence \in {"completed", "interrupted"}
Shown(s, a) == a # None /\ s.artifacts[a].there
Streaming(s, a) == Shown(s, a) /\ ~s.artifacts[a].settled

\* beginVoiceTurnFence
Begin(s) ==
    IF Open(s) THEN s
    ELSE [s EXCEPT !.context = [@ EXCEPT !.fence = "open", !.turn = s.context.turn + 1,
                                         !.user = None, !.assistant = None,
                                         !.lastUser = None, !.lastAssistant = None]]

\* clearTranscript with clearCurrentVoiceTurns: nothing is owned any more.
Disown(s) == [s EXCEPT !.buffer = Silence,
                       !.context = [Idle EXCEPT !.turn = s.context.turn, !.draft = s.context.draft]]

\* upsertTranscriptArtifact of the current artifact of a role.
Upsert(s, role, text) ==
    LET a == s.context[role]
        new == [role |-> role, there |-> TRUE, text |-> text, settled |-> FALSE,
                interrupted |-> FALSE, attached |-> None, of |-> s.context.turn]
    IN IF Shown(s, a)
       THEN [s EXCEPT !.artifacts[a] = [@ EXCEPT !.text = s.artifacts[a].text \cup text,
                                                 !.settled = FALSE]]
       ELSE [s EXCEPT !.artifacts = Append(@, new), !.context[role] = Len(s.artifacts) + 1]

NewTurn(s, role, text) ==
    [s EXCEPT !.turns = Append(@, [role |-> role, there |-> TRUE, text |-> text, of |-> s.context.turn])]

\* Mutant: speech is taken from the buffer whether or not it has become a turn.
HasSpeechInBuffer(s) ==
    /\ s.buffer.user # {}
    /\ Shown(s, s.context.user) => s.artifacts[s.context.user].attached = None

\* appendFinalizedUserTurn: there is speech that has become no turn.
HasSpeech(s) ==
    /\ s.buffer.user # {}
    /\ IF Shown(s, s.context.user) THEN s.artifacts[s.context.user].attached = None
                                   ELSE s.context.reserved

AppendUserTurn(s) ==
    IF HasSpeech(s) THEN [NewTurn(s, "user", s.buffer.user) EXCEPT !.context.reserved = FALSE] ELSE s

\* The artifact is settled and attached to that turn.
SettleUser(s) ==
    LET a == s.context.user
        new == AppendUserTurn(s)
        turn == IF HasSpeech(s) THEN Len(new.turns) ELSE s.artifacts[a].attached
        done == IF Shown(s, a)
                THEN [new EXCEPT !.artifacts[a] = [@ EXCEPT !.settled = TRUE, !.attached = turn],
                                 !.context.lastUser = a]
                ELSE new
    IN [done EXCEPT !.context.user = None]

\* finalizeCurrentVoiceAssistantTranscriptArtifact: a placeholder is removed.
SettleAssistant(s, cut) ==
    LET a == s.context.assistant
        done == IF ~Shown(s, a) THEN s
                ELSE IF s.artifacts[a].text = {} THEN [s EXCEPT !.artifacts[a] = Removed]
                ELSE [s EXCEPT !.artifacts[a] = [@ EXCEPT !.settled = TRUE, !.interrupted = cut],
                               !.context.lastAssistant = a]
    IN [done EXCEPT !.context.assistant = None]

\* finalizeCurrentVoiceTurns
Settle(s, how) ==
    IF ~Open(s) THEN s
    ELSE SettleAssistant(SettleUser([s EXCEPT !.context.fence = how]), how = "interrupted")

Attach(s) ==
    [s EXCEPT !.artifacts[s.context.lastAssistant].attached = Len(s.turns), !.context.lastAssistant = None]

\* commitAssistantDraft with attachCurrentAssistantTurn: the settled transcript, or
\* else the draft, becomes a turn.
Commit(s) ==
    LET a == s.context.lastAssistant
        text == IF Shown(s, a) THEN s.artifacts[a].text ELSE s.context.draft
        done == IF text = {} THEN s ELSE NewTurn(s, "assistant", text)
    IN [IF text # {} /\ Shown(s, a) THEN Attach(done) ELSE done EXCEPT !.context.draft = {}]

\* resetTurnTranscriptState: what is unfinished becomes turns, as it is.
Reset(s) ==
    LET u == s.context.user
        said == IF HasSpeech(s) /\ (Streaming(s, u) \/ ~Shown(s, u)) THEN SettleUser(s) ELSE s
        a == said.context.assistant
        cut == SettleAssistant(said, TRUE)
        done == IF ~Streaming(said, a) THEN said
                ELSE IF said.artifacts[a].text = {} THEN cut
                ELSE Attach(NewTurn(cut, "assistant", said.artifacts[a].text))
    IN [Disown(done) EXCEPT !.context.draft = {}]

\* resetTurnCompletedFlag, after the draft was discarded.
ForgetFence(s) ==
    LET none == [s EXCEPT !.context.draft = {}]
    IN IF Open(s) THEN none
       ELSE [none EXCEPT !.context = [@ EXCEPT !.fence = "idle", !.lastAssistant = None],
                         !.buffer = Silence]

\* The store is reset; with keeps, what is settled stays.
ClearStore(s, keeps) ==
    [s EXCEPT !.buffer = Silence,
        !.artifacts = [a \in DOMAIN s.artifacts |->
            IF keeps /\ s.artifacts[a].settled THEN s.artifacts[a] ELSE Removed],
        !.turns = [t \in DOMAIN s.turns |-> [s.turns[t] EXCEPT !.there = s.turns[t].there /\ keeps]]]
-----------------------------------------------------------------------------
(* What the user says.                                                     *)

UserEntries(entries) == {i \in DOMAIN entries : entries[i].role = "user"}
SpeechOf(entries) == UNION {entries[i].text : i \in UserEntries(entries)}
ShownSpeech(s) == UNION {s.artifacts[a].text : a \in {b \in UserEntries(s.artifacts) : s.artifacts[b].there}}
Kept(s) == SpeechOf(s.turns) \cup ShownSpeech(s)

\* Mutant: a correction reaches the artifact and not its turn.
CorrectArtifact(s) ==
    LET a == s.context.lastUser
    IN IF Shown(s, a) THEN [s EXCEPT !.artifacts[a].text = s.buffer.user] ELSE s

\* updateSettledVoiceUserTranscriptArtifact, and the turn it is attached to.
CorrectSettled(s) ==
    LET a == s.context.lastUser
        text == s.buffer.user
    IN IF ~Shown(s, a) THEN [s EXCEPT !.context.lastUser = None]
       ELSE IF s.artifacts[a].attached = None THEN [s EXCEPT !.artifacts[a].text = text]
       ELSE [s EXCEPT !.artifacts[a].text = text, !.turns[s.artifacts[a].attached].text = text]

\* A transcript after the turn was settled.  Whether it is a correction of the text
\* in the buffer or a new utterance is guessed from the letters; an empty buffer is
\* contained in every text.
Corrected(u) == CorrectSettled([Now EXCEPT !.buffer.user = @ \cup {u}, !.context.queued = TRUE])

SettledCorrection(u) ==
    /\ IsSettled(Now)
    /\ Becomes(Corrected(u))
    /\ unseen' = IF Shown(Now, context.lastUser) THEN unseen ELSE unseen \cup {u}
    /\ again' = again \cup ({u} \cap SpeechOf(turns))

\* The same text once more: the turn is given up, and nothing is shown.
SettledReplay(u) ==
    /\ IsSettled(Now) /\ u \in buffer.user
    /\ Becomes(Disown(Now))
    /\ UNCHANGED <<unseen, again>>

\* The turn that speech is part of: a new one reserves its place.
OpenForSpeech(s) == IF Open(s) THEN s ELSE [Begin(s) EXCEPT !.context.reserved = TRUE]

\* A transcript in an open turn, or one that opens it: an artifact shows it.
Speech(u) ==
    /\ IsSettled(Now) => u \notin buffer.user /\ buffer.user # {}
    /\ LET now == OpenForSpeech(IF IsSettled(Now) THEN Disown(Now) ELSE Now)
           text == now.buffer.user \cup {u}
       IN \/ /\ Becomes(Upsert([now EXCEPT !.buffer.user = text], "user", text))
             /\ again' = again \cup (text \cap SpeechOf(turns))
          \/ /\ u \in now.buffer.user  \* nothing new in it
             /\ Becomes(now)
             /\ UNCHANGED again
    /\ UNCHANGED unseen

\* 'input-transcript' of an utterance, which may be an old one.
InputTranscript(u) ==
    /\ link \in {"live", "ending", "failing"}
    /\ u <= heard + 1 /\ heard' = IF u > heard THEN u ELSE heard
    /\ SettledCorrection(u) \/ SettledReplay(u) \/ Speech(u)
    /\ UNCHANGED <<link, interrupted, switches, missed>>
-----------------------------------------------------------------------------
(* What the assistant answers.                                             *)

\* shouldIgnoreAssistantOutput: an unavailable turn goes on only if it streams or,
\* for an output, a reply is queued.
Accepts(completes) ==
    \/ link = "live" /\ ~interrupted
    \/ Streaming(Now, context.assistant)
    \/ ~completes /\ context.queued

\* Mutant: a reply that still streams is left behind.
PrepareAnew(s) ==
    IF ~s.context.queued THEN s
    ELSE LET new == [Begin(s) EXCEPT !.context = [@ EXCEPT !.queued = FALSE, !.assistant = None,
                                                               !.lastAssistant = None],
                                     !.buffer.assistant = {}]
         IN IF Streaming(s, new.context.user) THEN new ELSE [new EXCEPT !.context.user = None]

\* prepareQueuedMixedModeAssistantReply: the reply to a typed turn, or to a
\* correction, gets an artifact and, where none is open, a turn of its own.
Prepare(s) ==
    IF ~s.context.queued \/ Streaming(s, s.context.assistant) THEN s
    ELSE LET new == [Begin(s) EXCEPT !.context = [@ EXCEPT !.queued = FALSE, !.assistant = None,
                                                               !.lastAssistant = None],
                                     !.buffer.assistant = {}]
         IN IF Streaming(s, new.context.user) THEN new ELSE [new EXCEPT !.context.user = None]

\* ensureAssistantTurn: a settled turn takes nothing more, unless a reply is queued.
Fenced(s) == IsSettled(s) /\ ~s.context.queued
EnsureAssistantTurn(s) == LET now == Begin(Prepare(s)) IN Upsert(now, "assistant", now.buffer.assistant)

Transcript(s) ==
    LET now == [s EXCEPT !.buffer.assistant = @ \cup {s.context.turn}]
    IN Upsert(now, "assistant", now.buffer.assistant)

\* 'audio-chunk', 'output-transcript', 'text-delta'.
AssistantOutput ==
    /\ link \in {"live", "ending", "failing"} /\ Accepts(FALSE)
    /\ ~Fenced(Now)
    /\ LET now == EnsureAssistantTurn(Now)
       IN \/ Becomes(now)
          \/ Becomes(Transcript(now))
          \/ Becomes([now EXCEPT !.context.draft = @ \cup {now.context.turn}])
    /\ UNCHANGED <<link, interrupted, switches, history>>

\* A typed turn was sent: a reply to it is queued.
SubmitTextTurn ==
    /\ link \in {"live", "ending"}
    /\ Becomes([Now EXCEPT !.context.queued = TRUE])
    /\ UNCHANGED <<link, interrupted, switches, history>>
-----------------------------------------------------------------------------
(* The end of a turn.                                                      *)

\* Mutant: an interruption leaves the draft.
InterruptKeepingDraft ==
    /\ link \in {"live", "ending", "failing"}
    /\ interrupted' = TRUE
    /\ Becomes(Settle(Now, "interrupted"))
    /\ UNCHANGED <<link, switches, history>>

\* 'interrupted', in an open turn or while a tool is called.
Interrupt ==
    /\ link \in {"live", "ending", "failing"}
    /\ interrupted' = TRUE
    /\ Becomes(Settle([Now EXCEPT !.context.draft = {}], "interrupted"))
    /\ UNCHANGED <<link, switches, history>>

Recover ==
    /\ interrupted /\ interrupted' = FALSE
    /\ UNCHANGED <<link, conversation, switches, history>>

\* 'turn-complete'
TurnComplete ==
    /\ link \in {"live", "ending", "failing"}
    /\ Open(Now) /\ Accepts(TRUE)
    /\ Becomes(Commit(Settle(Now, "completed")))
    /\ UNCHANGED <<link, interrupted, switches, history>>
-----------------------------------------------------------------------------
(* The session.                                                            *)

Connected ==
    /\ link \in {"none", "resuming"} /\ link' = "live"
    /\ interrupted' = FALSE
    /\ Becomes(Reset(Now))
    /\ UNCHANGED <<switches, history>>

\* An unexpected disconnect: the turn is reset, the transport cleaned up.
Disconnected ==
    /\ link = "live" /\ link' = "none"
    /\ interrupted' = FALSE
    /\ Becomes(ForgetFence(Reset(Now)))
    /\ UNCHANGED <<switches, history>>

\* The transport is replaced: the draft is abandoned, an open turn is not.
Resume ==
    /\ link = "live" /\ link' = "resuming"
    /\ interrupted' = FALSE
    /\ Becomes(ForgetFence(Now))
    /\ UNCHANGED <<switches, history>>

\* The user ends the session; events come until its transport is disconnected.
End ==
    /\ link = "live" /\ link' = "ending"
    /\ UNCHANGED <<interrupted, conversation, switches, history>>

\* An error ends it: what is unfinished becomes turns first.
Fail ==
    /\ link \in {"live", "resuming"} /\ link' = "failing"
    /\ interrupted' = FALSE
    /\ Becomes(Reset(Now))
    /\ UNCHANGED <<switches, history>>

Emptied(s, keeps) == Reset(ClearStore(ForgetFence(s), keeps))

\* Mutant: the store is reset before the turn is.
TeardownFirst(keeps) == Emptied(Now, keeps)

\* The disconnect resets the turn before the runtime and the store are.
Teardown(keeps) == Emptied(Reset(Now), keeps)

Ended ==
    /\ link \in {"ending", "failing"} /\ link' = "none"
    /\ interrupted' = FALSE
    /\ Becomes(Teardown(link = "ending"))
    /\ UNCHANGED <<switches, history>>

\* The next start fails before it has a transport.
StartFails ==
    /\ link = "none" /\ interrupted' = FALSE
    /\ Becomes(Teardown(FALSE))
    /\ UNCHANGED <<link, switches, history>>

\* While a resumption is in flight the disconnect is ignored.
EndedWhileResuming ==
    /\ link = "resuming" /\ link' = "none"
    /\ interrupted' = FALSE
    /\ Becomes(Emptied(Now, TRUE))
    /\ missed' = missed \cup (Kept(Now) \ Kept(Emptied(Now, TRUE)))
    /\ UNCHANGED <<switches, heard, unseen, again>>

\* Another chat is shown, whatever the session is doing.
SwitchChat ==
    /\ switches < MaxSwitches /\ switches' = switches + 1
    /\ Becomes(ClearStore(Now, FALSE))
    /\ missed' = missed \cup (Kept(Now) \ Kept(ClearStore(Now, FALSE)))
    /\ UNCHANGED <<link, interrupted, heard, unseen, again>>

Next ==
    \/ \E u \in Utterances : InputTranscript(u)
    \/ AssistantOutput \/ SubmitTextTurn
    \/ Interrupt \/ Recover \/ TurnComplete
    \/ Connected \/ Disconnected \/ Resume \/ End \/ Fail
    \/ Ended \/ StartFails \/ EndedWhileResuming
    \/ SwitchChat

Spec == Init /\ [][Next]_vars
-----------------------------------------------------------------------------
Shows == {a \in DOMAIN artifacts : artifacts[a].there}
Replies == {a \in Shows : artifacts[a].role = "assistant"}

\* Finalization leaves no orphan: an artifact that still streams is the current one
\* of its role, in a turn that is open.
NoOrphans ==
    \A a \in Shows : ~artifacts[a].settled => context[artifacts[a].role] = a /\ Open(Now)

\* A settled artifact is a turn of the conversation with the same text, corrections
\* included; only an interrupted reply stays an artifact, and one that a reset cut
\* off is a turn too.
SettledBecomesTurn ==
    \A a \in Shows : artifacts[a].settled =>
        IF artifacts[a].attached # None
        THEN turns[artifacts[a].attached].text = artifacts[a].text
        ELSE artifacts[a].role = "assistant" /\ artifacts[a].interrupted

\* Speech is not lost: what was heard is in a turn or in an artifact on the surface,
\* whatever interrupts, resets or ends the turn; unless the surface was cleared while
\* it was streaming, or it came after a turn in which the user had said nothing.
HeardIsKept == 1..heard \subseteq Kept(Now) \cup missed \cup unseen

\* Speech becomes a turn once: settling and resetting a turn in any order never
\* takes it from the buffer again, unless a transcript brought it back.
TurnedOnce ==
    \A i, j \in DOMAIN turns :
        i # j /\ turns[i].role = "user" /\ turns[j].role = "user"
        => turns[i].text \cap turns[j].text \subseteq again

\* A reply holds only what was heard in its own turn: neither the draft of an
\* interrupted turn nor the transcript of a settled one gets into the next.
RepliesApart ==
    /\ \A a \in Replies : artifacts[a].text \subseteq {artifacts[a].of}
    /\ \A t \in DOMAIN turns : turns[t].role = "assistant" => turns[t].text \subseteq {turns[t].of}

=============================================================================
