-------------------------- MODULE SpeechTurnProofs --------------------------
(***************************************************************************)
(* Proofs about voice turns, for any number of turns, artifacts and        *)
(* utterances.                                                             *)
(*                                                                         *)
(* A handler is a composition of the functions that the code is made of:   *)
(* settle, attach, append, reset, clear.  Each is shown to keep Sound, and *)
(* to keep what was said (Keeps); the handlers as a whole keep Stable, of  *)
(* which the properties are parts.                                         *)
(***************************************************************************)
EXTENDS SpeechTurn, SequenceTheorems, TLAPS
-----------------------------------------------------------------------------
Roles == {"user", "assistant"}
Artifacts == [role : Roles, there : BOOLEAN, text : SUBSET Nat, settled : BOOLEAN,
              interrupted : BOOLEAN, attached : Nat, of : Nat]
Entries == [role : Roles, there : BOOLEAN, text : SUBSET Nat, of : Nat]
Contexts == [fence : {"idle", "open", "completed", "interrupted"}, turn : Nat,
             queued : BOOLEAN, reserved : BOOLEAN, draft : SUBSET Nat, user : Nat,
             assistant : Nat, lastUser : Nat, lastAssistant : Nat]
Buffers == [user : SUBSET Nat, assistant : SUBSET Nat]
Conversations == [context : Contexts, buffer : Buffers, artifacts : Seq(Artifacts),
                  turns : Seq(Entries)]

\* The context points at artifacts that were made.
Pointers(s) ==
    {s.context.user, s.context.assistant, s.context.lastUser, s.context.lastAssistant}
        \subseteq 0..Len(s.artifacts)

Typed(s) == s \in Conversations /\ Pointers(s)

Made(s) == 1..Len(s.artifacts)

\* What the user's artifact shows is the text in the buffer, and has become no turn.
CurrentUser(s) ==
    LET u == s.context.user IN
    Shown(s, u) => /\ s.artifacts[u].role = "user" /\ ~s.artifacts[u].settled
                   /\ s.artifacts[u].attached = None
                   /\ s.artifacts[u].text = s.buffer.user /\ s.buffer.user # {}

\* The assistant's artifact is of this turn; no other reply waits to become a turn.
CurrentAssistant(s) ==
    LET a == s.context.assistant IN
    /\ a # None => s.context.lastAssistant = None
    /\ Shown(s, a) => /\ s.artifacts[a].role = "assistant" /\ ~s.artifacts[a].settled
                      /\ s.artifacts[a].attached = None /\ s.artifacts[a].of = s.context.turn

LastAssistant(s) ==
    LET l == s.context.lastAssistant IN
    Shown(s, l) => /\ s.artifacts[l].role = "assistant" /\ s.artifacts[l].settled
                   /\ s.artifacts[l].of = s.context.turn

\* Of the artifacts A and the turns T.

StreamsCurrent(A, user, assistant) ==
    \A a \in 1..Len(A) : A[a].there /\ ~A[a].settled =>
        IF A[a].role = "user" THEN user = a ELSE assistant = a

\* A settled artifact is a turn, is an interrupted reply or is the reply that
\* becomes a turn next.
SettledAttached(A, T, last) ==
    \A a \in 1..Len(A) : A[a].there /\ A[a].settled =>
        IF A[a].attached # None
        THEN T[A[a].attached].text = A[a].text
        ELSE A[a].role = "assistant" /\ (A[a].interrupted \/ last = a)

\* Each artifact is attached to a turn of its own.
AttachedOnce(A, T) ==
    \A a \in 1..Len(A) : A[a].attached # None =>
        /\ A[a].attached \in 1..Len(T)
        /\ T[A[a].attached].role = A[a].role
        /\ \A b \in 1..Len(A) : A[b].attached = A[a].attached => b = a

RepliesOfTurn(A) ==
    \A a \in 1..Len(A) : A[a].there /\ A[a].role = "assistant" => A[a].text \subseteq {A[a].of}
TurnsApart(T) ==
    \A t \in 1..Len(T) : T[t].role = "assistant" => T[t].text \subseteq {T[t].of}

Attached(s) ==
    /\ StreamsCurrent(s.artifacts, s.context.user, s.context.assistant)
    /\ SettledAttached(s.artifacts, s.turns, s.context.lastAssistant)
    /\ AttachedOnce(s.artifacts, s.turns)

Apart(s) ==
    /\ s.buffer.assistant \subseteq {s.context.turn} /\ s.context.draft \subseteq {s.context.turn}
    /\ RepliesOfTurn(s.artifacts) /\ TurnsApart(s.turns)

\* At any moment within a handler.
Sound(s) == /\ Typed(s) /\ CurrentUser(s) /\ CurrentAssistant(s) /\ LastAssistant(s)
            /\ Attached(s) /\ Apart(s)

Closes(s) == s.context.user = None /\ s.context.assistant = None /\ s.context.draft = {}

\* The last speech of a settled turn is a turn with the text in the buffer.
LastSaid(s) ==
    LET l == s.context.lastUser IN
    IsSettled(s) /\ Shown(s, l) =>
        /\ s.artifacts[l].role = "user" /\ s.artifacts[l].settled
        /\ s.artifacts[l].attached # None /\ s.artifacts[l].text = s.buffer.user
        /\ ~s.context.reserved

LastInterrupted(s) ==
    LET l == s.context.lastAssistant IN Shown(s, l) => s.artifacts[l].interrupted

\* Between two handlers.
Stable(s) ==
    /\ Sound(s)
    /\ Open(s) => s.context.lastUser = None /\ s.context.lastAssistant = None
    /\ ~Open(s) => Closes(s)
    /\ s.context.fence = "idle" => s.buffer = Silence
    /\ LastSaid(s) /\ LastInterrupted(s)
-----------------------------------------------------------------------------
(* Contexts, artifacts and sequences of them. *)

\* The context of a voice turn that has begun.
Begun(c) == [c EXCEPT !.fence = "open", !.turn = c.turn + 1, !.user = None, !.assistant = None,
                      !.lastUser = None, !.lastAssistant = None]

LEMMA BegunOK ==
    ASSUME NEW c \in Contexts
    PROVE  LET r == Begun(c) IN
           /\ r \in Contexts
           /\ r.fence = "open" /\ r.turn = c.turn + 1 /\ r.user = None /\ r.assistant = None
           /\ r.lastUser = None /\ r.lastAssistant = None
           /\ r.queued = c.queued /\ r.reserved = c.reserved /\ r.draft = c.draft
<1>1. c.turn \in Nat /\ c.turn + 1 \in Nat /\ None \in Nat BY DEF Contexts, None
<1>2. Begun(c) \in Contexts BY <1>1, Zenon DEF Begun, Contexts
<1> QED BY <1>1, <1>2, Zenon DEF Begun, Contexts

\* That of a turn nothing is left of.
Disowned(c) == [Idle EXCEPT !.turn = c.turn, !.draft = c.draft]

LEMMA DisownedOK ==
    ASSUME NEW c \in Contexts
    PROVE  LET r == Disowned(c) IN
           /\ r \in Contexts
           /\ r.fence = "idle" /\ r.turn = c.turn /\ r.user = None /\ r.assistant = None
           /\ r.lastUser = None /\ r.lastAssistant = None
           /\ r.queued = FALSE /\ r.reserved = FALSE /\ r.draft = c.draft
<1>1. c.turn \in Nat /\ c.draft \in SUBSET Nat /\ 0 \in Nat /\ Idle \in Contexts
  BY DEF Contexts, Idle, None
<1>2. Disowned(c) \in Contexts BY <1>1, Zenon DEF Disowned, Contexts
<1> QED BY <1>1, <1>2, Zenon DEF Disowned, Contexts, Idle, None

\* That of a queued reply, where the user's artifact u goes on.
Prepared(c, u) == [[c EXCEPT !.queued = FALSE, !.assistant = None, !.lastAssistant = None] EXCEPT !.user = u]

LEMMA PreparedOK ==
    ASSUME NEW c \in Contexts, NEW u \in Nat
    PROVE  LET r == Prepared(c, u) IN
           /\ r \in Contexts
           /\ r.queued = FALSE /\ r.assistant = None /\ r.lastAssistant = None /\ r.user = u
           /\ r.fence = c.fence /\ r.turn = c.turn /\ r.reserved = c.reserved
           /\ r.draft = c.draft /\ r.lastUser = c.lastUser
<1>1. None \in Nat BY DEF None
<1>2. Prepared(c, u) \in Contexts BY <1>1, Zenon DEF Prepared, Contexts
<1> QED BY <1>1, <1>2, Zenon DEF Prepared, Contexts

\* That of a user whose speech is settled: the last artifact is l, if there was one.
SettledFor(c, reserved, l) == [[c EXCEPT !.reserved = reserved, !.lastUser = l] EXCEPT !.user = None]

LEMMA SettledForOK ==
    ASSUME NEW c \in Contexts, NEW reserved \in BOOLEAN, NEW l \in Nat
    PROVE  LET r == SettledFor(c, reserved, l) IN
           /\ r \in Contexts
           /\ r.reserved = reserved /\ r.lastUser = l /\ r.user = None
           /\ r.fence = c.fence /\ r.turn = c.turn /\ r.queued = c.queued /\ r.draft = c.draft
           /\ r.assistant = c.assistant /\ r.lastAssistant = c.lastAssistant
<1>1. None \in Nat BY DEF None
<1>2. SettledFor(c, reserved, l) \in Contexts BY <1>1, Zenon DEF SettledFor, Contexts
<1> QED BY <1>1, <1>2, Zenon DEF SettledFor, Contexts

Answered(c, l) == [[c EXCEPT !.lastAssistant = l] EXCEPT !.assistant = None]

LEMMA AnsweredOK ==
    ASSUME NEW c \in Contexts, NEW l \in Nat
    PROVE  LET r == Answered(c, l) IN
           /\ r \in Contexts
           /\ r.lastAssistant = l /\ r.assistant = None
           /\ r.fence = c.fence /\ r.turn = c.turn /\ r.queued = c.queued /\ r.draft = c.draft
           /\ r.user = c.user /\ r.lastUser = c.lastUser /\ r.reserved = c.reserved
<1>1. None \in Nat BY DEF None
<1>2. Answered(c, l) \in Contexts BY <1>1, Zenon DEF Answered, Contexts
<1> QED BY <1>1, <1>2, Zenon DEF Answered, Contexts

Forgotten(c) == [[c EXCEPT !.draft = {}] EXCEPT !.fence = "idle", !.lastAssistant = None]

LEMMA ForgottenOK ==
    ASSUME NEW c \in Contexts
    PROVE  LET r == Forgotten(c) IN
           /\ r \in Contexts
           /\ r.draft = {} /\ r.fence = "idle" /\ r.lastAssistant = None
           /\ r.turn = c.turn /\ r.queued = c.queued /\ r.reserved = c.reserved
           /\ r.user = c.user /\ r.lastUser = c.lastUser /\ r.assistant = c.assistant
<1>1. None \in Nat /\ {} \in SUBSET Nat BY DEF None
<1>2. Forgotten(c) \in Contexts BY <1>1, Zenon DEF Forgotten, Contexts
<1> QED BY <1>1, <1>2, Zenon DEF Forgotten, Contexts

Fresh(role, text, of) ==
    [role |-> role, there |-> TRUE, text |-> text, settled |-> FALSE,
     interrupted |-> FALSE, attached |-> None, of |-> of]
Grown(x, text) == [x EXCEPT !.text = x.text \cup text, !.settled = FALSE]
Turned(x, t) == [x EXCEPT !.settled = TRUE, !.attached = t]
Closed(x, cut) == [x EXCEPT !.settled = TRUE, !.interrupted = cut]

LEMMA ArtifactsOK ==
    /\ \A role \in Roles, text \in SUBSET Nat, of \in Nat : Fresh(role, text, of) \in Artifacts
    /\ Removed \in Artifacts
    /\ \A x \in Artifacts, t \in Nat : [x EXCEPT !.attached = t] \in Artifacts
    /\ \A x \in Artifacts, text \in SUBSET Nat : [x EXCEPT !.text = text] \in Artifacts
  BY DEF Artifacts, Fresh, Removed, Roles, None

LEMMA GrownOK ==
    ASSUME NEW x \in Artifacts, NEW text \in SUBSET Nat
    PROVE  LET r == Grown(x, text) IN
           /\ r \in Artifacts
           /\ r.text = x.text \cup text /\ r.settled = FALSE
           /\ r.role = x.role /\ r.there = x.there /\ r.interrupted = x.interrupted
           /\ r.attached = x.attached /\ r.of = x.of
<1>1. x.text \cup text \in SUBSET Nat BY DEF Artifacts
<1>2. Grown(x, text) \in Artifacts BY <1>1, Zenon DEF Grown, Artifacts
<1> QED BY <1>1, <1>2, Zenon DEF Grown, Artifacts

LEMMA TurnedOK ==
    ASSUME NEW x \in Artifacts, NEW t \in Nat
    PROVE  LET r == Turned(x, t) IN
           /\ r \in Artifacts
           /\ r.settled = TRUE /\ r.attached = t
           /\ r.role = x.role /\ r.there = x.there /\ r.interrupted = x.interrupted
           /\ r.text = x.text /\ r.of = x.of
  BY Zenon DEF Turned, Artifacts

LEMMA ClosedOK ==
    ASSUME NEW x \in Artifacts, NEW cut \in BOOLEAN
    PROVE  LET r == Closed(x, cut) IN
           /\ r \in Artifacts
           /\ r.settled = TRUE /\ r.interrupted = cut
           /\ r.role = x.role /\ r.there = x.there /\ r.attached = x.attached
           /\ r.text = x.text /\ r.of = x.of
  BY Zenon DEF Closed, Artifacts

\* One element of a sequence is replaced, one is appended.
OneChanged(q, r, i, x) ==
    Len(r) = Len(q) /\ \A j \in 1..Len(q) : r[j] = IF j = i THEN x ELSE q[j]
OneAdded(q, r, x) ==
    /\ Len(r) = Len(q) + 1 /\ r[Len(q) + 1] = x
    /\ \A j \in 1..Len(q) : r[j] = q[j]

LEMMA ChangeOne ==
    ASSUME NEW S, NEW q \in Seq(S), NEW i \in 1..Len(q), NEW x \in S
    PROVE  [q EXCEPT ![i] = x] \in Seq(S) /\ OneChanged(q, [q EXCEPT ![i] = x], i, x)
  BY DEF OneChanged

LEMMA AddOne ==
    ASSUME NEW S, NEW q \in Seq(S), NEW x \in S
    PROVE  Append(q, x) \in Seq(S) /\ OneAdded(q, Append(q, x), x)
  BY DEF OneAdded
-----------------------------------------------------------------------------
(* What each function makes of the parts of a state. *)

\* The parts of r.
Is(r, c, b, a, t) ==
    r \in Conversations /\ r.context = c /\ r.buffer = b /\ r.artifacts = a /\ r.turns = t

LEMMA WithContext ==
    ASSUME NEW s \in Conversations, NEW c \in Contexts
    PROVE  Is([s EXCEPT !.context = c], c, s.buffer, s.artifacts, s.turns)
  BY DEF Conversations, Is

LEMMA WithTurns ==
    ASSUME NEW s \in Conversations, NEW t \in Seq(Entries)
    PROVE  Is([s EXCEPT !.turns = t], s.context, s.buffer, s.artifacts, t)
  BY DEF Conversations, Is

LEMMA WithArtifacts ==
    ASSUME NEW s \in Conversations, NEW a \in Seq(Artifacts)
    PROVE  Is([s EXCEPT !.artifacts = a], s.context, s.buffer, a, s.turns)
  BY DEF Conversations, Is

Both(s, a, c) == [s EXCEPT !.artifacts = a, !.context = c]

LEMMA WithArtifactsAndContext ==
    ASSUME NEW s \in Conversations, NEW a \in Seq(Artifacts), NEW c \in Contexts
    PROVE  Is(Both(s, a, c), c, s.buffer, a, s.turns)
  BY Zenon DEF Conversations, Is, Both

LEMMA WithBuffer ==
    ASSUME NEW s \in Conversations, NEW b \in Buffers
    PROVE  Is([s EXCEPT !.buffer = b], s.context, b, s.artifacts, s.turns)
  BY DEF Conversations, Is

LEMMA WithBufferAndContext ==
    ASSUME NEW s \in Conversations, NEW b \in Buffers, NEW c \in Contexts
    PROVE  Is([s EXCEPT !.buffer = b, !.context = c], c, b, s.artifacts, s.turns)
  BY Zenon DEF Conversations, Is

LEMMA PartsOK ==
    ASSUME NEW s \in Conversations
    PROVE  /\ s.context \in Contexts /\ s.buffer \in Buffers
           /\ s.artifacts \in Seq(Artifacts) /\ s.turns \in Seq(Entries)
           /\ DOMAIN s.artifacts = 1..Len(s.artifacts) /\ DOMAIN s.turns = 1..Len(s.turns)
           /\ Len(s.artifacts) \in Nat /\ Len(s.turns) \in Nat
  BY DEF Conversations

LEMMA ElementOK ==
    ASSUME NEW s \in Conversations, NEW a \in 1..Len(s.artifacts)
    PROVE  s.artifacts[a] \in Artifacts
  BY PartsOK

LEMMA ContextOK ==
    ASSUME NEW c \in Contexts
    PROVE  /\ c.turn \in Nat /\ c.draft \in SUBSET Nat /\ c.user \in Nat /\ c.assistant \in Nat
           /\ c.lastUser \in Nat /\ c.lastAssistant \in Nat
           /\ c.queued \in BOOLEAN /\ c.reserved \in BOOLEAN
           /\ c.fence \in {"idle", "open", "completed", "interrupted"}
  BY DEF Contexts

LEMMA CurrentOK ==
    ASSUME NEW c \in Contexts, NEW role \in Roles, NEW a \in Nat
    PROVE  c[role] \in Nat /\ [c EXCEPT ![role] = a] \in Contexts
  BY DEF Contexts, Roles

LEMMA BeginFacts ==
    ASSUME NEW s \in Conversations
    PROVE  Is(Begin(s), IF Open(s) THEN s.context ELSE Begun(s.context), s.buffer, s.artifacts, s.turns)
<1>1. CASE Open(s) BY <1>1 DEF Begin, Is
<1>2. CASE ~Open(s)
  <2>1. Begun(s.context) \in Contexts BY PartsOK, BegunOK
  <2>2. Begin(s) = [s EXCEPT !.context = Begun(s.context)] BY <1>2 DEF Begin, Begun
  <2>3. Is([s EXCEPT !.context = Begun(s.context)], Begun(s.context), s.buffer, s.artifacts, s.turns)
    BY <2>1, WithContext
  <2> QED BY <1>2, <2>2, <2>3
<1> QED BY <1>1, <1>2

LEMMA UpsertFacts ==
    ASSUME NEW s \in Conversations, Pointers(s), NEW role \in Roles, NEW text \in SUBSET Nat
    PROVE  LET a == s.context[role]
               r == Upsert(s, role, text)
           IN /\ Shown(s, a) =>
                    /\ a \in 1..Len(s.artifacts)
                    /\ Is(r, s.context, s.buffer, [s.artifacts EXCEPT ![a] = Grown(s.artifacts[a], text)],
                          s.turns)
              /\ ~Shown(s, a) =>
                    Is(r, [s.context EXCEPT ![role] = Len(s.artifacts) + 1], s.buffer,
                       Append(s.artifacts, Fresh(role, text, s.context.turn)), s.turns)
<1> DEFINE a == s.context[role]
           r == Upsert(s, role, text)
<1>0. s.context \in Contexts /\ s.artifacts \in Seq(Artifacts) /\ Len(s.artifacts) \in Nat
  BY PartsOK
<1>1. ASSUME Shown(s, a)
      PROVE  /\ a \in 1..Len(s.artifacts)
             /\ Is(r, s.context, s.buffer, [s.artifacts EXCEPT ![a] = Grown(s.artifacts[a], text)], s.turns)
  <2> DEFINE A == [s.artifacts EXCEPT ![a] = Grown(s.artifacts[a], text)]
  <2>1. a \in 1..Len(s.artifacts) BY <1>0, <1>1, ContextOK DEF Pointers, Shown, None, Roles
  <2>2. Grown(s.artifacts[a], text) \in Artifacts
    <3>1. s.artifacts[a] \in Artifacts BY <2>1, ElementOK
    <3> HIDE DEF a
    <3> QED BY <3>1, GrownOK
  <2>3. r = [s EXCEPT !.artifacts = A] BY <1>1 DEF Upsert, Grown
  <2>4. A \in Seq(Artifacts) BY <1>0, <2>1, <2>2
  <2>5. Is([s EXCEPT !.artifacts = A], s.context, s.buffer, A, s.turns)
    <3> HIDE DEF A
    <3> QED BY <2>4, WithArtifacts
  <2> QED BY <1>1, <2>1, <2>3, <2>5
<1>2. ASSUME ~Shown(s, a)
      PROVE  Is(r, [s.context EXCEPT ![role] = Len(s.artifacts) + 1], s.buffer,
                Append(s.artifacts, Fresh(role, text, s.context.turn)), s.turns)
  <2> DEFINE new == Fresh(role, text, s.context.turn)
             A == Append(s.artifacts, new)
             c == [s.context EXCEPT ![role] = Len(s.artifacts) + 1]
  <2>1. new \in Artifacts BY <1>0, ContextOK, ArtifactsOK
  <2>2. A \in Seq(Artifacts)
    <3> HIDE DEF new
    <3> QED BY <1>0, <2>1
  <2>3. c \in Contexts BY <1>0, CurrentOK
  <2>4. r = Both(s, A, c)
    BY <1>2, Zenon DEF Upsert, Conversations, Fresh, Both
  <2>5. Is(Both(s, A, c), c, s.buffer, A, s.turns)
    <3> HIDE DEF A, c
    <3> QED BY <2>2, <2>3, WithArtifactsAndContext
  <2> QED BY <2>4, <2>5
<1> QED BY <1>1, <1>2

Entry(role, text, of) == [role |-> role, there |-> TRUE, text |-> text, of |-> of]

LEMMA NewTurnFacts ==
    ASSUME NEW s \in Conversations, NEW role \in Roles, NEW text \in SUBSET Nat
    PROVE  Is(NewTurn(s, role, text), s.context, s.buffer, s.artifacts,
              Append(s.turns, Entry(role, text, s.context.turn)))
<1>1. Entry(role, text, s.context.turn) \in Entries BY PartsOK DEF Entry, Entries, Contexts
<1>2. Append(s.turns, Entry(role, text, s.context.turn)) \in Seq(Entries) BY <1>1, PartsOK
<1> QED BY <1>2, WithTurns DEF NewTurn, Entry

\* An artifact of the user's that is shown holds speech that has become no turn.
LEMMA ShownIsSpeech ==
    ASSUME NEW s, CurrentUser(s), Shown(s, s.context.user)
    PROVE  HasSpeech(s)
  BY DEF CurrentUser, HasSpeech

LEMMA AppendUserTurnFacts ==
    ASSUME NEW s \in Conversations
    PROVE  /\ HasSpeech(s) =>
                Is(AppendUserTurn(s), [s.context EXCEPT !.reserved = FALSE], s.buffer, s.artifacts,
                   Append(s.turns, Entry("user", s.buffer.user, s.context.turn)))
           /\ ~HasSpeech(s) => AppendUserTurn(s) = s
<1> DEFINE said == Append(s.turns, Entry("user", s.buffer.user, s.context.turn))
           new == NewTurn(s, "user", s.buffer.user)
           c == [s.context EXCEPT !.reserved = FALSE]
<1>1. s.context \in Contexts /\ s.buffer.user \in SUBSET Nat BY PartsOK DEF Buffers
<1>2. Is(new, s.context, s.buffer, s.artifacts, said) BY <1>1, NewTurnFacts DEF Roles
<1>3. c \in Contexts BY <1>1, Zenon DEF Contexts
<1>4. HasSpeech(s) => AppendUserTurn(s) = [new EXCEPT !.context = [new.context EXCEPT !.reserved = FALSE]]
  BY DEF AppendUserTurn
<1> HIDE DEF new, said
<1>5. Is([new EXCEPT !.context = c], c, s.buffer, s.artifacts, said)
  <2> HIDE DEF c
  <2> QED BY <1>2, <1>3, WithContext DEF Is
<1> QED BY <1>2, <1>4, <1>5 DEF AppendUserTurn, Is, said

LEMMA SettleUserFacts ==
    ASSUME NEW s \in Conversations, Pointers(s), CurrentUser(s)
    PROVE  LET a == s.context.user
               r == SettleUser(s)
               said == Append(s.turns, Entry("user", s.buffer.user, s.context.turn))
           IN /\ Shown(s, a) =>
                    /\ a \in 1..Len(s.artifacts) /\ HasSpeech(s)
                    /\ Is(r, SettledFor(s.context, FALSE, a), s.buffer,
                          [s.artifacts EXCEPT ![a] = Turned(s.artifacts[a], Len(s.turns) + 1)], said)
              /\ ~Shown(s, a) /\ HasSpeech(s) =>
                    Is(r, [[s.context EXCEPT !.reserved = FALSE] EXCEPT !.user = None],
                       s.buffer, s.artifacts, said)
              /\ ~Shown(s, a) /\ ~HasSpeech(s) =>
                    Is(r, [s.context EXCEPT !.user = None], s.buffer, s.artifacts, s.turns)
<1> DEFINE a == s.context.user
           r == SettleUser(s)
           said == Append(s.turns, Entry("user", s.buffer.user, s.context.turn))
           new == AppendUserTurn(s)
           c == [s.context EXCEPT !.reserved = FALSE]
<1>1. s.context \in Contexts /\ a \in Nat BY PartsOK, ContextOK
<1>2. c \in Contexts BY <1>1, Zenon DEF Contexts
<1>3. HasSpeech(s) => Is(new, c, s.buffer, s.artifacts, said) BY AppendUserTurnFacts
<1>4. ASSUME Shown(s, a)
      PROVE  /\ a \in 1..Len(s.artifacts) /\ HasSpeech(s)
             /\ Is(r, SettledFor(s.context, FALSE, a), s.buffer,
                   [s.artifacts EXCEPT ![a] = Turned(s.artifacts[a], Len(s.turns) + 1)], said)
  <2> DEFINE A == [s.artifacts EXCEPT ![a] = Turned(s.artifacts[a], Len(s.turns) + 1)]
             c2 == [c EXCEPT !.lastUser = a]
             c3 == [c2 EXCEPT !.user = None]
             done == Both(new, [new.artifacts EXCEPT ![a] = Turned(new.artifacts[a], Len(new.turns))],
                          [new.context EXCEPT !.lastUser = a])
  <2>1. a \in 1..Len(s.artifacts) /\ HasSpeech(s)
    BY <1>1, <1>4, PartsOK, ShownIsSpeech DEF Pointers, Shown, None
  <2>2. Turned(s.artifacts[a], Len(s.turns) + 1) \in Artifacts
    <3>1. s.artifacts[a] \in Artifacts /\ Len(s.turns) + 1 \in Nat BY <2>1, ElementOK, PartsOK
    <3> HIDE DEF a
    <3> QED BY <3>1, TurnedOK
  <2>3. A \in Seq(Artifacts) BY <2>1, <2>2, PartsOK
  <2>4. c2 \in Contexts /\ c3 \in Contexts /\ c3 = SettledFor(s.context, FALSE, a)
    <3>1. None \in Nat BY DEF None
    <3> QED BY <1>1, <1>2, <3>1, Zenon DEF Contexts, SettledFor
  <2>5. Len(new.turns) = Len(s.turns) + 1 BY <1>3, <2>1, PartsOK DEF Is
  <2>6. r = [done EXCEPT !.context = [done.context EXCEPT !.user = None]]
    BY <1>4, <2>1 DEF SettleUser, Both, Turned
  <2> HIDE DEF new, c, said
  <2>7. done = Both(new, A, c2) BY <1>3, <2>1, <2>5 DEF Is
  <2> HIDE DEF A, c2, done
  <2>8. Is(done, c2, s.buffer, A, said)
    BY <1>3, <2>1, <2>3, <2>4, <2>7, WithArtifactsAndContext DEF Is
  <2>9. Is([done EXCEPT !.context = c3], c3, s.buffer, A, said) BY <2>4, <2>8, WithContext DEF Is
  <2>10. r = [done EXCEPT !.context = c3] BY <2>6, <2>8 DEF Is
  <2> HIDE DEF r, c3
  <2>11. Is(r, SettledFor(s.context, FALSE, a), s.buffer, A, said) BY <2>4, <2>9, <2>10
  <2> QED BY <2>1, <2>11 DEF A
<1>5. ASSUME ~Shown(s, a), HasSpeech(s)
      PROVE  Is(r, [c EXCEPT !.user = None], s.buffer, s.artifacts, said)
  <2> DEFINE c2 == [c EXCEPT !.user = None]
  <2>1. c2 \in Contexts BY <1>2, Zenon DEF Contexts, None
  <2>2. r = [new EXCEPT !.context = [new.context EXCEPT !.user = None]] BY <1>5 DEF SettleUser
  <2> HIDE DEF new, c, said
  <2>3. Is([new EXCEPT !.context = c2], c2, s.buffer, s.artifacts, said)
    BY <1>3, <1>5, <2>1, WithContext DEF Is
  <2> QED BY <1>3, <1>5, <2>2, <2>3 DEF Is
<1>6. ASSUME ~Shown(s, a), ~HasSpeech(s)
      PROVE  Is(r, [s.context EXCEPT !.user = None], s.buffer, s.artifacts, s.turns)
  <2> DEFINE c2 == [s.context EXCEPT !.user = None]
  <2>1. c2 \in Contexts BY <1>1, Zenon DEF Contexts, None
  <2>2. Is([s EXCEPT !.context = c2], c2, s.buffer, s.artifacts, s.turns) BY <2>1, WithContext
  <2>3. r = [s EXCEPT !.context = c2] BY <1>6, AppendUserTurnFacts DEF SettleUser
  <2> QED BY <2>2, <2>3
<1> QED BY <1>4, <1>5, <1>6

LEMMA SettleAssistantFacts ==
    ASSUME NEW s \in Conversations, Pointers(s), NEW cut \in BOOLEAN
    PROVE  LET a == s.context.assistant
               r == SettleAssistant(s, cut)
           IN /\ Shown(s, a) => a \in 1..Len(s.artifacts)
              /\ ~Shown(s, a) =>
                    Is(r, [s.context EXCEPT !.assistant = None], s.buffer, s.artifacts, s.turns)
              /\ Shown(s, a) /\ s.artifacts[a].text = {} =>
                    Is(r, [s.context EXCEPT !.assistant = None], s.buffer,
                       [s.artifacts EXCEPT ![a] = Removed], s.turns)
              /\ Shown(s, a) /\ s.artifacts[a].text # {} =>
                    Is(r, Answered(s.context, a), s.buffer,
                       [s.artifacts EXCEPT ![a] = Closed(s.artifacts[a], cut)], s.turns)
<1> DEFINE a == s.context.assistant
           r == SettleAssistant(s, cut)
           c == [s.context EXCEPT !.assistant = None]
<1>1. s.context \in Contexts /\ a \in Nat /\ s.artifacts \in Seq(Artifacts) BY PartsOK, ContextOK
<1>2. c \in Contexts BY <1>1, Zenon DEF Contexts, None
<1>3. Shown(s, a) => a \in 1..Len(s.artifacts) BY <1>1, PartsOK DEF Pointers, Shown, None
<1>4. ASSUME ~Shown(s, a) PROVE Is(r, c, s.buffer, s.artifacts, s.turns)
  <2>1. r = [s EXCEPT !.context = c] BY <1>4 DEF SettleAssistant
  <2> HIDE DEF c
  <2> QED BY <1>2, <2>1, WithContext
<1>5. ASSUME Shown(s, a), s.artifacts[a].text = {}
      PROVE  Is(r, c, s.buffer, [s.artifacts EXCEPT ![a] = Removed], s.turns)
  <2> DEFINE A == [s.artifacts EXCEPT ![a] = Removed]
             done == [s EXCEPT !.artifacts = A]
  <2>1. A \in Seq(Artifacts) BY <1>1, <1>3, <1>5, ArtifactsOK
  <2>2. r = [done EXCEPT !.context = [done.context EXCEPT !.assistant = None]]
    BY <1>5 DEF SettleAssistant
  <2> HIDE DEF A
  <2>3. Is(done, s.context, s.buffer, A, s.turns) BY <2>1, WithArtifacts
  <2> HIDE DEF done, c
  <2>4. Is([done EXCEPT !.context = c], c, s.buffer, A, s.turns) BY <1>2, <2>3, WithContext DEF Is
  <2> QED BY <2>2, <2>3, <2>4 DEF A, c, Is
<1>6. ASSUME Shown(s, a), s.artifacts[a].text # {}
      PROVE  Is(r, Answered(s.context, a), s.buffer,
                [s.artifacts EXCEPT ![a] = Closed(s.artifacts[a], cut)], s.turns)
  <2> DEFINE A == [s.artifacts EXCEPT ![a] = Closed(s.artifacts[a], cut)]
             c2 == [s.context EXCEPT !.lastAssistant = a]
             c3 == [c2 EXCEPT !.assistant = None]
             done == Both(s, A, c2)
  <2>1. Closed(s.artifacts[a], cut) \in Artifacts
    <3>1. s.artifacts[a] \in Artifacts BY <1>3, <1>6, ElementOK
    <3> HIDE DEF a
    <3> QED BY <3>1, ClosedOK
  <2>2. A \in Seq(Artifacts) BY <1>1, <1>3, <1>6, <2>1
  <2>3. c2 \in Contexts /\ c3 \in Contexts /\ c3 = Answered(s.context, a)
    <3>1. None \in Nat BY DEF None
    <3> QED BY <1>1, <3>1, Zenon DEF Contexts, Answered
  <2>4. r = [done EXCEPT !.context = [done.context EXCEPT !.assistant = None]]
    BY <1>6 DEF SettleAssistant, Both, Closed
  <2> HIDE DEF A, c2, done
  <2>5. Is(done, c2, s.buffer, A, s.turns) BY <2>2, <2>3, WithArtifactsAndContext DEF done
  <2>6. Is([done EXCEPT !.context = c3], c3, s.buffer, A, s.turns) BY <2>3, <2>5, WithContext DEF Is
  <2>7. r = [done EXCEPT !.context = c3] BY <2>4, <2>5 DEF Is
  <2> HIDE DEF r, c3
  <2> QED BY <2>3, <2>6, <2>7 DEF A
<1> QED BY <1>3, <1>4, <1>5, <1>6

LEMMA AttachFacts ==
    ASSUME NEW s \in Conversations, s.context.lastAssistant \in 1..Len(s.artifacts)
    PROVE  LET l == s.context.lastAssistant
           IN Is(Attach(s), [s.context EXCEPT !.lastAssistant = None], s.buffer,
                 [s.artifacts EXCEPT ![l] = [s.artifacts[l] EXCEPT !.attached = Len(s.turns)]], s.turns)
<1> DEFINE l == s.context.lastAssistant
           x == [s.artifacts[l] EXCEPT !.attached = Len(s.turns)]
           A == [s.artifacts EXCEPT ![l] = x]
           c == [s.context EXCEPT !.lastAssistant = None]
<1>1. s.context \in Contexts /\ s.artifacts \in Seq(Artifacts) /\ s.artifacts[l] \in Artifacts
      /\ Len(s.turns) \in Nat
  BY PartsOK, ElementOK
<1>2. c \in Contexts BY <1>1, Zenon DEF Contexts, None
<1>3. x \in Artifacts BY <1>1, ArtifactsOK
<1>4. A \in Seq(Artifacts)
  <2> HIDE DEF x
  <2> QED BY <1>1, <1>3
<1>5. Attach(s) = Both(s, A, c) BY DEF Attach, Both
<1> HIDE DEF A, c
<1>6. Is(Both(s, A, c), c, s.buffer, A, s.turns) BY <1>2, <1>4, WithArtifactsAndContext
<1> QED BY <1>5, <1>6 DEF A, c

LEMMA DisownFacts ==
    ASSUME NEW s \in Conversations
    PROVE  Is(Disown(s), Disowned(s.context), Silence, s.artifacts, s.turns)
<1>1. s.context \in Contexts /\ Silence \in Buffers BY PartsOK DEF Silence, Buffers
<1>2. Disowned(s.context) \in Contexts BY <1>1, DisownedOK
<1>3. Disown(s) = [s EXCEPT !.buffer = Silence, !.context = Disowned(s.context)] BY DEF Disown, Disowned
<1>4. Is([s EXCEPT !.buffer = Silence, !.context = Disowned(s.context)], Disowned(s.context), Silence,
         s.artifacts, s.turns)
  BY <1>1, <1>2, WithBufferAndContext, Zenon
<1> QED BY <1>3, <1>4

LEMMA ForgetFenceFacts ==
    ASSUME NEW s \in Conversations
    PROVE  LET none == [s.context EXCEPT !.draft = {}]
           IN /\ Open(s) => Is(ForgetFence(s), none, s.buffer, s.artifacts, s.turns)
              /\ ~Open(s) => Is(ForgetFence(s), Forgotten(s.context), Silence, s.artifacts, s.turns)
<1> DEFINE c == [s.context EXCEPT !.draft = {}]
           none == [s EXCEPT !.context = c]
           c2 == Forgotten(s.context)
<1>1. s.context \in Contexts /\ Silence \in Buffers BY PartsOK DEF Silence, Buffers
<1>2. c \in Contexts BY <1>1, Zenon DEF Contexts
<1>3. c2 \in Contexts BY <1>1, ForgottenOK
<1>4. Is(none, c, s.buffer, s.artifacts, s.turns)
  <2> HIDE DEF c
  <2> QED BY <1>2, WithContext
<1>5. Open(s) => ForgetFence(s) = none BY DEF ForgetFence
<1>6. ~Open(s) => ForgetFence(s) =
         [none EXCEPT !.context = [none.context EXCEPT !.fence = "idle", !.lastAssistant = None],
                      !.buffer = Silence]
  BY DEF ForgetFence
<1> HIDE DEF none
<1>7. [none.context EXCEPT !.fence = "idle", !.lastAssistant = None] = c2 BY <1>4 DEF Is, Forgotten
<1> HIDE DEF c, c2
<1>8. Is([none EXCEPT !.context = c2, !.buffer = Silence], c2, Silence, s.artifacts, s.turns)
  BY <1>1, <1>3, <1>4, Zenon DEF Is, Conversations
<1> QED BY <1>4, <1>5, <1>6, <1>7, <1>8 DEF c, c2

\* What clearing the store leaves of artifacts and of turns.
Left(q, keeps) == [a \in DOMAIN q |-> IF keeps /\ q[a].settled THEN q[a] ELSE Removed]
Dropped(q, keeps) == [t \in DOMAIN q |-> [q[t] EXCEPT !.there = q[t].there /\ keeps]]

LEMMA ClearStoreFacts ==
    ASSUME NEW s \in Conversations, NEW keeps \in BOOLEAN
    PROVE  /\ Is(ClearStore(s, keeps), s.context, Silence, Left(s.artifacts, keeps), Dropped(s.turns, keeps))
           /\ Len(Left(s.artifacts, keeps)) = Len(s.artifacts)
           /\ Len(Dropped(s.turns, keeps)) = Len(s.turns)
           /\ \A a \in 1..Len(s.artifacts) : Left(s.artifacts, keeps)[a] =
                 IF keeps /\ s.artifacts[a].settled THEN s.artifacts[a] ELSE Removed
           /\ \A t \in 1..Len(s.turns) :
                 /\ Dropped(s.turns, keeps)[t].text = s.turns[t].text
                 /\ Dropped(s.turns, keeps)[t].role = s.turns[t].role
                 /\ Dropped(s.turns, keeps)[t].of = s.turns[t].of
<1> DEFINE A == Left(s.artifacts, keeps)
           T == Dropped(s.turns, keeps)
<1>1. /\ s.artifacts \in Seq(Artifacts) /\ s.turns \in Seq(Entries) /\ Silence \in Buffers
      /\ DOMAIN s.artifacts = 1..Len(s.artifacts) /\ DOMAIN s.turns = 1..Len(s.turns)
      /\ Len(s.artifacts) \in Nat /\ Len(s.turns) \in Nat
  BY PartsOK DEF Silence, Buffers
<1>2. \A a \in 1..Len(s.artifacts) :
         (IF keeps /\ s.artifacts[a].settled THEN s.artifacts[a] ELSE Removed) \in Artifacts
  BY <1>1, ArtifactsOK
<1>3. A \in Seq(Artifacts) /\ Len(A) = Len(s.artifacts) /\ \A a \in 1..Len(s.artifacts) :
         A[a] = IF keeps /\ s.artifacts[a].settled THEN s.artifacts[a] ELSE Removed
  BY <1>1, <1>2 DEF Left
<1>4. ASSUME NEW t \in 1..Len(s.turns)
      PROVE  LET e == [s.turns[t] EXCEPT !.there = s.turns[t].there /\ keeps]
             IN e \in Entries /\ e.text = s.turns[t].text /\ e.role = s.turns[t].role /\ e.of = s.turns[t].of
  <2>1. s.turns[t] \in Entries /\ (s.turns[t].there /\ keeps) \in BOOLEAN BY <1>1
  <2> QED BY <2>1, Zenon DEF Entries
<1>5. T = [t \in 1..Len(s.turns) |-> [s.turns[t] EXCEPT !.there = s.turns[t].there /\ keeps]]
  BY <1>1 DEF Dropped
<1>6. T \in Seq(Entries) /\ Len(T) = Len(s.turns) BY <1>1, <1>4, <1>5
<1>7. \A t \in 1..Len(s.turns) :
         T[t].text = s.turns[t].text /\ T[t].role = s.turns[t].role /\ T[t].of = s.turns[t].of
  BY <1>4, <1>5
<1>8. ClearStore(s, keeps) = [s EXCEPT !.buffer = Silence, !.artifacts = A, !.turns = T]
  BY DEF ClearStore, Left, Dropped
<1> HIDE DEF A, T
<1>9. Is([s EXCEPT !.buffer = Silence, !.artifacts = A, !.turns = T], s.context, Silence, A, T)
  BY <1>1, <1>3, <1>6, Zenon DEF Is, Conversations
<1> QED BY <1>3, <1>6, <1>7, <1>8, <1>9 DEF A, T

LEMMA CorrectSettledFacts ==
    ASSUME NEW s \in Conversations, Pointers(s),
           Shown(s, s.context.lastUser) => s.artifacts[s.context.lastUser].attached \in 1..Len(s.turns)
    PROVE  LET a == s.context.lastUser
               t == s.artifacts[a].attached
               r == CorrectSettled(s)
           IN /\ ~Shown(s, a) =>
                    Is(r, [s.context EXCEPT !.lastUser = None], s.buffer, s.artifacts, s.turns)
              /\ Shown(s, a) =>
                    /\ a \in 1..Len(s.artifacts)
                    /\ Is(r, s.context, s.buffer,
                          [s.artifacts EXCEPT ![a] = [s.artifacts[a] EXCEPT !.text = s.buffer.user]],
                          [s.turns EXCEPT ![t] = [s.turns[t] EXCEPT !.text = s.buffer.user]])
<1> DEFINE a == s.context.lastUser
           t == s.artifacts[a].attached
           r == CorrectSettled(s)
<1>1. /\ s.context \in Contexts /\ s.artifacts \in Seq(Artifacts) /\ s.turns \in Seq(Entries)
      /\ a \in Nat /\ s.buffer.user \in SUBSET Nat
  BY PartsOK, ContextOK DEF Buffers
<1>2. ASSUME ~Shown(s, a)
      PROVE  Is(r, [s.context EXCEPT !.lastUser = None], s.buffer, s.artifacts, s.turns)
  <2> DEFINE c == [s.context EXCEPT !.lastUser = None]
  <2>1. c \in Contexts BY <1>1, Zenon DEF Contexts, None
  <2>2. r = [s EXCEPT !.context = c] BY <1>2 DEF CorrectSettled
  <2> HIDE DEF c
  <2> QED BY <2>1, <2>2, WithContext DEF c
<1>3. ASSUME Shown(s, a)
      PROVE  /\ a \in 1..Len(s.artifacts)
             /\ Is(r, s.context, s.buffer,
                   [s.artifacts EXCEPT ![a] = [s.artifacts[a] EXCEPT !.text = s.buffer.user]],
                   [s.turns EXCEPT ![t] = [s.turns[t] EXCEPT !.text = s.buffer.user]])
  <2> DEFINE x == [s.artifacts[a] EXCEPT !.text = s.buffer.user]
             e == [s.turns[t] EXCEPT !.text = s.buffer.user]
             A == [s.artifacts EXCEPT ![a] = x]
             T == [s.turns EXCEPT ![t] = e]
  <2>1. a \in 1..Len(s.artifacts) /\ t \in 1..Len(s.turns)
    BY <1>1, <1>3, PartsOK DEF Pointers, Shown, None
  <2>2. s.artifacts[a] \in Artifacts /\ s.turns[t] \in Entries
    <3> HIDE DEF a, t
    <3> QED BY <1>1, <2>1
  <2>3. x \in Artifacts /\ e \in Entries BY <1>1, <2>2, Zenon DEF Artifacts, Entries
  <2>4. A \in Seq(Artifacts) /\ T \in Seq(Entries)
    <3> HIDE DEF x, e
    <3> QED BY <1>1, <2>1, <2>3
  <2>5. t # None BY <2>1 DEF None
  <2>6. r = [s EXCEPT !.artifacts = A, !.turns = T] BY <1>3, <2>5 DEF CorrectSettled
  <2> HIDE DEF A, T
  <2>7. Is([s EXCEPT !.artifacts = A, !.turns = T], s.context, s.buffer, A, T)
    BY <2>4, Zenon DEF Is, Conversations
  <2> HIDE DEF r
  <2>8. Is(r, s.context, s.buffer, A, T) BY <2>6, <2>7
  <2> QED BY <2>1, <2>8, Zenon DEF A, T
<1> HIDE DEF a, r
<1> QED BY <1>2, <1>3, Zenon DEF a, r

LEMMA PrepareFacts ==
    ASSUME NEW s \in Conversations
    PROVE  LET c == IF Open(s) THEN s.context ELSE Begun(s.context)
               u == IF Streaming(s, c.user) THEN c.user ELSE None
           IN IF ~s.context.queued \/ Streaming(s, s.context.assistant)
              THEN Prepare(s) = s
              ELSE Is(Prepare(s), Prepared(c, u), [s.buffer EXCEPT !.assistant = {}], s.artifacts, s.turns)
<1> DEFINE c == IF Open(s) THEN s.context ELSE Begun(s.context)
           u == IF Streaming(s, c.user) THEN c.user ELSE None
           b == [s.buffer EXCEPT !.assistant = {}]
           r == Prepare(s)
           c3 == [c EXCEPT !.queued = FALSE, !.assistant = None, !.lastAssistant = None]
           begun == Begin(s)
           new == [begun EXCEPT !.context = [begun.context EXCEPT !.queued = FALSE, !.assistant = None,
                                                                  !.lastAssistant = None],
                                !.buffer = [begun.buffer EXCEPT !.assistant = {}]]
<1>1. s.context \in Contexts /\ s.buffer \in Buffers BY PartsOK
<1>2. c \in Contexts /\ c.user \in Nat BY <1>1, BegunOK, ContextOK
<1>3. Is(begun, c, s.buffer, s.artifacts, s.turns) BY BeginFacts
<1>4. b \in Buffers BY <1>1, Zenon DEF Buffers
<1>5. c3 \in Contexts /\ c3.user = c.user
  <2>1. None \in Nat BY DEF None
  <2> HIDE DEF c
  <2> QED BY <1>2, <2>1, Zenon DEF Contexts
<1>6. CASE ~s.context.queued \/ Streaming(s, s.context.assistant) BY <1>6 DEF Prepare
<1>7. CASE ~(~s.context.queued \/ Streaming(s, s.context.assistant))
  <2>1. r = IF Streaming(s, new.context.user) THEN new
            ELSE [new EXCEPT !.context = [new.context EXCEPT !.user = None]]
    BY <1>7 DEF Prepare
  <2> HIDE DEF begun, c, b
  <2>2. new = [begun EXCEPT !.context = c3, !.buffer = b] BY <1>3 DEF Is, b
  <2> HIDE DEF new, c3
  <2>3. Is(new, c3, b, s.artifacts, s.turns)
    <3>1. begun \in Conversations BY <1>3 DEF Is
    <3> QED BY <1>3, <1>4, <1>5, <2>2, <3>1, Zenon DEF Is, Conversations
  <2>4. CASE Streaming(s, c.user)
    <3>1. r = new BY <1>5, <2>1, <2>3, <2>4 DEF Is
    <3>2. c3 = [c3 EXCEPT !.user = c.user] BY <1>5 DEF Contexts
    <3>3. c3 = Prepared(c, u) BY <2>4, <3>2 DEF Prepared, c3
    <3> HIDE DEF r, u
    <3> QED BY <1>7, <2>3, <3>1, <3>3 DEF u, r, c, b
  <2>5. CASE ~Streaming(s, c.user)
    <3> DEFINE c4 == [c3 EXCEPT !.user = None]
    <3>1. c4 \in Contexts BY <1>5, Zenon DEF Contexts, None
    <3>2. c4 = Prepared(c, u) BY <2>5 DEF Prepared, c3
    <3>3. r = [new EXCEPT !.context = c4] BY <1>5, <2>1, <2>3, <2>5 DEF Is
    <3> HIDE DEF c4
    <3>4. Is([new EXCEPT !.context = c4], c4, b, s.artifacts, s.turns) BY <2>3, <3>1, WithContext DEF Is
    <3> HIDE DEF r, u
    <3> QED BY <1>7, <3>2, <3>3, <3>4 DEF u, r, c, b
  <2> QED BY <2>4, <2>5
<1> QED BY <1>6, <1>7
-----------------------------------------------------------------------------
(* Artifacts and turns *)

\* An artifact becomes a turn.
LEMMA BecomesTurn ==
    ASSUME NEW A \in Seq(Artifacts), NEW B \in Seq(Artifacts), NEW T \in Seq(Entries), NEW U \in Seq(Entries),
           NEW a \in 1..Len(A), NEW x \in Artifacts, NEW e \in Entries, NEW last, NEW after,
           OneChanged(A, B, a, x), OneAdded(T, U, e), AttachedOnce(A, T), SettledAttached(A, T, last),
           x.attached = Len(T) + 1, x.text = e.text, x.role = e.role,
           after = last \/ last = None \/ last = a
    PROVE  AttachedOnce(B, U) /\ SettledAttached(B, U, after)
<1>1. Len(A) \in Nat /\ Len(T) \in Nat /\ Len(B) = Len(A) /\ Len(U) = Len(T) + 1 BY DEF OneChanged, OneAdded
<1>2. B[a] = x /\ U[Len(T) + 1] = e BY DEF OneChanged, OneAdded
<1>3. \A b \in 1..Len(B) : b # a => B[b] = A[b] BY <1>1 DEF OneChanged
<1>4. \A b \in 1..Len(B) : b # a /\ B[b].attached # None =>
         /\ B[b].attached \in 1..Len(T) /\ U[B[b].attached] = T[B[b].attached]
  BY <1>1, <1>3 DEF AttachedOnce, OneAdded
<1>5. AttachedOnce(B, U)
  <2> SUFFICES ASSUME NEW b \in 1..Len(B), B[b].attached # None
               PROVE  /\ B[b].attached \in 1..Len(U)
                      /\ U[B[b].attached].role = B[b].role
                      /\ \A d \in 1..Len(B) : B[d].attached = B[b].attached => d = b
    BY DEF AttachedOnce
  <2>1. CASE b = a
    <3>1. B[b].attached = Len(T) + 1 BY <1>2, <2>1
    <3>2. \A d \in 1..Len(B) : B[d].attached = Len(T) + 1 => d = b BY <1>1, <1>4, <2>1 DEF None
    <3> QED BY <1>1, <1>2, <2>1, <3>1, <3>2
  <2>2. CASE b # a
    <3>1. B[b] = A[b] /\ B[b].attached \in 1..Len(T) /\ U[B[b].attached] = T[B[b].attached]
      BY <1>3, <1>4, <2>2
    <3>2. \A d \in 1..Len(B) : B[d].attached = B[b].attached => d # a BY <1>1, <1>2, <3>1
    <3>3. \A d \in 1..Len(B) : B[d].attached = B[b].attached => d = b
      BY <1>1, <1>3, <3>1, <3>2 DEF AttachedOnce
    <3> QED BY <1>1, <3>1, <3>3 DEF AttachedOnce
  <2> QED BY <2>1, <2>2
<1>6. SettledAttached(B, U, after)
  <2> SUFFICES ASSUME NEW b \in 1..Len(B), B[b].there, B[b].settled
               PROVE  IF B[b].attached # None THEN U[B[b].attached].text = B[b].text
                      ELSE B[b].role = "assistant" /\ (B[b].interrupted \/ after = b)
    BY DEF SettledAttached
  <2>1. CASE b = a BY <1>1, <1>2, <2>1 DEF None
  <2>2. CASE b # a
    <3>1. B[b] = A[b] /\ (B[b].attached # None => U[B[b].attached] = T[B[b].attached])
      BY <1>3, <1>4, <2>2
    <3>2. b # None BY DEF None
    <3> QED BY <1>1, <2>2, <3>1, <3>2 DEF SettledAttached
  <2> QED BY <2>1, <2>2
<1> QED BY <1>5, <1>6

\* A turn that no artifact is attached to.
LEMMA TurnAdded ==
    ASSUME NEW A \in Seq(Artifacts), NEW T \in Seq(Entries), NEW U \in Seq(Entries), NEW e, NEW last,
           OneAdded(T, U, e), AttachedOnce(A, T), SettledAttached(A, T, last)
    PROVE  AttachedOnce(A, U) /\ SettledAttached(A, U, last)
<1>1. Len(T) \in Nat /\ Len(U) = Len(T) + 1 BY DEF OneAdded
<1>2. \A b \in 1..Len(A) : A[b].attached # None =>
         /\ A[b].attached \in 1..Len(T) /\ U[A[b].attached] = T[A[b].attached]
  BY DEF AttachedOnce, OneAdded
<1>3. AttachedOnce(A, U) BY <1>1, <1>2 DEF AttachedOnce
<1>4. SettledAttached(A, U, last) BY <1>2 DEF SettledAttached
<1> QED BY <1>3, <1>4

LEMMA ApartTurnAdded ==
    ASSUME NEW T \in Seq(Entries), NEW U, NEW e, OneAdded(T, U, e), TurnsApart(T),
           e.role = "assistant" => e.text \subseteq {e.of}
    PROVE  TurnsApart(U)
<1>1. Len(T) \in Nat OBVIOUS
<1> SUFFICES ASSUME NEW t \in 1..Len(U), U[t].role = "assistant" PROVE U[t].text \subseteq {U[t].of}
  BY DEF TurnsApart
<1>2. CASE t = Len(T) + 1 BY <1>2 DEF OneAdded
<1>3. CASE t # Len(T) + 1 BY <1>1, <1>3 DEF OneAdded, TurnsApart
<1> QED BY <1>2, <1>3

\* One artifact is another, attached as before or not at all.
LEMMA ArtifactChanged ==
    ASSUME NEW A \in Seq(Artifacts), NEW B \in Seq(Artifacts), NEW T \in Seq(Entries),
           NEW a \in 1..Len(A), NEW x \in Artifacts, NEW last, NEW after,
           OneChanged(A, B, a, x), AttachedOnce(A, T), SettledAttached(A, T, last),
           x.attached # None => x.attached = A[a].attached /\ x.role = A[a].role,
           x.there /\ x.settled => IF x.attached # None THEN T[x.attached].text = x.text
                                   ELSE x.role = "assistant" /\ (x.interrupted \/ after = a),
           after = last \/ last = None \/ last = a
    PROVE  AttachedOnce(B, T) /\ SettledAttached(B, T, after)
<1>1. Len(A) \in Nat /\ Len(B) = Len(A) /\ B[a] = x BY DEF OneChanged
<1>2. \A b \in 1..Len(B) : b # a => B[b] = A[b] BY <1>1 DEF OneChanged
<1>3. AttachedOnce(B, T)
  <2> SUFFICES ASSUME NEW b \in 1..Len(B), B[b].attached # None
               PROVE  /\ B[b].attached \in 1..Len(T)
                      /\ T[B[b].attached].role = B[b].role
                      /\ \A d \in 1..Len(B) : B[d].attached = B[b].attached => d = b
    BY DEF AttachedOnce
  <2>1. B[b].attached = A[b].attached /\ B[b].role = A[b].role BY <1>1, <1>2
  <2>2. \A d \in 1..Len(B) : B[d].attached = B[b].attached => A[d].attached = A[b].attached
    BY <1>1, <1>2, <2>1
  <2> QED BY <1>1, <2>1, <2>2 DEF AttachedOnce
<1>4. SettledAttached(B, T, after)
  <2> SUFFICES ASSUME NEW b \in 1..Len(B), B[b].there, B[b].settled
               PROVE  IF B[b].attached # None THEN T[B[b].attached].text = B[b].text
                      ELSE B[b].role = "assistant" /\ (B[b].interrupted \/ after = b)
    BY DEF SettledAttached
  <2>1. CASE b = a BY <1>1, <2>1
  <2>2. CASE b # a
    <3>1. B[b] = A[b] /\ b # None BY <1>2, <2>2 DEF None
    <3> QED BY <1>1, <2>2, <3>1 DEF SettledAttached
  <2> QED BY <2>1, <2>2
<1> QED BY <1>3, <1>4

LEMMA StreamsChanged ==
    ASSUME NEW A \in Seq(Artifacts), NEW B, NEW a \in 1..Len(A), NEW x, NEW u, NEW v, NEW p, NEW q,
           OneChanged(A, B, a, x), StreamsCurrent(A, u, v),
           p = u \/ u = a, q = v \/ v = a,
           x.there /\ ~x.settled => IF x.role = "user" THEN p = a ELSE q = a
    PROVE  StreamsCurrent(B, p, q)
<1> SUFFICES ASSUME NEW b \in 1..Len(B), B[b].there, ~B[b].settled
             PROVE  IF B[b].role = "user" THEN p = b ELSE q = b
  BY DEF StreamsCurrent
<1>1. CASE b = a BY <1>1 DEF OneChanged
<1>2. CASE b # a BY <1>2 DEF OneChanged, StreamsCurrent
<1> QED BY <1>1, <1>2

LEMMA RepliesChanged ==
    ASSUME NEW A \in Seq(Artifacts), NEW B, NEW a \in 1..Len(A), NEW x,
           OneChanged(A, B, a, x), RepliesOfTurn(A),
           x.there /\ x.role = "assistant" => x.text \subseteq {x.of}
    PROVE  RepliesOfTurn(B)
<1> SUFFICES ASSUME NEW b \in 1..Len(B), B[b].there, B[b].role = "assistant"
             PROVE  B[b].text \subseteq {B[b].of}
  BY DEF RepliesOfTurn
<1>1. CASE b = a BY <1>1 DEF OneChanged
<1>2. CASE b # a BY <1>2 DEF OneChanged, RepliesOfTurn
<1> QED BY <1>1, <1>2

\* A new artifact streams, and becomes the current one of its role.
LEMMA ArtifactAdded ==
    ASSUME NEW A \in Seq(Artifacts), NEW B \in Seq(Artifacts), NEW T \in Seq(Entries),
           NEW x \in Artifacts, NEW last,
           OneAdded(A, B, x), AttachedOnce(A, T), SettledAttached(A, T, last),
           x.attached = None, ~x.settled
    PROVE  AttachedOnce(B, T) /\ SettledAttached(B, T, last)
<1>1. Len(A) \in Nat /\ Len(B) = Len(A) + 1 /\ B[Len(A) + 1] = x BY DEF OneAdded
<1>2. \A b \in 1..Len(B) : b # Len(A) + 1 => b \in 1..Len(A) /\ B[b] = A[b] BY <1>1 DEF OneAdded
<1>3. AttachedOnce(B, T)
  <2> SUFFICES ASSUME NEW b \in 1..Len(B), B[b].attached # None
               PROVE  /\ B[b].attached \in 1..Len(T)
                      /\ T[B[b].attached].role = B[b].role
                      /\ \A d \in 1..Len(B) : B[d].attached = B[b].attached => d = b
    BY DEF AttachedOnce
  <2>1. b \in 1..Len(A) /\ B[b] = A[b] BY <1>1, <1>2
  <2>2. \A d \in 1..Len(B) : B[d].attached = B[b].attached => d \in 1..Len(A) /\ B[d] = A[d]
    BY <1>1, <1>2
  <2> QED BY <2>1, <2>2 DEF AttachedOnce
<1>4. SettledAttached(B, T, last)
  <2> SUFFICES ASSUME NEW b \in 1..Len(B), B[b].there, B[b].settled
               PROVE  IF B[b].attached # None THEN T[B[b].attached].text = B[b].text
                      ELSE B[b].role = "assistant" /\ (B[b].interrupted \/ last = b)
    BY DEF SettledAttached
  <2>1. b \in 1..Len(A) /\ B[b] = A[b] BY <1>1, <1>2
  <2> QED BY <2>1 DEF SettledAttached
<1> QED BY <1>3, <1>4

LEMMA StreamsAdded ==
    ASSUME NEW A \in Seq(Artifacts), NEW B, NEW x \in Artifacts, NEW u, NEW v, NEW p, NEW q,
           OneAdded(A, B, x), StreamsCurrent(A, u, v),
           p = u \/ (\A b \in 1..Len(A) : b = u => ~A[b].there),
           q = v \/ (\A b \in 1..Len(A) : b = v => ~A[b].there),
           x.there => IF x.role = "user" THEN p = Len(A) + 1 ELSE q = Len(A) + 1
    PROVE  StreamsCurrent(B, p, q)
<1>1. Len(A) \in Nat OBVIOUS
<1> SUFFICES ASSUME NEW b \in 1..Len(B), B[b].there, ~B[b].settled
             PROVE  IF B[b].role = "user" THEN p = b ELSE q = b
  BY DEF StreamsCurrent
<1>2. CASE b = Len(A) + 1 BY <1>2 DEF OneAdded
<1>3. CASE b # Len(A) + 1 BY <1>1, <1>3 DEF OneAdded, StreamsCurrent
<1> QED BY <1>2, <1>3

LEMMA RepliesAdded ==
    ASSUME NEW A \in Seq(Artifacts), NEW B, NEW x,
           OneAdded(A, B, x), RepliesOfTurn(A),
           x.there /\ x.role = "assistant" => x.text \subseteq {x.of}
    PROVE  RepliesOfTurn(B)
<1>1. Len(A) \in Nat OBVIOUS
<1> SUFFICES ASSUME NEW b \in 1..Len(B), B[b].there, B[b].role = "assistant"
             PROVE  B[b].text \subseteq {B[b].of}
  BY DEF RepliesOfTurn
<1>2. CASE b = Len(A) + 1 BY <1>2 DEF OneAdded
<1>3. CASE b # Len(A) + 1 BY <1>1, <1>3 DEF OneAdded, RepliesOfTurn
<1> QED BY <1>2, <1>3
-----------------------------------------------------------------------------
(* What each piece of a handler preserves. *)

LEMMA SoundParts ==
    ASSUME NEW s, Sound(s)
    PROVE  /\ s \in Conversations /\ Pointers(s) /\ s.context \in Contexts /\ s.buffer \in Buffers
           /\ s.artifacts \in Seq(Artifacts) /\ s.turns \in Seq(Entries)
           /\ Len(s.artifacts) \in Nat /\ Len(s.turns) \in Nat
           /\ s.context.user \in 0..Len(s.artifacts) /\ s.context.assistant \in 0..Len(s.artifacts)
           /\ s.context.lastUser \in 0..Len(s.artifacts) /\ s.context.lastAssistant \in 0..Len(s.artifacts)
           /\ CurrentUser(s) /\ CurrentAssistant(s) /\ LastAssistant(s)
           /\ StreamsCurrent(s.artifacts, s.context.user, s.context.assistant)
           /\ SettledAttached(s.artifacts, s.turns, s.context.lastAssistant)
           /\ AttachedOnce(s.artifacts, s.turns)
           /\ s.buffer.assistant \subseteq {s.context.turn} /\ s.context.draft \subseteq {s.context.turn}
           /\ RepliesOfTurn(s.artifacts) /\ TurnsApart(s.turns)
  BY PartsOK DEF Sound, Typed, Pointers, Attached, Apart

\* Nothing that the user said is gone: r follows s.
KeptIn(s, r) ==
    /\ \A t \in 1..Len(s.turns) :
          /\ t \in 1..Len(r.turns) /\ r.turns[t].role = s.turns[t].role
          /\ s.turns[t].text \subseteq r.turns[t].text
    /\ \A a \in 1..Len(s.artifacts) :
          s.artifacts[a].there /\ s.artifacts[a].role = "user" =>
             /\ a \in 1..Len(r.artifacts) /\ r.artifacts[a].there /\ r.artifacts[a].role = "user"
             /\ s.artifacts[a].text \subseteq r.artifacts[a].text

\* The user has no turn more, and no speech to make another of.
NoneSaid(s, r) ==
    /\ \A t \in 1..Len(r.turns) : r.turns[t].role = "user" =>
          /\ t \in 1..Len(s.turns) /\ s.turns[t].role = "user" /\ s.turns[t].text = r.turns[t].text
    /\ HasSpeech(r) => HasSpeech(s) /\ r.buffer.user = s.buffer.user

LEMMA SettleUserSound ==
    ASSUME NEW s, Sound(s)
    PROVE  Sound(SettleUser(s))
<1> DEFINE a == s.context.user
           r == SettleUser(s)
           said == Entry("user", s.buffer.user, s.context.turn)
<1>1. /\ s \in Conversations /\ Pointers(s) /\ s.context \in Contexts
      /\ s.artifacts \in Seq(Artifacts) /\ s.turns \in Seq(Entries)
      /\ Len(s.artifacts) \in Nat /\ Len(s.turns) \in Nat
  BY SoundParts
<1>2. said \in Entries /\ said.role = "user" /\ said.text = s.buffer.user
  BY SoundParts, ContextOK DEF Entry, Entries, Buffers, Roles
<1>3. /\ Append(s.turns, said) \in Seq(Entries)
      /\ OneAdded(s.turns, Append(s.turns, said), said)
  BY <1>1, <1>2, AddOne
<1>4. TurnsApart(Append(s.turns, said))
  BY <1>1, <1>2, <1>3, SoundParts, ApartTurnAdded
<1>5. CASE Shown(s, a)
  <2> DEFINE x == Turned(s.artifacts[a], Len(s.turns) + 1)
             c == SettledFor(s.context, FALSE, a)
  <2>1. /\ a \in 1..Len(s.artifacts)
        /\ Is(r, c, s.buffer, [s.artifacts EXCEPT ![a] = x], Append(s.turns, said))
    BY <1>1, <1>5, SoundParts, SettleUserFacts, Zenon
  <2>2. s.artifacts[a] \in Artifacts /\ Len(s.turns) + 1 \in Nat /\ a \in Nat /\ FALSE \in BOOLEAN
    BY <1>1, <2>1, ElementOK
  <2>3. /\ x \in Artifacts /\ x.settled = TRUE /\ x.attached = Len(s.turns) + 1
        /\ x.role = s.artifacts[a].role /\ x.there = s.artifacts[a].there
        /\ x.text = s.artifacts[a].text /\ x.of = s.artifacts[a].of
    BY <2>2, TurnedOK, Zenon
  <2>4. /\ c \in Contexts /\ c.reserved = FALSE /\ c.lastUser = a /\ c.user = None
        /\ c.fence = s.context.fence /\ c.turn = s.context.turn /\ c.draft = s.context.draft
        /\ c.assistant = s.context.assistant /\ c.lastAssistant = s.context.lastAssistant
    BY <1>1, <2>2, SettledForOK, ZenonT(40)
  <2>5. /\ s.artifacts[a].role = "user" /\ ~s.artifacts[a].settled /\ s.artifacts[a].there
        /\ s.artifacts[a].text = s.buffer.user
        /\ a # s.context.assistant /\ a # s.context.lastAssistant
    BY <1>5, SoundParts DEF CurrentUser, CurrentAssistant, LastAssistant, Shown
  <2> HIDE DEF x, c, r, said, a
  <2>6. r \in Conversations /\ r.context = c /\ r.buffer = s.buffer BY <2>1 DEF Is
  <2>7. OneChanged(s.artifacts, r.artifacts, a, x) BY <1>1, <2>1, <2>3, ChangeOne DEF Is
  <2>8. OneAdded(s.turns, r.turns, said) /\ TurnsApart(r.turns) BY <1>3, <1>4, <2>1 DEF Is
  <2>9. r.artifacts \in Seq(Artifacts) /\ r.turns \in Seq(Entries) /\ Len(r.artifacts) = Len(s.artifacts)
    BY <2>6, <2>7, PartsOK DEF OneChanged
  <2>10. AttachedOnce(r.artifacts, r.turns) /\ SettledAttached(r.artifacts, r.turns, s.context.lastAssistant)
    <3> DEFINE A == s.artifacts
               B == r.artifacts
               T == s.turns
               U == r.turns
               last == s.context.lastAssistant
    <3>1. /\ A \in Seq(Artifacts) /\ T \in Seq(Entries) /\ B \in Seq(Artifacts) /\ U \in Seq(Entries)
          /\ AttachedOnce(A, T) /\ SettledAttached(A, T, last)
          /\ OneChanged(A, B, a, x) /\ OneAdded(T, U, said)
      BY <2>7, <2>8, <2>9, SoundParts
    <3>2. a \in 1..Len(A) /\ x \in Artifacts /\ said \in Entries BY <1>2, <2>1, <2>3
    <3>3. x.attached = Len(T) + 1 /\ x.text = said.text /\ x.role = said.role
      BY <1>2, <2>3, <2>5
    <3> HIDE DEF A, B, T, U, last
    <3>4. AttachedOnce(B, U) /\ SettledAttached(B, U, last)
      BY <3>1, <3>2, <3>3, BecomesTurn
    <3> QED BY <3>4 DEF A, B, T, U, last
  <2>11. StreamsCurrent(r.artifacts, None, s.context.assistant)
    BY <2>1, <2>3, <2>7, SoundParts, StreamsChanged DEF a
  <2>12. RepliesOfTurn(r.artifacts) BY <1>1, <2>1, <2>3, <2>5, <2>7, SoundParts, RepliesChanged
  <2>13. Typed(r) /\ CurrentUser(r)
    BY <2>1, <2>4, <2>6, <2>9, SoundParts DEF Typed, Pointers, CurrentUser, Shown, None
  <2>14. CurrentAssistant(r) /\ LastAssistant(r)
    BY <2>4, <2>5, <2>6, <2>7, SoundParts, SMTT(30) DEF CurrentAssistant, LastAssistant, Shown, OneChanged, None
  <2> QED BY <2>4, <2>6, <2>8, <2>10, <2>11, <2>12, <2>13, <2>14, SoundParts DEF Sound, Attached, Apart, r
<1>6. CASE ~Shown(s, a)
  <2>1. PICK c \in Contexts :
           /\ c.user = None /\ c.lastUser = s.context.lastUser
           /\ c.fence = s.context.fence /\ c.turn = s.context.turn /\ c.draft = s.context.draft
           /\ c.assistant = s.context.assistant /\ c.lastAssistant = s.context.lastAssistant
           /\ \/ Is(r, c, s.buffer, s.artifacts, s.turns)
              \/ Is(r, c, s.buffer, s.artifacts, Append(s.turns, said))
    <3> DEFINE c1 == [[s.context EXCEPT !.reserved = FALSE] EXCEPT !.user = None]
               c2 == [s.context EXCEPT !.user = None]
    <3>1. /\ c1 \in Contexts /\ c1.user = None /\ c1.lastUser = s.context.lastUser
          /\ c1.fence = s.context.fence /\ c1.turn = s.context.turn /\ c1.draft = s.context.draft
          /\ c1.assistant = s.context.assistant /\ c1.lastAssistant = s.context.lastAssistant
      <4>1. None \in Nat BY DEF None
      <4> QED BY <1>1, <4>1, Zenon DEF Contexts
    <3>2. /\ c2 \in Contexts /\ c2.user = None /\ c2.lastUser = s.context.lastUser
          /\ c2.fence = s.context.fence /\ c2.turn = s.context.turn /\ c2.draft = s.context.draft
          /\ c2.assistant = s.context.assistant /\ c2.lastAssistant = s.context.lastAssistant
      <4>1. None \in Nat BY DEF None
      <4> QED BY <1>1, <4>1, Zenon DEF Contexts
    <3>3. \/ Is(r, c1, s.buffer, s.artifacts, Append(s.turns, said))
          \/ Is(r, c2, s.buffer, s.artifacts, s.turns)
      BY <1>1, <1>6, SoundParts, SettleUserFacts, Zenon
    <3> HIDE DEF c1, c2, r, said
    <3> QED BY <3>1, <3>2, <3>3
  <2> HIDE DEF r, said, a
  <2>2. r \in Conversations /\ r.context = c /\ r.buffer = s.buffer /\ r.artifacts = s.artifacts
    BY <2>1 DEF Is
  <2>3. r.turns = s.turns \/ (r.turns = Append(s.turns, said) /\ OneAdded(s.turns, r.turns, said))
    BY <1>3, <2>1 DEF Is
  <2>4. AttachedOnce(r.artifacts, r.turns) /\ SettledAttached(r.artifacts, r.turns, s.context.lastAssistant)
        /\ TurnsApart(r.turns)
    <3>1. CASE r.turns = s.turns BY <2>2, <3>1, SoundParts
    <3>2. CASE r.turns = Append(s.turns, said) /\ OneAdded(s.turns, r.turns, said)
      <4>1. r.turns \in Seq(Entries) BY <1>3, <3>2
      <4>2. AttachedOnce(s.artifacts, s.turns) /\ SettledAttached(s.artifacts, s.turns, s.context.lastAssistant)
        BY SoundParts
      <4>3. OneAdded(s.turns, r.turns, said) BY <3>2
      <4>4. AttachedOnce(s.artifacts, r.turns) /\ SettledAttached(s.artifacts, r.turns, s.context.lastAssistant)
        BY <1>1, <4>1, <4>2, <4>3, TurnAdded
      <4> QED BY <1>4, <2>2, <3>2, <4>4
    <3> QED BY <2>3, <3>1, <3>2
  <2>5. StreamsCurrent(r.artifacts, None, s.context.assistant)
    BY <1>6, <2>2, SoundParts DEF StreamsCurrent, Shown, None, a
  <2>6. Typed(r) /\ CurrentUser(r) /\ CurrentAssistant(r) /\ LastAssistant(r)
    BY <2>1, <2>2, SoundParts DEF Typed, Pointers, CurrentUser, CurrentAssistant, LastAssistant, Shown, None
  <2> QED BY <2>1, <2>2, <2>4, <2>5, <2>6, SoundParts DEF Sound, Attached, Apart, r
<1> QED BY <1>5, <1>6

\* A placeholder that is removed, or a reply that is settled: it waits to become a
\* turn, or is an interrupted one.
LEMMA SettleAssistantSound ==
    ASSUME NEW s, Sound(s), NEW cut \in BOOLEAN
    PROVE  LET a == s.context.assistant
               r == SettleAssistant(s, cut)
           IN /\ Sound(r)
              /\ r.context.assistant = None /\ r.context.user = s.context.user
              /\ r.context.fence = s.context.fence /\ r.context.turn = s.context.turn
              /\ r.context.draft = s.context.draft /\ r.context.lastUser = s.context.lastUser
              /\ r.context.reserved = s.context.reserved /\ r.context.queued = s.context.queued
              /\ r.buffer = s.buffer /\ r.turns = s.turns /\ Len(r.artifacts) = Len(s.artifacts)
              /\ \A b \in 1..Len(s.artifacts) : b # a => r.artifacts[b] = s.artifacts[b]
              /\ IF Shown(s, a) /\ s.artifacts[a].text # {}
                 THEN /\ r.context.lastAssistant = a /\ a \in 1..Len(s.artifacts)
                      /\ r.artifacts[a] = Closed(s.artifacts[a], cut)
                 ELSE /\ r.context.lastAssistant = s.context.lastAssistant
                      /\ a # None => ~r.artifacts[a].there
<1> DEFINE a == s.context.assistant
           r == SettleAssistant(s, cut)
           c0 == [s.context EXCEPT !.assistant = None]
<1>1. /\ s \in Conversations /\ Pointers(s) /\ s.context \in Contexts
      /\ s.artifacts \in Seq(Artifacts) /\ s.turns \in Seq(Entries)
      /\ Len(s.artifacts) \in Nat /\ Len(s.turns) \in Nat
      /\ a \in Nat /\ a \in 0..Len(s.artifacts)
  BY SoundParts
<1>2. /\ c0 \in Contexts /\ c0.assistant = None /\ c0.lastAssistant = s.context.lastAssistant
      /\ c0.fence = s.context.fence /\ c0.turn = s.context.turn /\ c0.draft = s.context.draft
      /\ c0.user = s.context.user /\ c0.lastUser = s.context.lastUser
      /\ c0.reserved = s.context.reserved /\ c0.queued = s.context.queued
  <2>1. None \in Nat BY DEF None
  <2> QED BY <1>1, <2>1, Zenon DEF Contexts
<1>3. ASSUME Shown(s, a)
      PROVE  /\ a \in 1..Len(s.artifacts) /\ s.artifacts[a] \in Artifacts
             /\ s.artifacts[a].role = "assistant" /\ ~s.artifacts[a].settled /\ s.artifacts[a].there
             /\ s.artifacts[a].attached = None /\ s.artifacts[a].of = s.context.turn
             /\ s.context.lastAssistant = None /\ a # s.context.user /\ a # None
             /\ s.artifacts[a].text \subseteq {s.artifacts[a].of}
  <2>1. a \in 1..Len(s.artifacts) /\ a # None BY <1>1, <1>3 DEF Shown, None
  <2>2. s.artifacts[a] \in Artifacts BY <1>1, <2>1, ElementOK
  <2>3. /\ s.artifacts[a].role = "assistant" /\ ~s.artifacts[a].settled /\ s.artifacts[a].there
        /\ s.artifacts[a].attached = None /\ s.artifacts[a].of = s.context.turn
        /\ s.context.lastAssistant = None
    BY <1>3, SoundParts DEF CurrentAssistant, Shown
  <2>4. a # s.context.user BY <1>3, <2>3, SoundParts DEF CurrentUser
  <2>5. s.artifacts[a].text \subseteq {s.artifacts[a].of} BY <2>1, <2>3, SoundParts DEF RepliesOfTurn
  <2> QED BY <2>1, <2>2, <2>3, <2>4, <2>5
<1> HIDE DEF a, r, c0
<1>4. CASE ~Shown(s, a)
  <2>1. Is(r, c0, s.buffer, s.artifacts, s.turns)
    BY <1>1, <1>4, SettleAssistantFacts, Zenon DEF a, r, c0
  <2>2. r \in Conversations /\ r.context = c0 /\ r.buffer = s.buffer /\ r.artifacts = s.artifacts /\ r.turns = s.turns
    BY <2>1 DEF Is
  <2>3. StreamsCurrent(r.artifacts, s.context.user, None)
    BY <1>4, <2>2, SoundParts DEF StreamsCurrent, Shown, None, a
  <2>4. Typed(r) /\ CurrentUser(r) /\ CurrentAssistant(r) /\ LastAssistant(r)
    BY <1>2, <2>2, SoundParts, SMTT(30) DEF Typed, Pointers, CurrentUser, CurrentAssistant, LastAssistant, Shown, None
  <2>5. Sound(r) BY <1>2, <2>2, <2>3, <2>4, SoundParts DEF Sound, Attached, Apart
  <2> QED BY <1>2, <1>4, <2>2, <2>5 DEF Shown, a, r
<1>5. CASE Shown(s, a) /\ s.artifacts[a].text = {}
  <2>1. Is(r, c0, s.buffer, [s.artifacts EXCEPT ![a] = Removed], s.turns)
    BY <1>1, <1>5, SettleAssistantFacts, Zenon DEF a, r, c0
  <2>2. r \in Conversations /\ r.context = c0 /\ r.buffer = s.buffer /\ r.turns = s.turns
    BY <2>1 DEF Is
  <2>3. OneChanged(s.artifacts, r.artifacts, a, Removed) /\ r.artifacts \in Seq(Artifacts)
    BY <1>1, <1>3, <1>5, <2>1, ArtifactsOK, ChangeOne DEF Is
  <2>4. Removed.attached = None /\ ~Removed.there /\ Removed \in Artifacts BY ArtifactsOK DEF Removed
  <2>5. AttachedOnce(r.artifacts, r.turns) /\ SettledAttached(r.artifacts, r.turns, s.context.lastAssistant)
    <3>1. /\ AttachedOnce(s.artifacts, s.turns)
          /\ SettledAttached(s.artifacts, s.turns, s.context.lastAssistant)
      BY SoundParts
    <3>2. /\ AttachedOnce(r.artifacts, s.turns)
          /\ SettledAttached(r.artifacts, s.turns, s.context.lastAssistant)
      BY <1>1, <1>3, <1>5, <2>3, <2>4, <3>1, ArtifactChanged
    <3> QED BY <2>2, <3>2
  <2>6. StreamsCurrent(r.artifacts, s.context.user, None)
    BY <1>3, <1>5, <2>3, <2>4, SoundParts, StreamsChanged DEF a
  <2>7. RepliesOfTurn(r.artifacts) BY <1>1, <1>3, <1>5, <2>3, <2>4, SoundParts, RepliesChanged
  <2>8. Typed(r) /\ CurrentUser(r) /\ CurrentAssistant(r) /\ LastAssistant(r)
    <3>1. Typed(r) BY <1>2, <2>2, <2>3, SoundParts DEF Typed, Pointers, OneChanged, None
    <3>2. CurrentUser(r)
      BY <1>2, <1>3, <1>5, <2>2, <2>3, SoundParts, SMTT(30) DEF CurrentUser, Shown, OneChanged, None
    <3>3. CurrentAssistant(r) BY <1>2, <2>2 DEF CurrentAssistant, Shown
    <3>4. LastAssistant(r) BY <1>2, <1>3, <1>5, <2>2 DEF LastAssistant, Shown
    <3> QED BY <3>1, <3>2, <3>3, <3>4
  <2>9. Sound(r) BY <1>2, <2>2, <2>5, <2>6, <2>7, <2>8, SoundParts DEF Sound, Attached, Apart
  <2> QED BY <1>2, <1>3, <1>5, <2>2, <2>3, <2>4, <2>9 DEF OneChanged, a, r
<1>6. CASE Shown(s, a) /\ s.artifacts[a].text # {}
  <2> DEFINE x == Closed(s.artifacts[a], cut)
             c == Answered(s.context, a)
  <2>1. Is(r, c, s.buffer, [s.artifacts EXCEPT ![a] = x], s.turns)
    BY <1>1, <1>6, SettleAssistantFacts, Zenon DEF a, r
  <2>2. /\ x \in Artifacts /\ x.settled = TRUE /\ x.interrupted = cut
        /\ x.role = s.artifacts[a].role /\ x.there = s.artifacts[a].there /\ x.attached = s.artifacts[a].attached
        /\ x.text = s.artifacts[a].text /\ x.of = s.artifacts[a].of
    BY <1>3, <1>6, ClosedOK, Zenon
  <2>3. /\ c \in Contexts /\ c.lastAssistant = a /\ c.assistant = None
        /\ c.fence = s.context.fence /\ c.turn = s.context.turn /\ c.draft = s.context.draft
        /\ c.user = s.context.user /\ c.lastUser = s.context.lastUser
        /\ c.reserved = s.context.reserved /\ c.queued = s.context.queued
    BY <1>1, AnsweredOK, Zenon
  <2> HIDE DEF x, c
  <2>4. r \in Conversations /\ r.context = c /\ r.buffer = s.buffer /\ r.turns = s.turns
    BY <2>1 DEF Is
  <2>5. OneChanged(s.artifacts, r.artifacts, a, x) /\ r.artifacts \in Seq(Artifacts)
    BY <1>1, <1>3, <1>6, <2>1, <2>2, ChangeOne DEF Is
  <2>6. AttachedOnce(r.artifacts, r.turns) /\ SettledAttached(r.artifacts, r.turns, a)
    BY <1>1, <1>3, <1>6, <2>2, <2>4, <2>5, SoundParts, ArtifactChanged
  <2>7. StreamsCurrent(r.artifacts, s.context.user, None)
    BY <1>3, <1>6, <2>2, <2>5, SoundParts, StreamsChanged, SMTT(30) DEF a
  <2>8. RepliesOfTurn(r.artifacts) BY <1>1, <1>3, <1>6, <2>2, <2>5, SoundParts, RepliesChanged
  <2>9. Typed(r) /\ CurrentUser(r) /\ CurrentAssistant(r) /\ LastAssistant(r)
    <3>1. Typed(r) BY <1>1, <2>3, <2>4, <2>5, SoundParts DEF Typed, Pointers, OneChanged, None
    <3>2. CurrentUser(r)
      BY <1>3, <1>6, <2>3, <2>4, <2>5, SoundParts, SMTT(30) DEF CurrentUser, Shown, OneChanged, None
    <3>3. CurrentAssistant(r) BY <2>3, <2>4 DEF CurrentAssistant, Shown
    <3>4. LastAssistant(r) BY <1>3, <1>6, <2>2, <2>3, <2>4, <2>5 DEF LastAssistant, OneChanged
    <3> QED BY <3>1, <3>2, <3>3, <3>4
  <2>10. Sound(r) BY <2>3, <2>4, <2>6, <2>7, <2>8, <2>9, SoundParts DEF Sound, Attached, Apart
  <2> QED BY <1>3, <1>6, <2>3, <2>4, <2>5, <2>10 DEF OneChanged, a, r, x
<1> QED BY <1>4, <1>5, <1>6

LEMMA UpsertUserSound ==
    ASSUME NEW s, Sound(s), NEW text \in SUBSET Nat, text # {}, s.buffer.user \subseteq text
    PROVE  LET r == Upsert([s EXCEPT !.buffer.user = text], "user", text)
           IN /\ Sound(r) /\ KeptIn(s, r)
              /\ r.turns = s.turns /\ r.buffer.user = text /\ r.buffer.assistant = s.buffer.assistant
              /\ Shown(r, r.context.user) /\ r.context.user \in 1..Len(r.artifacts)
              /\ r.context.assistant = s.context.assistant /\ r.context.lastUser = s.context.lastUser
              /\ r.context.lastAssistant = s.context.lastAssistant
              /\ r.context.fence = s.context.fence /\ r.context.draft = s.context.draft
<1> DEFINE s1 == [s EXCEPT !.buffer.user = text]
           b == [s.buffer EXCEPT !.user = text]
           a == s.context.user
           r == Upsert(s1, "user", text)
<1>1. /\ s \in Conversations /\ Pointers(s) /\ s.context \in Contexts
      /\ s.artifacts \in Seq(Artifacts) /\ s.turns \in Seq(Entries)
      /\ Len(s.artifacts) \in Nat /\ Len(s.turns) \in Nat /\ s.context.turn \in Nat
  BY SoundParts, ContextOK
<1>2. b \in Buffers /\ b.user = text /\ b.assistant = s.buffer.assistant
  BY SoundParts, Zenon DEF Buffers
<1>3. Is(s1, s.context, b, s.artifacts, s.turns)
  <2>1. s1 = [s EXCEPT !.buffer = b] OBVIOUS
  <2> HIDE DEF b, s1
  <2> QED BY <1>1, <1>2, <2>1, WithBuffer
<1>4. s1 \in Conversations /\ Pointers(s1) /\ (Shown(s1, a) <=> Shown(s, a)) /\ s1.context["user"] = a
  BY <1>1, <1>3 DEF Is, Pointers, Shown
<1>5. "user" \in Roles BY DEF Roles
<1> HIDE DEF s1, b, r
<1>6. CASE Shown(s, a)
  <2> DEFINE x == Grown(s.artifacts[a], text)
  <2>1. /\ a \in 1..Len(s.artifacts)
        /\ Is(r, s.context, b, [s.artifacts EXCEPT ![a] = x], s.turns)
    <3>1. /\ a \in 1..Len(s1.artifacts)
          /\ Is(r, s1.context, s1.buffer, [s1.artifacts EXCEPT ![a] = Grown(s1.artifacts[a], text)], s1.turns)
      BY <1>4, <1>5, <1>6, UpsertFacts, Zenon DEF r
    <3> QED BY <1>3, <3>1 DEF Is
  <2>2. s.artifacts[a] \in Artifacts BY <1>1, <2>1, ElementOK
  <2>3. /\ x \in Artifacts /\ x.text = s.artifacts[a].text \cup text /\ x.settled = FALSE
        /\ x.role = s.artifacts[a].role /\ x.there = s.artifacts[a].there /\ x.attached = s.artifacts[a].attached
        /\ x.of = s.artifacts[a].of
    BY <2>2, GrownOK, Zenon
  <2>4. /\ s.artifacts[a].role = "user" /\ ~s.artifacts[a].settled /\ s.artifacts[a].there
        /\ s.artifacts[a].text = s.buffer.user /\ s.artifacts[a].attached = None
        /\ a # s.context.assistant /\ a # s.context.lastAssistant
    BY <1>6, SoundParts DEF CurrentUser, CurrentAssistant, LastAssistant, Shown
  <2>5. x.text = text BY <2>3, <2>4
  <2> HIDE DEF x, a
  <2>6. r \in Conversations /\ r.context = s.context /\ r.buffer = b /\ r.turns = s.turns BY <2>1 DEF Is
  <2>7. OneChanged(s.artifacts, r.artifacts, a, x) /\ r.artifacts \in Seq(Artifacts)
    BY <1>1, <2>1, <2>3, ChangeOne DEF Is
  <2>8. AttachedOnce(r.artifacts, r.turns) /\ SettledAttached(r.artifacts, r.turns, s.context.lastAssistant)
    <3>1. /\ AttachedOnce(s.artifacts, s.turns)
          /\ SettledAttached(s.artifacts, s.turns, s.context.lastAssistant)
      BY SoundParts
    <3>2. /\ AttachedOnce(r.artifacts, s.turns)
          /\ SettledAttached(r.artifacts, s.turns, s.context.lastAssistant)
      <4>1. x.attached = None /\ x.settled = FALSE /\ x \in Artifacts /\ a \in 1..Len(s.artifacts)
        BY <2>1, <2>3, <2>4
      <4>2. s.artifacts \in Seq(Artifacts) /\ s.turns \in Seq(Entries) BY <1>1
      <4> QED BY <2>7, <3>1, <4>1, <4>2, ArtifactChanged
    <3> QED BY <2>6, <3>2
  <2>9. StreamsCurrent(r.artifacts, a, s.context.assistant)
    BY <2>1, <2>3, <2>4, <2>7, SoundParts, StreamsChanged DEF a
  <2>10. RepliesOfTurn(r.artifacts) BY <1>1, <2>1, <2>3, <2>4, <2>7, SoundParts, RepliesChanged
  <2>11. Typed(r) BY <2>6, <2>7, SoundParts DEF Typed, Pointers, OneChanged
  <2>12. CurrentUser(r) /\ Shown(r, a)
    <3>1. r.artifacts[a] = x BY <2>1, <2>7 DEF OneChanged
    <3>2. Shown(r, a) BY <1>6, <2>3, <2>4, <3>1 DEF Shown
    <3>3. r.context.user = a /\ r.buffer.user = text BY <1>2, <2>6 DEF a
    <3> QED BY <2>3, <2>4, <2>5, <3>1, <3>2, <3>3 DEF CurrentUser
  <2>13. CurrentAssistant(r) /\ LastAssistant(r)
    <3>1. /\ s.artifacts \in Seq(Artifacts)
          /\ s.context.assistant \in 0..Len(s.artifacts)
          /\ s.context.lastAssistant \in 0..Len(s.artifacts)
      BY SoundParts DEF Typed, Pointers
    <3>2. /\ s.context.assistant # None => r.artifacts[s.context.assistant] = s.artifacts[s.context.assistant]
          /\ s.context.lastAssistant # None =>
               r.artifacts[s.context.lastAssistant] = s.artifacts[s.context.lastAssistant]
      BY <2>4, <2>7, <3>1 DEF OneChanged, None
    <3>3. CurrentAssistant(s) /\ LastAssistant(s) BY SoundParts
    <3>4. CurrentAssistant(r) BY <2>6, <3>2, <3>3, Zenon DEF CurrentAssistant, Shown
    <3>5. LastAssistant(r) BY <2>6, <3>2, <3>3, Zenon DEF LastAssistant, Shown
    <3> QED BY <3>4, <3>5
  <2>14. KeptIn(s, r) BY <1>1, <2>1, <2>3, <2>6, <2>7 DEF KeptIn, OneChanged
  <2>15. Sound(r)
    BY <1>2, <2>6, <2>8, <2>9, <2>10, <2>11, <2>12, <2>13, SoundParts DEF Sound, Attached, Apart, a
  <2> QED BY <1>2, <2>1, <2>6, <2>7, <2>12, <2>14, <2>15 DEF OneChanged, a, r, s1
<1>7. CASE ~Shown(s, a)
  <2> DEFINE x == Fresh("user", text, s.context.turn)
             c == [s.context EXCEPT !["user"] = Len(s.artifacts) + 1]
  <2>1. Is(r, c, b, Append(s.artifacts, x), s.turns)
    <3>1. Is(r, [s1.context EXCEPT !["user"] = Len(s1.artifacts) + 1], s1.buffer,
             Append(s1.artifacts, Fresh("user", text, s1.context.turn)), s1.turns)
      BY <1>4, <1>5, <1>7, UpsertFacts, Zenon DEF r
    <3> QED BY <1>3, <3>1 DEF Is
  <2>2. /\ x \in Artifacts /\ x.role = "user" /\ x.there /\ x.text = text /\ ~x.settled
        /\ x.attached = None
    BY <1>1, <1>5, ArtifactsOK DEF Fresh
  <2>3. /\ c \in Contexts /\ c.user = Len(s.artifacts) + 1 /\ c.assistant = s.context.assistant
        /\ c.lastAssistant = s.context.lastAssistant /\ c.lastUser = s.context.lastUser
        /\ c.fence = s.context.fence /\ c.turn = s.context.turn /\ c.draft = s.context.draft
    <3>1. Len(s.artifacts) + 1 \in Nat BY <1>1
    <3> QED BY <1>1, <3>1, Zenon DEF Contexts
  <2> HIDE DEF x, c, a
  <2>4. r \in Conversations /\ r.context = c /\ r.buffer = b /\ r.turns = s.turns BY <2>1 DEF Is
  <2>5. OneAdded(s.artifacts, r.artifacts, x) /\ r.artifacts \in Seq(Artifacts)
    BY <1>1, <2>1, <2>2, AddOne DEF Is
  <2>6. AttachedOnce(r.artifacts, r.turns) /\ SettledAttached(r.artifacts, r.turns, s.context.lastAssistant)
    <3>1. /\ AttachedOnce(s.artifacts, s.turns)
          /\ SettledAttached(s.artifacts, s.turns, s.context.lastAssistant)
      BY SoundParts
    <3>2. /\ AttachedOnce(r.artifacts, s.turns)
          /\ SettledAttached(r.artifacts, s.turns, s.context.lastAssistant)
      BY <1>1, <2>2, <2>5, <3>1, ArtifactAdded
    <3> QED BY <2>4, <3>2
  <2>7. StreamsCurrent(r.artifacts, Len(s.artifacts) + 1, s.context.assistant)
    <3>1. \A d \in 1..Len(s.artifacts) : d = a => ~s.artifacts[d].there BY <1>7 DEF Shown, None
    <3>2. StreamsCurrent(s.artifacts, a, s.context.assistant) BY SoundParts DEF a
    <3> QED BY <1>1, <2>2, <2>5, <3>1, <3>2, StreamsAdded
  <2>8. RepliesOfTurn(r.artifacts) BY <1>1, <2>2, <2>5, SoundParts, RepliesAdded
  <2>9. Typed(r) BY <1>1, <2>3, <2>4, <2>5, SoundParts, SMTT(30) DEF Typed, Pointers, OneAdded
  <2>10. CurrentUser(r) /\ Shown(r, c.user)
    BY <1>1, <1>2, <2>2, <2>3, <2>4, <2>5 DEF CurrentUser, Shown, OneAdded, None
  <2>11. CurrentAssistant(r) /\ LastAssistant(r)
    <3>1. /\ s.context.assistant \in 0..Len(s.artifacts) /\ s.context.lastAssistant \in 0..Len(s.artifacts)
          /\ CurrentAssistant(s) /\ LastAssistant(s)
      BY SoundParts
    <3>2. /\ r.context.assistant = s.context.assistant /\ r.context.lastAssistant = s.context.lastAssistant
          /\ r.context.turn = s.context.turn
      BY <2>3, <2>4
    <3>3. \A d \in 1..Len(s.artifacts) : r.artifacts[d] = s.artifacts[d] BY <2>5 DEF OneAdded
    <3>4. \A d \in 0..Len(s.artifacts) : d # None => r.artifacts[d] = s.artifacts[d] BY <1>1, <3>3 DEF None
    <3>5. CurrentAssistant(r) BY <3>1, <3>2, <3>4, Zenon DEF CurrentAssistant, Shown
    <3>6. LastAssistant(r) BY <3>1, <3>2, <3>4, Zenon DEF LastAssistant, Shown
    <3> QED BY <3>5, <3>6
  <2>12. KeptIn(s, r) BY <1>1, <2>4, <2>5 DEF KeptIn, OneAdded
  <2>13. Sound(r)
    BY <1>2, <2>3, <2>4, <2>6, <2>7, <2>8, <2>9, <2>10, <2>11, SoundParts DEF Sound, Attached, Apart
  <2> QED BY <1>1, <1>2, <2>3, <2>4, <2>5, <2>10, <2>12, <2>13 DEF OneAdded, r, s1
<1> QED BY <1>6, <1>7

\* A change of the context and the buffer: a pointer is kept, or let go of where
\* nothing streams and nothing waits to become a turn.
LEMMA ContextSound ==
    ASSUME NEW s, Sound(s), NEW c \in Contexts, NEW b \in Buffers, NEW r,
           Is(r, c, b, s.artifacts, s.turns),
           c.user = s.context.user \/ (c.user = None /\ ~Streaming(s, s.context.user)),
           c.assistant = s.context.assistant
              \/ (c.assistant = None /\ ~Streaming(s, s.context.assistant)),
           c.lastAssistant = s.context.lastAssistant
              \/ (c.lastAssistant = None /\ LastInterrupted(s)),
           c.lastUser \in 0..Len(s.artifacts),
           c.turn = s.context.turn \/ (c.assistant = None /\ c.lastAssistant = None),
           c.assistant # None => c.lastAssistant = None,
           Shown(s, c.user) => b.user = s.buffer.user,
           b.assistant \subseteq {c.turn}, c.draft \subseteq {c.turn}
    PROVE  Sound(r)
<1>1. /\ r \in Conversations /\ r.context = c /\ r.buffer = b /\ r.artifacts = s.artifacts /\ r.turns = s.turns
  BY DEF Is
<1>2. Typed(r) BY <1>1, SoundParts DEF Typed, Pointers, None
<1>3. CurrentUser(r) BY <1>1, SoundParts DEF CurrentUser, Shown
<1>4. CurrentAssistant(r)
  <2>1. CurrentAssistant(s) BY SoundParts
  <2>2. CASE c.assistant = None BY <1>1, <2>2 DEF CurrentAssistant, Shown
  <2>3. CASE c.assistant # None BY <1>1, <2>1, <2>3 DEF CurrentAssistant, Shown
  <2> QED BY <2>2, <2>3
<1>5. LastAssistant(r)
  <2>1. LastAssistant(s) BY SoundParts
  <2>2. CASE c.lastAssistant = None BY <1>1, <2>2 DEF LastAssistant, Shown
  <2>3. CASE c.lastAssistant # None BY <1>1, <2>1, <2>3 DEF LastAssistant, Shown
  <2> QED BY <2>2, <2>3
<1>6. StreamsCurrent(r.artifacts, c.user, c.assistant)
  <2>1. StreamsCurrent(s.artifacts, s.context.user, s.context.assistant) BY SoundParts
  <2>2. \A a \in 1..Len(s.artifacts) : s.artifacts[a].there /\ ~s.artifacts[a].settled =>
           IF s.artifacts[a].role = "user" THEN c.user = a ELSE c.assistant = a
    BY <2>1 DEF StreamsCurrent, Streaming, Shown, None
  <2> QED BY <1>1, <2>2 DEF StreamsCurrent
<1>7. SettledAttached(r.artifacts, r.turns, c.lastAssistant)
  <2>1. SettledAttached(s.artifacts, s.turns, s.context.lastAssistant) BY SoundParts
  <2>2. \A a \in 1..Len(s.artifacts) :
           s.artifacts[a].there /\ s.context.lastAssistant = a /\ c.lastAssistant # a => s.artifacts[a].interrupted
    BY DEF LastInterrupted, Shown, None
  <2> QED BY <1>1, <2>1, <2>2 DEF SettledAttached
<1>8. AttachedOnce(r.artifacts, r.turns) BY <1>1, SoundParts
<1>9. Apart(r) BY <1>1, SoundParts DEF Apart
<1> QED BY <1>1, <1>2, <1>3, <1>4, <1>5, <1>6, <1>7, <1>8, <1>9 DEF Sound, Attached

\* The reply of this turn grows, or its artifact is made.
LEMMA UpsertAssistantSound ==
    ASSUME NEW s, Sound(s), NEW text \in SUBSET Nat, text \subseteq {s.context.turn},
           s.context.lastAssistant = None
    PROVE  LET r == Upsert(s, "assistant", text)
           IN /\ Sound(r) /\ KeptIn(s, r) /\ NoneSaid(s, r)
              /\ r.turns = s.turns /\ r.buffer = s.buffer
              /\ r.context.user = s.context.user /\ r.context.lastUser = s.context.lastUser
              /\ r.context.lastAssistant = s.context.lastAssistant
              /\ r.context.fence = s.context.fence /\ r.context.draft = s.context.draft
              /\ r.context.turn = s.context.turn
<1> DEFINE a == s.context.assistant
           r == Upsert(s, "assistant", text)
<1>1. /\ s \in Conversations /\ Pointers(s) /\ s.context \in Contexts
      /\ s.artifacts \in Seq(Artifacts) /\ s.turns \in Seq(Entries)
      /\ Len(s.artifacts) \in Nat /\ Len(s.turns) \in Nat /\ s.context.turn \in Nat
      /\ s.context.user \in 0..Len(s.artifacts)
  BY SoundParts, ContextOK
<1>2. "assistant" \in Roles /\ s.context["assistant"] = a BY DEF Roles
<1>3. /\ AttachedOnce(s.artifacts, s.turns)
      /\ SettledAttached(s.artifacts, s.turns, s.context.lastAssistant)
      /\ StreamsCurrent(s.artifacts, s.context.user, a) /\ RepliesOfTurn(s.artifacts)
      /\ CurrentUser(s) /\ CurrentAssistant(s) /\ TurnsApart(s.turns)
      /\ s.buffer.assistant \subseteq {s.context.turn} /\ s.context.draft \subseteq {s.context.turn}
  BY SoundParts
<1>4. s.context.reserved \in BOOLEAN BY <1>1, ContextOK
<1> HIDE DEF r, a
<1>5. CASE Shown(s, a)
  <2> DEFINE x == Grown(s.artifacts[a], text)
  <2>1. /\ a \in 1..Len(s.artifacts)
        /\ Is(r, s.context, s.buffer, [s.artifacts EXCEPT ![a] = x], s.turns)
    BY <1>1, <1>2, <1>5, UpsertFacts, Zenon DEF r
  <2>2. s.artifacts[a] \in Artifacts BY <1>1, <2>1, ElementOK
  <2>3. /\ x \in Artifacts /\ x.text = s.artifacts[a].text \cup text /\ x.settled = FALSE
        /\ x.role = s.artifacts[a].role /\ x.there = s.artifacts[a].there /\ x.attached = s.artifacts[a].attached
        /\ x.of = s.artifacts[a].of
    BY <2>2, GrownOK, Zenon
  <2>4. /\ s.artifacts[a].role = "assistant" /\ ~s.artifacts[a].settled /\ s.artifacts[a].there
        /\ s.artifacts[a].attached = None /\ s.artifacts[a].of = s.context.turn
    BY <1>3, <1>5 DEF CurrentAssistant, Shown, a
  <2>5. a # s.context.user BY <1>3, <1>5, <2>4 DEF CurrentUser, Shown
  <2> HIDE DEF x
  <2>6. r \in Conversations /\ r.context = s.context /\ r.buffer = s.buffer /\ r.turns = s.turns BY <2>1 DEF Is
  <2>7. OneChanged(s.artifacts, r.artifacts, a, x) /\ r.artifacts \in Seq(Artifacts)
    BY <1>1, <2>1, <2>3, ChangeOne DEF Is
  <2>8. x.attached = None /\ x.settled = FALSE /\ x.role = "assistant" /\ x.of = s.context.turn
        /\ x.there
    BY <2>3, <2>4
  <2>9. AttachedOnce(r.artifacts, s.turns) /\ SettledAttached(r.artifacts, s.turns, s.context.lastAssistant)
    BY <1>1, <1>3, <2>1, <2>3, <2>7, <2>8, ArtifactChanged
  <2>10. StreamsCurrent(r.artifacts, s.context.user, a)
    BY <1>1, <1>3, <2>1, <2>7, <2>8, StreamsChanged
  <2>11. RepliesOfTurn(r.artifacts)
    <3>1. x.text \subseteq {x.of} BY <1>3, <2>1, <2>3, <2>4 DEF RepliesOfTurn
    <3> QED BY <1>1, <1>3, <2>1, <2>7, <3>1, RepliesChanged
  <2>12. \A d \in 1..Len(s.artifacts) : d # a => r.artifacts[d] = s.artifacts[d] BY <2>7 DEF OneChanged
  <2>13. r.artifacts[a] = x /\ Len(r.artifacts) = Len(s.artifacts) BY <2>1, <2>7 DEF OneChanged
  <2>14. Typed(r) BY <1>1, <2>6, <2>13 DEF Typed, Pointers
  <2>15. /\ Shown(r, s.context.user) <=> Shown(s, s.context.user)
         /\ Shown(s, s.context.user) => r.artifacts[s.context.user] = s.artifacts[s.context.user]
    BY <1>1, <2>5, <2>12 DEF Shown, None
  <2>16. CurrentUser(r) BY <1>3, <2>6, <2>15 DEF CurrentUser
  <2>17. CurrentAssistant(r) BY <2>6, <2>8, <2>13 DEF CurrentAssistant, a
  <2>18. LastAssistant(r) BY <2>6 DEF LastAssistant, Shown
  <2>19. KeptIn(s, r) BY <1>1, <2>4, <2>6, <2>12, <2>13 DEF KeptIn
  <2>20. NoneSaid(s, r) BY <1>1, <2>6, <2>15 DEF NoneSaid, HasSpeech
  <2>21. Sound(r)
    BY <1>3, <2>6, <2>9, <2>10, <2>11, <2>14, <2>16, <2>17, <2>18 DEF Sound, Attached, Apart, a
  <2> QED BY <2>6, <2>19, <2>20, <2>21 DEF r
<1>6. CASE ~Shown(s, a)
  <2> DEFINE x == Fresh("assistant", text, s.context.turn)
             c == [s.context EXCEPT !["assistant"] = Len(s.artifacts) + 1]
  <2>1. Is(r, c, s.buffer, Append(s.artifacts, x), s.turns)
    BY <1>1, <1>2, <1>6, UpsertFacts, Zenon DEF r
  <2>2. /\ x \in Artifacts /\ x.role = "assistant" /\ x.there /\ x.text = text /\ ~x.settled
        /\ x.attached = None /\ x.of = s.context.turn
    BY <1>1, <1>2, ArtifactsOK DEF Fresh
  <2>3. /\ c \in Contexts /\ c.assistant = Len(s.artifacts) + 1 /\ c.user = s.context.user
        /\ c.lastAssistant = s.context.lastAssistant /\ c.lastUser = s.context.lastUser
        /\ c.fence = s.context.fence /\ c.turn = s.context.turn /\ c.draft = s.context.draft
        /\ c.reserved = s.context.reserved
    <3>1. Len(s.artifacts) + 1 \in Nat BY <1>1
    <3> QED BY <1>1, <3>1, Zenon DEF Contexts
  <2> HIDE DEF x, c
  <2>4. r \in Conversations /\ r.context = c /\ r.buffer = s.buffer /\ r.turns = s.turns BY <2>1 DEF Is
  <2>5. OneAdded(s.artifacts, r.artifacts, x) /\ r.artifacts \in Seq(Artifacts)
    BY <1>1, <2>1, <2>2, AddOne DEF Is
  <2>6. AttachedOnce(r.artifacts, s.turns) /\ SettledAttached(r.artifacts, s.turns, s.context.lastAssistant)
    BY <1>1, <1>3, <2>2, <2>5, ArtifactAdded
  <2>7. StreamsCurrent(r.artifacts, s.context.user, Len(s.artifacts) + 1)
    <3>1. \A d \in 1..Len(s.artifacts) : d = a => ~s.artifacts[d].there BY <1>6 DEF Shown, None
    <3>2. StreamsCurrent(s.artifacts, s.context.user, a) BY <1>3
    <3>3. OneAdded(s.artifacts, r.artifacts, x) /\ s.artifacts \in Seq(Artifacts) /\ x \in Artifacts
          /\ x.role = "assistant"
      BY <1>1, <2>2, <2>5
    <3> QED BY <3>1, <3>2, <3>3, StreamsAdded
  <2>8. RepliesOfTurn(r.artifacts) BY <1>1, <1>3, <2>2, <2>5, RepliesAdded
  <2>9. \A d \in 1..Len(s.artifacts) : r.artifacts[d] = s.artifacts[d] BY <2>5 DEF OneAdded
  <2>10. Len(r.artifacts) = Len(s.artifacts) + 1 /\ r.artifacts[Len(s.artifacts) + 1] = x
    BY <2>5 DEF OneAdded
  <2>11. Typed(r)
    <3> HIDE DEF r
    <3>1. {s.context.user, s.context.lastUser, s.context.lastAssistant} \subseteq 0..Len(r.artifacts)
          /\ r.context.assistant \in 0..Len(r.artifacts)
      BY <1>1, <2>3, <2>4, <2>10 DEF Pointers
    <3> QED BY <2>3, <2>4, <3>1 DEF Typed, Pointers
  <2>12. /\ Shown(r, s.context.user) <=> Shown(s, s.context.user)
         /\ Shown(s, s.context.user) => r.artifacts[s.context.user] = s.artifacts[s.context.user]
    BY <1>1, <2>9 DEF Shown, None
  <2>13. CurrentUser(r) BY <1>3, <2>3, <2>4, <2>12 DEF CurrentUser
  <2>14. CurrentAssistant(r) BY <2>2, <2>3, <2>4, <2>10 DEF CurrentAssistant
  <2>15. LastAssistant(r) BY <2>3, <2>4 DEF LastAssistant, Shown
  <2>16. KeptIn(s, r) BY <1>1, <2>4, <2>9, <2>10 DEF KeptIn
  <2>17. NoneSaid(s, r) BY <1>1, <2>3, <2>4, <2>12 DEF NoneSaid, HasSpeech
  <2>18. Sound(r)
    BY <1>3, <2>3, <2>4, <2>6, <2>7, <2>8, <2>11, <2>13, <2>14, <2>15 DEF Sound, Attached, Apart
  <2> QED BY <2>3, <2>4, <2>16, <2>17, <2>18 DEF r
<1> QED BY <1>5, <1>6

-----------------------------------------------------------------------------
(* What was heard, and what has become a turn of the user's. *)

TurnedOnceIn(T, shown) ==
    \A i, j \in 1..Len(T) :
        i # j /\ T[i].role = "user" /\ T[j].role = "user" => T[i].text \cap T[j].text \subseteq shown

\* Speech became a turn once, and none will become one again, but what was shown anew.
Once(s, shown) ==
    /\ TurnedOnceIn(s.turns, shown)
    /\ HasSpeech(s) => s.buffer.user \cap SpeechOf(s.turns) \subseteq shown

\* r keeps what was said in s, hears no more and makes no second turn of it.
Keeps(s, r) ==
    /\ KeptIn(s, r)
    /\ r.buffer.user \subseteq s.buffer.user
    /\ \A shown : Once(s, shown) => Once(r, shown)

LEMMA InSpeech ==
    ASSUME NEW T, DOMAIN T = 1..Len(T), NEW x
    PROVE  x \in SpeechOf(T) <=> \E i \in 1..Len(T) : T[i].role = "user" /\ x \in T[i].text
  BY DEF SpeechOf, UserEntries

LEMMA InKept ==
    ASSUME NEW s \in Conversations, NEW x
    PROVE  x \in Kept(s) <=>
              \/ \E i \in 1..Len(s.turns) : s.turns[i].role = "user" /\ x \in s.turns[i].text
              \/ \E a \in 1..Len(s.artifacts) :
                    s.artifacts[a].there /\ s.artifacts[a].role = "user" /\ x \in s.artifacts[a].text
<1>1. DOMAIN s.turns = 1..Len(s.turns) /\ DOMAIN s.artifacts = 1..Len(s.artifacts) BY PartsOK
<1>2. x \in SpeechOf(s.turns) <=> \E i \in 1..Len(s.turns) : s.turns[i].role = "user" /\ x \in s.turns[i].text
  BY <1>1, InSpeech
<1>3. x \in ShownSpeech(s) <=> \E a \in 1..Len(s.artifacts) :
         s.artifacts[a].there /\ s.artifacts[a].role = "user" /\ x \in s.artifacts[a].text
  BY <1>1 DEF ShownSpeech, UserEntries
<1> QED BY <1>2, <1>3 DEF Kept

LEMMA KeptIsKept ==
    ASSUME NEW s \in Conversations, NEW r \in Conversations, KeptIn(s, r)
    PROVE  Kept(s) \subseteq Kept(r)
<1> SUFFICES ASSUME NEW x \in Kept(s) PROVE x \in Kept(r) OBVIOUS
<1>1. CASE \E i \in 1..Len(s.turns) : s.turns[i].role = "user" /\ x \in s.turns[i].text
  <2>1. PICK i \in 1..Len(s.turns) : s.turns[i].role = "user" /\ x \in s.turns[i].text BY <1>1
  <2>2. i \in 1..Len(r.turns) /\ r.turns[i].role = "user" /\ x \in r.turns[i].text BY <2>1 DEF KeptIn
  <2> QED BY <2>2, InKept
<1>2. CASE \E a \in 1..Len(s.artifacts) :
              s.artifacts[a].there /\ s.artifacts[a].role = "user" /\ x \in s.artifacts[a].text
  <2>1. PICK a \in 1..Len(s.artifacts) :
                s.artifacts[a].there /\ s.artifacts[a].role = "user" /\ x \in s.artifacts[a].text
    BY <1>2
  <2>2. /\ a \in 1..Len(r.artifacts) /\ r.artifacts[a].there /\ r.artifacts[a].role = "user"
        /\ x \in r.artifacts[a].text
    BY <2>1 DEF KeptIn
  <2> QED BY <2>2, InKept
<1> QED BY <1>1, <1>2, InKept

LEMMA NothingSaid ==
    ASSUME NEW s \in Conversations, NEW r \in Conversations, KeptIn(s, r), NoneSaid(s, r),
           r.buffer.user \subseteq s.buffer.user
    PROVE  Keeps(s, r)
<1> SUFFICES ASSUME NEW shown, Once(s, shown) PROVE Once(r, shown) BY DEF Keeps
<1>1. DOMAIN s.turns = 1..Len(s.turns) /\ DOMAIN r.turns = 1..Len(r.turns) BY PartsOK
<1>2. \A t \in 1..Len(r.turns) : r.turns[t].role = "user" =>
         t \in 1..Len(s.turns) /\ s.turns[t].role = "user" /\ s.turns[t].text = r.turns[t].text
  BY DEF NoneSaid
<1>3. TurnedOnceIn(r.turns, shown)
  <2>1. TurnedOnceIn(s.turns, shown) BY DEF Once
  <2> QED BY <1>2, <2>1 DEF TurnedOnceIn
<1>4. SpeechOf(r.turns) \subseteq SpeechOf(s.turns) BY <1>1, <1>2, InSpeech
<1>5. HasSpeech(r) => r.buffer.user \cap SpeechOf(r.turns) \subseteq shown
  BY <1>4 DEF NoneSaid, Once
<1> QED BY <1>3, <1>5 DEF Once

LEMMA KeepsOn ==
    ASSUME NEW s, NEW r, NEW q, Keeps(s, r), Keeps(r, q)
    PROVE  Keeps(s, q)
<1>1. KeptIn(s, r) /\ KeptIn(r, q) BY DEF Keeps
<1>2. KeptIn(s, q) BY <1>1 DEF KeptIn
<1> QED BY <1>2 DEF Keeps

\* A change of the context and the buffer keeps all.
LEMMA ContextKeeps ==
    ASSUME NEW s \in Conversations, NEW r \in Conversations,
           r.artifacts = s.artifacts, r.turns = s.turns, r.buffer.user \subseteq s.buffer.user,
           HasSpeech(r) => HasSpeech(s) /\ r.buffer.user = s.buffer.user
    PROVE  Keeps(s, r)
<1>1. KeptIn(s, r) BY DEF KeptIn
<1>2. NoneSaid(s, r) BY DEF NoneSaid
<1> QED BY <1>1, <1>2, NothingSaid


\* One turn more of speech that had become none.
LEMMA SaidOnce ==
    ASSUME NEW s \in Conversations, HasSpeech(s), NEW U \in Seq(Entries), NEW e,
           OneAdded(s.turns, U, e), e.text = s.buffer.user, NEW shown, Once(s, shown)
    PROVE  TurnedOnceIn(U, shown)
<1>1. DOMAIN s.turns = 1..Len(s.turns) /\ Len(s.turns) \in Nat BY PartsOK
<1>2. TurnedOnceIn(s.turns, shown) /\ s.buffer.user \cap SpeechOf(s.turns) \subseteq shown BY DEF Once
<1>3. /\ 1..Len(U) = 1..Len(s.turns) \cup {Len(s.turns) + 1} /\ U[Len(s.turns) + 1] = e
      /\ \A t \in 1..Len(s.turns) : U[t] = s.turns[t]
  BY <1>1 DEF OneAdded
<1>4. \A t \in 1..Len(s.turns) : s.turns[t].role = "user" => s.turns[t].text \cap e.text \subseteq shown
  BY <1>1, <1>2, InSpeech
<1> SUFFICES ASSUME NEW i \in 1..Len(U), NEW j \in 1..Len(U), i # j,
                    U[i].role = "user", U[j].role = "user"
             PROVE  U[i].text \cap U[j].text \subseteq shown
  BY DEF TurnedOnceIn
<1>5. CASE i \in 1..Len(s.turns) /\ j \in 1..Len(s.turns) BY <1>2, <1>3, <1>5 DEF TurnedOnceIn
<1>6. CASE i = Len(s.turns) + 1 /\ j \in 1..Len(s.turns) BY <1>3, <1>4, <1>6
<1>7. CASE j = Len(s.turns) + 1 /\ i \in 1..Len(s.turns) BY <1>3, <1>4, <1>7
<1> QED BY <1>3, <1>5, <1>6, <1>7

\* The user's speech becomes a turn, if it had not: the last artifact says what the
\* buffer does.
LEMMA SettleUserResult ==
    ASSUME NEW s, Sound(s)
    PROVE  LET a == s.context.user
               r == SettleUser(s)
           IN /\ Keeps(s, r) /\ ~HasSpeech(r) /\ r.buffer = s.buffer
              /\ r.context.user = None
              /\ r.context.assistant = s.context.assistant
              /\ r.context.lastAssistant = s.context.lastAssistant
              /\ r.context.fence = s.context.fence /\ r.context.turn = s.context.turn
              /\ r.context.draft = s.context.draft
              /\ IF Shown(s, a)
                 THEN /\ a \in 1..Len(r.artifacts) /\ r.artifacts[a].settled
                      /\ r.artifacts[a].role = "user" /\ r.artifacts[a].attached # None
                      /\ r.artifacts[a].text = s.buffer.user
                      /\ r.context.lastUser = a /\ r.context.reserved = FALSE
                 ELSE r.context.lastUser = s.context.lastUser /\ r.artifacts = s.artifacts
<1> DEFINE a == s.context.user
           r == SettleUser(s)
           said == Entry("user", s.buffer.user, s.context.turn)
<1>1. /\ s \in Conversations /\ Pointers(s) /\ s.context \in Contexts
      /\ s.artifacts \in Seq(Artifacts) /\ s.turns \in Seq(Entries)
      /\ Len(s.artifacts) \in Nat /\ Len(s.turns) \in Nat /\ CurrentUser(s)
  BY SoundParts
<1>2. said \in Entries /\ said.text = s.buffer.user
  BY SoundParts, ContextOK DEF Entry, Entries, Buffers, Roles
<1>3. /\ Append(s.turns, said) \in Seq(Entries)
      /\ OneAdded(s.turns, Append(s.turns, said), said)
  BY <1>1, <1>2, AddOne
<1>4. ASSUME HasSpeech(s), NEW shown, Once(s, shown)
      PROVE  TurnedOnceIn(Append(s.turns, said), shown)
  BY <1>1, <1>2, <1>3, <1>4, SaidOnce
<1>5. ASSUME r \in Conversations, r.context.user = None,
             IF HasSpeech(s) THEN r.turns = Append(s.turns, said) /\ r.context.reserved = FALSE
                             ELSE r.turns = s.turns /\ r.context.reserved = s.context.reserved,
             r.buffer = s.buffer, ~Shown(s, a) \/ HasSpeech(s), Len(r.artifacts) = Len(s.artifacts),
             \A d \in 1..Len(s.artifacts) :
                /\ r.artifacts[d].there = s.artifacts[d].there /\ r.artifacts[d].role = s.artifacts[d].role
                /\ r.artifacts[d].text = s.artifacts[d].text
      PROVE  Keeps(s, r) /\ ~HasSpeech(r)
  <2>1. \A t \in 1..Len(s.turns) : t \in 1..Len(r.turns) /\ r.turns[t] = s.turns[t]
    <3> HIDE DEF r, said, a
    <3>1. CASE HasSpeech(s)
      <4>1. OneAdded(s.turns, r.turns, said) BY <1>3, <1>5, <3>1
      <4> QED BY <1>1, <4>1 DEF OneAdded
    <3>2. CASE ~HasSpeech(s) BY <1>5, <3>2
    <3> QED BY <3>1, <3>2
  <2>2. KeptIn(s, r) BY <1>5, <2>1 DEF KeptIn
  <2>3. ~HasSpeech(r) BY <1>5 DEF HasSpeech, Shown
  <2>4. ASSUME NEW shown, Once(s, shown) PROVE Once(r, shown)
    <3>1. CASE HasSpeech(s) BY <1>4, <1>5, <2>3, <2>4, <3>1 DEF Once
    <3>2. CASE ~HasSpeech(s) BY <1>5, <2>3, <2>4, <3>2 DEF Once
    <3> QED BY <3>1, <3>2
  <2> QED BY <1>5, <2>2, <2>3, <2>4 DEF Keeps
<1> HIDE DEF r, said, a
<1>6. CASE Shown(s, a)
  <2> DEFINE x == Turned(s.artifacts[a], Len(s.turns) + 1)
             c == SettledFor(s.context, FALSE, a)
  <2>1. /\ a \in 1..Len(s.artifacts) /\ HasSpeech(s)
        /\ Is(r, c, s.buffer, [s.artifacts EXCEPT ![a] = x], Append(s.turns, said))
    BY <1>1, <1>6, SettleUserFacts, Zenon DEF a, r, said
  <2>2. s.artifacts[a] \in Artifacts /\ Len(s.turns) + 1 \in Nat /\ a \in Nat /\ FALSE \in BOOLEAN
    BY <1>1, <2>1, ElementOK
  <2>3. /\ x \in Artifacts /\ x.settled = TRUE /\ x.attached = Len(s.turns) + 1
        /\ x.role = s.artifacts[a].role /\ x.there = s.artifacts[a].there
        /\ x.text = s.artifacts[a].text
    BY <2>2, TurnedOK, Zenon
  <2>4. /\ c \in Contexts /\ c.reserved = FALSE /\ c.lastUser = a /\ c.user = None
        /\ c.fence = s.context.fence /\ c.turn = s.context.turn /\ c.draft = s.context.draft
        /\ c.assistant = s.context.assistant /\ c.lastAssistant = s.context.lastAssistant
    BY <1>1, <2>2, SettledForOK, ZenonT(40)
  <2>5. s.artifacts[a].role = "user" /\ s.artifacts[a].text = s.buffer.user
    BY <1>1, <1>6 DEF CurrentUser, a
  <2> HIDE DEF x, c
  <2>6. /\ r \in Conversations /\ r.context = c /\ r.buffer = s.buffer
        /\ r.artifacts = [s.artifacts EXCEPT ![a] = x] /\ r.turns = Append(s.turns, said)
    BY <2>1 DEF Is
  <2>7. OneChanged(s.artifacts, r.artifacts, a, x) BY <1>1, <2>1, <2>3, <2>6, ChangeOne
  <2>8. /\ Len(r.artifacts) = Len(s.artifacts) /\ r.artifacts[a] = x
        /\ \A d \in 1..Len(s.artifacts) : d # a => r.artifacts[d] = s.artifacts[d]
    BY <2>1, <2>7 DEF OneChanged
  <2>9. \A d \in 1..Len(s.artifacts) :
           /\ r.artifacts[d].there = s.artifacts[d].there /\ r.artifacts[d].role = s.artifacts[d].role
           /\ r.artifacts[d].text = s.artifacts[d].text
    BY <2>3, <2>8
  <2>10. Keeps(s, r) /\ ~HasSpeech(r) BY <1>5, <2>1, <2>4, <2>6, <2>8, <2>9
  <2>11. x.attached # None BY <1>1, <2>3 DEF None
  <2> QED BY <1>6, <2>1, <2>3, <2>4, <2>5, <2>6, <2>8, <2>10, <2>11 DEF r, a
<1>7. CASE ~Shown(s, a)
  <2> DEFINE c1 == [[s.context EXCEPT !.reserved = FALSE] EXCEPT !.user = None]
             c2 == [s.context EXCEPT !.user = None]
  <2>1. IF HasSpeech(s) THEN Is(r, c1, s.buffer, s.artifacts, Append(s.turns, said))
                        ELSE Is(r, c2, s.buffer, s.artifacts, s.turns)
    BY <1>1, <1>7, SettleUserFacts, Zenon DEF a, r, said
  <2>2. /\ c1.user = None /\ c1.lastUser = s.context.lastUser /\ c1.reserved = FALSE
        /\ c1.fence = s.context.fence /\ c1.turn = s.context.turn /\ c1.draft = s.context.draft
        /\ c1.assistant = s.context.assistant /\ c1.lastAssistant = s.context.lastAssistant
    BY <1>1, Zenon DEF Contexts
  <2>3. /\ c2.user = None /\ c2.lastUser = s.context.lastUser /\ c2.reserved = s.context.reserved
        /\ c2.fence = s.context.fence /\ c2.turn = s.context.turn /\ c2.draft = s.context.draft
        /\ c2.assistant = s.context.assistant /\ c2.lastAssistant = s.context.lastAssistant
    BY <1>1, Zenon DEF Contexts
  <2> HIDE DEF c1, c2
  <2>4. /\ r \in Conversations /\ r.buffer = s.buffer /\ r.artifacts = s.artifacts
        /\ r.context.user = None /\ r.context.lastUser = s.context.lastUser
        /\ r.context.fence = s.context.fence /\ r.context.turn = s.context.turn
        /\ r.context.draft = s.context.draft /\ r.context.assistant = s.context.assistant
        /\ r.context.lastAssistant = s.context.lastAssistant
    BY <2>1, <2>2, <2>3 DEF Is
  <2>5. IF HasSpeech(s) THEN r.turns = Append(s.turns, said) /\ r.context.reserved = FALSE
                        ELSE r.turns = s.turns /\ r.context.reserved = s.context.reserved
    BY <2>1, <2>2, <2>3 DEF Is
  <2>6. Keeps(s, r) /\ ~HasSpeech(r) BY <1>5, <1>7, <2>4, <2>5
  <2> QED BY <1>7, <2>4, <2>6 DEF r, a
<1> QED BY <1>6, <1>7


\* Settling a reply says nothing of the user's.
LEMMA SettleAssistantKeeps ==
    ASSUME NEW s, Sound(s), NEW cut \in BOOLEAN
    PROVE  Keeps(s, SettleAssistant(s, cut)) /\ (HasSpeech(SettleAssistant(s, cut)) => HasSpeech(s))
<1> DEFINE a == s.context.assistant
           r == SettleAssistant(s, cut)
<1>1. /\ s \in Conversations /\ CurrentUser(s) /\ CurrentAssistant(s)
      /\ s.context.user \in 0..Len(s.artifacts) /\ Len(s.artifacts) \in Nat
  BY SoundParts
<1>2. /\ Sound(r) /\ r.context.user = s.context.user /\ r.context.reserved = s.context.reserved
      /\ r.buffer = s.buffer /\ r.turns = s.turns /\ Len(r.artifacts) = Len(s.artifacts)
      /\ \A b \in 1..Len(s.artifacts) : b # a => r.artifacts[b] = s.artifacts[b]
      /\ a # None /\ ~Shown(s, a) => ~r.artifacts[a].there
  BY SettleAssistantSound
<1>3. r \in Conversations BY <1>2, SoundParts
<1> HIDE DEF r
<1>4. \A d \in 1..Len(s.artifacts) : s.artifacts[d].there /\ s.artifacts[d].role = "user" => d # a
  BY <1>1 DEF CurrentAssistant, Shown, None
<1>5. KeptIn(s, r) BY <1>2, <1>4 DEF KeptIn
<1>6. HasSpeech(r) => HasSpeech(s)
  <2>1. CASE Shown(s, s.context.user)
    <3>1. s.context.user \in 1..Len(s.artifacts) /\ s.artifacts[s.context.user].role = "user"
          /\ s.artifacts[s.context.user].there /\ s.artifacts[s.context.user].attached = None
          /\ s.context.user # None
      BY <1>1, <2>1 DEF CurrentUser, Shown, None
    <3> QED BY <1>2, <2>1, <3>1 DEF HasSpeech
  <2>2. CASE ~Shown(s, s.context.user)
    <3>1. ~Shown(r, r.context.user)
      <4>1. CASE s.context.user = None BY <1>2, <4>1 DEF Shown
      <4>2. CASE s.context.user # None /\ s.context.user = a BY <1>2, <2>2, <4>2 DEF Shown
      <4>3. CASE s.context.user # None /\ s.context.user # a
        BY <1>1, <1>2, <2>2, <4>3 DEF Shown, None
      <4> QED BY <4>1, <4>2, <4>3
    <3> QED BY <1>2, <2>2, <3>1 DEF HasSpeech
  <2> QED BY <2>1, <2>2
<1>7. NoneSaid(s, r) BY <1>2, <1>6 DEF NoneSaid
<1> QED BY <1>1, <1>2, <1>3, <1>5, <1>6, <1>7, NothingSaid DEF r

\* The fence falls: nothing of the turn streams any more.
LEMMA SettleResult ==
    ASSUME NEW s, Stable(s), NEW how \in {"completed", "interrupted"}
    PROVE  LET r == Settle(s, how)
               l == r.context.lastAssistant
           IN /\ Sound(r) /\ Keeps(s, r) /\ ~Open(r) /\ LastSaid(r)
              /\ r.context.user = None /\ r.context.assistant = None
              /\ r.context.draft = s.context.draft
              /\ r.context.fence = "idle" => r = s
              /\ Shown(r, l) => r.artifacts[l].text # {} \/ r = s
              /\ how = "interrupted" => LastInterrupted(r)
<1>1. Sound(s) /\ LastSaid(s) /\ LastInterrupted(s) BY DEF Stable
<1>2. CASE ~Open(s)
  <2>1. Settle(s, how) = s BY <1>2 DEF Settle
  <2>2. Closes(s) BY <1>2 DEF Stable
  <2>3. s \in Conversations BY <1>1, SoundParts
  <2>4. Keeps(s, s) BY <2>3, ContextKeeps
  <2> QED BY <1>1, <1>2, <2>1, <2>2, <2>4 DEF Closes
<1>3. CASE Open(s)
  <2> DEFINE c == [s.context EXCEPT !.fence = how]
             s1 == [s EXCEPT !.context.fence = how]
             s2 == SettleUser(s1)
             cut == how = "interrupted"
             r == SettleAssistant(s2, cut)
             a == s1.context.user
             b == s2.context.assistant
             l == r.context.lastAssistant
  <2>1. Settle(s, how) = r BY <1>3 DEF Settle
  <2>2. s.context \in Contexts /\ s \in Conversations /\ s.buffer \in Buffers BY <1>1, SoundParts
  <2>3. /\ c \in Contexts /\ c.fence = how /\ c.turn = s.context.turn /\ c.draft = s.context.draft
        /\ c.user = s.context.user /\ c.assistant = s.context.assistant
        /\ c.lastUser = s.context.lastUser /\ c.lastAssistant = s.context.lastAssistant
        /\ c.reserved = s.context.reserved
    <3>1. how \in {"idle", "open", "completed", "interrupted"} OBVIOUS
    <3> QED BY <2>2, <3>1, Zenon DEF Contexts
  <2>4. s1 = [s EXCEPT !.context = c] OBVIOUS
  <2> HIDE DEF c, s1
  <2>5. Is(s1, c, s.buffer, s.artifacts, s.turns) BY <2>2, <2>3, <2>4, WithContext
  <2>6. Sound(s1)
    <3>1. /\ s.context.lastUser \in 0..Len(s.artifacts) /\ s.buffer.assistant \subseteq {s.context.turn}
          /\ s.context.draft \subseteq {s.context.turn}
          /\ s.context.assistant # None => s.context.lastAssistant = None
      BY <1>1, SoundParts DEF CurrentAssistant
    <3> QED BY <1>1, <2>2, <2>3, <2>5, <3>1, ContextSound
  <2>7. /\ s1 \in Conversations /\ s1.context = c /\ s1.buffer = s.buffer /\ s1.artifacts = s.artifacts
        /\ s1.turns = s.turns
    BY <2>5 DEF Is
  <2>8. Keeps(s, s1)
    <3>1. HasSpeech(s1) => HasSpeech(s) BY <2>3, <2>7 DEF HasSpeech, Shown
    <3> QED BY <2>2, <2>7, <3>1, ContextKeeps
  <2>9. c.lastUser = None /\ c.lastAssistant = None BY <1>3, <2>3 DEF Stable
  <2>10. Sound(s2) BY <2>6, SettleUserSound
  <2>11. /\ Keeps(s1, s2) /\ ~HasSpeech(s2) /\ s2.buffer = s.buffer
         /\ s2.context.user = None /\ s2.context.lastAssistant = None
         /\ s2.context.fence = how /\ s2.context.draft = s.context.draft
         /\ IF Shown(s1, a)
            THEN /\ a \in 1..Len(s2.artifacts) /\ s2.artifacts[a].settled
                 /\ s2.artifacts[a].role = "user" /\ s2.artifacts[a].attached # None
                 /\ s2.artifacts[a].text = s.buffer.user
                 /\ s2.context.lastUser = a /\ s2.context.reserved = FALSE
            ELSE s2.context.lastUser = None
    BY <2>3, <2>6, <2>7, <2>9, SettleUserResult
  <2>12. cut \in BOOLEAN OBVIOUS
  <2> HIDE DEF s2, cut
  <2>13. /\ Sound(r) /\ r.context.assistant = None /\ r.context.user = None
         /\ r.context.fence = how /\ r.context.draft = s.context.draft
         /\ r.context.lastUser = s2.context.lastUser /\ r.context.reserved = s2.context.reserved
         /\ r.buffer = s2.buffer /\ Len(r.artifacts) = Len(s2.artifacts)
         /\ \A d \in 1..Len(s2.artifacts) : d # b => r.artifacts[d] = s2.artifacts[d]
         /\ IF Shown(s2, b) /\ s2.artifacts[b].text # {}
            THEN /\ l = b /\ b \in 1..Len(s2.artifacts) /\ r.artifacts[b] = Closed(s2.artifacts[b], cut)
            ELSE l = None
    <3>1. /\ Sound(r) /\ r.context.assistant = None /\ r.context.user = s2.context.user
          /\ r.context.fence = s2.context.fence /\ r.context.draft = s2.context.draft
          /\ r.context.lastUser = s2.context.lastUser /\ r.context.reserved = s2.context.reserved
          /\ r.buffer = s2.buffer /\ Len(r.artifacts) = Len(s2.artifacts)
          /\ \A d \in 1..Len(s2.artifacts) : d # b => r.artifacts[d] = s2.artifacts[d]
          /\ IF Shown(s2, b) /\ s2.artifacts[b].text # {}
             THEN /\ l = b /\ b \in 1..Len(s2.artifacts) /\ r.artifacts[b] = Closed(s2.artifacts[b], cut)
             ELSE l = s2.context.lastAssistant
      BY <2>10, <2>12, SettleAssistantSound
    <3> HIDE DEF r
    <3> QED BY <2>11, <3>1
  <2>14. Keeps(s2, r) BY <2>10, <2>12, SettleAssistantKeeps
  <2> HIDE DEF r
  <2>15. Keeps(s, r) BY <2>8, <2>11, <2>14, KeepsOn
  <2>16. LastSaid(r)
    <3>1. CASE ~Shown(s1, a) BY <2>11, <2>13, <3>1 DEF LastSaid, Shown
    <3>2. CASE Shown(s1, a)
      <4>1. a # b \/ ~r.artifacts[a].there
        <5>1. CASE Shown(s2, b)
          <6>1. s2.artifacts[b].role = "assistant" BY <2>10, <5>1, SoundParts DEF CurrentAssistant
          <6> QED BY <2>11, <3>2, <6>1
        <5>2. CASE ~Shown(s2, b)
          <6>1. b # None => ~r.artifacts[b].there
            BY <2>10, <2>12, <5>2, SettleAssistantSound DEF r
          <6>2. a # None BY <3>2 DEF Shown
          <6> QED BY <6>1, <6>2
        <5> QED BY <5>1, <5>2
      <4> QED BY <2>11, <2>13, <3>2, <4>1 DEF LastSaid, Shown
    <3> QED BY <3>1, <3>2
  <2>17. ASSUME Shown(r, l)
         PROVE  r.artifacts[l].text # {} /\ r.artifacts[l].interrupted = cut
    <3>1. /\ l = b /\ b \in 1..Len(s2.artifacts) /\ r.artifacts[b] = Closed(s2.artifacts[b], cut)
          /\ s2.artifacts[b].text # {}
      BY <2>13, <2>17 DEF Shown
    <3>2. s2.artifacts[b] \in Artifacts BY <2>10, <3>1, SoundParts, ElementOK
    <3>3. Closed(s2.artifacts[b], cut).interrupted = cut
          /\ Closed(s2.artifacts[b], cut).text = s2.artifacts[b].text
      BY <2>12, <3>2, ClosedOK, Zenon
    <3> QED BY <3>1, <3>3
  <2>18. how = "interrupted" => LastInterrupted(r) BY <2>17 DEF LastInterrupted, cut
  <2>19. ~Open(r) /\ r.context.fence # "idle" BY <2>13 DEF Open
  <2> QED BY <2>1, <2>13, <2>15, <2>16, <2>17, <2>18, <2>19
<1> QED BY <1>2, <1>3

-----------------------------------------------------------------------------
(* A reply becomes a turn. *)

\* A turn of the assistant's that no artifact is attached to.
LEMMA ReplyTurn ==
    ASSUME NEW s, Sound(s), NEW text \in SUBSET Nat, text \subseteq {s.context.turn}
    PROVE  LET r == NewTurn(s, "assistant", text)
           IN /\ Sound(r) /\ Keeps(s, r) /\ r.context = s.context /\ r.buffer = s.buffer
              /\ r.artifacts = s.artifacts
<1> DEFINE r == NewTurn(s, "assistant", text)
           e == Entry("assistant", text, s.context.turn)
<1>1. /\ s \in Conversations /\ s.context \in Contexts /\ s.context.turn \in Nat
      /\ s.artifacts \in Seq(Artifacts) /\ s.turns \in Seq(Entries) /\ Len(s.turns) \in Nat
  BY SoundParts, ContextOK
<1>2. "assistant" \in Roles BY DEF Roles
<1>3. e \in Entries /\ e.role = "assistant" /\ e.text \subseteq {e.of} BY <1>1, <1>2 DEF Entry, Entries
<1>4. Is(r, s.context, s.buffer, s.artifacts, Append(s.turns, e)) BY <1>1, <1>2, NewTurnFacts
<1> HIDE DEF r, e
<1>5. /\ r \in Conversations /\ r.context = s.context /\ r.buffer = s.buffer /\ r.artifacts = s.artifacts
      /\ r.turns = Append(s.turns, e)
  BY <1>4 DEF Is
<1>6. OneAdded(s.turns, r.turns, e) /\ r.turns \in Seq(Entries) BY <1>1, <1>3, <1>5, AddOne
<1>7. AttachedOnce(s.artifacts, r.turns) /\ SettledAttached(s.artifacts, r.turns, s.context.lastAssistant)
  <2>1. AttachedOnce(s.artifacts, s.turns) /\ SettledAttached(s.artifacts, s.turns, s.context.lastAssistant)
    BY SoundParts
  <2> QED BY <1>1, <1>6, <2>1, TurnAdded
<1>8. TurnsApart(r.turns)
  <2>1. TurnsApart(s.turns) BY SoundParts
  <2> QED BY <1>1, <1>3, <1>6, <2>1, ApartTurnAdded
<1>9. Typed(r) /\ CurrentUser(r) /\ CurrentAssistant(r) /\ LastAssistant(r)
  BY <1>5, SoundParts, SMTT(30) DEF Typed, Pointers, CurrentUser, CurrentAssistant, LastAssistant, Shown
<1>10. Sound(r) BY <1>5, <1>7, <1>8, <1>9, SoundParts DEF Sound, Attached, Apart
<1>11. /\ Len(r.turns) = Len(s.turns) + 1 /\ r.turns[Len(s.turns) + 1] = e
       /\ \A t \in 1..Len(s.turns) : r.turns[t] = s.turns[t]
  BY <1>6 DEF OneAdded
<1>12. KeptIn(s, r) BY <1>1, <1>5, <1>11 DEF KeptIn
<1>13. NoneSaid(s, r)
  <2>1. \A t \in 1..Len(r.turns) : r.turns[t].role = "user" => t \in 1..Len(s.turns)
    BY <1>1, <1>3, <1>11
  <2>2. HasSpeech(r) => HasSpeech(s) BY <1>5 DEF HasSpeech, Shown
  <2> QED BY <1>5, <1>11, <2>1, <2>2 DEF NoneSaid
<1>14. Keeps(s, r) BY <1>1, <1>5, <1>12, <1>13, NothingSaid
<1> QED BY <1>5, <1>10, <1>14 DEF r

\* The settled reply becomes a turn.
LEMMA ReplyAttached ==
    ASSUME NEW s, Sound(s), Shown(s, s.context.lastAssistant)
    PROVE  LET l == s.context.lastAssistant
               r == Attach(NewTurn(s, "assistant", s.artifacts[l].text))
           IN /\ Sound(r) /\ Keeps(s, r)
              /\ r.context = [s.context EXCEPT !.lastAssistant = None] /\ r.buffer = s.buffer
              /\ Len(r.artifacts) = Len(s.artifacts)
              /\ \A d \in 1..Len(s.artifacts) : d # l => r.artifacts[d] = s.artifacts[d]
              /\ l \in 1..Len(s.artifacts) /\ s.artifacts[l].role = "assistant"
              /\ r.artifacts[l].settled /\ r.artifacts[l].role = "assistant"
<1> DEFINE l == s.context.lastAssistant
           text == s.artifacts[l].text
           q == NewTurn(s, "assistant", text)
           r == Attach(q)
           e == Entry("assistant", text, s.context.turn)
           x == [s.artifacts[l] EXCEPT !.attached = Len(s.turns) + 1]
           c == [s.context EXCEPT !.lastAssistant = None]
<1>1. /\ s \in Conversations /\ s.context \in Contexts /\ s.context.turn \in Nat
      /\ s.artifacts \in Seq(Artifacts) /\ s.turns \in Seq(Entries) /\ Len(s.turns) \in Nat
      /\ Len(s.artifacts) \in Nat /\ l \in 0..Len(s.artifacts) /\ Pointers(s)
      /\ CurrentUser(s) /\ CurrentAssistant(s) /\ LastAssistant(s)
      /\ s.context.user \in 0..Len(s.artifacts) /\ s.context.assistant \in 0..Len(s.artifacts)
  BY SoundParts, ContextOK
<1>2. "assistant" \in Roles BY DEF Roles
<1>3. l \in 1..Len(s.artifacts) BY <1>1 DEF Shown, None
<1>4. s.artifacts[l] \in Artifacts BY <1>1, <1>3, ElementOK
<1>5. /\ s.artifacts[l].role = "assistant" /\ s.artifacts[l].settled /\ s.artifacts[l].there
      /\ s.artifacts[l].of = s.context.turn
  BY <1>1 DEF LastAssistant, Shown
<1>6. text \in SUBSET Nat /\ text \subseteq {s.context.turn}
  <2>1. RepliesOfTurn(s.artifacts) BY SoundParts
  <2> QED BY <1>3, <1>4, <1>5, <2>1 DEF RepliesOfTurn, Artifacts
<1>7. e \in Entries /\ e.role = "assistant" /\ e.text = text /\ e.text \subseteq {e.of}
  BY <1>1, <1>2, <1>6 DEF Entry, Entries
<1>8. /\ x \in Artifacts /\ x.attached = Len(s.turns) + 1 /\ x.role = "assistant" /\ x.settled /\ x.there
      /\ x.text = text /\ x.of = s.context.turn
  <2>1. Len(s.turns) + 1 \in Nat BY <1>1
  <2> QED BY <1>4, <1>5, <2>1, ArtifactsOK DEF Artifacts
<1>9. /\ c \in Contexts /\ c.lastAssistant = None
      /\ c.fence = s.context.fence /\ c.turn = s.context.turn /\ c.draft = s.context.draft
      /\ c.user = s.context.user /\ c.assistant = s.context.assistant
      /\ c.lastUser = s.context.lastUser /\ c.reserved = s.context.reserved
  <2>1. None \in Nat BY DEF None
  <2> QED BY <1>1, <2>1, Zenon DEF Contexts
<1>10. Is(q, s.context, s.buffer, s.artifacts, Append(s.turns, e)) BY <1>1, <1>2, <1>6, NewTurnFacts
<1> HIDE DEF q, e, text
<1>11. /\ q \in Conversations /\ q.context = s.context /\ q.artifacts = s.artifacts /\ q.buffer = s.buffer
       /\ q.turns = Append(s.turns, e)
  BY <1>10 DEF Is
<1>12. OneAdded(s.turns, q.turns, e) /\ q.turns \in Seq(Entries) BY <1>1, <1>7, <1>11, AddOne
<1>13. Len(q.turns) = Len(s.turns) + 1 BY <1>12 DEF OneAdded
<1>14. Is(r, c, s.buffer, [s.artifacts EXCEPT ![l] = x], q.turns)
  <2>1. q.context.lastAssistant = l BY <1>11
  <2>2. Is(r, [q.context EXCEPT !.lastAssistant = None], q.buffer,
           [q.artifacts EXCEPT ![l] = [q.artifacts[l] EXCEPT !.attached = Len(q.turns)]], q.turns)
    BY <1>3, <1>11, <2>1, AttachFacts, Zenon
  <2> QED BY <1>11, <1>13, <2>2
<1> HIDE DEF r, c, x, l
<1>15. /\ r \in Conversations /\ r.context = c /\ r.buffer = s.buffer /\ r.turns = q.turns
       /\ r.artifacts = [s.artifacts EXCEPT ![l] = x]
  BY <1>14 DEF Is
<1>16. OneChanged(s.artifacts, r.artifacts, l, x) /\ r.artifacts \in Seq(Artifacts)
  BY <1>1, <1>3, <1>8, <1>15, ChangeOne
<1>17. /\ Len(r.artifacts) = Len(s.artifacts) /\ r.artifacts[l] = x
       /\ \A d \in 1..Len(s.artifacts) : d # l => r.artifacts[d] = s.artifacts[d]
  BY <1>3, <1>16 DEF OneChanged
<1>18. AttachedOnce(r.artifacts, r.turns) /\ SettledAttached(r.artifacts, r.turns, None)
  <2>1. AttachedOnce(s.artifacts, s.turns) /\ SettledAttached(s.artifacts, s.turns, l)
    BY SoundParts DEF l
  <2>2. x.attached = Len(s.turns) + 1 /\ x.text = e.text /\ x.role = e.role BY <1>7, <1>8
  <2>3. AttachedOnce(r.artifacts, q.turns) /\ SettledAttached(r.artifacts, q.turns, l)
    BY <1>1, <1>3, <1>7, <1>8, <1>12, <1>16, <2>1, <2>2, BecomesTurn
  <2>4. SettledAttached(r.artifacts, q.turns, None)
    BY <1>3, <1>8, <1>17, <2>3 DEF SettledAttached, None
  <2> QED BY <1>15, <2>3, <2>4
<1>19. TurnsApart(r.turns)
  <2>1. TurnsApart(s.turns) BY SoundParts
  <2> QED BY <1>1, <1>7, <1>12, <1>15, <2>1, ApartTurnAdded
<1>20. RepliesOfTurn(r.artifacts)
  <2>1. RepliesOfTurn(s.artifacts) BY SoundParts
  <2>2. x.text \subseteq {x.of} BY <1>6, <1>8
  <2> QED BY <1>1, <1>3, <1>16, <2>1, <2>2, RepliesChanged
<1>21. StreamsCurrent(r.artifacts, s.context.user, s.context.assistant)
  <2>1. StreamsCurrent(s.artifacts, s.context.user, s.context.assistant) BY SoundParts
  <2> QED BY <1>1, <1>3, <1>8, <1>16, <2>1, StreamsChanged
<1>22. l # s.context.user
  <2>1. Shown(s, l) BY DEF l
  <2> QED BY <1>1, <1>5, <2>1 DEF CurrentUser
<1>23. s.context.assistant = None BY <1>1 DEF CurrentAssistant, Shown, l
<1>24. /\ Shown(r, s.context.user) <=> Shown(s, s.context.user)
       /\ Shown(s, s.context.user) => r.artifacts[s.context.user] = s.artifacts[s.context.user]
  BY <1>1, <1>17, <1>22 DEF Shown, None
<1>25. CurrentUser(r) BY <1>1, <1>9, <1>15, <1>24 DEF CurrentUser
<1>26. CurrentAssistant(r) /\ LastAssistant(r)
  BY <1>9, <1>15, <1>23 DEF CurrentAssistant, LastAssistant, Shown
<1>27. Typed(r) BY <1>1, <1>9, <1>15, <1>17 DEF Typed, Pointers, None
<1>28. Apart(r) BY <1>9, <1>15, <1>19, <1>20, SoundParts DEF Apart
<1>29. Sound(r) BY <1>9, <1>15, <1>18, <1>21, <1>25, <1>26, <1>27, <1>28 DEF Sound, Attached
<1>30. /\ Len(r.turns) = Len(s.turns) + 1 /\ r.turns[Len(s.turns) + 1] = e
       /\ \A t \in 1..Len(s.turns) : r.turns[t] = s.turns[t]
  BY <1>12, <1>15 DEF OneAdded
<1>31. KeptIn(s, r)
  <2>1. \A t \in 1..Len(s.turns) : t \in 1..Len(r.turns) /\ r.turns[t] = s.turns[t]
    <3>1. Len(s.turns) \in Nat BY <1>1
    <3> QED BY <1>30, <3>1
  <2>2. \A d \in 1..Len(s.artifacts) : s.artifacts[d].role = "user" =>
           d \in 1..Len(r.artifacts) /\ r.artifacts[d] = s.artifacts[d]
    BY <1>5, <1>17
  <2> QED BY <2>1, <2>2 DEF KeptIn
<1>32. NoneSaid(s, r)
  <2>1. \A t \in 1..Len(r.turns) : r.turns[t].role = "user" => t \in 1..Len(s.turns)
    BY <1>1, <1>7, <1>30
  <2>2. HasSpeech(r) => HasSpeech(s) BY <1>9, <1>15, <1>24 DEF HasSpeech
  <2> QED BY <1>15, <1>30, <2>1, <2>2 DEF NoneSaid
<1>33. Keeps(s, r) BY <1>1, <1>15, <1>31, <1>32, NothingSaid
<1>34. r.artifacts[l].settled /\ r.artifacts[l].role = "assistant" BY <1>8, <1>17
<1>35. r.context = [s.context EXCEPT !.lastAssistant = None] /\ r.buffer = s.buffer BY <1>15 DEF c
<1>36. Attach(NewTurn(s, "assistant", s.artifacts[l].text)) = r BY DEF r, q, text
<1> QED BY <1>3, <1>5, <1>17, <1>29, <1>33, <1>34, <1>35, <1>36 DEF l


\* What is left of the context is changed in its draft, or in what is queued.
LEMMA SameTurn ==
    ASSUME NEW s, Stable(s), NEW c \in Contexts, NEW r, Is(r, c, s.buffer, s.artifacts, s.turns),
           c.fence = s.context.fence, c.turn = s.context.turn, c.reserved = s.context.reserved,
           c.user = s.context.user, c.assistant = s.context.assistant,
           c.lastUser = s.context.lastUser, c.lastAssistant = s.context.lastAssistant,
           c.draft \subseteq {c.turn}, ~Open(s) => c.draft = {}
    PROVE  Stable(r) /\ Keeps(s, r)
<1>1. Sound(s) BY DEF Stable
<1>2. /\ r \in Conversations /\ r.context = c /\ r.buffer = s.buffer /\ r.artifacts = s.artifacts
      /\ r.turns = s.turns
  BY DEF Is
<1>3. Sound(r)
  <2>1. /\ s.buffer \in Buffers /\ s.buffer.assistant \subseteq {s.context.turn}
        /\ s.context.lastUser \in 0..Len(s.artifacts)
        /\ s.context.assistant # None => s.context.lastAssistant = None
    BY <1>1, SoundParts DEF CurrentAssistant
  <2> QED BY <1>1, <2>1, ContextSound
<1>4. Keeps(s, r)
  <2>1. HasSpeech(r) => HasSpeech(s) BY <1>2 DEF HasSpeech, Shown
  <2>2. s \in Conversations BY <1>1, SoundParts
  <2> QED BY <1>2, <2>1, <2>2, ContextKeeps
<1>5. LastSaid(r)
  <2>1. LastSaid(s) BY DEF Stable
  <2> QED BY <1>2, <2>1 DEF LastSaid, IsSettled, Shown
<1>6. LastInterrupted(r)
  <2>1. LastInterrupted(s) BY DEF Stable
  <2> QED BY <1>2, <2>1 DEF LastInterrupted, Shown
<1>7. /\ Open(r) => r.context.lastUser = None /\ r.context.lastAssistant = None
      /\ ~Open(r) => Closes(r)
      /\ r.context.fence = "idle" => r.buffer = Silence
  BY <1>2 DEF Stable, Closes, Open
<1> QED BY <1>3, <1>4, <1>5, <1>6, <1>7 DEF Stable

\* The draft, or the settled reply, becomes a turn.
LEMMA CommitStable ==
    ASSUME NEW s, Sound(s), ~Open(s), s.context.fence # "idle", LastSaid(s),
           s.context.user = None, s.context.assistant = None,
           Shown(s, s.context.lastAssistant) => s.artifacts[s.context.lastAssistant].text # {}
    PROVE  Stable(Commit(s)) /\ Keeps(s, Commit(s))
<1> DEFINE l == s.context.lastAssistant
           text == IF Shown(s, l) THEN s.artifacts[l].text ELSE s.context.draft
           done == IF text = {} THEN s ELSE NewTurn(s, "assistant", text)
           q == IF text # {} /\ Shown(s, l) THEN Attach(done) ELSE done
           r == [q EXCEPT !.context.draft = {}]
           c == [q.context EXCEPT !.draft = {}]
<1>1. Commit(s) = r BY DEF Commit
<1>2. /\ s \in Conversations /\ s.context \in Contexts /\ s.context.draft \in SUBSET Nat
      /\ s.context.draft \subseteq {s.context.turn} /\ s.context.lastUser \in 0..Len(s.artifacts)
      /\ LastAssistant(s)
  BY SoundParts, ContextOK
<1>3. IsSettled(s)
  <2>1. s.context.fence \in {"idle", "open", "completed", "interrupted"} BY <1>2, ContextOK
  <2> QED BY <2>1 DEF IsSettled, Open
<1> HIDE DEF r, c
<1>4. /\ Sound(q) /\ Keeps(s, q) /\ q.buffer = s.buffer
      /\ q.context.fence = s.context.fence /\ q.context.user = None /\ q.context.assistant = None
      /\ LastSaid(q) /\ LastInterrupted(q)
  <2>1. CASE Shown(s, l)
    <3>1. text = s.artifacts[l].text /\ text # {} BY <2>1
    <3> DEFINE w == Attach(NewTurn(s, "assistant", s.artifacts[l].text))
    <3>2. q = w BY <2>1, <3>1
    <3>w. /\ Sound(w) /\ Keeps(s, w)
          /\ w.context = [s.context EXCEPT !.lastAssistant = None] /\ w.buffer = s.buffer
          /\ \A d \in 1..Len(s.artifacts) : d # l => w.artifacts[d] = s.artifacts[d]
          /\ s.artifacts[l].role = "assistant"
      <4>1. Shown(s, s.context.lastAssistant) BY <2>1
      <4> HIDE DEF text, done, q
      <4> QED BY <4>1, ReplyAttached, Zenon
    <3> HIDE DEF q, text, done, w
    <3>3. /\ Sound(q) /\ Keeps(s, q)
          /\ q.context = [s.context EXCEPT !.lastAssistant = None] /\ q.buffer = s.buffer
          /\ \A d \in 1..Len(s.artifacts) : d # l => q.artifacts[d] = s.artifacts[d]
          /\ s.artifacts[l].role = "assistant"
      BY <3>2, <3>w
    <3>4. /\ q.context.fence = s.context.fence /\ q.context.user = None /\ q.context.assistant = None
          /\ q.context.lastAssistant = None /\ q.context.lastUser = s.context.lastUser
          /\ q.context.reserved = s.context.reserved
      BY <1>2, <3>3, Zenon DEF Contexts
    <3>5. LastInterrupted(q) BY <3>4 DEF LastInterrupted, Shown
    <3>6. LastSaid(q)
      <4>1. Shown(s, s.context.lastUser) => s.context.lastUser # l BY <1>3, <3>3 DEF LastSaid
      <4>2. s.context.lastUser = l => Shown(s, s.context.lastUser) BY <2>1
      <4>3. s.context.lastUser # None => q.artifacts[s.context.lastUser] = s.artifacts[s.context.lastUser]
        BY <1>2, <3>3, <4>1, <4>2, SoundParts, SMTT(30) DEF None
      <4> QED BY <1>3, <3>3, <3>4, <4>3 DEF LastSaid, Shown
    <3> QED BY <3>3, <3>4, <3>5, <3>6
  <2>2. CASE ~Shown(s, l) /\ s.context.draft = {}
    <3>1. q = s BY <2>2
    <3>2. Keeps(s, s) BY <1>2, ContextKeeps
    <3> HIDE DEF q, text, done
    <3>3. LastInterrupted(s) BY <2>2 DEF LastInterrupted
    <3> QED BY <3>1, <3>2, <3>3
  <2>3. CASE ~Shown(s, l) /\ s.context.draft # {}
    <3>1. q = NewTurn(s, "assistant", s.context.draft) BY <2>3
    <3> HIDE DEF q, text, done
    <3>2. /\ Sound(q) /\ Keeps(s, q) /\ q.context = s.context /\ q.buffer = s.buffer
          /\ q.artifacts = s.artifacts
      BY <1>2, <3>1, ReplyTurn, Zenon
    <3>3. LastInterrupted(q) BY <2>3, <3>2 DEF LastInterrupted, Shown
    <3>4. LastSaid(q) BY <3>2 DEF LastSaid, Shown, IsSettled
    <3> QED BY <3>2, <3>3, <3>4
  <2> HIDE DEF q, done, text
  <2> QED BY <2>1, <2>2, <2>3
<1> HIDE DEF q
<1>5. /\ q \in Conversations /\ q.context \in Contexts /\ q.buffer \in Buffers
      /\ q.context.lastUser \in 0..Len(q.artifacts) /\ q.buffer.assistant \subseteq {q.context.turn}
  BY <1>4, SoundParts
<1>6. /\ c \in Contexts /\ c.draft = {} /\ c.fence = q.context.fence /\ c.turn = q.context.turn
      /\ c.user = q.context.user /\ c.assistant = q.context.assistant
      /\ c.lastUser = q.context.lastUser /\ c.lastAssistant = q.context.lastAssistant
      /\ c.reserved = q.context.reserved
  <2>1. {} \in SUBSET Nat OBVIOUS
  <2> QED BY <1>5, <2>1, Zenon DEF Contexts, c
<1>7. Is(r, c, q.buffer, q.artifacts, q.turns)
  <2>1. r = [q EXCEPT !.context = c] BY DEF r, c
  <2> QED BY <1>5, <1>6, <2>1, WithContext
<1>8. Sound(r)
  <2>1. c.assistant # None => c.lastAssistant = None BY <1>4, <1>6
  <2>2. c.draft \subseteq {c.turn} BY <1>6
  <2> QED BY <1>4, <1>5, <1>6, <1>7, <2>1, <2>2, ContextSound
<1>9. /\ r \in Conversations /\ r.context = c /\ r.buffer = q.buffer /\ r.artifacts = q.artifacts
      /\ r.turns = q.turns
  BY <1>7 DEF Is
<1>10. Keeps(s, r)
  <2>1. HasSpeech(r) => HasSpeech(q) BY <1>6, <1>9 DEF HasSpeech, Shown
  <2>2. Keeps(q, r) BY <1>5, <1>9, <2>1, ContextKeeps
  <2> QED BY <1>4, <2>2, KeepsOn
<1>11. LastSaid(r) BY <1>4, <1>6, <1>9 DEF LastSaid, IsSettled, Shown
<1>12. LastInterrupted(r) BY <1>4, <1>6, <1>9 DEF LastInterrupted, Shown
<1>13. ~Open(r) /\ r.context.fence # "idle" /\ Closes(r) BY <1>4, <1>6, <1>9 DEF Open, Closes
<1> QED BY <1>1, <1>8, <1>10, <1>11, <1>12, <1>13 DEF Stable

-----------------------------------------------------------------------------
(* The turn is given up, as it is or after what is unfinished became turns. *)

LEMMA GivenUp ==
    ASSUME NEW s, Sound(s), ~Streaming(s, s.context.user), ~Streaming(s, s.context.assistant),
           LastInterrupted(s),
           NEW c \in Contexts, NEW r, Is(r, c, Silence, s.artifacts, s.turns),
           c.fence = "idle", c.turn = s.context.turn, c.draft = {}, c.user = None, c.assistant = None,
           c.lastAssistant = None, c.lastUser \in 0..Len(s.artifacts)
    PROVE  Stable(r) /\ Keeps(s, r)
<1>1. /\ r \in Conversations /\ r.context = c /\ r.buffer = Silence /\ r.artifacts = s.artifacts
      /\ r.turns = s.turns
  BY DEF Is
<1>2. Silence \in Buffers /\ Silence.user = {} /\ Silence.assistant = {} BY DEF Silence, Buffers
<1>3. Sound(r)
  <2>1. /\ ~Shown(s, c.user) /\ Silence.assistant \subseteq {c.turn} /\ c.draft \subseteq {c.turn}
    BY <1>2 DEF Shown
  <2>2. c.assistant # None => c.lastAssistant = None OBVIOUS
  <2> QED BY <1>2, <2>1, <2>2, ContextSound
<1>4. Keeps(s, r)
  <2>1. ~HasSpeech(r) BY <1>1, <1>2 DEF HasSpeech
  <2>2. s \in Conversations BY SoundParts
  <2> QED BY <1>1, <1>2, <2>1, <2>2, ContextKeeps
<1>5. LastSaid(r) /\ LastInterrupted(r) BY <1>1 DEF LastSaid, IsSettled, LastInterrupted, Shown
<1>6. ~Open(r) /\ Closes(r) BY <1>1 DEF Open, Closes
<1> QED BY <1>1, <1>3, <1>4, <1>5, <1>6 DEF Stable

\* The user's part of a reset, and the assistant's.
UserReset(s) ==
    LET u == s.context.user IN
    IF HasSpeech(s) /\ (Streaming(s, u) \/ ~Shown(s, u)) THEN SettleUser(s) ELSE s
AssistantReset(s) ==
    LET a == s.context.assistant
        cut == SettleAssistant(s, TRUE)
    IN IF ~Streaming(s, a) THEN s
       ELSE IF s.artifacts[a].text = {} THEN cut
       ELSE Attach(NewTurn(cut, "assistant", s.artifacts[a].text))

LEMMA ResetUser ==
    ASSUME NEW s, Stable(s)
    PROVE  LET r == UserReset(s)
           IN /\ Sound(r) /\ Keeps(s, r) /\ ~Streaming(r, r.context.user) /\ LastInterrupted(r)
              /\ r.context.turn = s.context.turn
<1> DEFINE u == s.context.user
           r == UserReset(s)
<1>1. Sound(s) /\ LastInterrupted(s) BY DEF Stable
<1>2. s \in Conversations /\ CurrentUser(s) BY <1>1, SoundParts
<1>3. CASE HasSpeech(s) /\ (Streaming(s, u) \/ ~Shown(s, u))
  <2>1. r = SettleUser(s) BY <1>3 DEF UserReset
  <2>2. /\ Keeps(s, SettleUser(s)) /\ SettleUser(s).context.user = None
        /\ SettleUser(s).context.lastAssistant = s.context.lastAssistant
        /\ SettleUser(s).context.turn = s.context.turn
        /\ ~Shown(s, u) => SettleUser(s).artifacts = s.artifacts
    BY <1>1, SettleUserResult
  <2>3. Sound(SettleUser(s)) BY <1>1, SettleUserSound
  <2>4. LastInterrupted(SettleUser(s))
    <3>1. CASE Open(s) BY <2>2, <3>1 DEF Stable, LastInterrupted, Shown
    <3>2. CASE ~Open(s)
      <4>1. ~Shown(s, u) BY <3>2 DEF Stable, Closes, Shown
      <4> QED BY <1>1, <2>2, <4>1 DEF LastInterrupted, Shown
    <3> QED BY <3>1, <3>2
  <2>5. ~Streaming(SettleUser(s), SettleUser(s).context.user) BY <2>2 DEF Streaming, Shown
  <2> QED BY <2>1, <2>2, <2>3, <2>4, <2>5
<1>4. CASE ~(HasSpeech(s) /\ (Streaming(s, u) \/ ~Shown(s, u)))
  <2>1. r = s BY <1>4 DEF UserReset
  <2>2. ~Streaming(s, u) BY <1>2, <1>4, ShownIsSpeech DEF Streaming
  <2>3. Keeps(s, s) BY <1>2, ContextKeeps
  <2> QED BY <1>1, <2>1, <2>2, <2>3
<1> QED BY <1>3, <1>4

LEMMA ResetAssistant ==
    ASSUME NEW s, Sound(s), ~Streaming(s, s.context.user), LastInterrupted(s)
    PROVE  LET r == AssistantReset(s)
           IN /\ Sound(r) /\ Keeps(s, r) /\ ~Streaming(r, r.context.user)
              /\ ~Streaming(r, r.context.assistant) /\ LastInterrupted(r)
<1> DEFINE a == s.context.assistant
           cut == SettleAssistant(s, TRUE)
           w == Attach(NewTurn(cut, "assistant", s.artifacts[a].text))
           r == AssistantReset(s)
<1>0. r = IF ~Streaming(s, a) THEN s ELSE IF s.artifacts[a].text = {} THEN cut ELSE w
  BY DEF AssistantReset
<1>1. CASE ~Streaming(s, a)
  <2>1. r = s BY <1>0, <1>1
  <2>2. s \in Conversations BY SoundParts
  <2>3. Keeps(s, s) BY <2>2, ContextKeeps
  <2> QED BY <1>1, <2>1, <2>3
<1>2. ASSUME Streaming(s, a)
      PROVE  /\ Sound(cut) /\ Keeps(s, cut) /\ cut.context.assistant = None
             /\ cut.context.user = s.context.user /\ cut \in Conversations /\ cut.context \in Contexts
             /\ \A b \in 1..Len(s.artifacts) : b # a => cut.artifacts[b] = s.artifacts[b]
             /\ IF s.artifacts[a].text # {}
                THEN /\ cut.context.lastAssistant = a /\ Shown(cut, a)
                     /\ cut.artifacts[a].text = s.artifacts[a].text
                ELSE cut.context.lastAssistant = None
             /\ s.context.user # a /\ s.context.user \in 0..Len(s.artifacts)
             /\ Len(cut.artifacts) = Len(s.artifacts)
  <2>1. TRUE \in BOOLEAN OBVIOUS
  <2>2. Shown(s, a) /\ a # None BY <1>2 DEF Streaming, Shown
  <2>3. /\ Sound(cut) /\ cut.context.assistant = None /\ cut.context.user = s.context.user
        /\ \A b \in 1..Len(s.artifacts) : b # a => cut.artifacts[b] = s.artifacts[b]
        /\ Len(cut.artifacts) = Len(s.artifacts)
        /\ IF s.artifacts[a].text # {}
           THEN /\ cut.context.lastAssistant = a /\ a \in 1..Len(s.artifacts)
                /\ cut.artifacts[a] = Closed(s.artifacts[a], TRUE)
           ELSE cut.context.lastAssistant = s.context.lastAssistant
    BY <2>1, <2>2, SettleAssistantSound
  <2>4. Keeps(s, cut) BY <2>1, SettleAssistantKeeps
  <2> HIDE DEF cut
  <2>5. cut \in Conversations /\ cut.context \in Contexts BY <2>3, SoundParts
  <2>6. s.context.user # a BY <1>2
  <2>7. s.context.user \in 0..Len(s.artifacts) BY SoundParts
  <2>8. s.context.lastAssistant = None BY <2>2, SoundParts DEF CurrentAssistant
  <2>9. ASSUME s.artifacts[a].text # {}
        PROVE  Shown(cut, a) /\ cut.artifacts[a].text = s.artifacts[a].text
    <3>1. a \in 1..Len(s.artifacts) /\ cut.artifacts[a] = Closed(s.artifacts[a], TRUE) BY <2>3, <2>9
    <3>2. s.artifacts[a] \in Artifacts BY <3>1, SoundParts, ElementOK
    <3>3. /\ Closed(s.artifacts[a], TRUE).there = s.artifacts[a].there
          /\ Closed(s.artifacts[a], TRUE).text = s.artifacts[a].text
      BY <2>1, <3>2, ClosedOK, Zenon
    <3> QED BY <2>2, <3>1, <3>3 DEF Shown
  <2> QED BY <2>3, <2>4, <2>5, <2>6, <2>7, <2>8, <2>9
<1>3. CASE Streaming(s, a) /\ s.artifacts[a].text = {}
  <2>1. r = cut BY <1>0, <1>3
  <2> HIDE DEF cut, r, w
  <2>2. /\ Sound(cut) /\ Keeps(s, cut) /\ cut.context.assistant = None
        /\ cut.context.user = s.context.user /\ cut.context.lastAssistant = None
        /\ s.context.user # a /\ s.context.user \in 0..Len(s.artifacts)
        /\ \A b \in 1..Len(s.artifacts) : b # a => cut.artifacts[b] = s.artifacts[b]
    BY <1>2, <1>3
  <2>3. ~Streaming(cut, cut.context.user)
    <3>1. Len(s.artifacts) \in Nat BY SoundParts
    <3> QED BY <2>2, <3>1 DEF Streaming, Shown, None
  <2>4. ~Streaming(cut, cut.context.assistant) BY <2>2 DEF Streaming, Shown
  <2>5. LastInterrupted(cut) BY <2>2 DEF LastInterrupted, Shown
  <2> QED BY <2>1, <2>2, <2>3, <2>4, <2>5 DEF r
<1>4. CASE Streaming(s, a) /\ s.artifacts[a].text # {}
  <2>1. r = w BY <1>0, <1>4
  <2> DEFINE l == cut.context.lastAssistant
             v == Attach(NewTurn(cut, "assistant", cut.artifacts[l].text))
  <2> HIDE DEF cut, r
  <2>2. /\ Sound(cut) /\ Keeps(s, cut) /\ cut.context.assistant = None /\ cut.context \in Contexts
        /\ cut.context.user = s.context.user /\ l = a /\ Shown(cut, a)
        /\ cut.artifacts[a].text = s.artifacts[a].text
        /\ s.context.user # a /\ s.context.user \in 0..Len(s.artifacts)
        /\ \A b \in 1..Len(s.artifacts) : b # a => cut.artifacts[b] = s.artifacts[b]
        /\ Len(cut.artifacts) = Len(s.artifacts)
    BY <1>2, <1>4
  <2>3. w = v BY <2>2
  <2>4. /\ Sound(v) /\ Keeps(cut, v)
        /\ v.context = [cut.context EXCEPT !.lastAssistant = None]
        /\ \A d \in 1..Len(cut.artifacts) : d # l => v.artifacts[d] = cut.artifacts[d]
    <3>1. Shown(cut, cut.context.lastAssistant) BY <2>2
    <3>2. Sound(cut) BY <2>2
    <3> QED BY <3>1, <3>2, ReplyAttached, Zenon
  <2> HIDE DEF v, w, a
  <2>5. /\ v.context.lastAssistant = None /\ v.context.assistant = None
        /\ v.context.user = s.context.user
    BY <2>2, <2>4, Zenon DEF Contexts
  <2>6. ~Streaming(v, v.context.user)
    <3>1. Len(s.artifacts) \in Nat BY SoundParts
    <3>2. \A d \in 1..Len(s.artifacts) : d # a => v.artifacts[d] = s.artifacts[d] BY <2>2, <2>4
    <3> QED BY <2>2, <2>5, <3>1, <3>2 DEF Streaming, Shown, None
  <2>7. ~Streaming(v, v.context.assistant) BY <2>5 DEF Streaming, Shown
  <2>8. LastInterrupted(v) BY <2>5 DEF LastInterrupted, Shown
  <2>9. Keeps(s, v) BY <2>2, <2>4, KeepsOn
  <2>10. Sound(r) /\ Keeps(s, r) /\ ~Streaming(r, r.context.user)
         /\ ~Streaming(r, r.context.assistant) /\ LastInterrupted(r)
    BY <2>1, <2>3, <2>4, <2>6, <2>7, <2>8, <2>9
  <2> QED BY <2>10 DEF r
<1> QED BY <1>1, <1>3, <1>4

LEMMA ResetStable ==
    ASSUME NEW s, Stable(s)
    PROVE  Stable(Reset(s)) /\ Keeps(s, Reset(s)) /\ Reset(s).context.fence = "idle"
<1> DEFINE u == s.context.user
           said == UserReset(s)
           done == AssistantReset(said)
           r == [Disown(done) EXCEPT !.context.draft = {}]
           d == Disown(done)
           c == [d.context EXCEPT !.draft = {}]
<1>1. Reset(s) = r BY Zenon DEF Reset, UserReset, AssistantReset
<1>2. Sound(said) /\ Keeps(s, said) /\ ~Streaming(said, said.context.user) /\ LastInterrupted(said)
  BY ResetUser
<1> HIDE DEF said
<1>3. /\ Sound(done) /\ Keeps(said, done) /\ ~Streaming(done, done.context.user)
      /\ ~Streaming(done, done.context.assistant) /\ LastInterrupted(done)
  BY <1>2, ResetAssistant, Zenon
<1> HIDE DEF done
<1>4. done \in Conversations /\ done.context \in Contexts BY <1>3, SoundParts
<1>5. Is(d, Disowned(done.context), Silence, done.artifacts, done.turns) BY <1>4, DisownFacts
<1>6. LET e == Disowned(done.context) IN
      /\ e \in Contexts /\ e.fence = "idle" /\ e.turn = done.context.turn /\ e.user = None
      /\ e.assistant = None /\ e.lastUser = None /\ e.lastAssistant = None
  BY <1>4, DisownedOK, Zenon
<1>7. /\ d \in Conversations /\ d.context \in Contexts /\ d.buffer = Silence
      /\ d.artifacts = done.artifacts /\ d.turns = done.turns
      /\ d.context.fence = "idle" /\ d.context.turn = done.context.turn /\ d.context.user = None
      /\ d.context.assistant = None /\ d.context.lastUser = None /\ d.context.lastAssistant = None
  BY <1>5, <1>6 DEF Is
<1> HIDE DEF d
<1>8. /\ c \in Contexts /\ c.draft = {} /\ c.fence = "idle" /\ c.turn = done.context.turn
      /\ c.user = None /\ c.assistant = None /\ c.lastUser = None /\ c.lastAssistant = None
  <2>1. {} \in SUBSET Nat OBVIOUS
  <2> QED BY <1>7, <2>1, Zenon DEF Contexts
<1>9. Is(r, c, Silence, done.artifacts, done.turns)
  <2>1. r = [d EXCEPT !.context = c] BY DEF d
  <2> HIDE DEF r, c
  <2> QED BY <1>7, <1>8, <2>1, WithContext
<1> HIDE DEF r, c
<1>10. c.lastUser \in 0..Len(done.artifacts) BY <1>3, <1>8, SoundParts DEF None
<1>11. Stable(r) /\ Keeps(done, r) BY <1>3, <1>8, <1>9, <1>10, GivenUp
<1>12. Keeps(s, r) BY <1>2, <1>3, <1>11, KeepsOn
<1>13. r.context.fence = "idle" BY <1>8, <1>9 DEF Is
<1> QED BY <1>1, <1>11, <1>12, <1>13


LEMMA ForgetFenceStable ==
    ASSUME NEW s, Stable(s)
    PROVE  Stable(ForgetFence(s)) /\ Keeps(s, ForgetFence(s)) /\ ~IsSettled(ForgetFence(s))
<1> DEFINE r == ForgetFence(s)
           none == [s.context EXCEPT !.draft = {}]
           gone == Forgotten(s.context)
<1>1. Sound(s) /\ LastInterrupted(s) BY DEF Stable
<1>2. s \in Conversations /\ s.context \in Contexts /\ s.context.lastUser \in 0..Len(s.artifacts)
  BY <1>1, SoundParts
<1>3. CASE Open(s)
  <2>1. Is(r, none, s.buffer, s.artifacts, s.turns) BY <1>2, <1>3, ForgetFenceFacts
  <2>2. /\ none \in Contexts /\ none.draft = {} /\ none.fence = s.context.fence
        /\ none.turn = s.context.turn /\ none.reserved = s.context.reserved
        /\ none.user = s.context.user /\ none.assistant = s.context.assistant
        /\ none.lastUser = s.context.lastUser /\ none.lastAssistant = s.context.lastAssistant
    <3>1. {} \in SUBSET Nat OBVIOUS
    <3> QED BY <1>2, <3>1, Zenon DEF Contexts
  <2> HIDE DEF r, none
  <2>3. none.draft \subseteq {none.turn} BY <2>2
  <2>4. Stable(r) /\ Keeps(s, r) BY <2>1, <2>2, <2>3, SameTurn
  <2>5. ~IsSettled(r) BY <1>3, <2>1, <2>2 DEF Is, Open, IsSettled
  <2> QED BY <2>4, <2>5 DEF r
<1>4. CASE ~Open(s)
  <2>1. Is(r, gone, Silence, s.artifacts, s.turns) BY <1>2, <1>4, ForgetFenceFacts
  <2>2. /\ gone \in Contexts /\ gone.draft = {} /\ gone.fence = "idle" /\ gone.lastAssistant = None
        /\ gone.turn = s.context.turn /\ gone.user = s.context.user
        /\ gone.lastUser = s.context.lastUser /\ gone.assistant = s.context.assistant
    BY <1>2, ForgottenOK, Zenon
  <2> HIDE DEF r, gone
  <2>3. s.context.user = None /\ s.context.assistant = None BY <1>4 DEF Stable, Closes
  <2>4. ~Streaming(s, s.context.user) /\ ~Streaming(s, s.context.assistant)
    BY <2>3 DEF Streaming, Shown
  <2>5. /\ gone.user = None /\ gone.assistant = None /\ gone.lastUser \in 0..Len(s.artifacts)
    BY <1>2, <2>2, <2>3
  <2>6. Stable(r) /\ Keeps(s, r) BY <1>1, <2>1, <2>2, <2>4, <2>5, GivenUp
  <2>7. ~IsSettled(r) BY <2>1, <2>2 DEF Is, IsSettled
  <2> QED BY <2>6, <2>7 DEF r
<1> QED BY <1>3, <1>4

\* The turns of s are turns of r, with as much of what the user said.
TurnsIn(s, r) ==
    \A t \in 1..Len(s.turns) :
       t \in 1..Len(r.turns) /\ r.turns[t].role = s.turns[t].role /\ s.turns[t].text \subseteq r.turns[t].text

\* Of a cleared store only what is settled is left; no turn says less.
LEMMA ClearStoreStable ==
    ASSUME NEW s, Stable(s), NEW keeps \in BOOLEAN, keeps => ~IsSettled(s)
    PROVE  LET r == ClearStore(s, keeps)
           IN /\ Stable(r) /\ TurnsIn(s, r)
              /\ \A shown : Once(s, shown) => Once(r, shown)
<1> DEFINE r == ClearStore(s, keeps)
           A == Left(s.artifacts, keeps)
           T == Dropped(s.turns, keeps)
<1>1. Sound(s) BY DEF Stable
<1>2. /\ s \in Conversations /\ s.context \in Contexts /\ Pointers(s) /\ Len(s.artifacts) \in Nat
      /\ Len(s.turns) \in Nat /\ s.artifacts \in Seq(Artifacts)
      /\ CurrentUser(s) /\ CurrentAssistant(s) /\ LastAssistant(s)
      /\ s.context.user \in 0..Len(s.artifacts) /\ s.context.assistant \in 0..Len(s.artifacts)
      /\ s.context.lastUser \in 0..Len(s.artifacts) /\ s.context.lastAssistant \in 0..Len(s.artifacts)
      /\ SettledAttached(s.artifacts, s.turns, s.context.lastAssistant)
      /\ AttachedOnce(s.artifacts, s.turns) /\ s.context.draft \subseteq {s.context.turn}
      /\ RepliesOfTurn(s.artifacts) /\ TurnsApart(s.turns)
  BY <1>1, SoundParts
<1>3. /\ Is(r, s.context, Silence, A, T) /\ Len(A) = Len(s.artifacts) /\ Len(T) = Len(s.turns)
      /\ \A a \in 1..Len(s.artifacts) :
            A[a] = IF keeps /\ s.artifacts[a].settled THEN s.artifacts[a] ELSE Removed
      /\ \A t \in 1..Len(s.turns) :
            T[t].text = s.turns[t].text /\ T[t].role = s.turns[t].role /\ T[t].of = s.turns[t].of
  BY <1>2, ClearStoreFacts
<1> HIDE DEF r, A, T
<1>4. /\ r \in Conversations /\ r.context = s.context /\ r.buffer = Silence /\ r.artifacts = A /\ r.turns = T
  BY <1>3 DEF Is
<1>5. Silence.user = {} /\ Silence.assistant = {} BY DEF Silence
<1>6. Removed.there = FALSE /\ Removed.settled = TRUE /\ Removed.attached = None BY DEF Removed
<1>7. \A a \in 1..Len(s.artifacts) :
         A[a].there => keeps /\ s.artifacts[a].settled /\ A[a] = s.artifacts[a]
  BY <1>3, <1>6
<1>8. \A a \in 0..Len(s.artifacts) :
         Shown(r, a) => Shown(s, a) /\ keeps /\ s.artifacts[a].settled /\ A[a] = s.artifacts[a]
  BY <1>2, <1>4, <1>7 DEF Shown, None
<1>9. \A a \in 1..Len(s.artifacts) : A[a].attached # None => A[a] = s.artifacts[a]
  BY <1>3, <1>6
<1>10. CurrentUser(r) BY <1>2, <1>4, <1>8, Zenon DEF CurrentUser
<1>11. CurrentAssistant(r) BY <1>2, <1>4, <1>8, Zenon DEF CurrentAssistant
<1>12. LastAssistant(r) BY <1>2, <1>4, <1>8 DEF LastAssistant
<1>13. StreamsCurrent(A, s.context.user, s.context.assistant) BY <1>3, <1>7 DEF StreamsCurrent
<1>14. AttachedOnce(A, T)
  <2>1. \A a \in 1..Len(s.artifacts) : s.artifacts[a].attached # None =>
           /\ s.artifacts[a].attached \in 1..Len(s.turns)
           /\ s.turns[s.artifacts[a].attached].role = s.artifacts[a].role
           /\ \A b \in 1..Len(s.artifacts) : s.artifacts[b].attached = s.artifacts[a].attached => b = a
    BY <1>2 DEF AttachedOnce
  <2> SUFFICES ASSUME NEW a \in 1..Len(s.artifacts), A[a].attached # None
               PROVE  /\ A[a].attached \in 1..Len(s.turns) /\ T[A[a].attached].role = A[a].role
                      /\ \A b \in 1..Len(s.artifacts) : A[b].attached = A[a].attached => b = a
    BY <1>3 DEF AttachedOnce
  <2>2. A[a] = s.artifacts[a] BY <1>9
  <2>3. ASSUME NEW b \in 1..Len(s.artifacts), A[b].attached = A[a].attached
        PROVE  s.artifacts[b].attached = s.artifacts[a].attached
    BY <1>9, <2>2, <2>3
  <2>4. s.artifacts[a].attached # None BY <2>2
  <2>5. T[s.artifacts[a].attached].role = s.artifacts[a].role BY <1>3, <2>1, <2>4
  <2> QED BY <2>1, <2>2, <2>3, <2>4, <2>5
<1>15. SettledAttached(A, T, s.context.lastAssistant)
  <2> SUFFICES ASSUME NEW a \in 1..Len(s.artifacts), A[a].there, A[a].settled
               PROVE  IF A[a].attached # None THEN T[A[a].attached].text = A[a].text
                      ELSE A[a].role = "assistant" /\ (A[a].interrupted \/ s.context.lastAssistant = a)
    BY <1>3 DEF SettledAttached
  <2>1. A[a] = s.artifacts[a] BY <1>7
  <2>2. s.artifacts[a].attached # None => s.artifacts[a].attached \in 1..Len(s.turns)
    BY <1>2 DEF AttachedOnce
  <2>3. s.artifacts[a].attached # None => T[s.artifacts[a].attached].text = s.turns[s.artifacts[a].attached].text
    BY <1>3, <2>2
  <2> QED BY <1>2, <2>1, <2>3 DEF SettledAttached
<1>16. RepliesOfTurn(A) BY <1>2, <1>3, <1>7 DEF RepliesOfTurn
<1>17. TurnsApart(T) BY <1>2, <1>3 DEF TurnsApart
<1>18. Typed(r) BY <1>2, <1>3, <1>4 DEF Typed, Pointers
<1>19. Sound(r)
  BY <1>2, <1>4, <1>5, <1>10, <1>11, <1>12, <1>13, <1>14, <1>15, <1>16, <1>17, <1>18 DEF Sound, Attached, Apart
<1>20. LastSaid(r) BY <1>2, <1>4, <1>8 DEF LastSaid, IsSettled
<1>21. LastInterrupted(r)
  <2>1. LastInterrupted(s) BY DEF Stable
  <2> QED BY <1>2, <1>4, <1>8, <2>1 DEF LastInterrupted
<1>22. /\ Open(r) => r.context.lastUser = None /\ r.context.lastAssistant = None
       /\ ~Open(r) => Closes(r)
  BY <1>4 DEF Stable, Open, Closes
<1>23. Stable(r) BY <1>4, <1>19, <1>20, <1>21, <1>22 DEF Stable
<1>24. TurnsIn(s, r) BY <1>3, <1>4 DEF TurnsIn
<1>25. ASSUME NEW shown, Once(s, shown) PROVE Once(r, shown)
  <2>1. TurnedOnceIn(s.turns, shown) BY <1>25 DEF Once
  <2>2. TurnedOnceIn(T, shown) BY <1>3, <2>1 DEF TurnedOnceIn
  <2>3. ~HasSpeech(r) BY <1>4, <1>5 DEF HasSpeech
  <2> QED BY <1>4, <2>2, <2>3 DEF Once
<1> QED BY <1>23, <1>24, <1>25 DEF r

LEMMA EmptiedStable ==
    ASSUME NEW s, Stable(s), NEW keeps \in BOOLEAN
    PROVE  LET r == Emptied(s, keeps)
           IN /\ Stable(r) /\ TurnsIn(s, r)
              /\ \A shown : Once(s, shown) => Once(r, shown)
<1> DEFINE f == ForgetFence(s)
           d == ClearStore(f, keeps)
           r == Reset(d)
<1>1. Emptied(s, keeps) = r BY DEF Emptied
<1>2. Stable(f) /\ Keeps(s, f) /\ ~IsSettled(f) BY ForgetFenceStable
<1> HIDE DEF f
<1>3. Stable(d) /\ TurnsIn(f, d) /\ \A shown : Once(f, shown) => Once(d, shown)
  BY <1>2, ClearStoreStable
<1> HIDE DEF d
<1>4. Stable(r) /\ Keeps(d, r) BY <1>3, ResetStable
<1> HIDE DEF r
<1>5. TurnsIn(s, f) /\ TurnsIn(d, r) BY <1>2, <1>4 DEF Keeps, KeptIn, TurnsIn
<1>6. TurnsIn(s, r) BY <1>3, <1>5 DEF TurnsIn
<1>7. \A shown : Once(s, shown) => Once(r, shown) BY <1>2, <1>3, <1>4 DEF Keeps
<1> QED BY <1>1, <1>4, <1>6, <1>7

\* Where nothing streams, all that the user said is in turns.
LEMMA AllTurned ==
    ASSUME NEW s, Stable(s), s.context.user = None, NEW r \in Conversations, TurnsIn(s, r)
    PROVE  Kept(s) \subseteq Kept(r)
<1>1. Sound(s) BY DEF Stable
<1>2. /\ s \in Conversations /\ AttachedOnce(s.artifacts, s.turns)
      /\ StreamsCurrent(s.artifacts, None, s.context.assistant)
      /\ SettledAttached(s.artifacts, s.turns, s.context.lastAssistant)
  BY <1>1, SoundParts
<1> SUFFICES ASSUME NEW x \in Kept(s) PROVE x \in Kept(r) OBVIOUS
<1>3. \E t \in 1..Len(s.turns) : s.turns[t].role = "user" /\ x \in s.turns[t].text
  <2>1. CASE \E a \in 1..Len(s.artifacts) :
                s.artifacts[a].there /\ s.artifacts[a].role = "user" /\ x \in s.artifacts[a].text
    <3>1. PICK a \in 1..Len(s.artifacts) :
                  s.artifacts[a].there /\ s.artifacts[a].role = "user" /\ x \in s.artifacts[a].text
      BY <2>1
    <3>2. s.artifacts[a].settled BY <1>2, <3>1 DEF StreamsCurrent, None
    <3>3. s.artifacts[a].attached # None /\ s.turns[s.artifacts[a].attached].text = s.artifacts[a].text
      BY <1>2, <3>1, <3>2 DEF SettledAttached
    <3>4. /\ s.artifacts[a].attached \in 1..Len(s.turns)
          /\ s.turns[s.artifacts[a].attached].role = "user"
      BY <1>2, <3>1, <3>3 DEF AttachedOnce
    <3> QED BY <3>1, <3>3, <3>4
  <2> QED BY <1>2, <2>1, InKept
<1>4. PICK t \in 1..Len(s.turns) : s.turns[t].role = "user" /\ x \in s.turns[t].text BY <1>3
<1>5. t \in 1..Len(r.turns) /\ r.turns[t].role = "user" /\ x \in r.turns[t].text BY <1>4 DEF TurnsIn
<1> QED BY <1>5, InKept

-----------------------------------------------------------------------------
(* The handlers. *)

\* A voice turn that begins where none is open.
LEMMA BeginIdle ==
    ASSUME NEW s, Sound(s), s.context.user = None, s.context.assistant = None, s.context.draft = {},
           s.buffer.assistant = {}, LastInterrupted(s),
           NEW c \in Contexts, c.turn = s.context.turn + 1, c.user = None, c.assistant = None,
           c.lastUser = None, c.lastAssistant = None, c.draft = {},
           NEW r, Is(r, c, s.buffer, s.artifacts, s.turns)
    PROVE  Sound(r)
<1>1. s.buffer \in Buffers /\ 0 \in 0..Len(s.artifacts) BY SoundParts
<1>2. ~Streaming(s, s.context.user) /\ ~Streaming(s, s.context.assistant) BY DEF Streaming, Shown
<1>3. c.lastUser \in 0..Len(s.artifacts) BY <1>1 DEF None
<1>4. ~Shown(s, c.user) BY DEF Shown
<1>5. s.buffer.assistant \subseteq {c.turn} /\ c.draft \subseteq {c.turn} OBVIOUS
<1> QED BY <1>1, <1>2, <1>3, <1>4, <1>5, ContextSound

\* The turn an output of the assistant is part of.
AssistantTurn(s) == Begin(Prepare(s))

LEMMA AssistantTurnSound ==
    ASSUME NEW s, Stable(s), ~Fenced(s)
    PROVE  LET r == AssistantTurn(s)
           IN /\ Sound(r) /\ Keeps(s, r) /\ Open(r)
              /\ r.context.lastUser = None /\ r.context.lastAssistant = None
<1> DEFINE p == Prepare(s)
           r == Begin(p)
<1>1. Sound(s) /\ LastInterrupted(s) BY DEF Stable
<1>2. /\ s \in Conversations /\ s.context \in Contexts /\ s.buffer \in Buffers
      /\ s.context.turn \in Nat /\ CurrentUser(s) /\ Len(s.artifacts) \in Nat
      /\ s.context.user \in Nat
      /\ s.buffer.assistant \subseteq {s.context.turn} /\ s.context.draft \subseteq {s.context.turn}
  BY <1>1, SoundParts, ContextOK
<1>3. Keeps(s, s) BY <1>2, ContextKeeps
<1>4. Open(s) => s.context.lastUser = None /\ s.context.lastAssistant = None BY DEF Stable
<1>5. CASE p = s /\ Open(s)
  <2>1. r = s BY <1>5 DEF Begin
  <2> HIDE DEF p, r
  <2> QED BY <1>1, <1>3, <1>4, <1>5, <2>1 DEF AssistantTurn, r, p
<1>6. CASE p = s /\ ~Open(s)
  <2> DEFINE c == Begun(s.context)
  <2>1. Closes(s) BY <1>6 DEF Stable
  <2>2. ~IsSettled(s)
    <3>1. ~Streaming(s, s.context.assistant) BY <2>1 DEF Closes, Streaming, Shown
    <3>2. ASSUME s.context.queued PROVE FALSE
      <4>1. Is(p, Prepared(c, IF Streaming(s, c.user) THEN c.user ELSE None),
               [s.buffer EXCEPT !.assistant = {}], s.artifacts, s.turns)
        BY <1>2, <1>6, <3>1, <3>2, PrepareFacts
      <4>2. c \in Contexts /\ c.user = None BY <1>2, BegunOK, Zenon
      <4>3. None \in Nat BY DEF None
      <4>4. Prepared(c, None).queued = FALSE BY <4>2, <4>3, PreparedOK, Zenon
      <4>5. p.context.queued = FALSE BY <4>1, <4>2, <4>4 DEF Is
      <4> QED BY <1>6, <3>2, <4>5
    <3> QED BY <3>2 DEF Fenced
  <2>3. s.context.fence = "idle"
    <3>1. s.context.fence \in {"idle", "open", "completed", "interrupted"} BY <1>2, ContextOK
    <3> QED BY <1>6, <2>2, <3>1 DEF Open, IsSettled
  <2>4. s.buffer = Silence /\ s.buffer.user = {} /\ s.buffer.assistant = {}
    BY <2>3 DEF Stable, Silence
  <2>5. Is(r, c, s.buffer, s.artifacts, s.turns) BY <1>2, <1>6, BeginFacts, Zenon
  <2>6. /\ c \in Contexts /\ c.fence = "open" /\ c.turn = s.context.turn + 1 /\ c.user = None
        /\ c.assistant = None /\ c.lastUser = None /\ c.lastAssistant = None
        /\ c.draft = s.context.draft
    BY <1>2, BegunOK, Zenon
  <2> HIDE DEF r, c, p
  <2>7. Sound(r) BY <1>1, <2>1, <2>4, <2>5, <2>6, BeginIdle DEF Closes
  <2>8. /\ r \in Conversations /\ r.context = c /\ r.buffer = s.buffer /\ r.artifacts = s.artifacts
        /\ r.turns = s.turns
    BY <2>5 DEF Is
  <2>9. Keeps(s, r)
    <3>1. ~HasSpeech(r) BY <2>4, <2>8 DEF HasSpeech
    <3> QED BY <1>2, <2>8, <3>1, ContextKeeps
  <2> QED BY <2>6, <2>7, <2>8, <2>9 DEF AssistantTurn, Open, r, p
<1>7. CASE s.context.queued /\ ~Streaming(s, s.context.assistant)
  <2> DEFINE c == IF Open(s) THEN s.context ELSE Begun(s.context)
             u == IF Streaming(s, c.user) THEN c.user ELSE None
             d == Prepared(c, u)
             b == [s.buffer EXCEPT !.assistant = {}]
  <2>1. Is(p, d, b, s.artifacts, s.turns) BY <1>2, <1>7, PrepareFacts
  <2>2. /\ c \in Contexts /\ c.fence = "open" /\ c.reserved = s.context.reserved
        /\ c.draft = s.context.draft /\ c.lastUser = None
        /\ IF Open(s) THEN c.user = s.context.user /\ c.turn = s.context.turn
                      ELSE c.user = None /\ c.turn = s.context.turn + 1
    <3>1. CASE Open(s) BY <1>2, <1>4, <3>1 DEF Open
    <3>2. CASE ~Open(s)
      <4>1. LET e == Begun(s.context) IN
            /\ e \in Contexts /\ e.fence = "open" /\ e.reserved = s.context.reserved
            /\ e.draft = s.context.draft /\ e.lastUser = None /\ e.user = None
            /\ e.turn = s.context.turn + 1
        BY <1>2, BegunOK, Zenon
      <4> QED BY <3>2, <4>1
    <3> QED BY <3>1, <3>2
  <2>3. b \in Buffers /\ b.user = s.buffer.user /\ b.assistant = {}
    <3>1. {} \in SUBSET Nat OBVIOUS
    <3> QED BY <1>2, <3>1, Zenon DEF Buffers
  <2> HIDE DEF c, b
  <2>4. u \in Nat BY <1>2, <2>2 DEF None
  <2>5. /\ d \in Contexts /\ d.queued = FALSE /\ d.assistant = None /\ d.lastAssistant = None
        /\ d.user = u /\ d.fence = c.fence /\ d.turn = c.turn /\ d.reserved = c.reserved
        /\ d.draft = c.draft /\ d.lastUser = c.lastUser
    BY <2>2, <2>4, PreparedOK, Zenon
  <2> HIDE DEF p, d
  <2>6. u = s.context.user \/ (u = None /\ ~Streaming(s, s.context.user))
    <3>1. CASE Open(s) BY <2>2, <3>1
    <3>2. CASE ~Open(s)
      <4>1. s.context.user = None BY <3>2 DEF Stable, Closes
      <4> QED BY <2>2, <3>2, <4>1 DEF Streaming, Shown
    <3> QED BY <3>1, <3>2
  <2>7. d.draft \subseteq {d.turn}
    <3>1. CASE Open(s) BY <1>2, <2>2, <2>5, <3>1
    <3>2. CASE ~Open(s) BY <2>2, <2>5, <3>2 DEF Stable, Closes
    <3> QED BY <3>1, <3>2
  <2>8. Sound(p)
    <3>1. d.lastUser \in 0..Len(s.artifacts) BY <1>2, <2>2, <2>5 DEF None
    <3>2. b.assistant \subseteq {d.turn} /\ (Shown(s, d.user) => b.user = s.buffer.user) BY <2>3
    <3>3. d.user = s.context.user \/ (d.user = None /\ ~Streaming(s, s.context.user)) BY <2>5, <2>6
    <3> QED BY <1>1, <1>7, <2>1, <2>3, <2>5, <2>7, <3>1, <3>2, <3>3, ContextSound
  <2>9. /\ p \in Conversations /\ p.context = d /\ p.buffer = b /\ p.artifacts = s.artifacts
        /\ p.turns = s.turns
    BY <2>1 DEF Is
  <2>10. Keeps(s, p)
    <3>1. HasSpeech(p) => HasSpeech(s)
      <4>1. Shown(s, s.context.user) => Streaming(s, s.context.user)
        BY <1>2 DEF CurrentUser, Streaming
      <4>2. Shown(p, u) <=> Shown(s, u) BY <2>9 DEF Shown
      <4>3. CASE u = s.context.user
        BY <2>2, <2>3, <2>5, <2>9, <4>2, <4>3 DEF HasSpeech
      <4>4. CASE u = None /\ ~Streaming(s, s.context.user)
        <5>1. ~Shown(p, p.context.user) BY <2>5, <2>9, <4>4 DEF Shown
        <5> QED BY <2>2, <2>3, <2>5, <2>9, <4>1, <4>4, <5>1 DEF HasSpeech
      <4> QED BY <2>6, <4>3, <4>4
    <3> QED BY <1>2, <2>3, <2>9, <3>1, ContextKeeps
  <2>11. Open(p) BY <2>2, <2>5, <2>9 DEF Open
  <2>12. r = p BY <2>11 DEF Begin
  <2> QED BY <2>2, <2>5, <2>8, <2>9, <2>10, <2>11, <2>12 DEF AssistantTurn, p
<1>8. Streaming(s, s.context.assistant) => Open(s) BY DEF Stable, Closes, Streaming, Shown
<1>9. ~s.context.queued \/ Streaming(s, s.context.assistant) => p = s BY DEF Prepare
<1> QED BY <1>5, <1>6, <1>7, <1>9


LEMMA OpenStable ==
    ASSUME NEW s, Sound(s), Open(s), s.context.lastUser = None, s.context.lastAssistant = None
    PROVE  Stable(s)
  BY DEF Stable, Open, LastSaid, LastInterrupted, IsSettled, Shown

\* Everything that an output may do to its turn.
LEMMA OutputStable ==
    ASSUME NEW s, Stable(s), ~Fenced(s)
    PROVE  LET m == EnsureAssistantTurn(s)
           IN /\ Stable(m) /\ Keeps(s, m) /\ Open(m)
              /\ Stable(Transcript(m)) /\ Keeps(s, Transcript(m))
              /\ LET d == [m EXCEPT !.context.draft = @ \cup {m.context.turn}]
                 IN Stable(d) /\ Keeps(s, d)
<1> DEFINE now == AssistantTurn(s)
           m == Upsert(now, "assistant", now.buffer.assistant)
<1>1. EnsureAssistantTurn(s) = m BY DEF EnsureAssistantTurn, AssistantTurn
<1>2. /\ Sound(now) /\ Keeps(s, now) /\ Open(now)
      /\ now.context.lastUser = None /\ now.context.lastAssistant = None
  BY AssistantTurnSound
<1> HIDE DEF now
<1>3. /\ now.buffer.assistant \in SUBSET Nat /\ now.buffer.assistant \subseteq {now.context.turn}
  BY <1>2, SoundParts DEF Buffers
<1>4. /\ Sound(m) /\ KeptIn(now, m) /\ NoneSaid(now, m) /\ m.buffer = now.buffer
      /\ m.context.lastUser = None /\ m.context.lastAssistant = None
      /\ m.context.fence = now.context.fence
  BY <1>2, <1>3, UpsertAssistantSound
<1> HIDE DEF m
<1>5. now \in Conversations /\ m \in Conversations BY <1>2, <1>4, SoundParts
<1>6. Keeps(s, m)
  <2>1. Keeps(now, m) BY <1>4, <1>5, NothingSaid
  <2> QED BY <1>2, <2>1, KeepsOn
<1>7. Open(m) BY <1>2, <1>4 DEF Open
<1>8. Stable(m) BY <1>4, <1>7, OpenStable
<1>9. Stable(Transcript(m)) /\ Keeps(s, Transcript(m))
  <2> DEFINE b == [m.buffer EXCEPT !.assistant = m.buffer.assistant \cup {m.context.turn}]
             n == [m EXCEPT !.buffer.assistant = @ \cup {m.context.turn}]
             r == Upsert(n, "assistant", n.buffer.assistant)
  <2>1. Transcript(m) = r BY DEF Transcript
  <2>2. /\ m.buffer \in Buffers /\ m.context \in Contexts /\ m.context.turn \in Nat
        /\ m.buffer.assistant \subseteq {m.context.turn} /\ m.context.draft \subseteq {m.context.turn}
        /\ m.context.lastUser \in 0..Len(m.artifacts) /\ m.buffer.assistant \in SUBSET Nat
    BY <1>4, SoundParts, ContextOK DEF Buffers
  <2>3. b \in Buffers /\ b.user = m.buffer.user /\ b.assistant = m.buffer.assistant \cup {m.context.turn}
    <3>1. m.buffer.assistant \cup {m.context.turn} \in SUBSET Nat BY <2>2
    <3> QED BY <2>2, <3>1, Zenon DEF Buffers
  <2>4. n = [m EXCEPT !.buffer = b] OBVIOUS
  <2> HIDE DEF b, n
  <2>5. Is(n, m.context, b, m.artifacts, m.turns) BY <1>5, <2>3, <2>4, WithBuffer
  <2>6. /\ n \in Conversations /\ n.context = m.context /\ n.buffer = b /\ n.artifacts = m.artifacts
        /\ n.turns = m.turns
    BY <2>5 DEF Is
  <2>7. Sound(n)
    <3>1. b.assistant \subseteq {m.context.turn} BY <2>2, <2>3
    <3>2. m.context.assistant # None => m.context.lastAssistant = None BY <1>4
    <3> QED BY <1>4, <2>2, <2>3, <2>5, <3>1, <3>2, ContextSound
  <2>8. Keeps(m, n)
    <3>1. HasSpeech(n) => HasSpeech(m) BY <2>3, <2>6 DEF HasSpeech, Shown
    <3> QED BY <1>5, <2>3, <2>6, <3>1, ContextKeeps
  <2>9. n.buffer.assistant \in SUBSET Nat /\ n.buffer.assistant \subseteq {n.context.turn}
    BY <2>2, <2>3, <2>6
  <2>10. /\ Sound(r) /\ KeptIn(n, r) /\ NoneSaid(n, r) /\ r.buffer = n.buffer
         /\ r.context.lastUser = None /\ r.context.lastAssistant = None
         /\ r.context.fence = n.context.fence
    BY <1>4, <2>6, <2>7, <2>9, UpsertAssistantSound
  <2> HIDE DEF r
  <2>11. Open(r) BY <1>7, <2>6, <2>10 DEF Open
  <2>12. r \in Conversations BY <2>10, SoundParts
  <2>13. Keeps(n, r) BY <2>6, <2>10, <2>12, NothingSaid
  <2>14. Keeps(s, r) BY <1>6, <2>8, <2>13, KeepsOn
  <2> QED BY <2>1, <2>10, <2>11, <2>14, OpenStable
<1>10. LET d == [m EXCEPT !.context.draft = @ \cup {m.context.turn}]
       IN Stable(d) /\ Keeps(s, d)
  <2> DEFINE d == [m EXCEPT !.context.draft = @ \cup {m.context.turn}]
             c == [m.context EXCEPT !.draft = m.context.draft \cup {m.context.turn}]
  <2>1. /\ m.context \in Contexts /\ m.context.turn \in Nat /\ m.context.draft \in SUBSET Nat
        /\ m.context.draft \subseteq {m.context.turn}
    BY <1>4, SoundParts, ContextOK
  <2>2. /\ c \in Contexts /\ c.draft = m.context.draft \cup {m.context.turn}
        /\ c.fence = m.context.fence /\ c.turn = m.context.turn /\ c.reserved = m.context.reserved
        /\ c.user = m.context.user /\ c.assistant = m.context.assistant
        /\ c.lastUser = m.context.lastUser /\ c.lastAssistant = m.context.lastAssistant
    <3>1. m.context.draft \cup {m.context.turn} \in SUBSET Nat BY <2>1
    <3> QED BY <2>1, <3>1, Zenon DEF Contexts
  <2>3. d = [m EXCEPT !.context = c] OBVIOUS
  <2> HIDE DEF c, d
  <2>4. Is(d, c, m.buffer, m.artifacts, m.turns) BY <1>5, <2>2, <2>3, WithContext
  <2>5. c.draft \subseteq {c.turn} BY <2>1, <2>2
  <2>6. Stable(d) /\ Keeps(m, d) BY <1>7, <1>8, <2>2, <2>4, <2>5, SameTurn
  <2>7. Keeps(s, d) BY <1>6, <2>6, KeepsOn
  <2> QED BY <2>6, <2>7 DEF d
<1> QED BY <1>1, <1>6, <1>7, <1>8, <1>9, <1>10

LEMMA SubmitStable ==
    ASSUME NEW s, Stable(s)
    PROVE  LET r == [s EXCEPT !.context.queued = TRUE] IN Stable(r) /\ Keeps(s, r)
<1> DEFINE r == [s EXCEPT !.context.queued = TRUE]
           c == [s.context EXCEPT !.queued = TRUE]
<1>1. Sound(s) BY DEF Stable
<1>2. s \in Conversations /\ s.context \in Contexts /\ s.context.draft \subseteq {s.context.turn}
  BY <1>1, SoundParts
<1>3. /\ c \in Contexts /\ c.draft = s.context.draft
      /\ c.fence = s.context.fence /\ c.turn = s.context.turn /\ c.reserved = s.context.reserved
      /\ c.user = s.context.user /\ c.assistant = s.context.assistant
      /\ c.lastUser = s.context.lastUser /\ c.lastAssistant = s.context.lastAssistant
  <2>1. TRUE \in BOOLEAN OBVIOUS
  <2> QED BY <1>2, <2>1, Zenon DEF Contexts
<1>4. r = [s EXCEPT !.context = c] OBVIOUS
<1> HIDE DEF r, c
<1>5. Is(r, c, s.buffer, s.artifacts, s.turns) BY <1>2, <1>3, <1>4, WithContext
<1>6. ~Open(s) => c.draft = {} BY <1>3 DEF Stable, Closes
<1>7. c.draft \subseteq {c.turn} BY <1>2, <1>3
<1>8. Stable(r) /\ Keeps(s, r) BY <1>3, <1>5, <1>6, <1>7, SameTurn
<1> QED BY <1>8 DEF r

LEMMA InterruptStable ==
    ASSUME NEW s, Stable(s)
    PROVE  LET r == Settle([s EXCEPT !.context.draft = {}], "interrupted") IN Stable(r) /\ Keeps(s, r)
<1> DEFINE q == [s EXCEPT !.context.draft = {}]
           c == [s.context EXCEPT !.draft = {}]
           r == Settle(q, "interrupted")
<1>1. Sound(s) BY DEF Stable
<1>2. s \in Conversations /\ s.context \in Contexts BY <1>1, SoundParts
<1>3. /\ c \in Contexts /\ c.draft = {}
      /\ c.fence = s.context.fence /\ c.turn = s.context.turn /\ c.reserved = s.context.reserved
      /\ c.user = s.context.user /\ c.assistant = s.context.assistant
      /\ c.lastUser = s.context.lastUser /\ c.lastAssistant = s.context.lastAssistant
  <2>1. {} \in SUBSET Nat OBVIOUS
  <2> QED BY <1>2, <2>1, Zenon DEF Contexts
<1>4. q = [s EXCEPT !.context = c] OBVIOUS
<1> HIDE DEF q, c
<1>5. Is(q, c, s.buffer, s.artifacts, s.turns) BY <1>2, <1>3, <1>4, WithContext
<1>6. c.draft \subseteq {c.turn} BY <1>3
<1>7. Stable(q) /\ Keeps(s, q) BY <1>3, <1>5, <1>6, SameTurn
<1>8. q.context.draft = {} BY <1>3, <1>5 DEF Is
<1>9. "interrupted" \in {"completed", "interrupted"} OBVIOUS
<1>10. /\ Sound(r) /\ Keeps(q, r) /\ ~Open(r) /\ LastSaid(r) /\ LastInterrupted(r)
       /\ r.context.user = None /\ r.context.assistant = None /\ r.context.draft = q.context.draft
       /\ r.context.fence = "idle" => r = q
  BY <1>7, <1>9, SettleResult
<1> HIDE DEF r
<1>11. r.context.fence = "idle" => r.buffer = Silence BY <1>7, <1>10 DEF Stable
<1>12. Closes(r) BY <1>8, <1>10 DEF Closes
<1>13. Stable(r) BY <1>10, <1>11, <1>12 DEF Stable
<1>14. Keeps(s, r) BY <1>7, <1>10, KeepsOn
<1> QED BY <1>13, <1>14 DEF r, q

LEMMA CompleteStable ==
    ASSUME NEW s, Stable(s), Open(s)
    PROVE  LET r == Commit(Settle(s, "completed")) IN Stable(r) /\ Keeps(s, r)
<1> DEFINE q == Settle(s, "completed")
<1>1. "completed" \in {"completed", "interrupted"} OBVIOUS
<1>2. /\ Sound(q) /\ Keeps(s, q) /\ ~Open(q) /\ LastSaid(q)
      /\ q.context.user = None /\ q.context.assistant = None
      /\ q.context.fence = "idle" => q = s
      /\ Shown(q, q.context.lastAssistant) => q.artifacts[q.context.lastAssistant].text # {} \/ q = s
  BY <1>1, SettleResult
<1> HIDE DEF q
<1>3. q # s BY <1>2
<1>4. Stable(Commit(q)) /\ Keeps(q, Commit(q)) BY <1>2, <1>3, CommitStable
<1>5. Keeps(s, Commit(q)) BY <1>2, <1>4, KeepsOn
<1> QED BY <1>4, <1>5 DEF q


\* The artifact and its turn say something else.
LEMMA TurnCorrected ==
    ASSUME NEW A \in Seq(Artifacts), NEW B \in Seq(Artifacts), NEW T \in Seq(Entries), NEW U \in Seq(Entries),
           NEW a \in 1..Len(A), NEW x \in Artifacts, NEW t \in 1..Len(T), NEW e \in Entries, NEW last,
           OneChanged(A, B, a, x), OneChanged(T, U, t, e),
           AttachedOnce(A, T), SettledAttached(A, T, last), A[a].attached = t, t # None,
           x.attached = t, x.role = A[a].role, e.role = T[t].role, x.text = e.text
    PROVE  AttachedOnce(B, U) /\ SettledAttached(B, U, last)
<1>1. /\ Len(B) = Len(A) /\ B[a] = x /\ \A b \in 1..Len(A) : b # a => B[b] = A[b]
      /\ Len(U) = Len(T) /\ U[t] = e /\ \A i \in 1..Len(T) : i # t => U[i] = T[i]
  BY DEF OneChanged
<1>2. \A b \in 1..Len(A) : A[b].attached # None =>
         /\ A[b].attached \in 1..Len(T) /\ T[A[b].attached].role = A[b].role
         /\ \A d \in 1..Len(A) : A[d].attached = A[b].attached => d = b
  BY DEF AttachedOnce
<1>3. \A b \in 1..Len(A) : B[b].attached = A[b].attached /\ B[b].role = A[b].role BY <1>1
<1>4. \A i \in 1..Len(T) : U[i].role = T[i].role BY <1>1
<1>5. AttachedOnce(B, U)
  <2> SUFFICES ASSUME NEW b \in 1..Len(A), B[b].attached # None
               PROVE  /\ B[b].attached \in 1..Len(U) /\ U[B[b].attached].role = B[b].role
                      /\ \A d \in 1..Len(A) : B[d].attached = B[b].attached => d = b
    BY <1>1 DEF AttachedOnce
  <2> QED BY <1>1, <1>2, <1>3, <1>4
<1>6. SettledAttached(B, U, last)
  <2> SUFFICES ASSUME NEW b \in 1..Len(A), B[b].there, B[b].settled
               PROVE  IF B[b].attached # None THEN U[B[b].attached].text = B[b].text
                      ELSE B[b].role = "assistant" /\ (B[b].interrupted \/ last = b)
    BY <1>1 DEF SettledAttached
  <2>1. CASE b = a BY <1>1, <2>1
  <2>2. CASE b # a
    <3>1. B[b] = A[b] BY <1>1, <2>2
    <3>2. A[b].attached # t BY <1>2, <2>2
    <3>3. A[b].attached # None => U[A[b].attached] = T[A[b].attached] BY <1>1, <1>2, <3>2
    <3> QED BY <3>1, <3>3 DEF SettledAttached
  <2> QED BY <2>1, <2>2
<1> QED BY <1>5, <1>6

LEMMA CorrectionStable ==
    ASSUME NEW s, Stable(s), IsSettled(s), NEW u \in Nat
    PROVE  LET l == s.context.lastUser
               r == CorrectSettled([s EXCEPT !.buffer.user = @ \cup {u}, !.context.queued = TRUE])
           IN /\ Stable(r) /\ KeptIn(s, r) /\ r.buffer.user = s.buffer.user \cup {u}
              /\ Shown(s, l) => u \in Kept(r)
              /\ \A shown : Once(s, shown) => Once(r, shown \cup ({u} \cap SpeechOf(s.turns)))
<1> DEFINE l == s.context.lastUser
           c == [s.context EXCEPT !.queued = TRUE]
           b == [s.buffer EXCEPT !.user = s.buffer.user \cup {u}]
           n == [s EXCEPT !.buffer.user = @ \cup {u}, !.context.queued = TRUE]
           r == CorrectSettled(n)
<1>1. Sound(s) /\ LastSaid(s) /\ LastInterrupted(s) BY DEF Stable
<1>2. /\ s \in Conversations /\ s.context \in Contexts /\ s.buffer \in Buffers /\ Pointers(s)
      /\ s.artifacts \in Seq(Artifacts) /\ s.turns \in Seq(Entries) /\ Len(s.artifacts) \in Nat
      /\ Len(s.turns) \in Nat
      /\ l \in 0..Len(s.artifacts) /\ s.buffer.user \in SUBSET Nat
      /\ s.context.draft \subseteq {s.context.turn} /\ s.buffer.assistant \subseteq {s.context.turn}
      /\ AttachedOnce(s.artifacts, s.turns) /\ LastAssistant(s)
      /\ SettledAttached(s.artifacts, s.turns, s.context.lastAssistant)
      /\ StreamsCurrent(s.artifacts, s.context.user, s.context.assistant)
      /\ RepliesOfTurn(s.artifacts) /\ TurnsApart(s.turns)
      /\ s.context.lastAssistant \in 0..Len(s.artifacts)
  BY <1>1, SoundParts DEF Buffers
<1>3. s.context.user = None /\ s.context.assistant = None /\ s.context.draft = {}
      /\ s.context.fence # "idle" /\ ~Open(s)
  BY DEF Stable, Closes, IsSettled, Open
<1>4. b \in Buffers /\ b.user = s.buffer.user \cup {u} /\ b.assistant = s.buffer.assistant
  <2>1. s.buffer.user \cup {u} \in SUBSET Nat BY <1>2
  <2> QED BY <1>2, <2>1, Zenon DEF Buffers
<1>5. /\ c \in Contexts /\ c.draft = s.context.draft
      /\ c.fence = s.context.fence /\ c.turn = s.context.turn /\ c.reserved = s.context.reserved
      /\ c.user = s.context.user /\ c.assistant = s.context.assistant
      /\ c.lastUser = s.context.lastUser /\ c.lastAssistant = s.context.lastAssistant
  <2>1. TRUE \in BOOLEAN OBVIOUS
  <2> QED BY <1>2, <2>1, Zenon DEF Contexts
<1>6. Is(n, c, b, s.artifacts, s.turns)
  <2>1. n = [s EXCEPT !.buffer = b, !.context = c] OBVIOUS
  <2> HIDE DEF n, b, c
  <2>2. s \in Conversations /\ c \in Contexts /\ b \in Buffers BY <1>2, <1>4, <1>5
  <2> QED BY <2>1, <2>2, WithBufferAndContext, Zenon
<1> HIDE DEF n, b, c
<1>7. /\ n \in Conversations /\ n.context = c /\ n.buffer = b /\ n.artifacts = s.artifacts
      /\ n.turns = s.turns
  BY <1>6 DEF Is
<1>8. Pointers(n) /\ (Shown(n, l) <=> Shown(s, l)) /\ n.context.lastUser = l
  BY <1>2, <1>5, <1>7 DEF Pointers, Shown
<1>9. ASSUME Shown(s, l)
      PROVE  /\ l \in 1..Len(s.artifacts) /\ s.artifacts[l] \in Artifacts /\ s.artifacts[l].there
             /\ s.artifacts[l].role = "user" /\ s.artifacts[l].settled
             /\ s.artifacts[l].attached # None /\ s.artifacts[l].attached \in 1..Len(s.turns)
             /\ s.artifacts[l].text = s.buffer.user /\ ~s.context.reserved
             /\ s.turns[s.artifacts[l].attached] \in Entries
             /\ s.turns[s.artifacts[l].attached].role = "user"
             /\ s.turns[s.artifacts[l].attached].text = s.buffer.user
  <2>1. l \in 1..Len(s.artifacts) /\ s.artifacts[l].there BY <1>2, <1>9 DEF Shown, None
  <2>2. /\ s.artifacts[l].role = "user" /\ s.artifacts[l].settled
        /\ s.artifacts[l].attached # None /\ s.artifacts[l].text = s.buffer.user /\ ~s.context.reserved
    BY <1>1, <1>9 DEF LastSaid
  <2>3. s.artifacts[l].attached \in 1..Len(s.turns) /\ s.turns[s.artifacts[l].attached].role = "user"
    BY <1>2, <2>1, <2>2 DEF AttachedOnce
  <2>4. s.turns[s.artifacts[l].attached].text = s.buffer.user
    BY <1>2, <2>1, <2>2 DEF SettledAttached
  <2>5. s.artifacts[l] \in Artifacts BY <1>2, <2>1, ElementOK
  <2>6. s.turns[s.artifacts[l].attached] \in Entries BY <1>2, <2>3, SMTT(30)
  <2> QED BY <2>1, <2>2, <2>3, <2>4, <2>5, <2>6
<1>10. IF Shown(s, l)
       THEN Is(r, c, b,
               [s.artifacts EXCEPT ![l] = [s.artifacts[l] EXCEPT !.text = b.user]],
               [s.turns EXCEPT ![s.artifacts[l].attached] =
                    [s.turns[s.artifacts[l].attached] EXCEPT !.text = b.user]])
       ELSE Is(r, [c EXCEPT !.lastUser = None], b, s.artifacts, s.turns)
  <2>1. Shown(n, n.context.lastUser) => n.artifacts[n.context.lastUser].attached \in 1..Len(n.turns)
    BY <1>7, <1>8, <1>9
  <2> HIDE DEF l
  <2> QED BY <1>7, <1>8, <2>1, CorrectSettledFacts, Zenon
<1> HIDE DEF r
<1>11. CASE ~Shown(s, l)
  <2> DEFINE d == [c EXCEPT !.lastUser = None]
  <2>1. /\ d \in Contexts /\ d.draft = s.context.draft
        /\ d.fence = s.context.fence /\ d.turn = s.context.turn /\ d.reserved = s.context.reserved
        /\ d.user = s.context.user /\ d.assistant = s.context.assistant
        /\ d.lastUser = None /\ d.lastAssistant = s.context.lastAssistant
    <3>1. None \in Nat BY DEF None
    <3> QED BY <1>5, <3>1, Zenon DEF Contexts
  <2>2. Is(r, d, b, s.artifacts, s.turns) BY <1>10, <1>11
  <2> HIDE DEF d
  <2>3. /\ r \in Conversations /\ r.context = d /\ r.buffer = b /\ r.artifacts = s.artifacts
        /\ r.turns = s.turns
    BY <2>2 DEF Is
  <2>4. Sound(r)
    <3>1. d.lastUser \in 0..Len(s.artifacts) BY <1>2, <2>1 DEF None
    <3>2. ~Shown(s, d.user) /\ d.assistant = None BY <1>3, <2>1 DEF Shown
    <3>3. b.assistant \subseteq {d.turn} /\ d.draft \subseteq {d.turn} BY <1>2, <1>4, <2>1
    <3> QED BY <1>1, <1>4, <2>1, <2>2, <3>1, <3>2, <3>3, ContextSound
  <2>5. LastSaid(r) BY <2>1, <2>3 DEF LastSaid, Shown
  <2>6. LastInterrupted(r) BY <1>1, <2>1, <2>3 DEF LastInterrupted, Shown
  <2>7. ~Open(r) /\ Closes(r) /\ r.context.fence # "idle" BY <1>3, <2>1, <2>3 DEF Open, Closes
  <2>8. Stable(r) BY <2>4, <2>5, <2>6, <2>7 DEF Stable
  <2>9. KeptIn(s, r) BY <2>3 DEF KeptIn
  <2>10. ASSUME NEW shown, Once(s, shown)
         PROVE  Once(r, shown \cup ({u} \cap SpeechOf(s.turns)))
    <3>1. TurnedOnceIn(s.turns, shown) /\ (HasSpeech(s) => s.buffer.user \cap SpeechOf(s.turns) \subseteq shown)
      BY <2>10 DEF Once
    <3>2. ASSUME HasSpeech(r) PROVE s.buffer.user \cap SpeechOf(s.turns) \subseteq shown
      <4>1. s.context.reserved BY <1>3, <2>1, <2>3, <3>2 DEF HasSpeech, Shown
      <4>2. s.buffer.user # {} => HasSpeech(s) BY <1>3, <4>1 DEF HasSpeech, Shown
      <4> QED BY <3>1, <4>2
    <3>3. TurnedOnceIn(r.turns, shown \cup ({u} \cap SpeechOf(s.turns)))
      BY <2>3, <3>1 DEF TurnedOnceIn
    <3> QED BY <1>4, <2>3, <3>2, <3>3 DEF Once
  <2> QED BY <1>4, <1>11, <2>3, <2>8, <2>9, <2>10 DEF r, n
<1>12. CASE Shown(s, l)
  <2> DEFINE t == s.artifacts[l].attached
             x == [s.artifacts[l] EXCEPT !.text = b.user]
             e == [s.turns[t] EXCEPT !.text = b.user]
  <2>1. Is(r, c, b, [s.artifacts EXCEPT ![l] = x], [s.turns EXCEPT ![t] = e]) BY <1>10, <1>12, Zenon
  <2>2. b.user \in SUBSET Nat BY <1>4 DEF Buffers
  <2>3. /\ x \in Artifacts /\ x.text = b.user /\ x.attached = t /\ x.role = "user" /\ x.settled /\ x.there
    BY <1>9, <1>12, <2>2, Zenon DEF Artifacts
  <2>4. e \in Entries /\ e.text = b.user /\ e.role = "user"
    BY <1>9, <1>12, <2>2, Zenon DEF Entries
  <2>5. t \in 1..Len(s.turns) /\ t # None /\ l \in 1..Len(s.artifacts) /\ s.artifacts[l].attached = t
    BY <1>9, <1>12
  <2> HIDE DEF x, e, t
  <2>6. /\ r \in Conversations /\ r.context = c /\ r.buffer = b
        /\ r.artifacts = [s.artifacts EXCEPT ![l] = x] /\ r.turns = [s.turns EXCEPT ![t] = e]
    BY <2>1 DEF Is
  <2>7. OneChanged(s.artifacts, r.artifacts, l, x) /\ r.artifacts \in Seq(Artifacts)
    BY <1>2, <2>3, <2>5, <2>6, ChangeOne
  <2>8. OneChanged(s.turns, r.turns, t, e) /\ r.turns \in Seq(Entries)
    BY <1>2, <2>4, <2>5, <2>6, ChangeOne
  <2>9. AttachedOnce(r.artifacts, r.turns) /\ SettledAttached(r.artifacts, r.turns, s.context.lastAssistant)
    <3>1. e.role = s.turns[t].role /\ x.role = s.artifacts[l].role /\ x.text = e.text
      BY <1>9, <1>12, <2>3, <2>4 DEF t
    <3>2. /\ AttachedOnce(s.artifacts, s.turns)
          /\ SettledAttached(s.artifacts, s.turns, s.context.lastAssistant)
          /\ s.artifacts \in Seq(Artifacts) /\ s.turns \in Seq(Entries)
      BY <1>2
    <3>3. x.attached = t /\ e.role = s.turns[t].role /\ x \in Artifacts /\ e \in Entries BY <2>3, <2>4, <3>1
    <3> HIDE DEF l
    <3> QED BY <2>5, <2>7, <2>8, <3>1, <3>2, <3>3, TurnCorrected
  <2>10. /\ Len(r.artifacts) = Len(s.artifacts) /\ r.artifacts[l] = x
         /\ \A d \in 1..Len(s.artifacts) : d # l => r.artifacts[d] = s.artifacts[d]
         /\ Len(r.turns) = Len(s.turns) /\ r.turns[t] = e
         /\ \A i \in 1..Len(s.turns) : i # t => r.turns[i] = s.turns[i]
    BY <2>5, <2>7, <2>8 DEF OneChanged
  <2>11. StreamsCurrent(r.artifacts, s.context.user, s.context.assistant)
    <3>1. StreamsCurrent(s.artifacts, s.context.user, s.context.assistant) BY <1>2
    <3> QED BY <2>3, <2>10, <3>1 DEF StreamsCurrent
  <2>12. RepliesOfTurn(r.artifacts) BY <1>2, <2>3, <2>10 DEF RepliesOfTurn
  <2>13. TurnsApart(r.turns) BY <1>2, <2>4, <2>10 DEF TurnsApart
  <2>14. Typed(r) BY <1>2, <1>5, <2>6, <2>10 DEF Typed, Pointers
  <2>15. CurrentUser(r) /\ CurrentAssistant(r)
    BY <1>3, <1>5, <2>6 DEF CurrentUser, CurrentAssistant, Shown
  <2>16. s.context.lastAssistant = l => FALSE
    BY <1>2, <1>9, <1>12 DEF LastAssistant
  <2>17. s.context.lastAssistant # None =>
            r.artifacts[s.context.lastAssistant] = s.artifacts[s.context.lastAssistant]
    <3>1. s.context.lastAssistant \in 0..Len(s.artifacts) /\ Len(s.artifacts) \in Nat BY <1>2
    <3> QED BY <2>10, <2>16, <3>1 DEF None
  <2>18. LastAssistant(r) BY <1>2, <1>5, <2>6, <2>17 DEF LastAssistant, Shown
  <2>19. LastInterrupted(r) BY <1>1, <1>5, <2>6, <2>17 DEF LastInterrupted, Shown
  <2>20. Sound(r)
    <3>1. Attached(r) BY <1>5, <2>6, <2>9, <2>11 DEF Attached
    <3>2. Apart(r) BY <1>2, <1>4, <1>5, <2>6, <2>12, <2>13 DEF Apart
    <3> QED BY <2>14, <2>15, <2>18, <3>1, <3>2 DEF Sound
  <2>21. LastSaid(r)
    <3>1. ~r.context.reserved BY <1>5, <1>9, <1>12, <2>6
    <3>2. r.context.lastUser = l /\ r.artifacts[l] = x /\ r.buffer = b BY <1>5, <2>6, <2>10
    <3> QED BY <2>3, <2>5, <3>1, <3>2 DEF LastSaid
  <2>22. ~Open(r) /\ Closes(r) /\ r.context.fence # "idle" BY <1>3, <1>5, <2>6 DEF Open, Closes
  <2>23. Stable(r) BY <2>19, <2>20, <2>21, <2>22 DEF Stable
  <2>24. KeptIn(s, r)
    <3>1. \A i \in 1..Len(s.turns) :
             /\ i \in 1..Len(r.turns) /\ r.turns[i].role = s.turns[i].role
             /\ s.turns[i].text \subseteq r.turns[i].text
      BY <1>4, <1>9, <1>12, <2>4, <2>10 DEF t
    <3>2. \A d \in 1..Len(s.artifacts) : s.artifacts[d].there =>
             /\ d \in 1..Len(r.artifacts) /\ r.artifacts[d].there
             /\ r.artifacts[d].role = s.artifacts[d].role
             /\ s.artifacts[d].text \subseteq r.artifacts[d].text
      BY <1>4, <1>9, <1>12, <2>3, <2>10
    <3> QED BY <3>1, <3>2 DEF KeptIn
  <2>25. u \in Kept(r)
    <3>1. t \in 1..Len(r.turns) /\ r.turns[t].role = "user" /\ u \in r.turns[t].text
      BY <1>4, <2>4, <2>5, <2>10
    <3> QED BY <2>6, <3>1, InKept
  <2>26. ASSUME NEW shown, Once(s, shown)
         PROVE  Once(r, shown \cup ({u} \cap SpeechOf(s.turns)))
    <3>1. TurnedOnceIn(s.turns, shown) BY <2>26 DEF Once
    <3>2. ~HasSpeech(r) BY <1>3, <1>5, <1>9, <1>12, <2>6 DEF HasSpeech, Shown
    <3>3. /\ \A i \in 1..Len(s.turns) : r.turns[i].role = s.turns[i].role
          /\ r.turns[t].text = s.turns[t].text \cup {u}
          /\ \A i \in 1..Len(s.turns) : i # t => r.turns[i].text = s.turns[i].text
      <4>1. s.turns[t].role = "user" /\ s.turns[t].text = s.buffer.user BY <1>9, <1>12 DEF t
      <4>2. e.text = s.buffer.user \cup {u} /\ e.role = "user" BY <1>4, <2>4
      <4> QED BY <2>10, <4>1, <4>2
    <3>4. \A i \in 1..Len(s.turns) : s.turns[i].role = "user" => s.turns[i].text \subseteq SpeechOf(s.turns)
      <4>1. DOMAIN s.turns = 1..Len(s.turns) BY <1>2
      <4> QED BY <4>1, InSpeech
    <3>5. ASSUME NEW i \in 1..Len(s.turns), NEW j \in 1..Len(s.turns), i # j,
                 s.turns[i].role = "user", s.turns[j].role = "user"
          PROVE  r.turns[i].text \cap r.turns[j].text \subseteq shown \cup ({u} \cap SpeechOf(s.turns))
      <4>1. s.turns[i].text \cap s.turns[j].text \subseteq shown BY <3>1, <3>5 DEF TurnedOnceIn
      <4> QED BY <3>3, <3>4, <3>5, <4>1
    <3>6. TurnedOnceIn(r.turns, shown \cup ({u} \cap SpeechOf(s.turns)))
      BY <2>10, <3>3, <3>5 DEF TurnedOnceIn
    <3> QED BY <3>2, <3>6 DEF Once
  <2> QED BY <1>4, <2>6, <2>23, <2>24, <2>25, <2>26 DEF r, n
<1> QED BY <1>11, <1>12


LEMMA DisownStable ==
    ASSUME NEW s, Stable(s), IsSettled(s)
    PROVE  /\ Stable(Disown(s)) /\ Keeps(s, Disown(s)) /\ ~IsSettled(Disown(s))
           /\ Disown(s).turns = s.turns
<1> DEFINE c == Disowned(s.context)
           q == Disown(s)
<1>1. Sound(s) /\ LastInterrupted(s) BY DEF Stable
<1>2. s \in Conversations /\ s.context \in Contexts /\ Len(s.artifacts) \in Nat BY <1>1, SoundParts
<1>3. Closes(s) BY DEF Stable, IsSettled, Open
<1>4. Is(q, c, Silence, s.artifacts, s.turns) BY <1>2, DisownFacts
<1>5. /\ c \in Contexts /\ c.fence = "idle" /\ c.turn = s.context.turn /\ c.user = None
      /\ c.assistant = None /\ c.lastUser = None /\ c.lastAssistant = None
      /\ c.draft = s.context.draft
  BY <1>2, DisownedOK, Zenon
<1> HIDE DEF q, c
<1>6. ~Streaming(s, s.context.user) /\ ~Streaming(s, s.context.assistant)
  BY <1>3 DEF Closes, Streaming, Shown
<1>7. c.lastUser \in 0..Len(s.artifacts) /\ c.draft = {} BY <1>2, <1>3, <1>5 DEF Closes, None
<1>8. Stable(q) /\ Keeps(s, q) BY <1>1, <1>4, <1>5, <1>6, <1>7, GivenUp
<1>9. ~IsSettled(q) /\ q.turns = s.turns BY <1>4, <1>5 DEF Is, IsSettled
<1> QED BY <1>8, <1>9 DEF q

LEMMA SpeechStable ==
    ASSUME NEW s, Stable(s), NEW u \in Nat, IsSettled(s) => u \notin s.buffer.user /\ s.buffer.user # {}
    PROVE  LET now == OpenForSpeech(IF IsSettled(s) THEN Disown(s) ELSE s)
               text == now.buffer.user \cup {u}
               r == Upsert([now EXCEPT !.buffer.user = text], "user", text)
           IN /\ Stable(now) /\ Keeps(s, now) /\ now.turns = s.turns
              /\ Stable(r) /\ KeptIn(s, r) /\ r.buffer.user \subseteq s.buffer.user \cup {u}
              /\ u \in Kept(r)
              /\ \A shown : Once(s, shown) => Once(r, shown \cup (text \cap SpeechOf(s.turns)))
<1> DEFINE q == IF IsSettled(s) THEN Disown(s) ELSE s
           now == OpenForSpeech(q)
           text == now.buffer.user \cup {u}
           r == Upsert([now EXCEPT !.buffer.user = text], "user", text)
<1>1. Sound(s) BY DEF Stable
<1>2. s \in Conversations BY <1>1, SoundParts
<1>3. /\ Stable(q) /\ Keeps(s, q) /\ ~IsSettled(q) /\ q.turns = s.turns
  <2>1. CASE ~IsSettled(s)
    <3>1. q = s BY <2>1
    <3>2. Keeps(s, s) BY <1>2, ContextKeeps
    <3> HIDE DEF q
    <3> QED BY <2>1, <3>1, <3>2
  <2>2. CASE IsSettled(s)
    <3>1. q = Disown(s) BY <2>2
    <3> HIDE DEF q
    <3> QED BY <2>2, <3>1, DisownStable
  <2> QED BY <2>1, <2>2
<1> HIDE DEF q
<1>4. /\ Sound(now) /\ Keeps(q, now) /\ Open(now) /\ now.turns = q.turns
      /\ now.context.lastUser = None /\ now.context.lastAssistant = None
  <2>1. Sound(q) /\ LastInterrupted(q) BY <1>3 DEF Stable
  <2>2. q \in Conversations /\ q.context \in Contexts BY <2>1, SoundParts
  <2>3. CASE Open(q)
    <3>1. now = q BY <2>3 DEF OpenForSpeech
    <3>2. Keeps(q, q) BY <2>2, ContextKeeps
    <3>3. q.context.lastUser = None /\ q.context.lastAssistant = None BY <1>3, <2>3 DEF Stable
    <3> HIDE DEF now
    <3> QED BY <2>1, <2>3, <3>1, <3>2, <3>3
  <2>4. CASE ~Open(q)
    <3> DEFINE b == Begin(q)
               c == Begun(q.context)
               d == [b.context EXCEPT !.reserved = TRUE]
    <3>1. q.context.fence = "idle"
      <4>1. q.context.fence \in {"idle", "open", "completed", "interrupted"} BY <2>2, ContextOK
      <4> QED BY <1>3, <2>4, <4>1 DEF Open, IsSettled
    <3>2. q.buffer = Silence /\ Closes(q) BY <1>3, <2>4, <3>1 DEF Stable
    <3>3. q.buffer.user = {} /\ q.buffer.assistant = {} BY <3>2 DEF Silence
    <3>4. Is(b, c, q.buffer, q.artifacts, q.turns) BY <2>2, <2>4, BeginFacts, Zenon
    <3>5. /\ c \in Contexts /\ c.fence = "open" /\ c.turn = q.context.turn + 1 /\ c.user = None
          /\ c.assistant = None /\ c.lastUser = None /\ c.lastAssistant = None
          /\ c.draft = q.context.draft
      BY <2>2, BegunOK, Zenon
    <3>6. now = [b EXCEPT !.context = d] BY <2>4 DEF OpenForSpeech
    <3> HIDE DEF b, c, now
    <3>7. /\ b \in Conversations /\ b.context = c /\ b.buffer = q.buffer /\ b.artifacts = q.artifacts
          /\ b.turns = q.turns
      BY <3>4 DEF Is
    <3>8. /\ d \in Contexts /\ d.fence = "open" /\ d.turn = q.context.turn + 1 /\ d.user = None
          /\ d.assistant = None /\ d.lastUser = None /\ d.lastAssistant = None
          /\ d.draft = {}
      <4>1. q.context.draft = {} BY <3>2 DEF Closes
      <4>2. TRUE \in BOOLEAN OBVIOUS
      <4> QED BY <3>5, <3>7, <4>1, <4>2, Zenon DEF Contexts
    <3> HIDE DEF d
    <3>9. Is(now, d, q.buffer, q.artifacts, q.turns)
      <4>1. Is(now, d, b.buffer, b.artifacts, b.turns) BY <3>6, <3>7, <3>8, WithContext
      <4> QED BY <3>7, <4>1
    <3>10. Sound(now) BY <2>1, <3>2, <3>3, <3>8, <3>9, BeginIdle DEF Closes
    <3>11. /\ now \in Conversations /\ now.context = d /\ now.buffer = q.buffer
           /\ now.artifacts = q.artifacts /\ now.turns = q.turns
      BY <3>9 DEF Is
    <3>12. Keeps(q, now)
      <4>1. ~HasSpeech(now) BY <3>3, <3>11 DEF HasSpeech
      <4> QED BY <2>2, <3>11, <4>1, ContextKeeps
    <3> QED BY <3>8, <3>10, <3>11, <3>12 DEF Open
  <2> QED BY <2>3, <2>4
<1> HIDE DEF now
<1>5. Stable(now) BY <1>4, OpenStable
<1>6. Keeps(s, now) BY <1>3, <1>4, KeepsOn
<1>7. /\ now.buffer.user \subseteq s.buffer.user /\ KeptIn(s, now)
      /\ \A shown : Once(s, shown) => Once(now, shown)
  BY <1>6 DEF Keeps
<1>8. text \in SUBSET Nat /\ text # {} /\ now.buffer.user \subseteq text
  <2>1. now.buffer.user \in SUBSET Nat BY <1>4, SoundParts DEF Buffers
  <2> QED BY <2>1
<1> HIDE DEF text
<1>9. /\ Sound(r) /\ KeptIn(now, r) /\ r.turns = now.turns /\ r.buffer.user = text
      /\ Shown(r, r.context.user) /\ r.context.user \in 1..Len(r.artifacts)
      /\ r.context.lastUser = now.context.lastUser
      /\ r.context.lastAssistant = now.context.lastAssistant
      /\ r.context.fence = now.context.fence
  BY <1>4, <1>8, UpsertUserSound
<1> HIDE DEF r
<1>10. Stable(r)
  <2>1. Open(r) BY <1>4, <1>9 DEF Open
  <2> QED BY <1>4, <1>9, <2>1, OpenStable
<1>11. KeptIn(s, r) BY <1>7, <1>9 DEF KeptIn
<1>12. u \in Kept(r)
  <2>1. r \in Conversations BY <1>9, SoundParts
  <2>2. CurrentUser(r) BY <1>9, SoundParts
  <2>3. /\ r.artifacts[r.context.user].there /\ r.artifacts[r.context.user].role = "user"
        /\ r.artifacts[r.context.user].text = text
    BY <1>9, <2>2 DEF CurrentUser, Shown
  <2>4. u \in text BY DEF text
  <2> QED BY <1>9, <2>1, <2>3, <2>4, InKept
<1>13. ASSUME NEW shown, Once(s, shown)
       PROVE  Once(r, shown \cup (text \cap SpeechOf(s.turns)))
  <2>1. TurnedOnceIn(s.turns, shown) BY <1>13 DEF Once
  <2>2. r.turns = s.turns BY <1>3, <1>4, <1>9
  <2>3. TurnedOnceIn(r.turns, shown \cup (text \cap SpeechOf(s.turns))) BY <2>1, <2>2 DEF TurnedOnceIn
  <2> QED BY <1>9, <2>2, <2>3 DEF Once
<1>14. r.buffer.user \subseteq s.buffer.user \cup {u} BY <1>7, <1>9 DEF text
<1>15. now.turns = s.turns BY <1>3, <1>4
<1> QED BY <1>5, <1>6, <1>10, <1>11, <1>12, <1>13, <1>14, <1>15 DEF r, text, now, q
-----------------------------------------------------------------------------
Inv == /\ Stable(Now) /\ Once(Now, again)
       /\ heard \in Nat /\ buffer.user \subseteq 1..heard
       /\ HeardIsKept

LEMMA BecomesNow ==
    ASSUME NEW STATE r, r \in Conversations, Becomes(r)
    PROVE  Now' = r
  BY DEF Becomes, Now, Conversations

LEMMA Step ==
    ASSUME NEW STATE r, Becomes(r), Stable(r), Once(r, again'), heard' \in Nat,
           r.buffer.user \subseteq 1..heard', 1..heard' \subseteq Kept(r) \cup missed' \cup unseen'
    PROVE  Inv'
<1>1. r \in Conversations BY SoundParts DEF Stable
<1>2. Now' = r BY <1>1, BecomesNow
<1>3. buffer' = r.buffer BY DEF Becomes
<1> QED BY <1>2, <1>3 DEF Inv, HeardIsKept


\* A step that hears nothing and makes the surface no emptier.
LEMMA QuietStep ==
    ASSUME Inv, NEW STATE r, Becomes(r), Stable(r), Keeps(Now, r), UNCHANGED <<heard, again, missed, unseen>>
    PROVE  Inv'
<1>1. Once(r, again') BY DEF Inv, Keeps
<1>2. r.buffer.user \subseteq 1..heard' BY DEF Inv, Keeps, Now
<1>3. Now \in Conversations /\ r \in Conversations BY SoundParts DEF Inv, Stable
<1>4. Kept(Now) \subseteq Kept(r) BY <1>3, KeptIsKept DEF Keeps
<1>5. 1..heard' \subseteq Kept(r) \cup missed' \cup unseen' BY <1>4 DEF Inv, HeardIsKept
<1> QED BY <1>1, <1>2, <1>5, Step DEF Inv

\* The surface is cleared: what was on it and in no turn is missed.
LEMMA ClearedStep ==
    ASSUME Inv, NEW STATE r, Becomes(r), Stable(r), Once(r, again), r.buffer.user = {},
           UNCHANGED <<heard, again, unseen>>, missed' = missed \cup (Kept(Now) \ Kept(r))
    PROVE  Inv'
<1>1. 1..heard' \subseteq Kept(r) \cup missed' \cup unseen' BY DEF Inv, HeardIsKept
<1>2. heard' \in Nat /\ r.buffer.user \subseteq 1..heard' BY DEF Inv
<1> QED BY <1>1, <1>2, Step

LEMMA InputKeepsInv ==
    ASSUME Inv, NEW u \in Utterances, InputTranscript(u)
    PROVE  Inv'
<1>1. u \in Nat /\ u \in 1..MaxUtterances BY SpeechTurnAssumption DEF Utterances
<1>2. /\ heard \in Nat /\ heard' \in Nat /\ heard' = IF u > heard THEN u ELSE heard
      /\ u <= heard + 1 /\ missed' = missed /\ Stable(Now) /\ Once(Now, again)
      /\ buffer.user \subseteq 1..heard /\ HeardIsKept
  BY <1>1 DEF InputTranscript, Inv
<1>3. /\ 1..heard \subseteq 1..heard' /\ 1..heard' \subseteq (1..heard) \cup {u} /\ u \in 1..heard'
  BY <1>1, <1>2
<1>4. Now.buffer = buffer /\ Now.turns = turns /\ Now.context = context BY DEF Now
<1>5. Now \in Conversations BY <1>2, SoundParts DEF Stable
<1>6. CASE SettledCorrection(u)
  <2> DEFINE r == Corrected(u)
             l == Now.context.lastUser
  <2>1. /\ IsSettled(Now) /\ Becomes(r) /\ again' = again \cup ({u} \cap SpeechOf(turns))
        /\ unseen' = IF Shown(Now, l) THEN unseen ELSE unseen \cup {u}
    BY <1>4, <1>6 DEF SettledCorrection
  <2>2. /\ Stable(r) /\ KeptIn(Now, r) /\ r.buffer.user = Now.buffer.user \cup {u}
        /\ Shown(Now, l) => u \in Kept(r)
        /\ \A shown : Once(Now, shown) => Once(r, shown \cup ({u} \cap SpeechOf(Now.turns)))
    BY <1>1, <1>2, <2>1, CorrectionStable, Zenon DEF Corrected
  <2> HIDE DEF r, l
  <2>3. Once(r, again') BY <1>2, <1>4, <2>1, <2>2
  <2>4. r.buffer.user \subseteq 1..heard' BY <1>2, <1>3, <1>4, <2>2
  <2>5. r \in Conversations BY <2>2, SoundParts DEF Stable
  <2>6. Kept(Now) \subseteq Kept(r) BY <1>5, <2>2, <2>5, KeptIsKept
  <2>7. 1..heard' \subseteq Kept(r) \cup missed' \cup unseen'
    BY <1>2, <1>3, <2>1, <2>2, <2>6 DEF HeardIsKept
  <2> QED BY <1>2, <2>1, <2>2, <2>3, <2>4, <2>7, Step
<1>7. CASE SettledReplay(u)
  <2>1. IsSettled(Now) /\ u \in buffer.user /\ Becomes(Disown(Now)) /\ UNCHANGED <<unseen, again>>
    BY <1>7 DEF SettledReplay
  <2>2. heard' = heard BY <1>1, <1>2, <2>1
  <2>3. Stable(Disown(Now)) /\ Keeps(Now, Disown(Now)) BY <1>2, <2>1, DisownStable
  <2> QED BY <1>2, <2>1, <2>2, <2>3, QuietStep
<1>8. CASE Speech(u)
  <2> DEFINE now == OpenForSpeech(IF IsSettled(Now) THEN Disown(Now) ELSE Now)
             text == now.buffer.user \cup {u}
             r == Upsert([now EXCEPT !.buffer.user = text], "user", text)
  <2>1. /\ IsSettled(Now) => u \notin Now.buffer.user /\ Now.buffer.user # {}
        /\ \/ Becomes(r) /\ again' = again \cup (text \cap SpeechOf(turns))
           \/ u \in now.buffer.user /\ Becomes(now) /\ UNCHANGED again
        /\ UNCHANGED unseen
    BY <1>4, <1>8 DEF Speech
  <2>2. /\ Stable(now) /\ Keeps(Now, now)
        /\ Stable(r) /\ KeptIn(Now, r) /\ r.buffer.user \subseteq Now.buffer.user \cup {u}
        /\ u \in Kept(r)
        /\ \A shown : Once(Now, shown) => Once(r, shown \cup (text \cap SpeechOf(Now.turns)))
    BY <1>1, <1>2, <2>1, SpeechStable, Zenon
  <2> HIDE DEF now, text, r
  <2>3. CASE Becomes(r) /\ again' = again \cup (text \cap SpeechOf(turns))
    <3>1. Once(r, again') BY <1>2, <1>4, <2>2, <2>3
    <3>2. r.buffer.user \subseteq 1..heard' BY <1>2, <1>3, <1>4, <2>2
    <3>3. r \in Conversations BY <2>2, SoundParts DEF Stable
    <3>4. Kept(Now) \subseteq Kept(r) BY <1>5, <2>2, <3>3, KeptIsKept
    <3>5. 1..heard' \subseteq Kept(r) \cup missed' \cup unseen'
      BY <1>2, <1>3, <2>1, <2>2, <3>4 DEF HeardIsKept
    <3> QED BY <1>2, <2>2, <2>3, <3>1, <3>2, <3>5, Step
  <2>4. CASE u \in now.buffer.user /\ Becomes(now) /\ UNCHANGED again
    <3>1. u \in buffer.user BY <1>4, <2>2, <2>4 DEF Keeps
    <3>2. heard' = heard BY <1>1, <1>2, <3>1
    <3> QED BY <1>2, <2>1, <2>2, <2>4, <3>2, QuietStep
  <2> QED BY <2>1, <2>3, <2>4
<1> QED BY <1>6, <1>7, <1>8 DEF InputTranscript


LEMMA UnchangedKeepsInv ==
    ASSUME Inv, UNCHANGED <<conversation, history>>
    PROVE  Inv'
<1>1. /\ context' = context /\ buffer' = buffer /\ artifacts' = artifacts /\ turns' = turns
      /\ heard' = heard /\ missed' = missed /\ unseen' = unseen /\ again' = again
  BY DEF conversation, history
<1>2. Now' = Now BY <1>1 DEF Now
<1> QED BY <1>1, <1>2 DEF Inv, HeardIsKept

\* The session ends, and the surface is cleared after the turn was reset.
LEMMA TeardownKeepsInv ==
    ASSUME Inv, NEW STATE keeps, keeps \in BOOLEAN, Becomes(Teardown(keeps)), UNCHANGED history
    PROVE  Inv'
<1> DEFINE s == Reset(Now)
           r == Emptied(s, keeps)
<1>1. Stable(Now) /\ Once(Now, again) BY DEF Inv
<1>2. Stable(s) /\ Keeps(Now, s) /\ s.context.fence = "idle" BY <1>1, ResetStable
<1> HIDE DEF s
<1>3. Stable(r) /\ TurnsIn(s, r) /\ \A shown : Once(s, shown) => Once(r, shown)
  BY <1>2, EmptiedStable
<1>4. Becomes(r) BY DEF Teardown, s
<1>5. r.context.fence = "idle"
  <2>1. Stable(ForgetFence(s)) /\ ~IsSettled(ForgetFence(s)) BY <1>2, ForgetFenceStable
  <2>2. Stable(ClearStore(ForgetFence(s), keeps)) BY <2>1, ClearStoreStable
  <2> QED BY <2>2, ResetStable DEF Emptied
<1> HIDE DEF r
<1>6. Once(r, again') BY <1>1, <1>2, <1>3 DEF Keeps, history
<1>7. r.buffer = Silence BY <1>3, <1>5 DEF Stable
<1>8. /\ Now \in Conversations /\ s \in Conversations /\ r \in Conversations
  BY <1>1, <1>2, <1>3, SoundParts DEF Stable
<1>9. s.context.user = None BY <1>2 DEF Stable, Open, Closes
<1>10. Kept(Now) \subseteq Kept(s) BY <1>2, <1>8, KeptIsKept DEF Keeps
<1>11. Kept(s) \subseteq Kept(r) BY <1>2, <1>3, <1>8, <1>9, AllTurned
<1>12. 1..heard' \subseteq Kept(r) \cup missed' \cup unseen'
  BY <1>10, <1>11 DEF Inv, HeardIsKept, history
<1>13. heard' \in Nat /\ r.buffer.user \subseteq 1..heard' BY <1>7 DEF Inv, Silence, history
<1> QED BY <1>3, <1>4, <1>6, <1>12, <1>13, Step

LEMMA NextKeepsInv ==
    ASSUME Inv, Next
    PROVE  Inv'
<1>1. Stable(Now) /\ Once(Now, again) BY DEF Inv
<1>2. ASSUME NEW u \in Utterances, InputTranscript(u) PROVE Inv' BY <1>2, InputKeepsInv
<1>3. CASE AssistantOutput
  <2> DEFINE m == EnsureAssistantTurn(Now)
             d == [m EXCEPT !.context.draft = @ \cup {m.context.turn}]
  <2>1. /\ ~Fenced(Now)
        /\ Becomes(m) \/ Becomes(Transcript(m)) \/ Becomes(d)
        /\ UNCHANGED <<heard, again, missed, unseen>>
    BY <1>3 DEF AssistantOutput, history
  <2>2. /\ Stable(m) /\ Keeps(Now, m) /\ Stable(Transcript(m)) /\ Keeps(Now, Transcript(m))
        /\ Stable(d) /\ Keeps(Now, d)
    BY <1>1, <2>1, OutputStable
  <2> HIDE DEF d, m
  <2> QED BY <2>1, <2>2, QuietStep
<1>4. CASE SubmitTextTurn
  <2> DEFINE r == [Now EXCEPT !.context.queued = TRUE]
  <2>1. Becomes(r) /\ UNCHANGED <<heard, again, missed, unseen>> BY <1>4 DEF SubmitTextTurn, history
  <2>2. Stable(r) /\ Keeps(Now, r) BY <1>1, SubmitStable
  <2> HIDE DEF r
  <2> QED BY <2>1, <2>2, QuietStep
<1>5. CASE Interrupt
  <2> DEFINE r == Settle([Now EXCEPT !.context.draft = {}], "interrupted")
  <2>1. Becomes(r) /\ UNCHANGED <<heard, again, missed, unseen>> BY <1>5 DEF Interrupt, history
  <2>2. Stable(r) /\ Keeps(Now, r) BY <1>1, InterruptStable
  <2> HIDE DEF r
  <2> QED BY <2>1, <2>2, QuietStep
<1>6. CASE Recover \/ End BY <1>6, UnchangedKeepsInv DEF Recover, End
<1>7. CASE TurnComplete
  <2> DEFINE r == Commit(Settle(Now, "completed"))
  <2>1. /\ Becomes(r) /\ Open(Now) /\ UNCHANGED <<heard, again, missed, unseen>>
    BY <1>7 DEF TurnComplete, history
  <2>2. Stable(r) /\ Keeps(Now, r) BY <1>1, <2>1, CompleteStable
  <2> HIDE DEF r
  <2> QED BY <2>1, <2>2, QuietStep
<1>8. CASE Connected \/ Fail
  <2>1. Becomes(Reset(Now)) /\ UNCHANGED <<heard, again, missed, unseen>>
    BY <1>8 DEF Connected, Fail, history
  <2>2. Stable(Reset(Now)) /\ Keeps(Now, Reset(Now)) BY <1>1, ResetStable
  <2> QED BY <2>1, <2>2, QuietStep
<1>9. CASE Disconnected
  <2> DEFINE r == ForgetFence(Reset(Now))
  <2>1. Becomes(r) /\ UNCHANGED <<heard, again, missed, unseen>> BY <1>9 DEF Disconnected, history
  <2>2. Stable(Reset(Now)) /\ Keeps(Now, Reset(Now)) BY <1>1, ResetStable
  <2>3. Stable(r) /\ Keeps(Reset(Now), r) BY <2>2, ForgetFenceStable
  <2> HIDE DEF r
  <2>4. Keeps(Now, r) BY <2>2, <2>3, KeepsOn
  <2> QED BY <2>1, <2>3, <2>4, QuietStep
<1>10. CASE Resume
  <2>1. Becomes(ForgetFence(Now)) /\ UNCHANGED <<heard, again, missed, unseen>>
    BY <1>10 DEF Resume, history
  <2>2. Stable(ForgetFence(Now)) /\ Keeps(Now, ForgetFence(Now)) BY <1>1, ForgetFenceStable
  <2> QED BY <2>1, <2>2, QuietStep
<1>11. CASE Ended
  <2>1. (link = "ending") \in BOOLEAN /\ Becomes(Teardown(link = "ending")) /\ UNCHANGED history
    BY <1>11 DEF Ended
  <2> QED BY <2>1, TeardownKeepsInv
<1>12. CASE StartFails
  <2>1. Becomes(Teardown(FALSE)) /\ UNCHANGED history BY <1>12, Zenon DEF StartFails
  <2>2. FALSE \in BOOLEAN OBVIOUS
  <2> QED BY <2>1, <2>2, TeardownKeepsInv
<1>13. CASE EndedWhileResuming
  <2> DEFINE f == ForgetFence(Now)
             d == ClearStore(f, TRUE)
             r == Emptied(Now, TRUE)
  <2>1. /\ Becomes(r) /\ missed' = missed \cup (Kept(Now) \ Kept(r)) /\ UNCHANGED <<heard, again, unseen>>
    BY <1>13 DEF EndedWhileResuming
  <2>2. TRUE \in BOOLEAN OBVIOUS
  <2>3. Stable(r) /\ Once(r, again) BY <1>1, <2>2, EmptiedStable
  <2>4. r.context.fence = "idle"
    <3>1. Stable(f) /\ ~IsSettled(f) BY <1>1, ForgetFenceStable
    <3>2. Stable(d) BY <2>2, <3>1, ClearStoreStable
    <3> QED BY <3>2, ResetStable DEF Emptied
  <2> HIDE DEF r
  <2>5. r.buffer.user = {} BY <2>3, <2>4 DEF Stable, Silence
  <2> QED BY <2>1, <2>3, <2>5, ClearedStep
<1>14. CASE SwitchChat
  <2> DEFINE r == ClearStore(Now, FALSE)
  <2>1. /\ Becomes(r) /\ missed' = missed \cup (Kept(Now) \ Kept(r)) /\ UNCHANGED <<heard, again, unseen>>
    BY <1>14 DEF SwitchChat
  <2>2. FALSE \in BOOLEAN OBVIOUS
  <2>3. Stable(r) /\ Once(r, again) BY <1>1, <2>2, ClearStoreStable
  <2>4. r.buffer.user = {}
    <3>1. Now \in Conversations BY <1>1, SoundParts DEF Stable
    <3>2. r.buffer = Silence BY <2>2, <3>1, ClearStoreFacts DEF Is
    <3>3. Silence.user = {} BY DEF Silence
    <3> QED BY <3>2, <3>3
  <2> HIDE DEF r
  <2> QED BY <2>1, <2>3, <2>4, ClearedStep
<1> QED
  BY <1>2, <1>3, <1>4, <1>5, <1>6, <1>7, <1>8, <1>9, <1>10, <1>11, <1>12, <1>13, <1>14 DEF Next

LEMMA InitInv ==
    ASSUME Init
    PROVE  Inv
<1>1. /\ Now.context = Idle /\ Now.buffer = Silence /\ Now.artifacts = <<>> /\ Now.turns = <<>>
      /\ heard = 0 /\ buffer = Silence /\ again = {}
  BY DEF Init, Now
<1>2. Idle \in Contexts /\ Silence \in Buffers /\ <<>> \in Seq(Artifacts) /\ <<>> \in Seq(Entries)
  BY DEF Idle, Contexts, Silence, Buffers, None
<1>3. Now \in Conversations BY <1>2 DEF Init, Now, Conversations
<1>4. /\ Now.context.user = None /\ Now.context.assistant = None /\ Now.context.lastUser = None
      /\ Now.context.lastAssistant = None /\ Now.context.draft = {} /\ Now.context.fence = "idle"
      /\ Now.context.reserved = FALSE
  BY <1>1 DEF Idle
<1>5. Typed(Now) BY <1>1, <1>3, <1>4 DEF Typed, Pointers, None
<1>6. CurrentUser(Now) /\ CurrentAssistant(Now) /\ LastAssistant(Now)
  BY <1>4 DEF CurrentUser, CurrentAssistant, LastAssistant, Shown
<1>7. Attached(Now)
  BY <1>1 DEF Attached, StreamsCurrent, SettledAttached, AttachedOnce
<1>8. Apart(Now) BY <1>1, <1>4 DEF Apart, RepliesOfTurn, TurnsApart, Silence
<1>9. Stable(Now)
  BY <1>1, <1>4, <1>5, <1>6, <1>7, <1>8
     DEF Stable, Sound, Open, Closes, LastSaid, IsSettled, LastInterrupted, Shown
<1>10. Once(Now, again) BY <1>1 DEF Once, TurnedOnceIn, HasSpeech, Silence
<1>11. HeardIsKept BY <1>1 DEF HeardIsKept
<1>12. buffer.user = {} /\ heard \in Nat BY <1>1 DEF Silence
<1> QED BY <1>9, <1>10, <1>11, <1>12 DEF Inv


\* Between any two handlers the conversation is sound, no speech became a turn twice
\* and everything heard is kept: the invariant of every interleaving of transcripts,
\* interruptions, settlements and resets.
THEOREM Invariant == Spec => []Inv
<1>1. Init => Inv BY InitInv
<1>2. Inv /\ [Next]_vars => Inv'
  <2>1. ASSUME Inv, Next PROVE Inv' BY <2>1, NextKeepsInv
  <2>2. ASSUME Inv, UNCHANGED vars PROVE Inv'
    <3>1. UNCHANGED <<conversation, history>> BY <2>2 DEF vars
    <3> QED BY <2>2, <3>1, UnchangedKeepsInv
  <2> QED BY <2>1, <2>2
<1> QED BY <1>1, <1>2, PTL DEF Spec

LEMMA InvParts ==
    ASSUME Inv
    PROVE  /\ Now.context = context /\ Now.artifacts = artifacts /\ Now.turns = turns
           /\ DOMAIN artifacts = 1..Len(artifacts) /\ DOMAIN turns = 1..Len(turns)
           /\ artifacts \in Seq(Artifacts) /\ Stable(Now) /\ Sound(Now)
<1>1. Sound(Now) /\ Stable(Now) BY DEF Inv, Stable
<1>2. Now.artifacts \in Seq(Artifacts) /\ Now.turns \in Seq(Entries) BY <1>1, SoundParts
<1>3. Now.context = context /\ Now.artifacts = artifacts /\ Now.turns = turns BY DEF Now
<1> QED BY <1>1, <1>2, <1>3

\* Whatever cuts a turn off, no artifact streams on that its context has lost: what
\* settle, reset, discard and clear leave streaming belongs to the open turn.
THEOREM NoOrphansAlways == Spec => []NoOrphans
<1>1. Inv => NoOrphans
  <2> SUFFICES ASSUME Inv, NEW a \in Shows, ~artifacts[a].settled
               PROVE  context[artifacts[a].role] = a /\ Open(Now)
    BY DEF NoOrphans
  <2>1. a \in 1..Len(artifacts) /\ artifacts[a].there BY InvParts DEF Shows
  <2>2. artifacts[a].role \in Roles
    <3>1. artifacts \in Seq(Artifacts) BY InvParts
    <3>2. artifacts[a] \in Artifacts BY <2>1, <3>1
    <3> QED BY <3>2 DEF Artifacts
  <2>3. StreamsCurrent(artifacts, context.user, context.assistant)
    BY InvParts DEF Sound, Attached
  <2>4. IF artifacts[a].role = "user" THEN context.user = a ELSE context.assistant = a
    BY <2>1, <2>3 DEF StreamsCurrent
  <2>5. ~Closes(Now) BY <2>1, <2>4, InvParts DEF Closes, None
  <2>6. Open(Now) BY <2>5, InvParts DEF Stable
  <2>7. CASE artifacts[a].role = "user" BY <2>4, <2>6, <2>7
  <2>8. CASE artifacts[a].role = "assistant" BY <2>4, <2>6, <2>8
  <2> QED BY <2>2, <2>7, <2>8 DEF Roles
<1> QED BY <1>1, Invariant, PTL

\* A settled artifact and its turn never come to say different things, and only an
\* interrupted reply stays without a turn.
THEOREM SettledBecomesTurnAlways == Spec => []SettledBecomesTurn
<1>1. Inv => SettledBecomesTurn
  <2> SUFFICES ASSUME Inv, NEW a \in Shows, artifacts[a].settled
               PROVE  IF artifacts[a].attached # None
                      THEN turns[artifacts[a].attached].text = artifacts[a].text
                      ELSE artifacts[a].role = "assistant" /\ artifacts[a].interrupted
    BY DEF SettledBecomesTurn
  <2>1. a \in 1..Len(artifacts) /\ artifacts[a].there BY InvParts DEF Shows
  <2>2. SettledAttached(artifacts, turns, context.lastAssistant) BY InvParts DEF Sound, Attached
  <2>3. context.lastAssistant = a => artifacts[a].interrupted
    BY <2>1, InvParts DEF Stable, LastInterrupted, Shown, None
  <2> QED BY <2>1, <2>2, <2>3 DEF SettledAttached
<1> QED BY <1>1, Invariant, PTL

\* What was heard is in a turn or on the surface, however turns end: it is lost only
\* where the surface is cleared while it streams.
THEOREM HeardIsKeptAlways == Spec => []HeardIsKept
<1>1. Inv => HeardIsKept BY DEF Inv
<1> QED BY <1>1, Invariant, PTL

\* No two user turns hold the same utterance, unless its transcript was sent again
\* after the first of them was settled.
THEOREM TurnedOnceAlways == Spec => []TurnedOnce
<1>1. Inv => TurnedOnce
  <2> SUFFICES ASSUME Inv PROVE TurnedOnce OBVIOUS
  <2>1. TurnedOnceIn(turns, again) BY InvParts DEF Inv, Once
  <2> QED BY <2>1, InvParts DEF TurnedOnceIn, TurnedOnce
<1> QED BY <1>1, Invariant, PTL

\* The text of a reply is of its own voice turn, on the surface and in the
\* conversation.
THEOREM RepliesApartAlways == Spec => []RepliesApart
<1>1. Inv => RepliesApart
  <2> SUFFICES ASSUME Inv PROVE RepliesApart OBVIOUS
  <2>1. RepliesOfTurn(artifacts) /\ TurnsApart(turns) BY InvParts DEF Sound, Apart
  <2>2. \A a \in Replies : artifacts[a].text \subseteq {artifacts[a].of}
    BY <2>1, InvParts DEF RepliesOfTurn, Replies, Shows
  <2> QED BY <2>1, <2>2, InvParts DEF TurnsApart, RepliesApart
<1> QED BY <1>1, Invariant, PTL
=============================================================================
