---------------------------- MODULE VoiceTools ----------------------------
(***************************************************************************)
(* The voice-tool controller: batches of calls that the model makes over   *)
(* the active transport are executed one batch after another in a promise  *)
(* chain, and answered over the same transport.                            *)
(*                                                                         *)
(* A step is what runs between two awaits.  Nothing stops a batch that is  *)
(* waiting: cancel() takes a new execution version and starts a new chain, *)
(* and whatever the old one still does has to notice.  The session drives  *)
(* this module through the actions under "Session"; that a transport is    *)
(* heard only while it is active is OneListener of LiveSession.            *)
(***************************************************************************)
EXTENDS Naturals, Sequences

CONSTANTS Transports,
          None,
          CallLists,     \* the lists of calls a transport may deliver
          SearchLimit,   \* MAX_PROJECT_KNOWLEDGE_EXECUTIONS_PER_SESSION
          MaxBatches,    \* bound: batches delivered
          MaxVersion     \* bound: cancellations

\* A search goes to the backend; every other tool is answered locally.
Tools == {"search", "other"}

ASSUME VoiceToolsAssumption ==
  /\ None \notin Transports
  /\ CallLists \subseteq Seq(Tools)
  /\ SearchLimit \in Nat
  /\ MaxBatches \in Nat
  /\ MaxVersion \in Nat

Batches == 1..MaxBatches

VARIABLES transport,  \* the active transport
          ready,      \* it is connected, and delivers events
          version,    \* executionVersion
          searches,   \* successfulProjectKnowledgeExecutions
          tail,       \* the batch voiceToolChain ends with, 0 when resolved
          toolState,  \* voiceToolState.status in the store
          arrived,    \* batches delivered so far, numbered in that order
          batch,      \* what each batch is at
          sent        \* history: the answers handed to transports

session == <<transport, ready>>
vars == <<transport, ready, version, searches, tail, toolState, arrived, batch, sent>>

Stages == {"none", "queued", "executing", "responding", "done"}

NoBatch == [at |-> "none", version |-> 0, behind |-> 0, from |-> None,
            to |-> None, todo |-> <<>>, failed |-> FALSE]

Init ==
  /\ transport = None
  /\ ready = FALSE
  /\ version = 0
  /\ searches = 0
  /\ tail = 0
  /\ toolState = "idle"
  /\ arrived = 0
  /\ batch = [b \in Batches |-> NoBatch]
  /\ sent = <<>>

---------------------------------------------------------------------------
(* The controller *)

\* Mutant: The versions are compared when the batch starts only.
StillActiveUnversioned(b) == batch[b].to = transport

\* isActiveExecution
StillActive(b) == batch[b].version = version /\ batch[b].to = transport

\* Mutant: The new version is taken, and the chain goes on.
CancelUnchained ==
  /\ version < MaxVersion
  /\ version' = version + 1
  /\ tail' = tail

\* Mutant: The chain is started anew under the old version.
CancelUnversioned ==
  /\ version < MaxVersion
  /\ version' = version
  /\ tail' = 0

\* cancel, but for its reset of the store's state: each action below says what
\* the state is once the whole of its handler has run.
Cancel ==
  /\ version < MaxVersion
  /\ version' = version + 1
  /\ tail' = 0

\* Mutant: Batches run as they arrive.
EnqueueUnchained(calls) ==
  /\ ready /\ arrived < MaxBatches
  /\ arrived' = arrived + 1
  /\ batch' = [batch EXCEPT ![arrived + 1] =
                 [at |-> "queued", version |-> version, behind |-> 0, from |-> transport,
                  to |-> None, todo |-> calls, failed |-> FALSE]]
  /\ UNCHANGED <<session, version, searches, tail, toolState, sent>>

\* A tool-call event: enqueue captures the version and chains the batch.
Enqueue(calls) ==
  /\ ready /\ arrived < MaxBatches
  /\ arrived' = arrived + 1
  /\ batch' = [batch EXCEPT ![arrived + 1] =
                 [at |-> "queued", version |-> version, behind |-> tail, from |-> transport,
                  to |-> None, todo |-> calls, failed |-> FALSE]]
  /\ tail' = arrived + 1
  /\ UNCHANGED <<session, version, searches, toolState, sent>>

\* The chain has come to this batch.
Reached(b) ==
  /\ batch[b].at = "queued"
  /\ batch[b].behind # 0 => batch[batch[b].behind].at = "done"

Runs(b) == batch[b].version = version /\ transport # None /\ batch[b].todo # <<>>

Finish(b) == batch' = [batch EXCEPT ![b].at = "done"]

\* Searches over the session's limit are refused without an await.
Refused(todo, done) == done >= SearchLimit /\ todo # <<>> /\ Head(todo) = "search"
Unrefused(todo, done) ==
  IF done < SearchLimit THEN todo
  ELSE LET others == {i \in 1..Len(todo) : todo[i] # "search"}
           first  == CHOOSE i \in others : \A j \in others : i <= j
       IN  IF others = {} THEN <<>> ELSE SubSeq(todo, first, Len(todo))

\* The loop of handleVoiceToolCalls up to its next await: of a call, or, when
\* none is left, of the answer.
Proceed(b, todo, failed, done) ==
  LET left  == Unrefused(todo, done)
      stage == IF left = <<>> THEN "responding" ELSE "executing"
  IN  /\ batch' = [batch EXCEPT ![b].at = stage,
                                ![b].to = transport,
                                ![b].todo = left,
                                ![b].failed = failed \/ Refused(todo, done)]
      /\ toolState' = stage
      /\ searches' = done
      /\ sent' = IF left = <<>> THEN Append(sent, [batch |-> b, to |-> transport])
                 ELSE sent
      /\ UNCHANGED <<session, version, tail, arrived>>

Start(b) == Reached(b) /\ Runs(b) /\ Proceed(b, batch[b].todo, FALSE, searches)

Ignore(b) ==
  /\ Reached(b) /\ ~Runs(b)
  /\ Finish(b)
  /\ UNCHANGED <<session, version, searches, tail, toolState, arrived, sent>>

Counts(b, ok) == IF ok /\ Head(batch[b].todo) = "search" THEN searches + 1 ELSE searches

\* executeLocalVoiceTool has answered a batch that is still wanted.
Answer(b, ok) ==
  /\ batch[b].at = "executing" /\ StillActive(b)
  /\ Proceed(b, Tail(batch[b].todo), batch[b].failed \/ ~ok, Counts(b, ok))

\* Mutant: A late answer clears the state shown.
ForgetShowing(b) ==
  /\ batch[b].at \in {"executing", "responding"} /\ ~StillActive(b)
  /\ Finish(b)
  /\ toolState' = "idle"
  /\ UNCHANGED <<session, version, searches, tail, arrived, sent>>

\* An answer, or the end of submit(), for a batch that no longer is.
Forget(b) ==
  /\ batch[b].at \in {"executing", "responding"} /\ ~StillActive(b)
  /\ Finish(b)
  /\ UNCHANGED <<session, version, searches, tail, toolState, arrived, sent>>

\* submit() has ended, or thrown.
Settle(b, ok) ==
  /\ batch[b].at = "responding" /\ StillActive(b)
  /\ Finish(b)
  /\ toolState' = IF ok /\ ~batch[b].failed THEN "idle" ELSE "error"
  /\ UNCHANGED <<session, version, searches, tail, arrived, sent>>

---------------------------------------------------------------------------
(* Session *)

\* interrupted, go-away, connection-terminated and error cancel the tools.
Interrupt ==
  /\ Cancel
  /\ toolState' = "idle"
  /\ UNCHANGED <<session, searches, arrived, batch, sent>>

\* Mutant: A transport is taken away and its tools go on.
DetachAlone ==
  /\ version < MaxVersion
  /\ transport' = None /\ ready' = FALSE
  /\ toolState' \in {"idle", "error"}
  /\ UNCHANGED <<version, tail, searches, arrived, batch, sent>>

\* cleanupTransport, and the teardown of a resume.  After an error the
\* teardown puts back the state it found.
Detach ==
  /\ transport' = None /\ ready' = FALSE
  /\ Cancel
  /\ toolState' \in {"idle", "error"}
  /\ UNCHANGED <<searches, arrived, batch, sent>>

\* activateTransport: a cleanup, then the new transport.
Activate(x) ==
  /\ transport' = x /\ ready' = FALSE
  /\ Cancel
  /\ toolState' = "idle"
  /\ UNCHANGED <<searches, arrived, batch, sent>>

\* A resume sets its transport without a cleanup, after it tore down.
Reattach(x) ==
  /\ transport = None /\ transport' = x
  /\ UNCHANGED <<ready, version, searches, tail, toolState, arrived, batch, sent>>

Connected ==
  /\ transport # None /\ ~ready
  /\ ready' = TRUE
  /\ toolState' = "idle"
  /\ UNCHANGED <<transport, version, searches, tail, arrived, batch, sent>>

\* A resume that was superseded takes back the transport it just connected.
AbandonResume ==
  /\ transport # None /\ ~ready
  /\ transport' = None
  /\ toolState' = "idle"
  /\ UNCHANGED <<ready, version, searches, tail, arrived, batch, sent>>

\* startSessionInternal, after its teardown: the limits count anew.
StartSession ==
  /\ transport = None
  /\ searches' = 0
  /\ toolState' = "idle"
  /\ UNCHANGED <<session, version, tail, arrived, batch, sent>>

\* settleVoiceErrorState shows the error before it tears the session down.
ShowError ==
  /\ toolState' = "error"
  /\ UNCHANGED <<session, version, searches, tail, arrived, batch, sent>>

---------------------------------------------------------------------------
Delivery == \E calls \in CallLists : Enqueue(calls)
Progress(b) == Start(b) \/ Ignore(b) \/ Forget(b)
                 \/ \E ok \in BOOLEAN : Answer(b, ok) \/ Settle(b, ok)
Session == \/ Interrupt \/ Detach \/ Connected \/ AbandonResume
           \/ StartSession \/ ShowError
           \/ \E x \in Transports : Activate(x) \/ Reattach(x)

Next == Delivery \/ (\E b \in Batches : Progress(b)) \/ Session

Spec == Init /\ [][Next]_vars

\* The event loop runs what is ready; a search that is still wanted is
\* answered, and submit() of one.  A search nobody waits for may take for ever.
Wanted(b) == /\ batch[b].at = "queued" \/ StillActive(b)
             /\ Progress(b)
FairSpec == Spec /\ \A b \in Batches : WF_vars(Wanted(b))

---------------------------------------------------------------------------
(* Properties *)

BatchType ==
  [at : Stages, version : 0..MaxVersion, behind : 0..MaxBatches,
   from : Transports \cup {None}, to : Transports \cup {None},
   todo : Seq(Tools), failed : BOOLEAN]

TypeOK ==
  /\ transport \in Transports \cup {None}
  /\ ready \in BOOLEAN
  /\ version \in 0..MaxVersion
  /\ searches \in 0..SearchLimit
  /\ tail \in 0..arrived
  /\ toolState \in {"idle", "executing", "responding", "error"}
  /\ arrived \in 0..MaxBatches
  /\ batch \in [Batches -> BatchType]
  /\ sent \in Seq([batch : Batches, to : Transports])

\* An answer goes to the transport whose model made the calls, whatever
\* replaced it while they were executed.
AnswersGoHome == \A i \in DOMAIN sent : sent[i].to = batch[sent[i].batch].from

\* Batches are answered in the order they came, none twice.
AnsweredInOrder ==
  \A i, j \in DOMAIN sent : i < j => sent[i].batch < sent[j].batch

\* Calls that were cancelled are never answered.
CancelledStaysSilent ==
  [][\A b \in 1..arrived : batch[b].version # version =>
        batch'[b].at = batch[b].at \/ (batch'[b].at = "done" /\ sent' = sent)]_vars

\* The store shows an execution exactly while a batch that is still wanted is
\* at that stage: the router asks it whether an interruption has something to
\* interrupt, so that neither may be missing.
Live(b) == batch[b].version = version /\ batch[b].at \in {"executing", "responding"}
StateTellsTheChain ==
  /\ toolState \in {"executing", "responding"} =>
       \E b \in Batches : Live(b) /\ batch[b].at = toolState
  /\ \A b \in Batches : Live(b) => toolState \in {batch[b].at, "error"}

\* The answers the model may still count on: of the batches of the present chain
\* that have calls and no answer yet.
Outstanding == {b \in Batches : /\ batch[b].version = version
                                /\ batch[b].at \in {"queued", "executing"}
                                /\ batch[b].todo # <<>>}
WantedAnswers == {[batch |-> b, to |-> batch[b].from] : b \in Outstanding}

Queue == INSTANCE ToolQueue WITH delivered <- arrived, wanted <- WantedAnswers, answered <- sent

\* Chains and versions amount to one queue: no calls are dropped but by a
\* cancellation, and none that are left are answered twice, late or elsewhere.
ImplementsQueue == Queue!Spec

\* A batch is started or cancelled: it never waits for the answer to a search
\* that was cancelled.
ReachedOrCancelled ==
  \A b \in Batches :
    batch[b].at = "queued" ~> (batch[b].at # "queued" \/ batch[b].version # version)
===========================================================================
