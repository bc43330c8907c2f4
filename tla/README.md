# Livepair: a TLA+ verification project

Livepair is a desktop assistant (Electron, `apps/desktop`) that talks to Gemini
Live over a WebSocket, and a backend (NestJS, `apps/api`) that mints session
tokens, searches a project's knowledge and keeps chats and live-session records
in Postgres.  The modules here model the parts whose correctness depends on the
order in which things happen; TLC checks them on small instances and TLAPS
proves the central properties for every value of the constants.

Paths below are relative to the repository's root; `runtime/` stands for
`apps/desktop/src/renderer/runtime/`.

## 1. Inventory

| component | state it keeps | operations | what is hard about it | what makes it correct |
|---|---|---|---|---|
| session engine (`runtime/session/liveSessionEngine.ts`, `runtime/speech/speechSessionLifecycle.ts`) | speech lifecycle, voice-session status | `applyEvent`, `handleCommand`, `deriveTurnCompleteEvent` | two reducers over one event stream, which may disagree | what the user is shown follows it |
| session controller (`sessionLifecycle.ts`, `sessionVoiceConnection.ts`, `connectFallbackVoiceSession.ts`, `sessionEndings.ts`, `sessionTeardown.ts`, `sessionErrorHandling.ts`, `sessionRuntime.ts`, `sessionMutableRuntime.ts`) | mode, operation id, active transport, unsubscribe function | start, end, text turn, teardown, error | every operation is a chain of awaits; any two interleave and are told apart by the operation id only | one listener; a superseded call attaches nothing; an end ends |
| resume controller (`runtime/voice/session/voiceResume*.ts`, `voiceTokenManager.ts`) | resume in flight, attempts, token, handle | resume, refresh, fall back | runs as a callback of transport events, during anything | bounded attempts; the flag is cleared; it falls back |
| Gemini transport (`runtime/transport/geminiLiveTransport*.ts`) | session, setup, disconnect resolver | connect, disconnect, send | events are emitted before promises settle; a close may come at any phase | a closed transport stays closed; each disconnect settles |
| event router (`runtime/transport/transportEventRouter*.ts`) | none | one handler per event | handlers read the engine and the resume flag of the moment | events of an old transport change nothing |
| silence and recovery timers (`runtime/speech/speechSilenceController.ts`) | two timers | status change, activity, clear | a timer fires for a status that is gone | no stale timer; a quiet session is watched |
| interruption and playback (`voiceInterruptionController.ts`, `voicePlaybackController.ts`) | in-flight flag, sequence, audio queue | interrupt, stop, reset | stop is awaited while the session is replaced | an interrupted turn recovers |
| microphone (`voiceChunkDispatch.ts`, `voiceChunkPipeline.ts`, `voiceCaptureBinding.ts`, `runtime/audio/localVoiceCapture*.ts`) | capture, pending chunk, generation, lane | start, stop, chunk, flush, reset | 50 chunks a second while transports are swapped | a chunk goes to the transport it was recorded for |
| outbound gateway (`runtime/outbound/realtimeOutboundGateway.ts`) | sequence and outstanding counts per channel, breaker | submit, settle, success, failure, reset | settles that arrive after a reset | bounded outstanding audio; newest frame wins |
| voice tools (`runtime/voice/tools/voiceToolController.ts`) | chain, version, searches done | enqueue, cancel, reset | an answer arrives after an interruption | no response to a cancelled call; at most three searches |
| conversation and transcripts (`runtime/conversation/`, `runtime/voice/transcript/`) | drafts, artifacts, turn fence | update, finalize, commit, attach | transcripts of both speakers arrive late, twice and out of order; resets at any point | each utterance becomes one turn; none is lost |
| screen capture (`runtime/screen/`) | capture state, frame queue, timers | start, stop, frame, manual send | start and stop awaits interleave with the picker and the sends | what is shown as shared is shared; no frame after stop |
| live-session cache (`apps/desktop/src/renderer/liveSessions/`) | the record in use | start, restore, update, end | module state written after awaits | the cache is the row in use |
| current chat (`apps/desktop/src/renderer/chatMemory/`) | active chat, append chain | append, switch, hydrate | the chat is looked up when the append runs | a message lands in the chat it belongs to |
| API chat memory (`apps/api/src/chat-memory/`) | Postgres rows | create, append, update, end | concurrent transactions | one current chat; gapless sequence; an ended session stays ended |
| API rate limiters (`*-rate-limit.guard.ts`) | bucket map, last sweep | `canActivate` | window boundaries, sweeps of a shared map | the quota is exact; memory is bounded |
| API project knowledge (`apps/api/src/project-knowledge/`) | signature of the corpus synchronised last, the synchronisation under way; a remote store | search, prewarm, synchronise | many requests in a row, each of which may fail or be served unanswered; imports outlive their time limit, the store outlives the server | what is remembered as synchronised is in the store; searches end |
| API tokens, observability, config, health | little or none | one request each | external calls | see section 9 |
| desktop main, preload, IPC; user interface; telemetry | settings, windows | forwarding, rendering | small sequential state | see section 9 |

**How they interact.** The interface calls the session controller; the
controller creates transports and subscribes the event router to one; the
transport calls the router; the router applies events to the engine and calls
the controller, the resume controller, the interruption controller and the
error handler back; all of them read and write one mutable runtime (operation
id, active transport, resume flag) and one store.  The controller awaits the
API (token, chat, live-session record) through IPC.  JavaScript runs a
callback to its end, so all interleaving is at awaits; nothing but the
operation id tells a superseded call that it is one.

The hazards of this code, each at its line, are the list "hazards" of
PROJECT.json, with the properties that watch them.

## 2. Plan

| step | modules | state |
|---|---|---|
| 1 | `RateLimitGuard`, refining the abstract `FixedWindow` | done, proved |
| 2 | `LiveSessionEngine`, `LiveSession`: controller, resume, transport and timers composed | done; safety proved |
| 3 | `CurrentChat`: Postgres transactions around the unique current chat | done; safety proved |
| 4 | `ChatHistory`: appends, edits and ends of sessions around messages and summary | done; safety proved |
| 5 | `VoiceTools`: batches of tool calls under cancellation, refining the abstract `ToolQueue` | done; safety and refinement proved |
| 6 | `LiveSessionRecord`: the renderer's cached record of its Live session over the backend's rows | done; safety proved |
| 7 | `OutboundGateway`, `VoiceDispatch`: admission, breaker, pending chunk, drain loops and their generations | done; safety proved |
| 8 | `ScreenCapture`: start, stop, picker, device, frames and manual sends under a session that comes and goes | done; safety proved |
| 9 | `ChatMemory`: active chat, append chain, hydration and switching of the renderer | done; safety proved |
| 10 | `SpeechTurn`: turn fence, drafts, transcript artifacts and turns | done; safety proved |
| 11 | `KnowledgeSync`: the corpus of the project knowledge, its remote store and restarts of the server | done; safety proved |
| 12 | `GeminiTransport`, one variable per field, shown to implement the phases `LiveSession` uses; playback (queue, output route, volume) | left |

The order was that of consequence: first what decides whether a session is
heard at all (1 to 5), then what it leaves behind, sends and shows (6 to 10),
then the one stateful service of the API that was left (11).

## 3. Modules

| module | what it models |
|---|---|
| `RateLimitGuard` | both rate-limit guards: `Request` is `canActivate` (`OpenWindow`, `CountRequest`, `RejectRequest` are its three answers, each with the sweep that opens it) |
| `FixedWindow` | the abstract limiter: one window per client, no map, no sweep |
| `LiveSessionEngine` | the two reducers, as functions of a state and an event |
| `LiveSession` | the live session: calls, wiring, transports, timers |
| `LiveSessionProofs` | its theorems |
| `CurrentChat` | `createChat` and `getOrCreateCurrentChat` as concurrent transactions with retries |
| `ChatHistory` | `appendMessage`, `updateMessage` and `endLiveSession` as concurrent transactions |
| `VoiceTools` | the voice-tool controller under the session that cancels it |
| `ToolQueue` | what it promises: one queue of calls, answered in order or cancelled together |
| `VoiceToolsProofs` | its theorems |
| `LiveSessionRecord` | the cached record, the requests about it and the rows of `live_sessions` |
| `LiveSessionRecordProofs` | its theorems |
| `OutboundGateway` | the gateway as functions of its state: admission, settling, breaker, reset |
| `VoiceDispatch` | microphone chunks through the gateway into the transport |
| `VoiceDispatchProofs` | its theorems |
| `ScreenCapture` | the shared screen, its frames and its sends |
| `ScreenCaptureProofs` | its theorems |
| `ChatMemory` | the renderer's chat memory: settled turns, stored in the active chat |
| `ChatProofs` | the theorems of `CurrentChat` and `ChatMemory`, which calls its specification `MemorySpec` |
| `SpeechTurn` | voice turns: the fence, drafts, artifacts, turns |
| `SpeechTurnProofs` | its theorems |
| `KnowledgeSync` | the synchronisation of the project-knowledge corpus |
| `ApiProofs` | the theorems of `RateLimitGuard`, `ChatHistory` and `KnowledgeSync`; the first two call their specifications `LimiterSpec` and `HistorySpec`, so that one module can extend all three |
| `MC...` | the instances TLC checks |

The renderer and the API share no state but rows, so the modules compose by
contract: `VoiceTools` takes from `LiveSession` that a transport is heard only
while it is active (`OneListener`), `LiveSession` awaits the API's answers, any
of which may fail, and `CurrentChat` and `ChatHistory` touch different columns.
`VoiceDispatch` and `ScreenCapture` take from it the events of a transport
(activated, connected, dropped, cleaned up), `SpeechTurn` those of a session, in
any order that session can have them; `ChatMemory` takes up the turns
`SpeechTurn` settles.

### LiveSession and the code

A **step** is everything the code does between two awaits of real I/O.  An
await of something already settled, and the microtasks that follow a promise
the transport has just settled, belong to the step that settled it.  Every
async call in flight is a **task**, a record of
the await it stands at (`at`), what it is for (`aim`: start, end, silence,
error, resume), the transport it connects (`link`) and one remembered value
(`noted`: the capture state a teardown read on entry, or whether a resume had a
handle).

| variable | code |
|---|---|
| `mode` | `store.currentMode` |
| `engine` | the engine's `speechLifecycle.status` and `voiceSessionStatus` |
| `ui` | `store.voiceSessionStatus` |
| `timers` | the silence and recovery timers of `speechSilenceController` |
| `interrupting` | `inFlight` of `voiceInterruptionController` |
| `mic`, `hasCapture` | the microphone captures; a capture object exists |
| `resuming` | `voiceResumptionInFlight` |
| `canResume` | `store.voiceSessionResumption` holds a resumable handle |
| `attempts` | `automaticRecoveryAttempts` |
| `operation` | `sessionOperationId`, as the task that took it last |
| `active`, `slot`, `listening` | `activeTransport`; whose unsubscribe function is held; which transports still call the router |
| `phase`, `waiter` | each transport's connection; who awaits its `disconnect()` |
| `task` | the calls in flight |

| actions | code |
|---|---|
| `Start`, `FinishTeardown`, `ChatReady/Fails`, `TokenReady/Fails`, `RestoreLookup/Fails` | `startSessionInternal`, await by await |
| `ConnectRestored`, `RestoredConnects`, `RetireDone/Fails` | `connectRestoredSession`; a record that failed is invalidated and ended |
| `ConnectFallback`, `PacketFails`, `FallbackConnects`, `PersistDone/Fails`, `DropClosed` | `connectFallbackVoiceSession` |
| `End`, `SilenceTimeout`, `EndLiveDone/Fails` | `endSpeechModeInternal`, `endSessionInternal` |
| `EnterTeardown`, `SkipTeardown`, `StopMedia`, `FinishTeardown` | `teardownActiveRuntime` |
| `Settle` | `settleVoiceErrorState` behind `setVoiceErrorState`, from wherever it is called |
| `ConnectionLost`, `GoAwayInSetup`, `SetupFails`, `ClientClosed`, `ResumptionUpdate`, `AudioError` | transport callbacks together with the router's handler for the event they emit |
| `BeginResume`, `Recover`, `ResumeTeardownDone`, `RefreshDone/Fails`, `ConnectResume`, `ResumeConnects`, `Rejected` | `voiceResumeController.resume` |
| `Turn`, `Interrupted`, `PlaybackStopped`, `RecoveryTimer` | turn events and the two controllers that follow them |
| `MicStarts/Stops`, `ChunkRefused`, `CaptureError`, `TypedTurn` | the microphone and a typed turn, as far as they touch the session |

`Show` is `applyEngineEventTransition`: it publishes the status the engine has
after the step's events and arms the timers of a changed lifecycle.  `Attach`
and `Detach` are `activateTransport` and `cleanupTransport`.

**Abstractions.** The operation id is compared with the latest only, so the
task that holds the latest is kept in its place; a task that gets a new id
while it is already running (an error settled inside a start) keeps its
identity.  A `connect()` whose socket the client closed before setup never
settles in the code; its task becomes inert, as does a `disconnect()` waiter
whose resolver was overwritten.  The resume's `disconnect()` of the previous
transport is called when that transport has already lost its socket, and does
nothing.  Playback exists only while the session is busy or a capture exists;
the store's capture state and the device are one variable; the wait of
`getUserMedia` is not separate (`VoiceDispatch` has it).  Which turn events
the turn fence lets through is left open: any of them may come or not.  Not
modelled: `createTransport` throwing, a typed turn that fails to send, a media
stop that rejects during teardown, the setting "Never" of the silence timeout.
The WebSocket delivers no message after `close()`, but may still report an error.  A server's close during setup is `SetupFails`.

### RateLimitGuard and the code

`buckets` is the Map, `lastSweepAt` the field; `verdict` is a history variable
for the refinement.  Time advances in ticks by `Tick`; in
`canActivate` it stands still, which is how `Date.now()` read once behaves.

### CurrentChat, ChatHistory and the code

A step is one SQL statement, at Postgres' default isolation level READ
COMMITTED; `pc` is the statement a request runs next, and the comments name it.
Statements see the rows committed when they start.  Row locks and the unique
index are the environment: `LockedAgainst`, `RowPending`, `ChatRowFree`,
`MessageRowFree`, `SessionRowFree` and `SummaryRowFree` say what a statement has
to wait for.  What a transaction wrote lives in `updated` or in `target` and
`draft` until it commits; an abort forgets it.

| `CurrentChat` | code (`chat-memory.repository.ts`) |
|---|---|
| `chats`, `current` | the committed rows of `chats`, those with `is_current` |
| `Begin`, `LoseConnection` | `withTransaction` |
| `FindCurrent`, `FindNone` | the SELECT of `getOrCreateCurrentChat` |
| `SeeCurrent`, `Demote` | the UPDATE of `createChat`: the rows it finds, then those it has locked and still finds current |
| `Insert`, `Conflict` | the INSERT and what `idx_chats_current` makes of it; `withCurrentChatRetry` |
| `CommitAnswered`, `CommitUnanswered` | COMMIT, with and without its answer |

| `ChatHistory` | code |
|---|---|
| `messages`, `allocator` | rows of `messages`; `chats.next_message_sequence` |
| `summary`, `ended` | the row of `chat_summaries`; `live_sessions` with a committed end |
| `AllocateSequence`, `CommitAppend` | `appendMessage` |
| `EditMessage`, `TouchChat`, `ReadSummary`, `ListMessages`, `UpsertSummary`, `CommitEdit` | `updateMessage` of the service and the repository |
| `EndSession`, `ListAtEnd`, `ReadAtEnd`, `UpsertAtEnd`, `CommitEnd` | `endLiveSession` of both |
| `Rollback` | any statement that fails |

A text is reduced to who wrote it last, and a summary to the texts it was built
from: enough to tell a summary that is out of date.

### VoiceTools and the code

| variable | code (`voice/tools/voiceToolController.ts`) |
|---|---|
| `version`, `searches`, `tail` | `executionVersion`, `successfulProjectKnowledgeExecutions`, `voiceToolChain` (the batch whose promise it is, 0 when resolved) |
| `toolState` | `voiceToolState.status` of the store; pending and executing are one, since no await separates them |
| `transport`, `ready` | `getTransport()`; it is connected and delivers events |
| `batch[b]` | one `handleVoiceToolCalls`: the await it stands at, the version it captured, the batch it is chained behind, the transport that delivered its calls (`from`) and the one it read (`to`), the calls left and whether one has failed |
| `arrived`, `sent` | batches so far; history of the answers |

| actions | code |
|---|---|
| `Enqueue` | `enqueue` |
| `Start`, `Answer`, through `Proceed` | the loop up to its next await; calls over the limit are refused without one (`Unrefused`) |
| `Ignore`, `Forget` | the early returns: superseded before it starts, or while it waits |
| `Settle` | the end of `submit()` |
| `Interrupt`, `Detach`, `Activate`, `Reattach`, `Connected`, `AbandonResume`, `StartSession`, `ShowError` | what the router, `cleanupTransport`, `activateTransport`, the resume, the start and the error handler do to the tools |

The session's actions are freer than the session is (any order that keeps
`OneListener`), which makes the properties stronger.  A promise that has settled
may take any time to be noticed, which over-approximates the microtask queue.
Not modelled: a callback that throws inside the handler.  What a tool answers is
reduced to success or failure.

### LiveSessionRecord and the code

| variable | code (`liveSessions/currentLiveSession.ts`, `chat-memory.repository.ts`, `chat-memory.live-session-state.ts`) |
|---|---|
| `row[i]` | the rows of `live_sessions` of one chat: status, restorable, whether a handle is kept, whether it is invalidated |
| `cache` | `activeLiveSession`, a copy of a row as it was when an answer arrived |
| `ctl`, `own`, `session`, `sent` | what the session controller is at, the row of its session, how many it began, how many updates it sent |
| `requests`, `answers` | HTTP calls under way, each with what its caller goes on with (`then`, `by`) |
| `crossed` | history: something of a past session or record took effect, or a start overtook an end |

`Start`, `StartOverEnd`, `Connect`, `Retire` and `End` are the controller's
calls, `GiveUp` its leaving one in flight (a superseded operation), `Reload` a
reload of the window, `UpdateResumption` and `InvalidateResumption` what goes out
beside it.  `Serve` is the backend's handler of each request, with its answer or
without; `Handle` the continuation of the caller.  A row's handle is reduced to
its presence, and when and why a row was invalidated to the flag `invalidated`.

### OutboundGateway, VoiceDispatch and the code

`OutboundGateway` is `realtimeOutboundGateway.ts` as functions of its state:
`AdmitsAudio` and `Admitted` are `submit`, `Settled` is `settle`, `Failed` and
`Succeeded` the breaker, `Fresh` a reset.  The count of failures stops at the
breaker's threshold.

| variable | code (`voice/media/voiceChunkDispatch.ts`, `voiceChunkPipeline.ts`, `voiceCaptureBinding.ts`, `audio/localVoiceCaptureRuntime.ts`) |
|---|---|
| `mic`, `sequence`, `closing`, `lane` | the capture's progress, `nextChunkSequence`, a past audio context still to close, `audioLaneGeneration` |
| `pending`, `inFlight` | `pendingChunk`, `audioDispatchInFlight` |
| `loop[l]` | one call of the drain loop: the chunk whose `submit` it awaits, and whether `voiceDispatchGeneration` is still the one it began with |
| `active`, `connected` | the active transport; those whose session is set up |
| `heard` | history: the last chunk each transport was handed |

`StartCapture`, `Activate`, `Refused`, `Release` and `ContextCloses` are the life
of a capture, `Chunk` is `enqueueChunkSend` with its three outcomes (`Full`,
`Wait`, `Drain`), `Sent` and `SendFails` are the rest of the loop's body, and
`Attach`, `Connect`, `DetachForResume` and `Cleanup` what the session does to the
dispatch.  `OthersSettle` is text and screen on the shared breaker.  The
transport's `submit` is taken by its promise: it may settle at any time.  What
runs between two awaits of I/O is one step, microtasks included.  Left out: the
status `disconnected` with a transport still active, a second `getUserMedia`
while one is asked for, the flush of the last samples and the end of the audio
stream.

### ScreenCapture and the code

| variable | code (`runtime/screen/`) |
|---|---|
| `store`, `intended`, `mode`, `manualSendPending` | the fields of the store of these names |
| `current`, `stopInFlight`, `finals`, `waiting` | `screenCaptureLifecycle.ts`: the capture, the promise of its stop, the state that stop ends in, a start that awaits it |
| `device[c]` | `localScreenCapture.ts`: what a capture awaits or does |
| `refreshing` | starts that await the list of sources (`screenCaptureController.ts`); one per origin |
| `timer`, `chain` | `autoSendTimer`; the frame that waits, `frameDrainInFlight` and the drain loops (`screenFrameSendCoordinator.ts`) |
| `transport`, `status`, `ending` | the session's transport, its status, how far a teardown is |
| `displaced`, `last` | history: captures a later start took the place of; the frame handed over last |

Actions carry the names of the functions they are (`StartScreenCapture`,
`StopScreenCapture`, `AnalyzeScreenNow`, `SetMode`), or of the answer that
arrives (`Granted`, `Denied`, `Plays`, `PlayFails`, `TrackEnds`, `Sent`,
`SendFails`); `Connected`, `DetachForResume`, `Disconnected` and the three
`End...` are the session's events and the two halves of its teardown.  The await
of a frame's encoding is merged with the await of its submission, that of the
access status with a denial; the store's `ready` lasts no longer than the call
that sets it.  Whether the gateway admits a frame is a free choice.  Left out:
the debounce, quality and burst timing, masking, frame dumps, diagnostics.

### ChatMemory and the code

| variable | code (`chatMemory/`, `runtime/conversation/persistConversationTurn.ts`) |
|---|---|
| `existing`, `currentChat`, `messages` | the backend's rows, the messages in the order of their appends |
| `active` | `activeChat` |
| `tail`, `op[t]` | `pendingAppend`: whose task it ends with; `pendingPersistByEntryId`: what the persist of a turn awaits, its text, whether it must be repeated |
| `lookup[k]` | a caller of `getOrCreateCurrentChat`: a turn, a session's start, the hydration |
| `switch[w]` | a `switchToChat` or `createAndSwitchToNewChat` under way |
| `turn[t]` | the turns shown, each with its text and its `persistedMessageId` |

`Say` and `Correct` are a turn that settles and one that is corrected, `Run` is
the start of its task in the chain, `Serve`, `Fail` and `NotFound` the request,
`Settle` what comes after it; `LookedUp`, `Hydrated` and `SetActiveChatState` are
the continuations that write `activeChat`.  A task may notice any time later that
the promise before it has settled, which over-approximates microtasks.  Reads
that choose nothing are part of the wait.  Texts are numbers; every correction is
a new one.  How a turn comes about is `SpeechTurn`'s matter.

### SpeechTurn and the code

| variable | code (`runtime/voice/transcript/`, `runtime/conversation/`, `transportEventRouterTurnHandlers.ts`) |
|---|---|
| `context` | `conversationContext.ts`: the fence, the voice turn's number, the queued reply, the reserved place, the assistant's draft, the current and last artifacts |
| `buffer` | `currentVoiceTranscript` |
| `artifacts`, `turns` | transcript artifacts; voice turns of the conversation |
| `link`, `interrupted` | as much of the session as the handlers ask for |
| `heard`, `missed`, `unseen`, `again` | history: what was said, and the exceptions the properties allow |

`InputTranscript` is `transport.inputTranscript` with the three classes of
`voiceTranscript.ts` (`Speech`, `SettledCorrection`, `SettledReplay`),
`AssistantOutput` is output of either kind, `SubmitTextTurn` a typed turn as far
as it queues a reply; the others are the turn and session events with every reset
they make.  A user's text is the set of the utterances in it, the assistant's the
set of the voice turns it was heard in; which class a transcript falls into is a
free choice wherever only the letters decide it, except that a heavily revised
repeat is never classed as new.  A session that is stopping counts as
unavailable.  Left out: typed turns themselves, places on the timeline, metadata
of answers.

### KnowledgeSync and the code

| variable | code (`project-knowledge.service.ts`, `project-knowledge-gemini.client.ts`, `project-knowledge-corpus.ts`) |
|---|---|
| `disk`, `manifest` | the documents in the repository and the paths this version manages |
| `search[c]` | a `searchProjectKnowledge` or the prewarming: reading, waiting for the store, asking it |
| `cached`, `sync` | `lastSyncedSignature`; `syncPromise` and the place it has reached in `syncCorpus` |
| `made`, `store`, `hidden`, `files`, `content` | the remote store, its documents, those an import has not shown yet, files uploaded and what the last of them says |
| `d.hash`, `d.text` of a document | its `content_hash`, told by the text it was made of; what it says |
| `torn`, `strays`, `leaked`, `drifted` | history: the exceptions the properties allow |

`ListDocuments` to `Discard` follow `syncCorpus`: list, delete what is obsolete
or outdated, then upload, import, poll, delete the upload, document by document,
under the limit of a minute (`GiveUp`).  `RequestFails`, `ImportFails` and
`DiscardFails` are its failures, served or not; `Appear` and `Process` are the
remote store, `Edit` and `Restart` what happens to the server.

A file is read twice.  `Read` is the first time (`buildProjectKnowledgeCorpus`),
where the hash is computed that goes into the signature and into the document's
metadata; `UploadFile` the second (`project-knowledge-gemini.client.ts:129`), after
the list, the deletions and the earlier imports were awaited, where it takes
`disk[Path]` as it is then.  `ImportFile` files that content under the first
hash, and `UpToDate` compares hashes only, as `isUpToDate` does.  `Edit` may come
at any moment; `drifted` collects the paths it meets between the two reads
(`Hashed`: read by a caller that may still start a synchronisation with it, or in
the one under way and not yet uploaded).

A hash is told by its text: two texts have two hashes.  Stores and documents are
listed in one step; which of two documents of one path is taken is a free choice;
an operation that fails carries a message; a file that is gone fails its upload
like a request that is not served.  Several servers on one store are not
modelled.

## 4. What the runs check

| run | shows | distinct states, time |
|---|---|---|
| `rate_limit` | quotas at and across window boundaries, sweeps; refinement of `FixedWindow` | 2 821, seconds |
| `live_session` | the wiring, the timers and the recovery budget, with turns, interruptions, microphone, typed turns and local faults | 287 000, half a minute |
| `live_session_liveness` | a resume in flight ends; the user is shown the engine's status | 192 000, a minute |
| `current_chat` | one current chat, retries that are paid for, no waiting in a circle | 37 879, seconds |
| `chat_history` | dense sequences, nothing overwritten, a fresh summary until a session ends | 461 056, seconds |
| `voice_tools` | answers at home, never for cancelled calls, and by the refinement of `ToolQueue` in order and once; nothing waits for a cancelled search | 259 040, a minute |
| `live_session_record` | the cached record is the running session's; one active row per chat, whatever failed before | 1.80 million, a minute and a half |
| `voice_dispatch` | no lane leaks a count, no chunk is left waiting, each transport hears chunks in order | 723 165, a minute |
| `screen_capture` | what the store shows of the share is true; no frame goes astray or uninvited | 631 088, half a minute |
| `chat_memory` | turns are stored in the chat they are shown with, in order, once, with their text | 1 373 212, a minute |
| `speech_turn` | speech becomes a turn once and is not lost; replies keep apart | 744 614, a minute |
| `knowledge_sync` | the remembered corpus is in the store, under its hashes and with its texts; uploads are deleted; searches end | 1 047 601, two minutes |

*OneListener* and *AttachedByCurrent* are the heart of the live session:
`subscribeTransport` overwrites the unsubscribe function it holds, and `resume`
subscribes without a cleanup, so a single path that attaches over a live
transport leaves an old session talking to the new one's router.  Why no path
does is the theorem `WiringFreeAlways` (section 6).  With two calls, one
waiting for a socket to open and one for it to close, no call is left to settle the
error of a socket that fails while it is being closed before setup (phase `aborted`),
so that this case is covered by the theorems, which hold for any number of calls.  *UiFollowsEngine* is about
the one place where a call writes the store's status past the engine; a local
capture error writes it too, and lets it differ, so that run has no local
faults.  *BudgetPerSession* relates the recovery counter to the session it counts
for, *ResumptionSettles* the flag to every way a resume can be abandoned,
*NoStaleTimer* each timer to the status it was armed for.

*ImplementsFixedWindow* is the whole promise of the limiter: what it answers is
what a limiter with one window per client, no map and no sweep would answer; so
no window's length ever sees more than twice the quota.  *MapStaysFresh* says
that the shared map forgets dead clients.

*RefusalsArePaidFor* is why three attempts are enough: an attempt is refused
only after another request has committed, once per commit.  *RequestsEnd* is
freedom from deadlock over row locks and index entries.  *SequencesDense* and
*AppendsKeepHistory* are what the allocator row is for, *SummaryIsFresh* what
touching the chats row in an edit does: without it two edits refresh the summary
from messages that lack each other's text.

*AnswersGoHome* and *CancelledStaysSilent* hold for a batch that no code
stops: it has to notice by the version that it is no longer wanted.
*StateTellsTheChain* is what the router relies on when it asks the store whether
an interruption has a tool to interrupt.  *ImplementsQueue* is the whole promise:
the chain, the versions and the checks after each await behave like one queue of
calls that a cancellation empties.  The properties above say what is never
answered wrongly; it also says that no calls are lost on the way, as they were if a
batch over the limit were dropped instead of answered with an error.  *ReachedOrCancelled* is the reason the
chain is replaced, not only the version.

*OwnRecord* is what the renderer needs to be able to trust its cache: its updates
and its end name the row of the session they are about.  *OneActiveRow* says
that each start tidies up what lost answers and failed requests left behind.
Both stop at a state in which sessions crossed (`crossed`): nothing in the code
relates an answer to the session that asked, and section 5 lists what follows.

*LaneAccounted* is the difference between a microphone that pauses and one that
is silent for good: a chunk that is dropped, replaced or overtaken by a reset has
to be settled by somebody.  *NothingStranded* is about the loops a reset forgets
without stopping: one of them, not the flag, takes the chunk that waits.
*SentInOrder* holds although two such loops may be at work at once.

*ShareShown* relates what the user sees of the share to the streams that are
open, through every answer that may arrive late; *FramesWanted* a frame at the
end of its wait to the capture, the session and the request of that moment.

*ShownWhereStored* is delicate because the chat is looked up when a task runs, not
when the turn settled; it holds because a switch clears the surface together
with the chain.  *StoredInOrder* is what the chain is for, across switches that
leave the old chain's tasks running.  *StoredOnceEach* and *Reconciled* are about
a turn corrected while it is being stored.

*HeardIsKept* and *TurnedOnce* are the two ways to get finalization wrong, losing
speech and storing it twice, and the code has to do it at every event that ends a
turn, in whatever order these come.  *NoOrphans* and *SettledBecomesTurn* say that the artifacts
on the surface and the stored turns tell the same; *RepliesApart* that late
output does not leak into the next reply.

*StoreMatchesCache* is what a search relies on when it skips the synchronisation:
imports that were given up and restarts in the middle of one must not make it false.
It has two clauses about a document: it is ready and filed under the hash that is
remembered, always; and it has the text of that hash, unless its file was edited
between the two reads.  Without that exception TLC finds the wrong text in ten
steps, and with two edits a search that trusts it although the file says again what
was hashed (section 5).  Edits at any other moment are not excepted.
*UploadsAreDeleted* counts the files nobody will delete.  *SearchesEnd* holds
although the store may never finish an import.

Type invariants that a theorem establishes are not repeated as invariants of a
run; `VoiceTools!TypeOK` is, because it contains the limit on searches.  `RowsConsistent`,
`WiringFree`, `SweptWereAlive` and `EditsKeepCoverage` are theorems only, and so is
`AnsweredInOrder`, which the refinement of `ToolQueue` contains.

Deadlock is not checked where the system may rest, with nothing to do or at the
bounds of the instance: `LiveSession`, `VoiceTools` and the modules of the
renderer and the corpus.  It is checked in `CurrentChat` and `ChatHistory`, where
`Quiet` is the only way to stop (a state with a request unanswered and no step is
an error), and in `RateLimitGuard` and `SpeechTurn`, which can always go on.

### Bounds

| constant | value | why it is enough |
|---|---|---|
| `Tasks` | 2 | every pair of an old call and a new one; an event that needs a task with none free waits.  What more calls could do to the wiring is proved for any number.  Also run without error: three calls without turns and faults (1.53 million states) |
| `Transports` | 2 | one being replaced and its replacement; a transport object is reused once nothing refers to it |
| `MaxRecoveryAttempts` | 1 (code: 3) | a resume below the cap and one at it |
| `Inputs`, `Turns`, `Faults` | all, but no turns and faults where liveness is checked | the turn events only touch the engine and the timers |
| `Horizon`, `WindowMs`, `MaxRequests`, `BucketMaxSize` | 8, 2, 2, 1 | four windows, a rejection in each, and a sweep by size |
| `Creates`, `Ensures`, `MaxAttempts`, `MaxLost` | 2, 2, 3 (as the code), 1 | three others for the third refusal, of both kinds; a connection lost at any statement |
| `Appends`, `Edits`, `Ends`, `FirstMessages`, `SummaryTurns` | 2, 2, 1, 2, 2 | edits of a covered, a newest and an uncovered message; a summary shorter than the chat |
| `SearchLimit`, `MaxBatches`, `MaxVersion` | 1, 3, 2 | a batch at work, one behind it and one after a cancellation; the limit reached before, in and at the end of a batch |
| `MaxRows`, `MaxSessions`, `MaxUpdates`, `MaxLeft`, `Updaters` | 2, 4, 2, 1, 1 | a row left behind and a new one, sessions begun and given up around them, one call out of date, an update before and one after another request |
| `Lanes`, `MaxLane`, `MaxChunks`, `Loops`, `Transports` | 0 to 2, 2, 4, 3, 2 | two captures after each other; a chunk sent, one that waits, one that replaces it, one of the next lane; two forgotten loops beside the present one |
| `AudioMaxOutstanding`, `MaxConsecutiveFailures` | 2, 2 | one below each limit, one at it |
| `Captures`, `Transports`, `Loops` of `ScreenCapture` | 2, 1, 2 | a capture and the one that displaces or succeeds it; a transport is reused once nothing refers to it; a forgotten loop and a present one |
| `Chats`, `Turns`, `Switchers`, `MaxSwitches`, `MaxText`, `MaxFailures` | 2, 2, 1, 1, 3, 1 | a switch in the middle of two turns, each corrected; a failure of any request.  Also run without error: two switches without failures (2.30 million states), two overlapping switches without corrections (673 000) |
| `MaxUtterances`, `MaxVoiceTurns`, `MaxArtifacts`, `MaxSwitches` | 2, 2, 4, 1 | a turn and the next, each with both speakers.  Also run without error: three voice turns without a switch (1.80 million) |
| `Searchers`, `Paths`, `Manifests`, `Texts`, `MaxSearches`, `MaxEdits`, `MaxRestarts`, `MaxFaults` | 1, 2, {1} and {1, 2}, 2, and 1 of each | a search that joins the prewarming; a document outdated, obsolete and doubled; a restart in any place with another manifest.  Also run without error, safety only: two edits (5.68 million), two searches (15.97 million) |

Values that are interchangeable (tasks, transports, captures, loops, chats, turns)
are declared symmetric in the runs of safety properties; the liveness runs use no
symmetry.

### Fairness

`LiveSession!FairSpec` assumes weak fairness of what the environment owes the
program: every awaited backend call is answered or fails (`Continue`), every
connection being made or closed settles one way or another (`Settles`: a
WebSocket that is dialing, in setup or closing ends up open or closed), stopping
playback ends and an armed recovery timer fires.  Nothing is assumed of the
user, or of a server whose session is open.  Node's event loop runs every
callback that is ready, which is weak fairness of each call.

`CurrentChat!FairSpec`: the database runs every statement that need not wait.

`VoiceTools!FairSpec`: weak fairness of `Wanted`, the steps of batches that still
wait in a chain or are wanted.  A search that was cancelled may stay unanswered
for ever, which is what makes `ReachedOrCancelled` worth checking.

`KnowledgeSync!Fairness`: the requests of a synchronisation and of a search are
answered or fail (the SDK's calls settle, the poll has its limit of a minute).
Nothing is assumed of the remote store: an import may stay pending for ever.

## 5. What the code does not do

While modelling, these disagreements between the code and what is written about
it came up.  They are behaviours of the models, and the properties above are
stated so that they hold beside them (`crossed`, `overtaken`, `unseen`, `torn`,
`drifted` and the other history variables name the exceptions); no run is spent on
confirming them.

| written | what the code does |
|---|---|
| "falls back to a new rehydrated Live session when persisted resumption fails" (`runtime/sessionController.lifecycle.test.ts:705`) | a failed setup emits `error` first; the error handler takes a new operation and ends the session, so the fall-back finds itself superseded (the test's transport emits nothing) |
| "ending speech mode returns the product to the inactive chat surface" (`docs/QA_RUNBOOK.md:386`) | two callers of `disconnect()` on one socket: the second overwrites the first one's resolver (`geminiLiveTransport.ts:429`), whose end hangs |
| protection from "abandoned or looping sessions" by "hard runtime limits" (`README.md:134`) | `activateTransport` clears the silence timer; a session resumed while it listens never arms it again |
| "Explicit failure paths return the app to safe `inactive`/`off` states" (`docs/ARCHITECTURE.md:296`) | an audio error makes the status terminal (`transportEventRouterSessionHandlers.ts:260`), and the loss of the connection after it is ignored |
| a summary is replaced only "when `coveredThroughSequence` increases" (`docs/CHAT_MEMORY_POSTGRES_WAVE_1.md:55`) | two sessions of one chat end at once: both read the old summary, the larger coverage is written first and the smaller one over it |
| a start that is superseded must not leave a session open (the guard and comment at `voiceResumeController.ts:110`) | `restorePersistedLiveSession` (`sessionVoiceConnection.ts:133`) and the fall-back return without closing the transport whose connect they awaited |
| "Screen context runs only during an active speech session" (`docs/AUDIT.md:23`) | a transport that disconnects is cleaned up without stopping the share (`transportEventRouterSessionHandlers.ts:131`) |
| reconnects always stop the share, and "users must manually re-enable it" (`docs/ARCHITECTURE.md:269`) | a share that was intended is restored when the new transport connects (`transportEventRouterSessionHandlers.ts:114`) |
| manual mode "sends only when the user clicks" (`docs/ARCHITECTURE.md:262`) | a frame that waits, captured in continuous mode, may be sent after the switch to manual |
| "Resume swaps transports without buffering microphone audio across sessions" (`voiceChunkDispatch.ts:33`) | a transport is active before it is connected; a chunk that arrives in between is handed to it, is refused, and fails the session |
| ending "forces `restorable=false`" (`docs/CHAT_MEMORY_POSTGRES_WAVE_1.md:53`) | an update served after the end makes the ended row restorable again (`chat-memory.repository.ts:894`) |
| "the next distinct spoken user utterance starts a fresh streaming bubble even if the previous settled turn was assistant-only" (`docs/VOICE_CHAT_SINGLE_SURFACE_SPEC.md:44`) | the empty text of such a turn is contained in every text (`voiceTranscript.ts:140`), so the utterance is classed as a correction of it and shown nowhere (`unseen`) |

The models reach further behaviours a reader of the code may not expect; no
document speaks of them.

*The session.*  An end superseded during its backend call still writes the mode
`inactive`, over the session that replaced it; one whose backend call throws is
cut short with the mode still `speech`.  A go-away during the setup of a restored
session is finished by a resume that does not record `session.ready`: the
lifecycle stays `starting`.  A stop during `getUserMedia` returns at once, and the
device opens afterwards with the store on `capturing` and no session.

*The record.*  The late answer of a past session overwrites the running one's
cached record.  A start that overtakes an end restores the record being ended.  A
row the server called resumable without sending a handle is neither restored nor
skipped by later starts, and the invalidation after a change of settings is undone
by the server's next resumption update.

*The microphone.*  A send that fails on a transport already replaced ends the new
session.  The breaker is shared with text and screen, and once open it is closed
only by the success of a send already in flight, or a reset.  After a reset two
sends may be in flight at once, in order.  A past audio context that closes late
resets the sequence of the next capture, whose chunks are then dropped as stale.

*The screen.*  A start refused while a capture is alive sets `error` and leaves the
capture; a later start displaces it, and nobody stops its stream.  A refresh of
the sources ignores a stop made meanwhile.  While a submit is slow one click may
send several frames, and its late success answers a newer request.

*The chats.*  `getOrCreateCurrentChat` looks and creates in different statements,
and may demote a chat that became current in between.  The end of a session may
write back a summary built before an edit, which is why *SummaryIsFresh* stops at
the first end.  In the renderer, a correction that comes while an earlier update
of its turn is in flight is never stored; appends queued before a switch may land
in the chat switched to; a lookup answered after a switch replaces the active
chat, and of overlapping switches the last answer wins; an append whose answer is
lost makes a corrected turn two messages.

*The turns.*  A reply that was queued opens its turn with the old user text still
in the buffer, and new speech is merged with it.  After a replay a later
correction makes a second bubble.  A new utterance that begins with a space, or
overlaps the last one by a letter, passes for its correction.  An interrupted reply
never becomes a stored turn, one cut off by a reset does.  Ending while a resume
is under way loses the turn in flight.

*The corpus.*  The remembered signature survives a failed synchronisation of another
corpus: if the documents change back, searches trust it although some are missing.
`uploadFile` reads the file anew and files it under the hash of the first read: a
file that is edited in between is stored with other words than its hash stands for,
and once it is changed back the hash and the signature agree, so that neither
`isUpToDate` nor the next start of the server ever repairs it.  A search with a
newer corpus joins the synchronisation of the older one, and one that asks while
another replaces documents is answered from a store half replaced.  Of the copies a
late import leaves, only one per path is ever considered.

## 6. What is proved

All proofs are checked by TLAPS for every value of the constants, from the named
assumptions: `LimiterAssumption` (window and quota positive), `SessionAssumption`
(`None` is no task and no transport; the cap is a natural), `CurrentChatAssumption`
and `ChatHistoryAssumption` (the kinds of request are disjoint, the dummy values
none of them), `VoiceToolsAssumption` (call lists are sequences of tools, the limit
and the bounds naturals), `RecordAssumption` (bounds; the names of callers differ),
`GatewayAssumption` and `DispatchAssumption` (the breaker's threshold is positive,
lanes are numbered), `ScreenAssumption` (`None` is no capture and no transport),
`ChatMemoryAssumption` (`None` is no chat and no turn, no turn is the start or the
hydration), `SpeechTurnAssumption` (bounds are naturals) and `KnowledgeAssumption`
(bounds and paths are naturals, manifests sets of paths, `NoText` is no text, and
the search the server runs at boot is none of the searchers).

**LiveSessionProofs.** The inductive invariant is
`Wired == TypeOK /\ OneListener /\ WiringFree`.  `OneListener` alone is not
inductive: `ConnectResume` subscribes without unsubscribing, which is harmless
only because the wiring is free at that point, and `WiringFree` alone is not,
because a drop clears the active transport only if the one heard is the active
one.  The proof does not go action by action through forty actions: lemma
`EveryWiringStep` shows that every step is one of three kinds as far as the
wiring is concerned -- `Moves` (the wiring stays or is emptied, no call comes
nearer to connecting as the current one), `Begins` (an operation begins with the
wiring empty) or `Attaches` (the current call connects a transport to empty or
replaced wiring) -- and each kind preserves the invariant.  `TypeCorrect`
contains the cap on automatic recoveries.  `AttachedByCurrentAlways` and
`BudgetPerSessionAlways` are action properties that follow from the same
invariant and the same three kinds.

What the user is shown is treated in the same way.  `EverySessionStep` says that
every step publishes an engine state (`Published`), leaves the session's variables
alone without disturbing a resume under way, begins a resume (`ResumeBegun`), or is a
typed turn or a capture error.  `NoStaleTimer` is preserved by each of these, because
publishing arms and clears timers with the status it shows.  `UiFollowsEngine` is not:
it forgets that a resume hides the engine's status only until it connects, so
`ShownAsResumed` adds where that resume is.  `UiFollowsEngineAlways` has one
hypothesis, `"capture" \notin Faults`: a capture error writes the store's status
past the engine, and the run that checks the property takes no capture fault either.
Both theorems need two facts about who waits (`AwaitedAlways`): `Awaited`, that
whoever waits for a socket to close waits for that one only, without which a
`disconnect()` that takes over another's promise could release a third call; and
`Linked`, that a fallback attempt names its transport until its session is persisted.

**ChatProofs, the current chat.** `AtMostOneCurrent` needs `IndexGuards`: one request at a
time has an uncommitted row in the index, and it has demoted every chat that is
current.  `RefusalsArePaidFor` needs a credit argument: `MissedIsNew` says that an
UPDATE which missed a current chat leaves room for one more refusal, since the
chat it missed was committed after it looked and has not been charged yet.
`CurrentStays` is the action property that follows.

**ChatProofs, chat memory.** None of the four properties is inductive: each speaks of
messages and turns, and what keeps it is in the tasks between them.  `MemoryInv` says
of each turn (`TurnFine`) what its task may be doing (`TaskOK`), that the ids it and
its task hold are of its own messages (`TurnOK`), that a turn shown knows its message
unless that is being made or a request failed (`KnowsMessage`), that a text its task
does not see will be seen by the loop after it (`TextSeen`), that no append is on its
way for a turn that has a message (`StoredOnce`) and that what is sent goes to the
chat that is active (`Placed`).  Two parts relate turns.  `Places`: the turns said have
places below their number.  `InLine`: there are ranks such that each task waits for the
one next before it on its own surface and the chain ends in the last one; and while
the append of a turn is to come, the turns said after it have tasks of higher rank and
no message.  The ranks are what the chain of promises is: `persistConversationTurn`
appends a correction's update behind tasks of later turns, so the order of the
places alone is not kept.  Four lemmas say how a chain changes -- a task moves on in
its place (`LineKept`), the front leaves (`LineLeaves`), one joins at the end
(`LineJoins`), a new surface starts an empty chain (`LineSwitched`) -- and give the new
ranks.  Since nothing but the front of a surface's chain is sent, the first append to
be served is of the earliest turn (`StoredInOrderAlways`).  TLC checked `MemoryInv` as
an invariant for two and three turns before it was proved.

**ApiProofs, chat history.** Two invariants.  For the messages: the chats row is held
once, whoever allocated a sequence still finds it the next one, and an edit has
locked a message that exists; hence `SequencesDenseAlways` and `HistoryKept`.
For the summary, *until a session ends*: what an edit has drafted is what the
messages will be at its commit, because the chats row it touched keeps every
other writer away; hence `FreshUntilEnd` and `CoverageUntilEnd`.

**ApiProofs, rate limits.** `IInv` adds to `TypeOK` and `SweptWereAlive` that no
bucket or sweep lies in the future; it is inductive because a sweep takes
exactly the buckets that are over.  From it: `TypeCorrect`,
`LastSweepWasThorough`, `MapBounded` (an action property) and `Refinement`:
with the abstract window "the bucket, unless it is over", each request is a step
of `FixedWindow`, whatever the sweep does, and a tick is a tick.

**ApiProofs, project knowledge.** `StoreMatchesCache` compares the corpus last
synchronised with a remote store that shows documents late and processes them when
it likes.  `SyncInv` has these parts: `DocumentsOK` (every document has an id of its
own, and what the synchronisation will delete is of the path it was listed for);
`SyncOK` (what is true at each place of `syncCorpus`; an outdated document's path is
still to do); `StraysCounted` (only imports nobody waited for make a second document of
a path, so there are at most as many as strays); `DoneSoFar` (of a path that is done
the store holds the active document and it will not be deleted, of the others only
strays remain); and `CacheHolds`, to which `DoneSoFar` leads when the last path is done.
The counting is over sets of ids, for any number of documents.  All of this is about
hashes.  What the documents say is a second invariant, `TextsInv`, over the paths
outside `drifted`: a hash that waits for its upload, with a caller or in the
synchronisation, is that of the file as it is (`HashesSay`; `Edit` keeps it because
it marks exactly those); so the upload says what was hashed (`UploadSays`); so does
the document made of it (`DocumentsSay`), for as long as it exists.  Marks are never
taken back, so that the theorem speaks of files never edited in that window, in any
run of any length.  `UploadsAreDeleted`
needs only that `leaked` is a natural (`FilesInv`).

**SpeechTurnProofs.** A handler of a transport event is a composition of a few
operators on the conversation (settle, attach, append, prepare, begin, finish, reset,
clear), and the proof follows it.  `Sound` holds at any moment within a handler: the
current artifact of a role is unsettled, unattached and of the present turn, the user's
shows exactly the buffer's text; every streaming artifact is the current one; a settled
one is a turn with the same text, an interrupted reply, or the reply that becomes a
turn next; each is attached to a turn of its own; replies hold only their own turn.
`Keeps` says that an operator loses nothing that was said and makes no second turn of
it.  Each operator has a lemma that it keeps `Sound` and one that it `Keeps`; the lemma
of a handler composes them and adds `Stable`, what is true between two handlers (a
closed turn has no current artifact and no draft, the last speech of a settled turn is
a turn with the text in the buffer).  `Inv` is `Stable` of the present conversation,
`Once` with the transcripts that came again as the only exception, and `HeardIsKept`;
the five properties follow.

**VoiceToolsProofs.** `IInv` has seven parts: `TypeOK`; `Arrivals` (versions grow
with the batches' numbers); `Chain` (the present chain links all batches of the
present version in the order they came, and none is begun before those in front
are done); `Homes` (a batch that is wanted belongs to the transport in use);
`Answers`; `Counting` (a search is awaited only below the limit); and
`StateTellsTheChain`.  `OneAtWork` draws from the chain that one batch is at work
at a time, which is why a limit read before an await and raised after it is not
exceeded (in `TypeCorrect`), and why the store's one state can tell it.
`QueueRefinement` maps what waits in `ToolQueue` to the batches of the present
version that have calls and no answer: a batch that proceeds to its answer is the
first of them (`FrontIsDone`), one that is ignored had no calls or was cancelled
(`Homes`), a cancellation leaves none (`Arrivals`).

**LiveSessionRecordProofs.** `IInv == TypeOK /\ RowsConsistent /\ Addressed`.
`RowsConsistent` is the CHECK constraint of the table carried over to every copy
of a row: the cached one, and those in answers that have not arrived.
`Addressed` (a request about a row names one, and so does the answer of a served
update) is what lets a late update be applied to a row that exists.  The invariant is
split into a part for the rows, for the requests, for the answers and for the
rest, and each step is shown to keep the parts it touches.

*OwnRecord* and *OneActiveRow* need a second invariant,
`SInv == PendingOK /\ (~crossed => OneSession)`.  `PendingOK` dates what is in
flight: nobody awaits a call of the present session but the controller and the
updates beside it, so a renderer that reloads or a start that gives up leaves only
calls whose effect sets `crossed`.  `OneSession` has six parts.  `CacheFits` and
`CallsFit` tie the cached record, and each call the controller awaits, to what the
controller is doing; `CalledOnce` says that it awaits one call at a time, the rows
to skip excepted, and one answer for each; `Beside`, that an update beside it is for
the cached record or for a row that is over; `RowsKept`, that only active rows are
restorable, that the cached record, when there is one, is the only row the next
start would find, and that the row of a session that is up is active; `Told`, that
an answer which has not been handled yet still tells the truth about the rows: the
rows a list wants skipped are still all there is to find, a created row is still
the only one, a retired one is still over.  `Told` is what a request and its answer being
two steps costs, and its proof is most of the work.  `CallKeeps` is for the steps
that leave the controller with a new call, `QuietKeeps` for those after which it
awaits nothing, `NowOff` for those that end the session; `ServedCalls` says that a
request that is served leaves the calls as they were and adds one answer.  TLC checked `SInv`
before it was proved.

**VoiceDispatchProofs.** `IInv` has six parts: `TypeOK`; `LoopsOK` (the flag means
that a loop of the present generation is sending, and a chunk waits only then);
`HeardOK` and `PendingOK` (what waits was captured after all that was handed on,
to any transport); `LaneAccounted`; and `MicOK`.  *LaneAccounted* counts loops, so
its proof is about cardinalities of `Held(k)`, for any finite set of loops.
*NothingStranded* follows from `LoopsOK`, and *SentInOrder* from `HeardOK`.

**ScreenCaptureProofs.** `IInv == TypeOK /\ Sharing /\ Ends /\ PendingAuto`.
`Sharing` says that one stop at most is in flight, of a capture that is not current
any more, that a capture at work is current, being stopped or displaced, and that
the store tells the truth about the current one; *ShareShown* is a consequence.
`Ends` keeps a teardown from being overtaken by a start, `PendingAuto` says that a
frame captured in manual mode never waits, without which *FramesWanted* would
fail for a request answered in the meantime.

## 7. What is only model-checked

Every safety invariant and action property the runs check is also a theorem.
Liveness (`ResumptionSettles`, `RequestsEnd`, `ReachedOrCancelled`, `SearchesEnd`)
and the absence of deadlock are only model-checked: liveness under fairness and
`ENABLED` are out of the prover's reach.  So is induction over data; no module here needs it, and none declares a
recursive operator.

## 8. Mutants

Beside the definitions, operators commented `Mutant:` hold a plausible mistake
(a guard dropped, a cleanup forgotten, a reset misplaced).  PROJECT.json names
for each property the mutant that violates it.

## 9. What is not modelled

Section 2 lists what is left of the plan.  Of the modelled components, section 3
says for each module what it leaves out.  Beyond that:

- Playback: the queue of audio buffers, the output route and the volume
  (`runtime/audio/`, `voicePlaybackController.ts`) except that stopping it is
  awaited, which `LiveSession` models.
- Message parsing and configuration of the Gemini SDK (`liveConfig.ts`,
  `geminiLiveTransportInbound.ts` beyond the events it emits), PCM, image masking
  and quality: computations on data, without state that outlives a call.
- Session tokens of the API: one external call per request behind the rate limit
  that is modelled.  In the renderer the token manager is part of `LiveSession`.
- What a search's answer is made into (`project-knowledge` result builder and
  normalizers), and the reads and input normalisation of the chat memory.
- Desktop main process, preload and IPC: they validate and forward; the settings
  file and the windows are small and sequential.
- The user interface: its gates before commands are guards of the models, the rest
  renders the stores.
- Telemetry, observability, diagnostics, configuration, health: they change
  nothing the properties speak of.  The evaluation scripts are not part of the
  product, and `sessionLifecycleAssembly.ts` is imported by no other file.

These make up most of the repository's lines: about a sixth of its
implementation is translated into a definition, and the sixth is where state
survives an await.  Much of the rest of the session and transport directories is
wiring (objects of callbacks handed from one factory to the next), types and
logging, for which a definition would stand for no behaviour.
