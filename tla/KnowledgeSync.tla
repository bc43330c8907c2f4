---------------------------- MODULE KnowledgeSync ----------------------------
(***************************************************************************)
(* The project knowledge of the API: searches over a few documents of the  *)
(* repository, which are kept in a File Search store of Gemini.            *)
(*                                                                         *)
(* A search reads the documents and makes sure that the store holds them:  *)
(* it joins a synchronisation that is under way, trusts the one remembered *)
(* if the documents have not changed since, or starts one.  That lists the *)
(* store, deletes what is obsolete and replaces what is outdated, by one   *)
(* request after another.  The store outlives the server and imports go on *)
(* when nobody waits for them any more.                                    *)
(*                                                                         *)
(* A document is filed under the hash of the text that the search read,    *)
(* and says what the file held when it was uploaded, which is later: its   *)
(* hash (told by the text it was made of) and its text are kept apart.     *)
(* Left out: what the store answers, the pages of its list, and more than  *)
(* one store or server.                                                    *)
(***************************************************************************)
EXTENDS Integers, FiniteSets, FiniteSetsExt

CONSTANTS Searchers,    \* clients that search
          Boot,         \* the prewarming at the server's start
          Paths,        \* documents, numbered in the order of the manifests
          Manifests,    \* the sets of paths that versions of the server manage
          Texts,        \* what a document may say
          NoText,       \* nothing has been uploaded yet
          MaxSearches, MaxEdits, MaxRestarts, MaxFaults  \* bounds

ASSUME KnowledgeAssumption ==
    /\ Boot \notin Searchers /\ NoText \notin Texts
    /\ Paths \subseteq Nat /\ Manifests \subseteq SUBSET Paths
    /\ {MaxSearches, MaxEdits, MaxRestarts, MaxFaults} \subseteq Nat

VARIABLES
    disk,      \* path -> its text in the repository
    manifest,  \* the paths this version of the server manages
    search,    \* caller -> idle, read (with the corpus it read), waiting or asking
    cached,    \* the corpus synchronised last (lastSyncedSignature)
    sync,      \* the synchronisation under way (syncPromise)
    made,      \* the store exists
    store,     \* the documents in it
    hidden,    \* documents whose import the store has not begun to show
    ids,       \* imports so far; the last is the one a synchronisation waits for
    files,     \* files uploaded and not yet deleted
    content,   \* what the one uploaded last says
    searches, edits, restarts, faults,  \* how many there were
    torn,      \* history: a synchronisation failed since the last that succeeded
    strays,    \* history: path -> imports nobody waited for while they were hidden
    leaked,    \* history: uploads nobody could delete
    drifted    \* history: paths whose file was edited after it was hashed and before its upload

remote == <<made, store, hidden, ids, files, content>>
world == <<disk, drifted, manifest, searches, edits, restarts>>
history == <<torn, strays, leaked>>
vars == <<world, search, cached, sync, remote, faults, history>>

Callers == Searchers \cup {Boot}
NoCorpus == [p \in {} |-> 0]
NoSync == [at |-> "none", corpus |-> NoCorpus, obsolete |-> {}, outdated |-> {},
           todo |-> {}, failed |-> FALSE]

\* onModuleInit: nobody searches, but the server may begin with a synchronisation.
Is(at) == [at |-> at, corpus |-> NoCorpus]
Read(paths) == [at |-> "read", corpus |-> [p \in paths |-> disk[p]]]
Starts(paths) == {[c \in Callers |-> IF c = Boot THEN boot ELSE Is("idle")] : boot \in {Is("idle"), Read(paths)}}

Init ==
    /\ disk = [p \in Paths |-> CHOOSE text \in Texts : TRUE]  \* whichever it is
    /\ manifest \in Manifests
    /\ search \in Starts(manifest)
    /\ cached = NoCorpus /\ sync = NoSync
    /\ made = FALSE /\ store = {} /\ hidden = {} /\ ids = 0 /\ files = 0 /\ content = NoText
    /\ searches = 0 /\ edits = 0 /\ restarts = 0 /\ faults = 0
    /\ torn = FALSE /\ strays = [p \in Paths |-> 0] /\ leaked = 0 /\ drifted = {}
-----------------------------------------------------------------------------
(* Searches.                                                               *)

\* searchProjectKnowledge: the documents are read.
Search(c) ==
    /\ search[c].at = "idle" /\ searches < MaxSearches /\ searches' = searches + 1
    /\ search' = [search EXCEPT ![c] = Read(manifest)]
    /\ UNCHANGED <<disk, drifted, manifest, edits, restarts, cached, sync, remote, faults, history>>

Ready(c) == Is(IF c = Boot THEN "idle" ELSE "asking")

\* ensureCorpusReady: a synchronisation under way is joined, whatever its corpus.
EnsureCorpusReady(c) ==
    /\ search[c].at = "read"
    /\ \/ /\ sync # NoSync
          /\ search' = [search EXCEPT ![c] = Is("waiting")] /\ UNCHANGED sync
       \/ /\ sync = NoSync /\ search[c].corpus = cached
          /\ search' = [search EXCEPT ![c] = Ready(c)] /\ UNCHANGED sync
       \/ /\ sync = NoSync /\ search[c].corpus # cached
          /\ search' = [search EXCEPT ![c] = Is("waiting")]
          /\ sync' = [NoSync EXCEPT !.at = "list", !.corpus = search[c].corpus]
    /\ UNCHANGED <<world, cached, remote, faults, history>>

\* The answer, or a failure.
Ask(c) ==
    /\ search[c].at = "asking" /\ search' = [search EXCEPT ![c] = Is("idle")]
    /\ UNCHANGED <<world, cached, sync, remote, faults, history>>

Waiters(next) == [c \in Callers |-> IF search[c].at = "waiting" THEN next[c] ELSE search[c]]

\* syncCorpus has thrown: the next search tries again.
Reject ==
    /\ sync' = NoSync
    /\ search' = Waiters([c \in Callers |-> Is("idle")])
    /\ torn' = TRUE
    /\ UNCHANGED <<world, cached>>
-----------------------------------------------------------------------------
(* The requests, and what they do to the store.                            *)

CreateStore ==
    /\ sync.at = "list" /\ ~made
    /\ made' = TRUE /\ UNCHANGED <<store, hidden, ids, files, content>>

Path == Min(sync.todo)
Outdated == {d \in sync.outdated : d.path = Path}

\* Obsolete documents first; then, for one path after another, the outdated one.
Deletable ==
    IF sync.at # "work" THEN {}
    ELSE IF sync.obsolete # {} THEN sync.obsolete
    ELSE IF sync.todo # {} THEN Outdated ELSE {}
DeleteDocument(d) ==
    /\ store' = {x \in store : x.id # d.id}
    /\ UNCHANGED <<made, hidden, ids, files, content>>

\* The file is read once more, and uploaded as it is now.
Uploading == sync.at = "work" /\ sync.todo # {} /\ Deletable = {}
UploadFile ==
    /\ Uploading
    /\ files' = files + 1 /\ content' = disk[Path]
    /\ UNCHANGED <<made, store, hidden, ids>>

\* The upload becomes a document, under the hash its file had when the search read it.
ImportFile ==
    /\ sync.at = "import"
    /\ hidden' = hidden \cup {[id |-> ids + 1, path |-> Path, hash |-> sync.corpus[Path],
                                text |-> content, state |-> "pending"]}
    /\ ids' = ids + 1 /\ UNCHANGED <<made, store, files, content>>

DeleteFile ==
    /\ sync.at = "discard"
    /\ files' = files - 1 /\ UNCHANGED <<made, store, hidden, ids, content>>
-----------------------------------------------------------------------------
(* The synchronisation, where its requests are answered.                   *)

Goes(at) == sync' = [sync EXCEPT !.at = at]
SyncOnly == UNCHANGED <<world, search, cached, faults, history>>

\* Mutant: a document still being processed counts.
UpToDateInAnyState(d) == d.hash = sync.corpus[d.path]
UpToDate(d) == d.hash = sync.corpus[d.path] /\ d.state = "active"

Managed == {d \in store : d.path \in DOMAIN sync.corpus}

\* existingByPath keeps one document of every path, whichever comes last.
ExistingByPath == {X \in SUBSET Managed : \A d \in Managed : Cardinality({x \in X : x.path = d.path}) = 1}

\* resolveStore finds the store or creates it; its documents are listed.
ListDocuments ==
    /\ sync.at = "list" /\ SyncOnly
    /\ CreateStore \/ (made /\ UNCHANGED remote)
    /\ \E existing \in ExistingByPath :
        LET current == {d \in existing : UpToDate(d)}
        IN sync' = [sync EXCEPT !.at = "work", !.obsolete = store \ Managed, !.outdated = existing \ current,
                                !.todo = DOMAIN sync.corpus \ {d.path : d \in current}]

Delete ==
    /\ SyncOnly
    /\ \E d \in Deletable :
        /\ DeleteDocument(d)
        /\ sync' = [sync EXCEPT !.obsolete = @ \ {d}, !.outdated = @ \ {d}]

Upload == UploadFile /\ Goes("import") /\ SyncOnly
Import == ImportFile /\ Goes("poll") /\ SyncOnly

\* waitForOperation
Imported == \E d \in store : d.id = ids /\ d.state = "active"
Running == \E d \in store \cup hidden : d.id = ids /\ d.state = "pending"
Poll == sync.at = "poll" /\ Imported /\ Goes("discard") /\ SyncOnly /\ UNCHANGED remote

Throws ==
    /\ sync' = [sync EXCEPT !.at = "discard", !.failed = TRUE]
    /\ strays' = [strays EXCEPT ![Path] = IF \E d \in hidden' : d.id = ids' THEN @ + 1 ELSE @]
    /\ UNCHANGED <<world, search, cached, torn, leaked>>

\* Mutant: it waits for as long as the operation runs.
GiveUpNever ==
    /\ sync.at = "poll" /\ ~Imported /\ ~Running
    /\ UNCHANGED <<remote, faults>>
    /\ Throws

\* The operation failed, a poll did, or its time is up.
GiveUp ==
    /\ sync.at = "poll" /\ ~Imported
    /\ UNCHANGED <<remote, faults>>
    /\ Throws

\* The upload is deleted, whatever has become of the import.
Discarded ==
    IF sync.failed THEN Reject
    ELSE /\ sync' = [sync EXCEPT !.at = "work", !.todo = @ \ {Path}]
         /\ UNCHANGED <<world, search, cached, torn>>
Discard == DeleteFile /\ Discarded /\ UNCHANGED <<faults, strays, leaked>>

\* syncCorpus has returned.
Succeed ==
    /\ sync.at = "work" /\ sync.todo = {} /\ sync.obsolete = {}
    /\ cached' = sync.corpus /\ sync' = NoSync
    /\ search' = Waiters([c \in Callers |-> Ready(c)])
    /\ torn' = FALSE
    /\ UNCHANGED <<world, remote, faults, strays, leaked>>
-----------------------------------------------------------------------------
(* Its failures: a request that fails may have been served all the same,   *)
(* and the file to upload may be gone.                                     *)

Fault == faults < MaxFaults /\ faults' = faults + 1

RequestFails ==
    /\ Fault
    /\ \/ sync.at = "list" /\ UNCHANGED <<remote, leaked>>
       \/ CreateStore /\ UNCHANGED leaked
       \/ /\ \E d \in Deletable : DeleteDocument(d) \/ UNCHANGED remote
          /\ UNCHANGED leaked
       \/ UploadFile /\ leaked' = leaked + 1
       \/ Uploading /\ UNCHANGED <<remote, leaked>>
    /\ Reject /\ UNCHANGED strays

\* Mutant: a failed import leaves the upload.
ImportFailsAtOnce ==
    /\ sync.at = "import" /\ Fault
    /\ ImportFile \/ UNCHANGED remote
    /\ Reject
    /\ UNCHANGED <<strays, leaked>>

ImportFails ==
    /\ sync.at = "import" /\ Fault
    /\ \/ ImportFile /\ Throws
       \/ /\ UNCHANGED <<remote, strays>>
          /\ sync' = [sync EXCEPT !.at = "discard", !.failed = TRUE]
          /\ UNCHANGED <<world, search, cached, torn, leaked>>

DiscardFails ==
    /\ sync.at = "discard" /\ Fault
    /\ \/ DeleteFile /\ UNCHANGED leaked
       \/ leaked' = leaked + 1 /\ UNCHANGED remote
    /\ Discarded /\ UNCHANGED strays
-----------------------------------------------------------------------------
(* The store, the repository and the server.                               *)

External == UNCHANGED <<world, search, cached, sync, made, ids, files, content, history>>

Appear ==
    \E d \in hidden :
        /\ hidden' = hidden \ {d} /\ store' = store \cup {d}
        /\ UNCHANGED faults /\ External

Becomes(d, state) == store' = (store \ {d}) \cup {[d EXCEPT !.state = state]} /\ UNCHANGED hidden

\* An import ends; one that fails leaves a failed document or none.
Process ==
    /\ External
    /\ \/ \E d \in store : d.state = "pending" /\ Becomes(d, "active") /\ UNCHANGED faults
       \/ \E d \in store : d.state = "pending" /\ Becomes(d, "failed") /\ Fault
       \/ \E d \in hidden : hidden' = hidden \ {d} /\ Fault /\ UNCHANGED store

\* The paths whose upload is still to come, in this synchronisation or in one that a
\* caller may start with the corpus it has read.
ToUpload ==
    IF sync.at = "list" THEN DOMAIN sync.corpus
    ELSE IF sync.at \in {"import", "poll", "discard"} THEN sync.todo \ {Path} ELSE sync.todo
Hashed == ToUpload \cup UNION {DOMAIN search[c].corpus : c \in Callers}

Edit(p) ==
    /\ edits < MaxEdits /\ edits' = edits + 1
    /\ \E text \in Texts \ {disk[p]} : disk' = [disk EXCEPT ![p] = text]
    /\ drifted' = drifted \cup (Hashed \cap {p})
    /\ UNCHANGED <<manifest, searches, restarts, search, cached, sync, remote, faults, history>>

\* The server stops wherever it is, and another version of it may start.
Restart ==
    /\ restarts < MaxRestarts /\ restarts' = restarts + 1
    /\ manifest' \in Manifests
    /\ search' \in Starts(manifest')
    /\ cached' = NoCorpus /\ sync' = NoSync /\ torn' = FALSE
    /\ strays' = IF sync.at = "poll" /\ \E d \in hidden : d.id = ids
                 THEN [strays EXCEPT ![Path] = @ + 1] ELSE strays
    /\ leaked' = IF sync.at \in {"import", "poll", "discard"} THEN leaked + 1 ELSE leaked
    /\ UNCHANGED <<disk, drifted, searches, edits, remote, faults>>

SyncNext ==
    \/ ListDocuments \/ Delete
    \/ Upload \/ Import \/ Poll \/ GiveUp \/ Discard \/ Succeed
    \/ RequestFails \/ ImportFails \/ DiscardFails

Next ==
    \/ \E c \in Searchers : Search(c)
    \/ \E c \in Callers : EnsureCorpusReady(c) \/ Ask(c)
    \/ SyncNext
    \/ Appear \/ Process
    \/ \E p \in Paths : Edit(p)
    \/ Restart

\* Requests are answered or time out; nothing is fair about what the store does.
Fairness ==
    /\ WF_vars(SyncNext)
    /\ \A c \in Callers : WF_vars(EnsureCorpusReady(c)) /\ WF_vars(Ask(c))

Spec == Init /\ [][Next]_vars /\ Fairness
-----------------------------------------------------------------------------
DocumentsOf(p) == {d \in store : d.path = p}

\* A search that trusts the last synchronisation is right to: unless one has failed
\* since, the store holds every document of that corpus, ready, under its hash and with
\* its text, and nothing besides, but for imports the server had given up and that came
\* late.  The text is another's where the file was edited after it had been hashed and
\* before it was uploaded: uploadFile reads it again, and nothing compares the two.
StoreMatchesCache ==
    cached # NoCorpus /\ sync = NoSync /\ ~torn =>
        \A p \in Paths :
            /\ p \in DOMAIN cached =>
                \E d \in DocumentsOf(p) :
                    /\ d.hash = cached[p] /\ d.state = "active"
                    /\ p \notin drifted => d.text = cached[p]
            /\ Cardinality(DocumentsOf(p)) <= strays[p] + (IF p \in DOMAIN cached THEN 1 ELSE 0)

\* No upload stays behind: however an import ends, its file is deleted, unless the
\* server stopped, the upload's answer was lost or the deletion itself failed.
UploadsAreDeleted ==
    files = leaked + (IF sync.at \in {"import", "poll", "discard"} THEN 1 ELSE 0)

\* Every search ends: whoever joins a synchronisation is freed by its success, its
\* failure or the time limit on imports, also if the store never finishes one.
SearchesEnd == \A c \in Searchers : search[c].at # "idle" ~> search[c].at = "idle"
=============================================================================
