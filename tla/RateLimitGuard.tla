--------------------------- MODULE RateLimitGuard ---------------------------
(***************************************************************************)
(* The fixed-window limiter of the session-token endpoint                  *)
(* (SessionTokenRateLimitGuard) and of the project-knowledge endpoint      *)
(* (ProjectKnowledgeRateLimitGuard): the two classes differ only in the    *)
(* environment values they read.  canActivate runs to completion on Node's *)
(* single thread, so a request is one step.  The clock is Date.now():      *)
(* it only moves forward here, in ticks.                                   *)
(***************************************************************************)
EXTENDS Integers, FiniteSets

CONSTANTS Clients,       \* client IP addresses
          WindowMs,      \* env.*RateLimitWindowMs
          MaxRequests,   \* env.*RateLimitMaxRequests
          BucketMaxSize, \* RATE_LIMIT_BUCKET_MAX_SIZE
          Horizon        \* last tick of the clock (bound of the model)

\* parsePositiveInteger refuses a window or a limit that is not positive.
ASSUME LimiterAssumption ==
    /\ WindowMs \in Nat \ {0}
    /\ MaxRequests \in Nat \ {0}
    /\ BucketMaxSize \in Nat
    /\ Horizon \in Nat

VARIABLES now,          \* Date.now()
          buckets,      \* the Map: client -> bucket, NoBucket when absent
          lastSweepAt,  \* this.lastSweepAt
          verdict       \* history: client -> answer to its latest request

limiterVars == <<now, buckets, lastSweepAt, verdict>>

NoBucket == [count |-> 0, windowStartedAt |-> -1]
Bucket == [count : 1..MaxRequests, windowStartedAt : 0..Horizon]

TypeOK ==
    /\ now \in 0..Horizon
    /\ buckets \in [Clients -> Bucket \cup {NoBucket}]
    /\ lastSweepAt \in {-WindowMs} \cup 0..Horizon
    /\ verdict \in [Clients -> {"none", "allowed", "limited"}]

\* lastSweepAt is 0 at start and the epoch is long past: the first request sweeps.
LimiterInit ==
    /\ now = 0
    /\ buckets = [c \in Clients |-> NoBucket]
    /\ lastSweepAt = -WindowMs
    /\ verdict = [c \in Clients |-> "none"]

Over(b) == now >= b.windowStartedAt + WindowMs

Stored(b) == {c \in Clients : b[c] # NoBucket}

\* Mutant: sweeping by the size of the Map only.
SweepDueBySizeOnly == Cardinality(Stored(buckets)) > BucketMaxSize

SweepDue ==
    \/ now >= lastSweepAt + WindowMs
    \/ Cardinality(Stored(buckets)) > BucketMaxSize

\* sweepExpiredBuckets: the Map after the sweep that opens every request.
SweptBuckets ==
    IF SweepDue
    THEN [c \in Clients |-> IF Over(buckets[c]) THEN NoBucket ELSE buckets[c]]
    ELSE buckets

Sweep == lastSweepAt' = IF SweepDue THEN now ELSE lastSweepAt

Grant(c) == verdict' = [verdict EXCEPT ![c] = "allowed"]

\* A request whose window is absent or over opens a new window.
OpenWindow(c) ==
    /\ SweptBuckets[c] = NoBucket \/ Over(SweptBuckets[c])
    /\ buckets' = [SweptBuckets EXCEPT ![c] = [count |-> 1, windowStartedAt |-> now]]
    /\ Sweep /\ Grant(c)
    /\ UNCHANGED now

\* Mutant: each request restarts the window it is counted in.
CountRequestRestarting(c) ==
    /\ SweptBuckets[c] # NoBucket /\ ~Over(SweptBuckets[c])
    /\ SweptBuckets[c].count < MaxRequests
    /\ buckets' = [SweptBuckets EXCEPT
                      ![c] = [count |-> @.count + 1, windowStartedAt |-> now]]
    /\ Sweep /\ Grant(c)
    /\ UNCHANGED now

\* A request inside a window that has room.
CountRequest(c) ==
    /\ SweptBuckets[c] # NoBucket /\ ~Over(SweptBuckets[c])
    /\ SweptBuckets[c].count < MaxRequests
    /\ buckets' = [SweptBuckets EXCEPT ![c].count = @ + 1]
    /\ Sweep /\ Grant(c)
    /\ UNCHANGED now

\* A request over the limit: 429, and only the sweep touches the Map.
RejectRequest(c) ==
    /\ SweptBuckets[c] # NoBucket /\ ~Over(SweptBuckets[c])
    /\ SweptBuckets[c].count >= MaxRequests
    /\ buckets' = SweptBuckets
    /\ Sweep
    /\ verdict' = [verdict EXCEPT ![c] = "limited"]
    /\ UNCHANGED now

Request(c) == OpenWindow(c) \/ CountRequest(c) \/ RejectRequest(c)

Tick ==
    /\ now < Horizon
    /\ now' = now + 1
    /\ UNCHANGED <<buckets, lastSweepAt, verdict>>

LimiterNext == Tick \/ \E c \in Clients : Request(c)

LimiterSpec == LimiterInit /\ [][LimiterNext]_limiterVars
-----------------------------------------------------------------------------
\* The abstract window of a client: a bucket that is over is as good as none.
Window == [c \in Clients |-> IF buckets[c] # NoBucket /\ Over(buckets[c])
                             THEN NoBucket ELSE buckets[c]]

Promise == INSTANCE FixedWindow WITH window <- Window

\* The guards implement the fixed window: sweeping the Map early, late or
\* because it grew past its limit never changes an answer.
ImplementsFixedWindow == Promise!Spec

\* The Map does not accumulate dead clients: after any request no bucket it
\* still holds was opened 2 * WindowMs ago or earlier.
MapStaysFresh ==
    [][now' = now => \A c \in Clients :
          buckets'[c] # NoBucket => now < buckets'[c].windowStartedAt + 2 * WindowMs]_limiterVars

\* What the Map's freshness rests on: a bucket opened before the latest sweep
\* was still alive at that sweep.
SweptWereAlive ==
    \A c \in Clients :
        buckets[c] # NoBucket => lastSweepAt < buckets[c].windowStartedAt + WindowMs
=============================================================================
