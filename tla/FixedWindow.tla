----------------------------- MODULE FixedWindow -----------------------------
(***************************************************************************)
(* What the two rate-limit guards promise: each client owns one window of  *)
(* WindowMs that its first request opens, at most MaxRequests requests are *)
(* let through in it, and the clock alone closes it.  No map, no sweep, no *)
(* stale buckets: a window that is over is Closed the moment it is over.   *)
(***************************************************************************)
EXTENDS Integers

CONSTANTS Clients, WindowMs, MaxRequests, Horizon

VARIABLES now,     \* the clock
          window,  \* client -> its open window, Closed when it has none
          verdict  \* client -> answer to its latest request

vars == <<now, window, verdict>>

Closed == [count |-> 0, windowStartedAt |-> -1]

\* The windows as they stand when the clock reads t.
At(t) == [c \in Clients |->
            IF window[c] # Closed /\ t >= window[c].windowStartedAt + WindowMs
            THEN Closed ELSE window[c]]

Init ==
    /\ now = 0
    /\ window = [c \in Clients |-> Closed]
    /\ verdict = [c \in Clients |-> "none"]

Open(c) ==
    /\ window[c] = Closed
    /\ window' = [window EXCEPT ![c] = [count |-> 1, windowStartedAt |-> now]]
    /\ verdict' = [verdict EXCEPT ![c] = "allowed"]
    /\ UNCHANGED now

Use(c) ==
    /\ window[c] # Closed
    /\ window[c].count < MaxRequests
    /\ window' = [window EXCEPT ![c].count = @ + 1]
    /\ verdict' = [verdict EXCEPT ![c] = "allowed"]
    /\ UNCHANGED now

Refuse(c) ==
    /\ window[c] # Closed
    /\ window[c].count = MaxRequests
    /\ verdict' = [verdict EXCEPT ![c] = "limited"]
    /\ UNCHANGED <<now, window>>

Tick ==
    /\ now < Horizon
    /\ now' = now + 1
    /\ window' = At(now + 1)
    /\ UNCHANGED verdict

Next == Tick \/ \E c \in Clients : Open(c) \/ Use(c) \/ Refuse(c)

Spec == Init /\ [][Next]_vars
=============================================================================
