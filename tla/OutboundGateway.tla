---------------------------- MODULE OutboundGateway ----------------------------
(***************************************************************************)
(* The realtime outbound gateway: what it remembers of the events it let   *)
(* through, as a value, and what each call makes of it.  Audio is limited  *)
(* per lane and may not go back in sequence; a screen frame is never       *)
(* limited; all kinds share one breaker, which opens after a number of     *)
(* failures in a row.                                                      *)
(***************************************************************************)
EXTENDS Naturals

CONSTANTS Lanes,                  \* the microphone's channel keys
          AudioMaxOutstanding,    \* AUDIO_MAX_OUTSTANDING_EVENTS
          MaxConsecutiveFailures  \* the same option

ASSUME GatewayAssumption ==
    /\ AudioMaxOutstanding \in Nat
    /\ MaxConsecutiveFailures \in Nat \ {0}

\* failures stops counting where only "enough" matters.
GatewayStates == [failures : 0..MaxConsecutiveFailures,
                  latest : [Lanes -> Nat], outstanding : [Lanes -> Nat]]

Fresh == [failures |-> 0, latest |-> [l \in Lanes |-> 0], outstanding |-> [l \in Lanes |-> 0]]

BreakerOpen(g) == g.failures = MaxConsecutiveFailures

\* submit of an audio chunk: not blocked, not dropped.
AdmitsAudio(g, lane, seq) ==
    /\ ~BreakerOpen(g)
    /\ g.outstanding[lane] < AudioMaxOutstanding
    /\ seq > g.latest[lane]

Admitted(g, lane, seq) ==
    [g EXCEPT !.latest[lane] = seq, !.outstanding[lane] = @ + 1]

Settled(g, lane) ==
    [g EXCEPT !.outstanding[lane] = IF @ <= 1 THEN 0 ELSE @ - 1]

Failed(g) ==
    [g EXCEPT !.failures = IF @ < MaxConsecutiveFailures THEN @ + 1 ELSE @]

Succeeded(g) == [g EXCEPT !.failures = 0]
=============================================================================
