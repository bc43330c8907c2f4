---------------------------- MODULE MCLiveSession ----------------------------
(***************************************************************************)
(* Small instances of LiveSession for TLC.                                 *)
(***************************************************************************)
EXTENDS LiveSession, TLC

CONSTANTS t1, t2, x1, x2

TwoTasks == {t1, t2}
TwoTransports == {x1, x2}
AllTurns == {"turn.user.speech.detected", "turn.user.settled",
             "turn.assistant.output.started", "turn.assistantCompleted",
             "turn.interrupted"}

Interchangeable == Permutations(Tasks) \cup Permutations(Transports)
=============================================================================
