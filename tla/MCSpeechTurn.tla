----------------------------- MODULE MCSpeechTurn -----------------------------
\* A small instance of SpeechTurn.
EXTENDS SpeechTurn
=============================================================================
