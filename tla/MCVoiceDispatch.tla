---------------------------- MODULE MCVoiceDispatch ----------------------------
\* A small instance of VoiceDispatch.
EXTENDS VoiceDispatch, TLC

Symmetry == Permutations(Transports) \cup Permutations(Loops)
=============================================================================
