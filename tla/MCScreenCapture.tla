---------------------------- MODULE MCScreenCapture ----------------------------
EXTENDS ScreenCapture, TLC

\* Captures, transports and loops are interchangeable.
Symmetry == Permutations(Captures) \cup Permutations(Transports) \cup Permutations(Loops)
=============================================================================
