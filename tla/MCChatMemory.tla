----------------------------- MODULE MCChatMemory -----------------------------
\* A small instance of ChatMemory.
EXTENDS ChatMemory, TLC

\* Chats, turns and switches are interchangeable.
Symmetry == Permutations(Chats) \cup Permutations(Turns) \cup Permutations(Switchers)
=============================================================================
