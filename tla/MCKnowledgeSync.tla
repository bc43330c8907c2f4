--------------------------- MODULE MCKnowledgeSync ---------------------------
(* The instance of KnowledgeSync that TLC checks. *)
EXTENDS KnowledgeSync

CONSTANT s1

\* A later version of the server may manage fewer documents, or more.
MCManifests == {{1}, {1, 2}}
=============================================================================
