------------------------------ MODULE ToolQueue ------------------------------
(***************************************************************************)
(* What the voice-tool controller promises: calls are answered in the      *)
(* order they came, each once, to the transport they came from.  No calls  *)
(* are dropped but by a cancellation, which drops all that wait.  No       *)
(* chain, no versions, no state of the calls in between.                   *)
(***************************************************************************)
EXTENDS Naturals, Sequences

CONSTANTS Transports, MaxBatches

VARIABLES delivered,  \* how many batches have come
          wanted,     \* those that are to be answered, and the transport of each
          answered    \* the answers, in the order they were given

vars == <<delivered, wanted, answered>>

Init == delivered = 0 /\ wanted = {} /\ answered = <<>>

\* A batch comes over x.  There is nothing to answer in one without calls.
Deliver(x) ==
    /\ delivered < MaxBatches
    /\ delivered' = delivered + 1
    /\ wanted' \in {wanted, wanted \cup {[batch |-> delivered + 1, to |-> x]}}
    /\ UNCHANGED answered

Answer(w) ==
    /\ \A v \in wanted : w.batch <= v.batch
    /\ wanted' = wanted \ {w}
    /\ answered' = Append(answered, w)
    /\ UNCHANGED delivered

Cancel ==
    /\ wanted' = {}
    /\ UNCHANGED <<delivered, answered>>

Next == (\E x \in Transports : Deliver(x)) \/ (\E w \in wanted : Answer(w)) \/ Cancel

Spec == Init /\ [][Next]_vars
==============================================================================
