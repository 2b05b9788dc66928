------------------------------ MODULE FlowFacts ------------------------------
(***************************************************************************)
(* What the analyses of addFunction share: the graph of the function, the   *)
(* blocks that can be reached, and the dominators, which later passes use.  *)
(***************************************************************************)
EXTENDS FlowGraph

VARIABLES
    succ,       \* the function's graph, fixed
    reachable,
    dominators
=============================================================================
