-------------------------- MODULE FunctionAnalysis --------------------------
(***************************************************************************)
(* The graph analyses of IR.cpp's addFunction in the order in which it runs *)
(* them on one function: dominators, natural loops, post-dominators,        *)
(* strongly connected components, scopes.  Each works on what the earlier   *)
(* ones have left.  At the end Restructure.cpp renders the plan.            *)
(***************************************************************************)
EXTENDS Dominators, NaturalLoops, PostDominators, Sccs

vars == <<domVars, loopVars, postVars, sccVars>>

Init ==
    /\ DomInit
    /\ LoopInit
    /\ PostInit
    /\ SccInit

FindDominators == DomNext /\ UNCHANGED <<loopOwn, postOwn, sccOwn>>

FindLoops ==
    /\ domPhase = "done"
    /\ LoopNext
    /\ UNCHANGED <<domVars, postOwn, sccOwn>>

FindPostDominators ==
    /\ loopPhase = "merge"
    /\ PostNext
    /\ UNCHANGED <<domVars, loopOwn, sccOwn>>

FindComponents ==
    /\ postPhase = "done"
    /\ SccNext
    /\ UNCHANGED <<domVars, loopOwn, postOwn>>

FindScopes ==
    /\ postPhase = "done"
    /\ SccOver
    /\ MakeScopes
    /\ UNCHANGED <<domVars, postOwn, sccOwn>>

RenderPlan ==
    /\ loopPhase = "done"
    /\ Render
    /\ UNCHANGED <<domVars, loopOwn, sccOwn>>

(* The plan is written out. *)
Done == postPhase = "rendered" /\ UNCHANGED vars

Next == \/ FindDominators \/ FindLoops \/ FindPostDominators
        \/ FindComponents \/ FindScopes \/ RenderPlan \/ Done

Spec == Init /\ [][Next]_vars

(* One thread runs all analyses to their end. *)
FairSpec == Spec /\ WF_vars(Next)

-----------------------------------------------------------------------------
(* The cursors stay in range, sets hold blocks, worklists hold members, and *)
(* loops and components hold reachable blocks only.                         *)
TypeOK == DomTypeOK /\ LoopTypeOK /\ PostTypeOK /\ SccTypeOK

(* Every fixpoint loop, worklist and search of addFunction ends, on every   *)
(* graph.                                                                   *)
Termination == <>(postPhase = "rendered")
=============================================================================
