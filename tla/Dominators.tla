----------------------------- MODULE Dominators -----------------------------
(***************************************************************************)
(* The dominator analysis of IR.cpp's addFunction: mark the reachable       *)
(* blocks, start from "every reachable block dominates every block",        *)
(* recompute the set of each block from its predecessors, in place and in   *)
(* block order, until a whole pass changes nothing, then read off the       *)
(* immediate dominators.  One action is one call of markReachable, or one   *)
(* turn of the loop.                                                        *)
(***************************************************************************)
EXTENDS FlowFacts

VARIABLES
    domPhase,   \* "mark", "sweep" or "done"
    pending,    \* calls of markReachable still to be made
    cursor,     \* the loop variable "block"
    changed,
    idom        \* immediateDominators

domVars == <<succ, domPhase, pending, reachable, dominators, cursor, changed, idom>>

DomInit ==
    /\ \E last \in [Block -> Terminator] : succ = GraphOf(last)
    /\ domPhase = "mark"
    /\ pending = {Entry}
    /\ reachable = {}
    /\ dominators = [b \in Block |-> {}]
    /\ cursor = 1
    /\ changed = FALSE
    /\ idom = [b \in Block |-> None]

(* Mutant: only jumps forwards are followed. *)
MarkReachableForward(b) ==
    /\ domPhase = "mark"
    /\ b \in pending
    /\ reachable' = reachable \cup {b}
    /\ pending' = (pending \ {b}) \cup {s \in succ[b] : s > b}
    /\ UNCHANGED <<succ, domPhase, dominators, cursor, changed, idom>>

(***************************************************************************)
(* One call of the recursive markReachable.  The code makes the pending     *)
(* calls depth first; here they are made in any order.                      *)
(***************************************************************************)
MarkReachable(b) ==
    /\ domPhase = "mark"
    /\ b \in pending
    /\ IF b \in reachable
         THEN /\ pending' = pending \ {b}
              /\ UNCHANGED reachable
         ELSE /\ reachable' = reachable \cup {b}
              /\ pending' = (pending \ {b}) \cup succ[b]
    /\ UNCHANGED <<succ, domPhase, dominators, cursor, changed, idom>>

DomStart ==
    /\ domPhase = "mark"
    /\ pending = {}
    /\ domPhase' = "sweep"
    /\ dominators' = [b \in Block |-> IF b = Entry THEN {Entry}
                                      ELSE IF b \in reachable THEN reachable
                                      ELSE {}]
    /\ UNCHANGED <<succ, pending, reachable, cursor, changed, idom>>

(* The new set of block b: what dominates all its reachable predecessors,  *)
(* and b itself.                                                           *)
NextDominators(b) ==
    LET from == Preds(succ, b) \cap reachable IN
    {d \in reachable : \A p \in from : d \in dominators[p]}
      \cup (IF from = {} THEN {} ELSE {b})

(* Mutant: a visit that does not ask for another pass. *)
DomVisitOnce ==
    /\ domPhase = "sweep"
    /\ cursor \in Block
    /\ cursor' = cursor + 1
    /\ dominators' = [dominators EXCEPT ![cursor] =
                         IF cursor \in reachable THEN NextDominators(cursor) ELSE @]
    /\ UNCHANGED <<succ, domPhase, pending, reachable, changed, idom>>

DomVisit ==
    /\ domPhase = "sweep"
    /\ cursor \in Block
    /\ cursor' = cursor + 1
    /\ IF cursor \in reachable /\ NextDominators(cursor) # dominators[cursor]
         THEN /\ dominators' = [dominators EXCEPT ![cursor] = NextDominators(cursor)]
              /\ changed' = TRUE
         ELSE UNCHANGED <<dominators, changed>>
    /\ UNCHANGED <<succ, domPhase, pending, reachable, idom>>

DomNextPass ==
    /\ domPhase = "sweep"
    /\ cursor \notin Block
    /\ changed
    /\ cursor' = 1
    /\ changed' = FALSE
    /\ UNCHANGED <<succ, domPhase, pending, reachable, dominators, idom>>

(* Mutant: the smallest set instead of the largest. *)
ClosestSmallest(b) ==
    LET strict == dominators[b] \ {b}
        Depth(d) == Cardinality(dominators[d])
    IN  IF strict = {} THEN None
        ELSE CHOOSE d \in strict : \A e \in strict : Depth(d) <= Depth(e)

(* The strict dominator with the largest dominator set; of two equal ones *)
(* the smaller block, which the code's ">" keeps.                         *)
Closest(b) ==
    LET strict == dominators[b] \ {b}
        Depth(d) == Cardinality(dominators[d])
    IN  IF strict = {} THEN None
        ELSE CHOOSE d \in strict :
               \A e \in strict : \/ Depth(e) < Depth(d)
                                 \/ Depth(e) = Depth(d) /\ d <= e

DomFinish ==
    /\ domPhase = "sweep"
    /\ cursor \notin Block
    /\ ~ changed
    /\ domPhase' = "done"
    /\ idom' = [b \in Block |-> IF b = Entry THEN Entry
                                ELSE IF b \in reachable THEN Closest(b)
                                ELSE None]
    /\ UNCHANGED <<succ, pending, reachable, dominators, cursor, changed>>

DomNext == \/ \E b \in Block : MarkReachable(b)
           \/ DomStart \/ DomVisit \/ DomNextPass \/ DomFinish

-----------------------------------------------------------------------------
DomTypeOK ==
    /\ succ \in Graph
    /\ domPhase \in {"mark", "sweep", "done"}
    /\ pending \subseteq Block
    /\ reachable \subseteq Block
    /\ dominators \in [Block -> SUBSET Block]
    /\ cursor \in 1 .. N
    /\ changed \in BOOLEAN
    /\ idom \in [Block -> Block \cup {None}]

(* markReachable leaves no reachable block out, however the graph is wired *)
(* (cycles, blocks behind a return), and marks no block that cannot be     *)
(* reached from the entry.                                                 *)
ReachableCorrect == domPhase # "mark" => reachable = Reached(succ)

(* When the in-place sweeps stop, the set of a reachable block is exactly  *)
(* the set of blocks that every path from the entry to it passes through - *)
(* for cyclic and irreducible graphs too, where a set computed early in a  *)
(* pass used sets that changed later in it.                                *)
DominatorsCorrect ==
    domPhase = "done" =>
        \A b \in reachable, d \in reachable :
            d \in dominators[b] <=> Dominates(succ, d, b)

(* At every moment of the iteration the sets are too large, never too      *)
(* small: a true dominator is not lost by a visit that happens before its  *)
(* predecessors have settled.                                              *)
NoDominatorLost ==
    domPhase # "mark" =>
        \A b \in reachable, d \in reachable :
            Dominates(succ, d, b) => d \in dominators[b]

(* "Largest dominator set" really picks the closest strict dominator: the  *)
(* one that all other strict dominators of the block dominate.             *)
ImmediateCorrect ==
    domPhase = "done" =>
        \A b \in reachable \ {Entry} :
            LET strict == DominatorsOf(succ, b) \ {b}
            IN  /\ idom[b] \in strict
                /\ \A d \in strict : Dominates(succ, d, idom[b])
=============================================================================
