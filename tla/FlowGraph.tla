------------------------------ MODULE FlowGraph ------------------------------
(***************************************************************************)
(* The control-flow graph of one function, as IR.cpp's addFunction builds   *)
(* it: blocks 0 .. N-1 in the order of their first instruction, block 0 the *)
(* entry, and the successors of a block read off its last instruction.      *)
(*                                                                          *)
(* What it means for one block to be reachable, or to be reachable without  *)
(* passing through another, is defined here by closed sets: a block can be  *)
(* reached iff it lies in every set that holds the starting point and is    *)
(* closed under the edges.  These are the reference definitions that the    *)
(* iterative analyses of the other modules are measured against.            *)
(***************************************************************************)
EXTENDS Integers, FiniteSets

CONSTANT N   \* the number of basic blocks of the function

ASSUME NAssumption == N \in Nat \ {0}

Block == 0 .. N-1
Entry == 0

(* -1, the code's "no block". *)
None == -1

(***************************************************************************)
(* The last instruction of a block.  A conditional jump may fall through;   *)
(* an unconditional one may not; a return leaves the function; anything     *)
(* else continues in the block that follows.  The validator has made sure   *)
(* that a jump target is the first instruction of a block.                  *)
(***************************************************************************)
Terminator == [kind : {"jump", "conditional"}, target : Block]
                 \cup [kind : {"return", "plain"}, target : {None}]

Successors(n, last) ==
    {t \in Block : t = last.target}
      \cup {m \in Block : m = n + 1 /\ last.kind \in {"conditional", "plain"}}

(* The graph of a function whose block n ends in last[n]. *)
GraphOf(last) == [n \in Block |-> Successors(n, last[n])]

Graph == [Block -> SUBSET Block]

Preds(g, b) == {p \in Block : b \in g[p]}

(* The blocks without successors: a return, or the end of the code. *)
ExitBlocks(g) == {b \in Block : g[b] = {}}

-----------------------------------------------------------------------------
(* S is closed under the edges of g, except the edges that enter d. *)
ClosedAvoiding(g, d, S) == \A x \in S : \A y \in g[x] : y # d => y \in S

(* Some path from a to b does not pass through d (d = None: some path). *)
PathAvoiding(g, a, d, b) ==
    \A S \in SUBSET Block :
        (a # d => a \in S) /\ ClosedAvoiding(g, d, S) => b \in S

Path(g, a, b) == PathAvoiding(g, a, None, b)

Reached(g) == {b \in Block : Path(g, Entry, b)}

(* Every path from the entry to b passes through d. *)
Dominates(g, d, b) == ~ PathAvoiding(g, Entry, d, b)

DominatorsOf(g, b) == {d \in Reached(g) : Dominates(g, d, b)}

(* Every path from b to an exit of the function passes through d. *)
PostDominates(g, d, b) == \A e \in ExitBlocks(g) : ~ PathAvoiding(g, b, d, e)
=============================================================================
