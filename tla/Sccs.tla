-------------------------------- MODULE Sccs --------------------------------
(***************************************************************************)
(* Tarjan's strongly connected components in IR.cpp's addFunction.  The     *)
(* recursion of strongConnect is kept as a stack of calls; a call holds its *)
(* block v and the successors it has still to look at, which it takes in    *)
(* block order.                                                             *)
(***************************************************************************)
EXTENDS FlowFacts, SequencesExt, FiniteSetsExt

VARIABLES
    index, low,      \* -1 for a block not yet visited
    stack,           \* the blocks without a component yet, the newest last
    nextIndex,
    calls,           \* the active calls of strongConnect, the innermost last
    components       \* stronglyConnectedComponents, in the order found

sccOwn == <<index, low, stack, nextIndex, calls, components>>
sccVars == <<succ, reachable, sccOwn>>

OnStack(b) == b \in ToSet(stack)

SccInit ==
    /\ index = [b \in Block |-> None]
    /\ low = [b \in Block |-> None]
    /\ stack = << >>
    /\ nextIndex = 0
    /\ calls = << >>
    /\ components = << >>

(* The start of strongConnect(v), called with the frames "callers". *)
Enter(v, callers) ==
    /\ index' = [index EXCEPT ![v] = nextIndex]
    /\ low' = [low EXCEPT ![v] = nextIndex]
    /\ nextIndex' = nextIndex + 1
    /\ stack' = Append(stack, v)
    /\ calls' = Append(callers, [v |-> v, todo |-> succ[v]])
    /\ UNCHANGED <<succ, reachable, components>>

Unvisited == {b \in reachable : index[b] = None}

(* The outer loop calls strongConnect for the first block not yet visited. *)
StartRoot ==
    /\ calls = << >>
    /\ Unvisited # {}
    /\ Enter(Min(Unvisited), << >>)

Current == Last(calls)

(* The frames once the current call has looked at its next successor. *)
Advanced(w) == Front(calls) \o <<[Current EXCEPT !.todo = @ \ {w}]>>

Recurse ==
    /\ calls # << >>
    /\ Current.todo # {}
    /\ LET w == Min(Current.todo) IN
         /\ w \in reachable
         /\ index[w] = None
         /\ Enter(w, Advanced(w))

(* Mutant: an edge into a finished component counts. *)
LookAtOffStack ==
    /\ calls # << >>
    /\ Current.todo # {}
    /\ LET w == Min(Current.todo)
           v == Current.v
       IN  /\ w \in reachable => index[w] # None
           /\ low' = IF w \in reachable
                     THEN [low EXCEPT ![v] = Min({low[v], index[w]})]
                     ELSE low
           /\ calls' = Advanced(w)
    /\ UNCHANGED <<succ, reachable, index, stack, nextIndex, components>>

LookAt ==
    /\ calls # << >>
    /\ Current.todo # {}
    /\ LET w == Min(Current.todo)
           v == Current.v
       IN  /\ w \in reachable => index[w] # None
           /\ low' = IF w \in reachable /\ OnStack(w)
                     THEN [low EXCEPT ![v] = Min({low[v], index[w]})]
                     ELSE low
           /\ calls' = Advanced(w)
    /\ UNCHANGED <<succ, reachable, index, stack, nextIndex, components>>

(* The blocks popped for the component of v: v and everything above it. *)
PoppedWith(v) ==
    LET at == CHOOSE i \in DOMAIN stack : stack[i] = v
    IN  {stack[i] : i \in at .. Len(stack)}

Below(v) ==
    LET at == CHOOSE i \in DOMAIN stack : stack[i] = v
    IN  SubSeq(stack, 1, at - 1)

(* The end of strongConnect(v), and the caller's update of its low value. *)
Return ==
    /\ calls # << >>
    /\ Current.todo = {}
    /\ LET v == Current.v
           callers == Front(calls)
       IN  /\ IF low[v] = index[v]
                THEN /\ components' = Append(components, PoppedWith(v))
                     /\ stack' = Below(v)
                ELSE UNCHANGED <<components, stack>>
           /\ low' = IF callers = << >> THEN low
                     ELSE LET u == Last(callers).v
                          IN  [low EXCEPT ![u] = Min({low[u], low[v]})]
           /\ calls' = callers
    /\ UNCHANGED <<succ, reachable, index, nextIndex>>

SccOver == calls = << >> /\ Unvisited = {}

SccNext == StartRoot \/ Recurse \/ LookAt \/ Return

-----------------------------------------------------------------------------
SccTypeOK ==
    /\ succ \in Graph
    /\ index \in [Block -> -1 .. N-1]
    /\ low \in [Block -> -1 .. N-1]
    /\ nextIndex \in 0 .. N
    /\ \A i \in DOMAIN stack : stack[i] \in reachable
    /\ \A i \in DOMAIN calls : calls[i].v \in reachable /\ calls[i].todo \subseteq Block
    /\ \A i \in DOMAIN components : components[i] \subseteq reachable

(* The strongly connected component of b: the blocks on a cycle with it. *)
ComponentOf(b) == {c \in reachable : Path(succ, b, c) /\ Path(succ, c, b)}

(* Every component that is reported, at the moment it is popped, is a whole *)
(* equivalence class of "on a cycle with each other": none is split because *)
(* low uses indices of blocks whose own low is not final, none swallows a   *)
(* block of another.  At the end every reachable block is in one of them,   *)
(* and in one only.  A component comes out before those that lead to it, so *)
(* that the list of sccs is in reverse topological order.                   *)
ComponentsExact ==
    /\ \A i \in DOMAIN components :
          \A b \in components[i] : components[i] = ComponentOf(b)
    /\ \A b \in reachable :
          Cardinality({i \in DOMAIN components : b \in components[i]})
              \in (IF Unvisited = {} /\ calls = << >> THEN {1} ELSE {0, 1})
    /\ \A i, j \in DOMAIN components : i < j =>
          \A b \in components[i], c \in components[j] : ~ Path(succ, b, c)
=============================================================================
