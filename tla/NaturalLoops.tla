---------------------------- MODULE NaturalLoops ----------------------------
(***************************************************************************)
(* The loop facts of IR.cpp's addFunction: for every edge to a block that   *)
(* dominates its source, the natural loop is collected with a worklist over *)
(* the predecessors; the loops of one header are merged into a region with  *)
(* latches, preheader and exits; and the regions become a tree of scopes.   *)
(* The dominator sets it starts from are the ones module Dominators shows   *)
(* the preceding analysis to compute.                                       *)
(***************************************************************************)
EXTENDS FlowFacts

VARIABLES
    loopPhase,  \* "scan", "collect", "merge" or "done"
    edge,       \* the back edge being worked on
    loop, work, \* the members found so far, and those to be expanded
    natural,    \* naturalLoops: the members, for each back edge already seen
    loops,      \* the merged regions, by header
    parent      \* the enclosing scope of each region: a header, or None for
                \* the root scope

loopOwn == <<loopPhase, edge, loop, work, natural, loops, parent>>
loopVars == <<succ, reachable, dominators, loopOwn>>

NoEdge == <<None, None>>

LoopInit ==
    /\ loopPhase = "scan"
    /\ edge = NoEdge
    /\ loop = {}
    /\ work = {}
    /\ natural = << >>
    /\ loops = << >>
    /\ parent = << >>

(* An edge is a back edge when its target dominates its source. *)
BackEdges ==
    {e \in Block \X Block : /\ e[2] \in succ[e[1]]
                            /\ e[2] \in reachable
                            /\ e[2] \in dominators[e[1]]}

(* Mutant: the header is not a member from the start. *)
StartLoopNoHeader(e) ==
    /\ loopPhase = "scan"
    /\ e \in BackEdges \ DOMAIN natural
    /\ loopPhase' = "collect"
    /\ edge' = e
    /\ loop' = {e[1]}
    /\ work' = {e[1]}
    /\ UNCHANGED <<succ, reachable, dominators, natural, loops, parent>>

StartLoop(e) ==
    /\ loopPhase = "scan"
    /\ e \in BackEdges \ DOMAIN natural
    /\ loopPhase' = "collect"
    /\ edge' = e
    /\ loop' = {e[2], e[1]}
    /\ work' = {e[1]}
    /\ UNCHANGED <<succ, reachable, dominators, natural, loops, parent>>

(* Mutants: a loop is taken to lie behind its header, and members are       *)
(* expanded again.                                                          *)
ExpandBehind(current) ==
    /\ loopPhase = "collect"
    /\ current \in work
    /\ LET new == {p \in Preds(succ, current) \cap reachable : p > edge[2]} \ loop
       IN  /\ loop' = loop \cup new
           /\ work' = (work \ {current}) \cup new
    /\ UNCHANGED <<succ, reachable, dominators, loopPhase, edge, natural, loops, parent>>

ExpandAgain(current) ==
    /\ loopPhase = "collect"
    /\ current \in work
    /\ LET new == Preds(succ, current) \cap reachable
       IN  /\ loop' = loop \cup new
           /\ work' = (work \ {current}) \cup new
    /\ UNCHANGED <<succ, reachable, dominators, loopPhase, edge, natural, loops, parent>>

(* One turn of "while (!work.empty())".  The code takes the last element;   *)
(* here any one is taken.                                                   *)
Expand(current) ==
    /\ loopPhase = "collect"
    /\ current \in work
    /\ LET new == (Preds(succ, current) \cap reachable) \ loop
       IN  /\ loop' = loop \cup new
           /\ work' = (work \ {current}) \cup new
    /\ UNCHANGED <<succ, reachable, dominators, loopPhase, edge, natural, loops, parent>>

EndLoop ==
    /\ loopPhase = "collect"
    /\ work = {}
    /\ loopPhase' = "scan"
    /\ natural' = [e \in DOMAIN natural \cup {edge} |->
                      IF e = edge THEN loop ELSE natural[e]]
    /\ edge' = NoEdge
    /\ loop' = {}
    /\ UNCHANGED <<succ, reachable, dominators, work, loops, parent>>

(* The only predecessor of the header outside the loop, if there is one. *)
Preheader(header, blocks) ==
    LET outside == Preds(succ, header) \ blocks
    IN  IF Cardinality(outside) = 1 THEN CHOOSE p \in outside : TRUE ELSE None

Exits(blocks) == (UNION {succ[b] : b \in blocks}) \ blocks

Region(header) ==
    LET edges  == {e \in DOMAIN natural : e[2] = header}
        blocks == UNION {natural[e] : e \in edges}
    IN  [latches   |-> {e[1] : e \in edges},
         blocks    |-> blocks,
         preheader |-> Preheader(header, blocks),
         exits     |-> Exits(blocks)]

Merge ==
    /\ loopPhase = "scan"
    /\ DOMAIN natural = BackEdges
    /\ loopPhase' = "merge"
    /\ loops' = [h \in {e[2] : e \in BackEdges} |-> Region(h)]
    /\ UNCHANGED <<succ, reachable, dominators, edge, loop, work, natural, parent>>

(* Mutant: the largest enclosing region is taken for the parent. *)
ParentScopeLargest(h) ==
    LET Size(c) == Cardinality(loops[c].blocks)
        larger == {c \in DOMAIN loops \ {h} : loops[h].blocks \subseteq loops[c].blocks}
    IN  IF larger = {} THEN None
        ELSE CHOOSE c \in larger : \A d \in larger : Size(c) >= Size(d)

(* The smallest region that properly contains the region of h. *)
ParentScope(h) ==
    LET Size(c) == Cardinality(loops[c].blocks)
        larger == {c \in DOMAIN loops \ {h} :
                     Size(c) > Size(h) /\ loops[h].blocks \subseteq loops[c].blocks}
    IN  IF larger = {} THEN None
        ELSE CHOOSE c \in larger : \A d \in larger : Size(c) <= Size(d)

MakeScopes ==
    /\ loopPhase = "merge"
    /\ loopPhase' = "done"
    /\ parent' = [h \in DOMAIN loops |-> ParentScope(h)]
    /\ UNCHANGED <<succ, reachable, dominators, edge, loop, work, natural, loops>>

LoopNext == \/ \E e \in Block \X Block : StartLoop(e)
            \/ \E current \in Block : Expand(current)
            \/ EndLoop \/ Merge

-----------------------------------------------------------------------------
LoopTypeOK ==
    /\ succ \in Graph
    /\ loopPhase \in {"scan", "collect", "merge", "done"}
    /\ loop \subseteq Block /\ work \subseteq loop
    /\ \A e \in DOMAIN natural : natural[e] \subseteq Block
    /\ \A h \in DOMAIN loops : /\ loops[h].blocks \subseteq reachable
                               /\ loops[h].preheader \in Block \cup {None}
    /\ \A h \in DOMAIN parent : parent[h] \in DOMAIN loops \cup {None}

(* The blocks that reach a latch of header h without passing through h. *)
LoopBody(h) ==
    {h} \cup {x \in Reached(succ) \ {h} :
                \E t \in Preds(succ, h) \cap Reached(succ) :
                    Dominates(succ, h, t) /\ PathAvoiding(succ, x, h, t)}

(* The merged region of a header is its natural loop: the header and the    *)
(* reachable blocks that can return to it without passing through it.  (A   *)
(* header that branches to itself is left out: its worklist starts with the *)
(* header and takes in the blocks before the loop.)                         *)
NaturalLoopExact ==
    loopPhase = "done" =>
        \A h \in DOMAIN loops : h \notin succ[h] => loops[h].blocks = LoopBody(h)

(* Control enters a loop region through its header only, although the       *)
(* worklist never looks at the dominator sets of the blocks it adds; and a  *)
(* preheader that is reported for a loop other than one at the entry is on  *)
(* every path into it, although unreachable predecessors of the header are  *)
(* counted when it is chosen.                                               *)
SingleEntry ==
    loopPhase = "done" =>
        \A h \in DOMAIN loops :
            /\ \A b \in reachable \ loops[h].blocks : succ[b] \cap loops[h].blocks \subseteq {h}
            /\ h \notin succ[h] \cup {Entry} /\ loops[h].preheader # None =>
                  Dominates(succ, loops[h].preheader, h)

(* Regions of different headers are nested or disjoint, so that scopes form *)
(* a tree and the parent found by size is the innermost enclosing loop.     *)
ScopesNest ==
    loopPhase = "done" /\ (\A b \in Block : b \notin succ[b]) =>
        \A h \in DOMAIN loops :
            LET around == {c \in DOMAIN loops \ {h} : h \in loops[c].blocks} IN
            /\ \A c \in around : loops[h].blocks \subseteq loops[c].blocks
            /\ parent[h] = None <=> around = {}
            /\ \A c \in around : loops[parent[h]].blocks \subseteq loops[c].blocks
=============================================================================
