--------------------------- MODULE PostDominators ---------------------------
(***************************************************************************)
(* The post-dominator analysis of IR.cpp's addFunction, the immediate       *)
(* post-dominators read off it, and the join that Restructure.cpp names for *)
(* a two-way branch.  The sweeps run from the last block to the first, in   *)
(* place, until a whole pass changes nothing.                               *)
(***************************************************************************)
EXTENDS FlowFacts

VARIABLES
    postPhase,       \* "idle", "sweep", "done" or "rendered"
    postDominators,
    postCursor,      \* the loop variable "block"
    postChanged,
    ipdom,           \* immediatePostDominators
    join             \* the join rendered for each two-way branch

postOwn == <<postPhase, postDominators, postCursor, postChanged, ipdom, join>>
postVars == <<succ, reachable, postOwn>>

PostInit ==
    /\ postPhase = "idle"
    /\ postDominators = [b \in Block |-> {}]
    /\ postCursor = N - 1
    /\ postChanged = FALSE
    /\ ipdom = [b \in Block |-> None]
    /\ join = [b \in Block |-> None]

(* An exit starts with itself, any other reachable block with all of them.  *)
PostStart ==
    /\ postPhase = "idle"
    /\ postPhase' = "sweep"
    /\ postDominators' = [b \in Block |-> IF b \notin reachable THEN {}
                                          ELSE IF succ[b] = {} THEN {b}
                                          ELSE reachable]
    /\ UNCHANGED <<succ, reachable, postCursor, postChanged, ipdom, join>>

(* Mutant: one arm is enough. *)
NextPostDominatorsAny(b) ==
    {d \in reachable : \E s \in succ[b] : d \in postDominators[s]} \cup {b}

NextPostDominators(b) ==
    {d \in reachable : \A s \in succ[b] : d \in postDominators[s]} \cup {b}

PostVisit ==
    /\ postPhase = "sweep"
    /\ postCursor \in Block
    /\ postCursor' = postCursor - 1
    /\ IF /\ postCursor \in reachable
          /\ succ[postCursor] # {}
          /\ NextPostDominators(postCursor) # postDominators[postCursor]
         THEN /\ postDominators' =
                    [postDominators EXCEPT ![postCursor] = NextPostDominators(postCursor)]
              /\ postChanged' = TRUE
         ELSE UNCHANGED <<postDominators, postChanged>>
    /\ UNCHANGED <<succ, reachable, postPhase, ipdom, join>>

PostNextPass ==
    /\ postPhase = "sweep"
    /\ postCursor \notin Block
    /\ postChanged
    /\ postCursor' = N - 1
    /\ postChanged' = FALSE
    /\ UNCHANGED <<succ, reachable, postPhase, postDominators, ipdom, join>>

PostSize(d) == Cardinality(postDominators[d])

(* The candidate with the smallest set; of two equal ones the smaller       *)
(* block, which the code's "<" keeps.                                       *)
SmallestSet(candidates) ==
    IF candidates = {} THEN None
    ELSE CHOOSE d \in candidates :
           \A e \in candidates : PostSize(d) < PostSize(e) \/ (PostSize(d) = PostSize(e) /\ d <= e)

PostFinish ==
    /\ postPhase = "sweep"
    /\ postCursor \notin Block
    /\ ~ postChanged
    /\ postPhase' = "done"
    /\ ipdom' = [b \in Block |-> IF b \in reachable
                                 THEN SmallestSet(postDominators[b] \ {b})
                                 ELSE None]
    /\ UNCHANGED <<succ, reachable, postDominators, postCursor, postChanged, join>>

(* Mutant: a block that one arm must pass is taken for a join. *)
CommonPostdomsEither(left, right) ==
    LET candidates == postDominators[left] \cup postDominators[right]
    IN  IF candidates = {} THEN {None}
        ELSE {d \in candidates : \A e \in candidates : PostSize(d) <= PostSize(e)}

(* commonPostdom: the candidates are sorted by the size of their sets, and  *)
(* the first is taken; which of two equal ones comes first is up to the     *)
(* sort.                                                                    *)
CommonPostdoms(left, right) ==
    LET candidates == postDominators[left] \cap postDominators[right]
    IN  IF candidates = {} THEN {None}
        ELSE {d \in candidates : \A e \in candidates : PostSize(d) <= PostSize(e)}

JoinsOf(b) ==
    IF Cardinality(succ[b]) = 2
    THEN UNION {CommonPostdoms(p[1], p[2]) : p \in {q \in succ[b] \X succ[b] : q[1] < q[2]}}
    ELSE {None}

Render ==
    /\ postPhase = "done"
    /\ postPhase' = "rendered"
    /\ join' \in {j \in [Block -> Block \cup {None}] : \A b \in Block : j[b] \in JoinsOf(b)}
    /\ UNCHANGED <<succ, reachable, postDominators, postCursor, postChanged, ipdom>>

PostNext == PostStart \/ PostVisit \/ PostNextPass \/ PostFinish

-----------------------------------------------------------------------------
PostTypeOK ==
    /\ succ \in Graph
    /\ reachable \subseteq Block
    /\ postPhase \in {"idle", "sweep", "done", "rendered"}
    /\ postDominators \in [Block -> SUBSET Block]
    /\ postCursor \in -1 .. N-1
    /\ postChanged \in BOOLEAN
    /\ ipdom \in [Block -> Block \cup {None}]
    /\ join \in [Block -> Block \cup {None}]

PostOver == postPhase \in {"done", "rendered"}

(* When the sweeps stop, the set of a reachable block is exactly the set of *)
(* reachable blocks that every path from it to an exit passes through; a    *)
(* block that cannot reach an exit has them all.                            *)
PostDominatorsCorrect ==
    PostOver => \A b \in reachable, d \in reachable :
                d \in postDominators[b] <=> PostDominates(succ, d, b)

(* At every moment the sets are too large, never too small.                 *)
NoPostDominatorLost ==
    postPhase # "idle" =>
        \A b \in reachable, d \in reachable :
            PostDominates(succ, d, b) => d \in postDominators[b]

(* The join printed for a two-way branch is a block that both arms must     *)
(* pass before the function ends, and some join is printed whenever such a  *)
(* block exists.                                                            *)
JoinIsCommon ==
    postPhase = "rendered" =>
        \A b \in reachable : Cardinality(succ[b]) = 2 =>
            LET common == {d \in reachable : \A s \in succ[b] : PostDominates(succ, d, s)}
            IN  IF common = {} THEN join[b] = None ELSE join[b] \in common
=============================================================================
