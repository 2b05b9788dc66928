------------------------ MODULE FunctionAnalysisProof ------------------------
(***************************************************************************)
(* The graph analyses of addFunction are correct for every number of blocks *)
(* and every graph, as they run one after the other.                        *)
(*                                                                          *)
(* Dominators.  Completeness of the sets holds all the time (DomUpper): a   *)
(* block is missing from dominators[b] only if b can be reached without it. *)
(* Soundness holds at the end: a pass that changed nothing has seen every   *)
(* block satisfy its equation (DomSettled), and the blocks whose sets lack  *)
(* d are then closed under the edges that avoid d.                          *)
(*                                                                          *)
(* Post-dominators are dual.  A block is missing from a set only if some    *)
(* path to an exit avoids it (PostUpper); at the end (PostSettled) the      *)
(* blocks that have d in their sets, d excepted, are closed under the edges *)
(* that avoid d and hold no exit.                                           *)
(*                                                                          *)
(* Natural loops need the exact dominators of the first pass (Known).  A    *)
(* member that the worklist is done with has brought its predecessors, and  *)
(* every member reaches the latch without the header (Collected); so a      *)
(* finished loop is closed backwards up to its header, and is exact.        *)
(*                                                                          *)
(* Strongly connected components.  The blocks on the stack reach the newer  *)
(* ones and an active call that is not newer (SccConnected), low[v] is the  *)
(* number of a block that v reaches (LowReached) and not larger than that   *)
(* of any edge looked at so far (LowCounts); so when low[v] is still v's    *)
(* own number, the blocks above v are closed but for earlier components.    *)
(*                                                                          *)
(* Composition.  The invariants do not interfere: until the dominators are  *)
(* final the later passes have not begun, and afterwards nobody touches the *)
(* graph, the reachable blocks or the dominators any more.                  *)
(***************************************************************************)
EXTENDS FunctionAnalysis, FiniteSetTheorems, SequenceTheorems, TLAPS

(* Facts about graphs and paths that the analyses share. *)

(* The successors computed from terminators are blocks. *)
LEMMA GraphOfType == \A last : GraphOf(last) \in Graph
  BY DEF GraphOf, Graph, Successors

(* The entry is a block and -1 is none. *)
LEMMA EntryIsBlock == Entry \in Block /\ None \notin Block
  BY NAssumption DEF Entry, Block, None

(* A path that avoids d can be extended by an edge that does not enter d. *)
LEMMA PathExtends ==
    ASSUME NEW g \in Graph, NEW a \in Block, NEW d, NEW x \in Block,
           NEW y \in g[x], y # d, PathAvoiding(g, a, d, x)
    PROVE  PathAvoiding(g, a, d, y)
  BY DEF PathAvoiding, ClosedAvoiding, Graph

(* No path that avoids d starts at d. *)
LEMMA PathFromAvoided ==
    ASSUME NEW g, NEW d, NEW b
    PROVE  ~ PathAvoiding(g, d, d, b)
<1>1. {} \in SUBSET Block /\ ClosedAvoiding(g, d, {})
  BY DEF ClosedAvoiding
<1> QED BY <1>1 DEF PathAvoiding

(* A path that avoids d can be started one edge earlier. *)
LEMMA PathPrepends ==
    ASSUME NEW g \in Graph, NEW x \in Block, NEW y \in g[x], NEW d, NEW b,
           x # d, PathAvoiding(g, y, d, b)
    PROVE  PathAvoiding(g, x, d, b)
<1>1. y # d
  BY PathFromAvoided
<1> QED BY <1>1 DEF PathAvoiding, ClosedAvoiding

(* Every block reaches itself. *)
LEMMA PathToSelf ==
    ASSUME NEW g, NEW a, NEW d, a # d
    PROVE  PathAvoiding(g, a, d, a)
  BY DEF PathAvoiding

(* The reached blocks are blocks, the entry is one, and their successors    *)
(* are too.                                                                 *)
LEMMA ReachedClosed ==
    ASSUME NEW g \in Graph
    PROVE  /\ Reached(g) \subseteq Block
           /\ Entry \in Reached(g)
           /\ \A b \in Reached(g) : g[b] \subseteq Reached(g)
<1>1. Entry \in Reached(g)
  BY PathToSelf, EntryIsBlock DEF Reached, Path
<1>2. ASSUME NEW b \in Reached(g), NEW s \in g[b] PROVE s \in Reached(g)
  BY <1>2, PathExtends, EntryIsBlock DEF Reached, Path, Graph
<1> QED BY <1>1, <1>2 DEF Reached

(* Two paths that avoid d make one. *)
LEMMA PathsJoin ==
    ASSUME NEW g, NEW a, NEW d, NEW x, NEW b,
           PathAvoiding(g, a, d, x), PathAvoiding(g, x, d, b)
    PROVE  PathAvoiding(g, a, d, b)
<1>1. x # d
  BY PathFromAvoided
<1> QED BY <1>1 DEF PathAvoiding

(* A set of reached blocks that holds the entry and is closed under the     *)
(* edges holds all reached blocks.                                          *)
LEMMA ReachedInClosed ==
    ASSUME NEW g \in Graph, NEW S \in SUBSET Block, Entry \in S,
           \A x \in S : \A y \in g[x] : y \in S
    PROVE  Reached(g) \subseteq S
  BY DEF Reached, Path, PathAvoiding, ClosedAvoiding

-----------------------------------------------------------------------------
(* Dominance is a partial order, and the dominators of a block a chain. *)

(* The entry dominates every block, a block itself, and the entry has no    *)
(* other dominator.                                                         *)
LEMMA DominatesEnds ==
    ASSUME NEW g \in Graph, NEW b, NEW d
    PROVE  /\ Dominates(g, Entry, b)
           /\ b \in Block => Dominates(g, b, b)
           /\ Dominates(g, d, Entry) => d = Entry
<1>1. Dominates(g, Entry, b)
  BY PathFromAvoided DEF Dominates
<1>2. ASSUME b \in Block PROVE Dominates(g, b, b)
  <2> DEFINE S == Block \ {b}
  <2>1. (Entry # b => Entry \in S) /\ ClosedAvoiding(g, b, S) /\ S \in SUBSET Block /\ b \notin S
    BY EntryIsBlock DEF ClosedAvoiding, Graph
  <2> QED BY <2>1 DEF Dominates, PathAvoiding
<1>3. Dominates(g, d, Entry) => d = Entry
  BY PathToSelf DEF Dominates
<1> QED BY <1>1, <1>2, <1>3

LEMMA DominatesTransitive ==
    ASSUME NEW g \in Graph, NEW d, NEW e, NEW b,
           Dominates(g, d, e), Dominates(g, e, b)
    PROVE  Dominates(g, d, b)
<1> SUFFICES ASSUME PathAvoiding(g, Entry, d, b) PROVE FALSE
  BY DEF Dominates
<1> DEFINE S == {x \in Block : PathAvoiding(g, Entry, d, x) /\ PathAvoiding(g, Entry, e, x)}
<1>1. Entry # d /\ Entry # e
  BY PathFromAvoided, DominatesEnds
<1>2. Entry \in S
  BY <1>1, PathToSelf, EntryIsBlock
<1>3. ASSUME NEW x \in S, NEW y \in g[x], y # d PROVE y \in S
  <2>1. y \in Block
    BY DEF Graph
  <2>2. PathAvoiding(g, Entry, d, y)
    BY <1>3, PathExtends, EntryIsBlock
  <2>3. y # e
    BY <2>2 DEF Dominates
  <2>4. PathAvoiding(g, Entry, e, y)
    BY <2>3, PathExtends, EntryIsBlock
  <2> QED BY <2>1, <2>2, <2>4
<1>4. b \in S
  BY <1>2, <1>3 DEF PathAvoiding, ClosedAvoiding
<1> QED BY <1>4 DEF Dominates

LEMMA DominatesAntisymmetric ==
    ASSUME NEW g \in Graph, NEW d \in Reached(g), NEW e,
           Dominates(g, d, e), Dominates(g, e, d)
    PROVE  d = e
<1> SUFFICES ASSUME d # e PROVE FALSE
  OBVIOUS
<1> DEFINE S == {x \in Block \ {d, e} : PathAvoiding(g, Entry, d, x) /\ PathAvoiding(g, Entry, e, x)}
<1>1. Entry # d /\ Entry # e
  BY DominatesEnds
<1>2. Entry \in S
  BY <1>1, PathToSelf, EntryIsBlock
<1>3. ASSUME NEW x \in S, NEW y \in g[x] PROVE y \in S
  <2>1. y \in Block
    BY DEF Graph
  <2>2. y # d
    BY PathExtends, EntryIsBlock DEF Dominates
  <2>3. y # e
    BY PathExtends, EntryIsBlock DEF Dominates
  <2>4. PathAvoiding(g, Entry, d, y) /\ PathAvoiding(g, Entry, e, y)
    BY <2>2, <2>3, PathExtends, EntryIsBlock
  <2> QED BY <2>1, <2>2, <2>3, <2>4
<1>4. Reached(g) \subseteq S
  BY <1>2, <1>3, ReachedInClosed
<1> QED BY <1>4

(* Of two dominators of a reached block one dominates the other: otherwise  *)
(* every reached block could be reached without one of them.                *)
LEMMA DominatorsChain ==
    ASSUME NEW g \in Graph, NEW b \in Reached(g), NEW d, NEW e,
           Dominates(g, d, b), Dominates(g, e, b)
    PROVE  Dominates(g, d, e) \/ Dominates(g, e, d)
<1> SUFFICES ASSUME PathAvoiding(g, Entry, d, e), PathAvoiding(g, Entry, e, d)
             PROVE  FALSE
  BY DEF Dominates
<1> DEFINE S == {x \in Block : PathAvoiding(g, Entry, d, x) \/ PathAvoiding(g, Entry, e, x)}
<1>1. Entry # d /\ Entry # e
  BY PathFromAvoided
<1>2. Entry \in S
  BY <1>1, PathToSelf, EntryIsBlock
<1>3. ASSUME NEW x \in S, NEW y \in g[x] PROVE y \in S
  <2>1. y \in Block
    BY DEF Graph
  <2>2. CASE y \in {d, e}
    BY <2>1, <2>2
  <2>3. CASE y \notin {d, e}
    BY <2>1, <2>3, PathExtends, EntryIsBlock
  <2> QED BY <2>2, <2>3
<1>4. b \in S
  BY <1>2, <1>3, ReachedInClosed
<1> QED BY <1>4 DEF Dominates

-----------------------------------------------------------------------------
(* Sets of blocks are finite, and a set of numbers has a least one. *)

LEMMA BlocksFinite ==
    ASSUME NEW S \in SUBSET Block
    PROVE  IsFiniteSet(S) /\ Cardinality(S) \in 0 .. N
<1>1. IsFiniteSet(Block) /\ Cardinality(Block) = N
  BY FS_Interval, NAssumption DEF Block
<1> QED BY <1>1, FS_Subset, FS_CardinalityType, NAssumption

LEMMA ProperSubsetSmaller ==
    ASSUME NEW S \in SUBSET Block, NEW T \in SUBSET S, T # S
    PROVE  Cardinality(T) < Cardinality(S)
<1>1. IsFiniteSet(S) /\ Cardinality(S) \in 0 .. N /\ Cardinality(T) \in 0 .. N
  BY BlocksFinite
<1> QED BY <1>1, FS_Subset, NAssumption

LEMMA LeastNumber ==
    ASSUME NEW T \in SUBSET Nat, T # {}
    PROVE  \E x \in T : \A y \in T : x <= y
<1>1. T \subseteq Nat
  OBVIOUS
<1>2. PICK x \in T : \A y \in T : ~ (<<y, x>> \in OpToRel(<, Nat))
  BY <1>1, WFMin, NatLessThanWellFounded, Zenon
<1>3. \A y \in T : ~ (y < x)
  BY <1>1, <1>2, Zenon DEF OpToRel
<1> QED BY <1>3

-----------------------------------------------------------------------------
(* Dominators. *)

(* Every block on the way of a path is reached: the marked blocks and the  *)
(* pending calls together are closed under the edges, and the entry is one *)
(* of them.                                                                *)
Frontier ==
    /\ Entry \in reachable \cup pending
    /\ \A b \in reachable : succ[b] \subseteq reachable \cup pending
    /\ domPhase # "mark" => pending = {}

(* Whatever is marked or about to be marked has a path from the entry. *)
OnlyReached == \A b \in reachable \cup pending : Path(succ, Entry, b)

(* The sets hold reachable blocks only, that of an unreachable block none,  *)
(* and the entry's never changes.                                           *)
DomBounded ==
    domPhase # "mark" =>
        /\ dominators[Entry] = {Entry}
        /\ \A b \in Block : dominators[b] \subseteq reachable
        /\ \A b \in Block \ reachable : dominators[b] = {}

DomUpper ==
    domPhase # "mark" =>
        \A b \in reachable, d \in reachable :
            d \notin dominators[b] => PathAvoiding(succ, Entry, d, b)

(* The blocks visited in a pass that has changed nothing so far satisfy    *)
(* their equation.                                                         *)
DomSettled ==
    /\ domPhase = "mark" => cursor = 1
    /\ domPhase = "sweep" /\ ~ changed =>
         \A b \in 1 .. cursor-1 : b \in reachable => dominators[b] = NextDominators(b)
    /\ domPhase = "done" =>
         \A b \in 1 .. N-1 : b \in reachable => dominators[b] = NextDominators(b)

(* The immediate dominators are read off the final sets. *)
DomRead == domPhase = "done" => \A b \in reachable \ {Entry} : idom[b] = Closest(b)

DomIInv == /\ DomTypeOK /\ Frontier /\ OnlyReached /\ DomBounded /\ DomUpper
           /\ DomSettled /\ DomRead

-----------------------------------------------------------------------------
(* The type invariant holds initially, and every step preserves it. *)
LEMMA DomTypeInit == DomInit => DomTypeOK
<1> SUFFICES ASSUME DomInit PROVE DomTypeOK
  OBVIOUS
<1>1. succ \in Graph
  BY GraphOfType DEF DomInit
<1>2. changed \in BOOLEAN
  BY Zenon DEF DomInit
<1>3. /\ domPhase \in {"mark", "sweep", "done"}
      /\ pending \subseteq Block
      /\ reachable \subseteq Block
      /\ dominators \in [Block -> SUBSET Block]
      /\ cursor \in 1 .. N
      /\ idom \in [Block -> Block \cup {None}]
  BY EntryIsBlock, NAssumption DEF DomInit
<1> QED BY <1>1, <1>2, <1>3 DEF DomTypeOK

(* Every step preserves the type invariant. *)
LEMMA DomTypeStep == DomTypeOK /\ [DomNext]_domVars => DomTypeOK'
<1> SUFFICES ASSUME DomTypeOK, [DomNext]_domVars PROVE DomTypeOK'
  OBVIOUS
<1> USE DEF DomTypeOK
<1>1. CASE \E b \in Block : MarkReachable(b)
  BY <1>1 DEF MarkReachable, Graph
<1>2. CASE DomStart
  BY <1>2, EntryIsBlock DEF DomStart
<1>3. CASE DomVisit
  <2>1. NextDominators(cursor) \subseteq Block
    BY <1>3 DEF DomVisit, NextDominators
  <2>2. cursor' \in 1 .. N
    BY <1>3, NAssumption DEF DomVisit, Block
  <2> QED BY <1>3, <2>1, <2>2 DEF DomVisit
<1>4. CASE DomNextPass
  <2>1. changed' \in BOOLEAN
    BY <1>4, Zenon DEF DomNextPass
  <2>2. cursor' \in 1 .. N
    BY <1>4, NAssumption DEF DomNextPass
  <2> QED BY <1>4, <2>1, <2>2 DEF DomNextPass
<1>5. CASE DomFinish
  <2>1. \A b \in Block : Closest(b) \in Block \cup {None}
    <3> TAKE b \in Block
    <3> DEFINE strict == dominators[b] \ {b}
               Depth(d) == Cardinality(dominators[d])
               Best(d) == \A e \in strict : \/ Depth(e) < Depth(d)
                                            \/ Depth(e) = Depth(d) /\ d <= e
    <3>1. Closest(b) = IF strict = {} THEN None ELSE CHOOSE d \in strict : Best(d)
      BY DEF Closest
    <3> QED BY <3>1
  <2> QED BY <1>5, <2>1, EntryIsBlock DEF DomFinish
<1>6. CASE UNCHANGED domVars
  BY <1>6 DEF domVars
<1> QED BY <1>1, <1>2, <1>3, <1>4, <1>5, <1>6 DEF DomNext

-----------------------------------------------------------------------------
(* What a visit computes from sets that are too large is too large. *)
LEMMA DomVisitKeepsUpper ==
    ASSUME DomTypeOK, DomUpper, domPhase # "mark",
           NEW b \in reachable, NEW d \in reachable, d \notin NextDominators(b)
    PROVE  PathAvoiding(succ, Entry, d, b)
<1>1. PICK p \in Preds(succ, b) \cap reachable : d \notin dominators[p]
  BY DEF NextDominators
<1>2. d # b
  BY <1>1 DEF NextDominators
<1>3. PathAvoiding(succ, Entry, d, p)
  BY <1>1 DEF DomUpper
<1>4. p \in Block /\ b \in succ[p]
  BY <1>1 DEF Preds
<1> QED BY <1>2, <1>3, <1>4, PathExtends, EntryIsBlock DEF DomTypeOK

(* The inductive invariant holds when the analysis starts. *)
LEMMA DomIInvInit == DomInit => DomIInv
<1> SUFFICES ASSUME DomInit PROVE DomIInv
  OBVIOUS
<1>1. DomTypeOK
  BY DomTypeInit
<1>2. Path(succ, Entry, Entry)
  BY EntryIsBlock DEF Path, PathAvoiding, Entry, None
<1> QED BY <1>1, <1>2 DEF DomInit, DomIInv, Frontier, OnlyReached, DomBounded, DomUpper, DomSettled, DomRead

(* Every step of the analysis preserves it. *)
LEMMA DomIInvStep == DomIInv /\ [DomNext]_domVars => DomIInv'
<1> SUFFICES ASSUME DomIInv, [DomNext]_domVars PROVE DomIInv'
  OBVIOUS
<1> USE DEF DomIInv
<1>0. DomTypeOK'
  BY DomTypeStep
<1>r. DomRead'
  <2>1. CASE DomFinish
    <3>1. \A b : Closest(b)' = Closest(b)
      BY <2>1 DEF DomFinish, Closest
    <3> QED BY <2>1, <3>1 DEF DomFinish, DomRead, DomTypeOK
  <2>2. CASE UNCHANGED domVars
    <3>1. \A b : Closest(b)' = Closest(b)
      BY <2>2 DEF domVars, Closest
    <3> QED BY <2>2, <3>1 DEF domVars, DomRead
  <2>3. CASE DomNext /\ ~ DomFinish
    BY <2>3 DEF DomNext, MarkReachable, DomStart, DomVisit, DomNextPass, DomRead
  <2> QED BY <2>1, <2>2, <2>3
<1>1. ASSUME NEW b \in Block, MarkReachable(b) PROVE DomIInv'
  <2> USE <1>1
  <2>1. Frontier'
    BY DEF MarkReachable, Frontier, DomTypeOK, Graph
  <2>2. OnlyReached'
    <3>1. \A c \in succ[b] : Path(succ, Entry, c)
      BY PathExtends, EntryIsBlock DEF MarkReachable, OnlyReached, Path, DomTypeOK, Graph
    <3> QED BY <3>1 DEF MarkReachable, OnlyReached, DomTypeOK
  <2> QED BY <1>0, <1>r, <2>1, <2>2 DEF MarkReachable, DomBounded, DomUpper, DomSettled
<1>2. CASE DomStart
  <2> USE <1>2
  <2>1. Frontier' /\ OnlyReached'
    BY DEF DomStart, Frontier, OnlyReached
  <2>2. DomBounded'
    BY EntryIsBlock DEF DomStart, DomBounded, Frontier, DomTypeOK
  <2>3. DomUpper'
    <3> SUFFICES ASSUME NEW b \in reachable, NEW d \in reachable,
                        d \notin dominators'[b]
                 PROVE  PathAvoiding(succ, Entry, d, b)
      BY DEF DomStart, DomUpper
    <3>1. b = Entry /\ d # Entry
      BY DEF DomStart, DomTypeOK
    <3> QED BY <3>1 DEF PathAvoiding
  <2>4. DomSettled'
    BY DEF DomStart, DomSettled
  <2> QED BY <1>0, <1>r, <2>1, <2>2, <2>3, <2>4
<1>3. CASE DomVisit
  <2> USE <1>3
  <2>1. Frontier' /\ OnlyReached'
    BY DEF DomVisit, Frontier, OnlyReached
  <2>2. cursor # Entry /\ cursor \in Block
    BY DEF DomVisit, DomTypeOK, Entry
  <2>3. DomBounded'
    BY <2>2, EntryIsBlock DEF DomVisit, DomBounded, NextDominators, DomTypeOK
  <2>4. DomUpper'
    <3> SUFFICES ASSUME NEW b \in reachable, NEW d \in reachable,
                        d \notin dominators'[b]
                 PROVE  PathAvoiding(succ, Entry, d, b)
      BY DEF DomVisit, DomUpper
    <3>1. CASE d \notin dominators[b]
      BY <3>1 DEF DomVisit, DomUpper
    <3>2. CASE d \in dominators[b]
      <4>1. b = cursor /\ d \notin NextDominators(b)
        BY <3>2 DEF DomVisit, DomTypeOK
      <4> QED BY <4>1, DomVisitKeepsUpper DEF DomVisit
    <3> QED BY <3>1, <3>2
  <2>5. DomSettled'
    <3>1. ASSUME ~ changed', NEW b \in 1 .. cursor, b \in reachable
          PROVE  dominators'[b] = NextDominators(b)'
      <4>1. ~ changed /\ dominators' = dominators
        BY <3>1 DEF DomVisit
      <4>2. NextDominators(b)' = NextDominators(b)
        BY <4>1 DEF DomVisit, NextDominators
      <4>3. CASE b = cursor
        BY <3>1, <4>1, <4>2, <4>3 DEF DomVisit
      <4>4. CASE b # cursor
        <5>1. b \in 1 .. cursor-1
          BY <4>4 DEF DomTypeOK
        <5> QED BY <3>1, <4>1, <4>2, <5>1 DEF DomVisit, DomSettled
      <4> QED BY <4>3, <4>4
    <3>2. 1 .. cursor' - 1 = 1 .. cursor
      BY DEF DomVisit, DomTypeOK
    <3> QED BY <3>1, <3>2 DEF DomVisit, DomSettled
  <2> QED BY <1>0, <1>r, <2>1, <2>3, <2>4, <2>5
<1>4. CASE DomNextPass
  <2> USE <1>4
  <2>1. DomSettled'
    BY DEF DomNextPass, DomSettled
  <2> QED BY <1>0, <1>r, <2>1 DEF DomNextPass, Frontier, OnlyReached, DomBounded, DomUpper
<1>5. CASE DomFinish
  <2> USE <1>5
  <2>1. 1 .. N-1 \subseteq 1 .. cursor-1
    BY NAssumption DEF DomFinish, DomTypeOK, Block
  <2>2. \A b : NextDominators(b)' = NextDominators(b)
    BY DEF DomFinish, NextDominators
  <2>3. DomSettled'
    BY <2>1, <2>2 DEF DomFinish, DomSettled
  <2> QED BY <1>0, <1>r, <2>3 DEF DomFinish, Frontier, OnlyReached, DomBounded, DomUpper
<1>6. CASE UNCHANGED domVars
  <2>1. \A b : NextDominators(b)' = NextDominators(b)
    BY <1>6 DEF domVars, NextDominators
  <2>2. DomSettled'
    BY <1>6, <2>1 DEF domVars, DomSettled
  <2> QED BY <1>0, <1>r, <1>6, <2>2 DEF domVars, Frontier, OnlyReached, DomBounded, DomUpper
<1> QED BY <1>1, <1>2, <1>3, <1>4, <1>5, <1>6 DEF DomNext

-----------------------------------------------------------------------------
(* The marked blocks are the reachable ones once no call is pending. *)
LEMMA IInvReachable == DomIInv => ReachableCorrect
<1> SUFFICES ASSUME DomIInv, domPhase # "mark" PROVE reachable = Reached(succ)
  BY DEF ReachableCorrect
<1>1. reachable \subseteq Reached(succ)
  BY DEF DomIInv, OnlyReached, Reached, DomTypeOK
<1>2. ASSUME NEW b \in Reached(succ) PROVE b \in reachable
  <2>1. Entry \in reachable /\ ClosedAvoiding(succ, None, reachable)
    BY DEF DomIInv, Frontier, ClosedAvoiding
  <2>2. Path(succ, Entry, b)
    BY DEF Reached
  <2> QED BY <2>1, <2>2 DEF Path, PathAvoiding, DomIInv, DomTypeOK
<1> QED BY <1>1, <1>2

(* No dominator is ever missing from a set: the contraposition of DomUpper. *)
LEMMA IInvNoDominatorLost == DomIInv => NoDominatorLost
  BY DEF DomIInv, DomUpper, NoDominatorLost, Dominates

(* At the end a block of dominators[b] is on every path to b: the blocks    *)
(* whose sets lack d are closed under the edges that do not enter d.        *)
LEMMA IInvDominators == DomIInv => DominatorsCorrect
<1> SUFFICES ASSUME DomIInv, domPhase = "done", NEW b \in reachable, NEW d \in reachable
             PROVE  d \in dominators[b] <=> Dominates(succ, d, b)
  BY DEF DominatorsCorrect
<1> USE DEF DomIInv
<1>1. ASSUME d \notin dominators[b] PROVE ~ Dominates(succ, d, b)
  BY <1>1 DEF DomUpper, Dominates
<1>2. ASSUME d \in dominators[b] PROVE Dominates(succ, d, b)
  <2> DEFINE S == {x \in reachable : d \notin dominators[x]}
  <2>1. S \in SUBSET Block
    BY DEF DomTypeOK
  <2>2. Entry # d => Entry \in S
    BY DEF DomBounded, Frontier
  <2>3. ASSUME NEW x \in S, NEW y \in succ[x], y # d PROVE y \in S
    <3>1. y \in reachable /\ y \in Block /\ x \in Preds(succ, y) \cap reachable
      BY <2>3 DEF Frontier, DomTypeOK, Preds, Graph
    <3>2. CASE y = Entry
      BY <2>3, <3>1, <3>2 DEF DomBounded
    <3>3. CASE y # Entry
      <4>1. y \in 1 .. N-1
        BY <3>1, <3>3, NAssumption DEF Block, Entry
      <4>2. dominators[y] = NextDominators(y)
        BY <3>1, <4>1 DEF DomSettled
      <4>3. d \notin NextDominators(y)
        BY <2>3, <3>1 DEF NextDominators
      <4> QED BY <3>1, <4>2, <4>3
    <3> QED BY <3>2, <3>3
  <2>4. ClosedAvoiding(succ, d, S)
    BY <2>3 DEF ClosedAvoiding
  <2>5. b \notin S
    BY <1>2
  <2> QED BY <2>1, <2>2, <2>4, <2>5 DEF Dominates, PathAvoiding
<1> QED BY <1>1, <1>2

(* The final sets are the sets of dominators. *)
LEMMA FinalSets ==
    ASSUME DomIInv, domPhase = "done", NEW b \in reachable
    PROVE  dominators[b] = DominatorsOf(succ, b)
<1>1. reachable = Reached(succ)
  BY IInvReachable DEF ReachableCorrect
<1>2. \A d \in reachable : d \in dominators[b] <=> Dominates(succ, d, b)
  BY IInvDominators DEF DominatorsCorrect
<1>3. dominators[b] \subseteq reachable
  BY DEF DomIInv, DomBounded, DomTypeOK
<1> QED BY <1>1, <1>2, <1>3 DEF DominatorsOf

(* There is always a candidate that Closest can choose. *)
LEMMA ClosestExists ==
    ASSUME DomTypeOK, NEW b \in Block, dominators[b] \ {b} # {}
    PROVE  /\ Closest(b) \in dominators[b] \ {b}
           /\ \A e \in dominators[b] \ {b} :
                 Cardinality(dominators[e]) <= Cardinality(dominators[Closest(b)])
<1> DEFINE strict == dominators[b] \ {b}
           Depth(d) == Cardinality(dominators[d])
           Best(d) == \A e \in strict : \/ Depth(e) < Depth(d)
                                        \/ Depth(e) = Depth(d) /\ d <= e
           Room == {N - Depth(d) : d \in strict}
<1>1. strict \subseteq Block /\ strict # {} /\ Block \subseteq Nat
  BY DEF DomTypeOK, Block
<1>2. \A d \in strict : Depth(d) \in 0 .. N
  BY <1>1, BlocksFinite DEF DomTypeOK
<1>3. Room \in SUBSET Nat /\ Room # {}
  BY <1>1, <1>2, NAssumption
<1>4. PICK m \in Room : \A n \in Room : m <= n
  BY <1>3, LeastNumber
<1> DEFINE Deepest == {d \in strict : N - Depth(d) = m}
<1>5. Deepest \in SUBSET Nat /\ Deepest # {}
  BY <1>1, <1>4
<1>6. PICK d \in Deepest : \A e \in Deepest : d <= e
  BY <1>5, LeastNumber
<1>7. ASSUME NEW e \in strict PROVE Depth(e) < Depth(d) \/ (Depth(e) = Depth(d) /\ d <= e)
  <2>1. m <= N - Depth(e)
    BY <1>4
  <2>2. Depth(d) \in 0 .. N /\ Depth(e) \in 0 .. N /\ N - Depth(d) = m /\ N \in Nat
    BY <1>2, <1>6, NAssumption
  <2>3. CASE Depth(e) = Depth(d)
    BY <1>6, <2>2, <2>3
  <2>4. CASE Depth(e) # Depth(d)
    <3> HIDE DEF Depth
    <3> QED BY <2>1, <2>2, <2>4
  <2> QED BY <2>3, <2>4
<1>8. \E x \in strict : Best(x)
  BY <1>6, <1>7
<1>9. Closest(b) = CHOOSE x \in strict : Best(x)
  BY <1>1 DEF Closest
<1>10. Closest(b) \in strict /\ Best(Closest(b))
  <2> HIDE DEF strict, Best
  <2> QED BY <1>8, <1>9
<1>11. ASSUME NEW e \in strict PROVE Depth(e) <= Depth(Closest(b))
  <2>1. Depth(e) \in Nat /\ Depth(Closest(b)) \in Nat
    BY <1>2, <1>10, NAssumption
  <2> QED BY <1>10, <2>1
<1> QED BY <1>10, <1>11

(* The strict dominator with the largest set is the closest one: the        *)
(* dominators of a block are a chain, and the sets grow along it.           *)
LEMMA IInvImmediate == DomIInv => ImmediateCorrect
<1> SUFFICES ASSUME DomIInv, domPhase = "done", NEW b \in reachable \ {Entry}
             PROVE  /\ idom[b] \in DominatorsOf(succ, b) \ {b}
                    /\ \A d \in DominatorsOf(succ, b) \ {b} : Dominates(succ, d, idom[b])
  BY DEF ImmediateCorrect
<1>1. reachable = Reached(succ) /\ succ \in Graph /\ b \in Block /\ reachable \subseteq Block
  BY IInvReachable DEF ReachableCorrect, DomIInv, DomTypeOK
<1>2. \A x \in reachable : dominators[x] = DominatorsOf(succ, x)
  BY FinalSets
<1>3. Entry \in dominators[b] \ {b}
  BY <1>1, <1>2, DominatesEnds, ReachedClosed DEF DominatorsOf
<1> DEFINE c == Closest(b)
<1>4. /\ c \in dominators[b] \ {b}
      /\ \A e \in dominators[b] \ {b} : Cardinality(dominators[e]) <= Cardinality(dominators[c])
  BY <1>1, <1>3, ClosestExists DEF DomIInv
<1>5. idom[b] = c
  BY DEF DomIInv, DomRead
<1> HIDE DEF c
<1>6. c \in reachable /\ Dominates(succ, c, b)
  BY <1>1, <1>2, <1>4 DEF DominatorsOf
<1>7. ASSUME NEW d \in DominatorsOf(succ, b) \ {b} PROVE Dominates(succ, d, c)
  <2>1. d \in reachable /\ Dominates(succ, d, b) /\ d \in dominators[b] \ {b}
    BY <1>1, <1>2 DEF DominatorsOf
  <2>2. SUFFICES ASSUME ~ Dominates(succ, d, c) PROVE FALSE
    OBVIOUS
  <2>3. Dominates(succ, c, d)
    BY <1>1, <1>6, <2>1, <2>2, DominatorsChain
  <2>4. dominators[c] \subseteq dominators[d]
    BY <1>1, <1>2, <1>6, <2>1, <2>3, DominatesTransitive DEF DominatorsOf
  <2>5. d \in dominators[d] /\ d \notin dominators[c]
    BY <1>1, <1>2, <1>6, <2>1, <2>2, DominatesEnds DEF DominatorsOf
  <2>6. dominators[d] \in SUBSET Block
    BY <1>1, <2>1 DEF DomIInv, DomTypeOK
  <2>7. Cardinality(dominators[c]) < Cardinality(dominators[d])
    BY <2>4, <2>5, <2>6, ProperSubsetSmaller
  <2>8. Cardinality(dominators[d]) <= Cardinality(dominators[c])
    BY <1>4, <2>1
  <2>9. Cardinality(dominators[c]) \in 0 .. N /\ Cardinality(dominators[d]) \in 0 .. N
    BY <2>4, <2>6, BlocksFinite
  <2> QED BY <2>7, <2>8, <2>9, NAssumption
<1> QED BY <1>2, <1>4, <1>5, <1>7

-----------------------------------------------------------------------------
(* Post-dominators. *)

(* The reachable blocks are known, and an exit has only itself. *)
PostFixed ==
    /\ reachable = Reached(succ)
    /\ \A b \in reachable : succ[b] = {} => postDominators[b] = {b}

(* Some path from b to an exit avoids d. *)
Escapes(d, b) == \E e \in ExitBlocks(succ) : PathAvoiding(succ, b, d, e)

PostUpper ==
    \A b \in reachable, d \in reachable :
        d \notin postDominators[b] => Escapes(d, b)

PostEquation(b) ==
    b \in reachable /\ succ[b] # {} => postDominators[b] = NextPostDominators(b)

(* The blocks visited in a pass that has changed nothing so far satisfy     *)
(* their equation.                                                          *)
PostSettled ==
    /\ postPhase = "sweep" /\ ~ postChanged => \A b \in postCursor+1 .. N-1 : PostEquation(b)
    /\ postPhase # "sweep" => \A b \in Block : PostEquation(b)

(* The rendered joins are among those that the final sets offer. *)
PostRendered == postPhase = "rendered" => \A b \in Block : join[b] \in JoinsOf(b)

PostSweeping == PostFixed /\ PostUpper /\ PostSettled /\ PostRendered

PostIInv ==
    /\ PostTypeOK
    /\ postPhase = "idle" => postCursor = N - 1
    /\ postPhase # "idle" => PostSweeping

-----------------------------------------------------------------------------
(* The candidate taken is one of the candidates, or None. *)
LEMMA SmallestSetType ==
    ASSUME NEW C \in SUBSET Block
    PROVE  SmallestSet(C) \in Block \cup {None}
<1> DEFINE Best(d) == \A e \in C : PostSize(d) < PostSize(e) \/ (PostSize(d) = PostSize(e) /\ d <= e)
<1>1. SmallestSet(C) = IF C = {} THEN None ELSE CHOOSE d \in C : Best(d)
  BY DEF SmallestSet
<1> QED BY <1>1

(* Every step preserves the type invariant. *)
LEMMA PostTypeStep == PostTypeOK /\ [PostNext \/ Render]_postVars => PostTypeOK'
<1> SUFFICES ASSUME PostTypeOK, [PostNext \/ Render]_postVars PROVE PostTypeOK'
  OBVIOUS
<1> USE DEF PostTypeOK
<1>1. CASE PostVisit
  <2>1. NextPostDominators(postCursor) \subseteq Block
    BY <1>1 DEF PostVisit, NextPostDominators
  <2>2. postCursor' \in -1 .. N-1
    BY <1>1, NAssumption DEF PostVisit, Block
  <2> QED BY <1>1, <2>1, <2>2 DEF PostVisit
<1>2. CASE PostNextPass
  <2>1. postChanged' \in BOOLEAN
    BY <1>2, Zenon DEF PostNextPass
  <2>2. postCursor' \in -1 .. N-1
    BY <1>2, NAssumption DEF PostNextPass
  <2> QED BY <1>2, <2>1, <2>2 DEF PostNextPass
<1>3. CASE PostFinish
  <2>1. \A b \in Block : SmallestSet(postDominators[b] \ {b}) \in Block \cup {None}
    BY SmallestSetType
  <2> QED BY <1>3, <2>1 DEF PostFinish
<1>4. CASE Render
  BY <1>4 DEF Render
<1>5. CASE UNCHANGED postVars
  BY <1>5 DEF postVars, postOwn
<1>6. CASE PostStart
  BY <1>6 DEF PostStart
<1> QED BY <1>1, <1>2, <1>3, <1>4, <1>5, <1>6 DEF PostNext

-----------------------------------------------------------------------------
(* What a visit computes from sets that are too large is too large. *)
LEMMA PostVisitKeepsUpper ==
    ASSUME PostTypeOK, PostFixed, PostUpper, NEW b \in reachable, NEW d \in reachable,
           d \notin NextPostDominators(b)
    PROVE  Escapes(d, b)
<1>1. PICK s \in succ[b] : d \notin postDominators[s]
  BY DEF NextPostDominators
<1>2. d # b
  BY DEF NextPostDominators
<1>3. s \in reachable
  BY ReachedClosed DEF PostFixed, PostTypeOK
<1>4. PICK e \in ExitBlocks(succ) : PathAvoiding(succ, s, d, e)
  BY <1>1, <1>3 DEF PostUpper, Escapes
<1> QED BY <1>2, <1>4, PathPrepends DEF Escapes, PostTypeOK

(* The sets that the sweeps start from satisfy the invariant. *)
LEMMA PostStartStep ==
    ASSUME PostIInv, reachable = Reached(succ), PostStart
    PROVE  PostIInv'
<1>1. PostTypeOK /\ PostTypeOK'
  BY PostTypeStep DEF PostIInv, PostNext
<1>f. UNCHANGED <<succ, reachable>>
  BY DEF PostStart
<1>2. PostFixed'
  BY <1>1, <1>f DEF PostStart, PostFixed, PostTypeOK
<1>3. PostUpper'
  <2>e. \A d, b : Escapes(d, b)' <=> Escapes(d, b)
    BY <1>f DEF Escapes
  <2> SUFFICES ASSUME NEW b \in reachable, NEW d \in reachable,
                      d \notin postDominators'[b]
               PROVE  Escapes(d, b)
    BY <1>f, <2>e DEF PostUpper
  <2>1. b \in ExitBlocks(succ) /\ d # b
    BY <1>1 DEF PostStart, PostTypeOK, ExitBlocks
  <2> QED BY <2>1, PathToSelf DEF Escapes
<1>4. PostSettled'
  BY <1>1, NAssumption DEF PostStart, PostIInv, PostSettled
<1> QED BY <1>1, <1>2, <1>3, <1>4 DEF PostStart, PostIInv, PostSweeping, PostRendered

(* Every later step preserves the invariant. *)
LEMMA PostSweepStep ==
    ASSUME PostTypeOK, PostSweeping, postPhase # "idle", [PostNext \/ Render]_postVars
    PROVE  PostSweeping' /\ postPhase' # "idle"
<1> USE DEF PostSweeping
<1>p. postPhase' # "idle"
  BY DEF PostNext, PostStart, PostVisit, PostNextPass, PostFinish, Render, postVars, postOwn
<1>f. UNCHANGED <<succ, reachable>>
  BY DEF PostNext, PostStart, PostVisit, PostNextPass, PostFinish, Render, postVars, postOwn
<1>e. \A d, b : Escapes(d, b)' <=> Escapes(d, b)
  BY <1>f DEF Escapes
<1>j. PostRendered'
  <2>1. CASE Render \/ UNCHANGED postVars
    <3>0. UNCHANGED <<succ, postDominators>>
      BY <2>1, <1>f DEF Render, postVars, postOwn
    <3>1. ASSUME NEW b PROVE JoinsOf(b)' = JoinsOf(b)
      <4>1. \A l, r : CommonPostdoms(l, r)' = CommonPostdoms(l, r)
        BY <3>0 DEF CommonPostdoms, PostSize
      <4> QED BY <3>0, <4>1, ZenonT(40) DEF JoinsOf
    <3> QED BY <2>1, <3>1 DEF Render, postVars, postOwn, PostRendered
  <2>2. CASE PostNext
    BY <2>2 DEF PostNext, PostStart, PostVisit, PostNextPass, PostFinish, PostRendered
  <2> QED BY <2>1, <2>2
<1>1. CASE PostVisit
  <2> USE <1>1
  <2>1. PostFixed'
    BY <1>f DEF PostFixed, PostVisit, PostTypeOK
  <2>2. PostUpper'
    <3> SUFFICES ASSUME NEW b \in reachable, NEW d \in reachable,
                        d \notin postDominators'[b]
                 PROVE  Escapes(d, b)
      BY <1>f, <1>e DEF PostUpper
    <3>1. CASE d \notin postDominators[b]
      BY <3>1 DEF PostUpper
    <3>2. CASE d \in postDominators[b]
      <4>1. d \notin NextPostDominators(b)
        BY <3>2 DEF PostVisit, PostTypeOK
      <4> QED BY <4>1, PostVisitKeepsUpper
    <3> QED BY <3>1, <3>2
  <2>3. PostSettled'
    <3>1. ASSUME ~ postChanged', NEW b \in postCursor .. N-1 PROVE PostEquation(b)'
      <4>1. ~ postChanged /\ postDominators' = postDominators
        BY <3>1 DEF PostVisit
      <4>2. PostEquation(b)' <=> PostEquation(b)
        BY <4>1, <1>f DEF PostEquation, NextPostDominators
      <4>3. CASE b = postCursor
        BY <3>1, <4>1, <4>2, <4>3 DEF PostVisit, PostEquation
      <4>4. CASE b # postCursor
        <5>1. b \in postCursor+1 .. N-1
          BY <4>4, NAssumption DEF PostTypeOK
        <5> QED BY <4>1, <4>2, <5>1 DEF PostVisit, PostSettled
      <4> QED BY <4>3, <4>4
    <3>2. postCursor' + 1 = postCursor
      BY DEF PostVisit, PostTypeOK
    <3> QED BY <3>1, <3>2 DEF PostVisit, PostSettled
  <2> QED BY <1>p, <1>j, <2>1, <2>2, <2>3
<1>2. CASE PostNextPass
  <2>1. PostFixed' /\ PostUpper'
    BY <1>2, <1>f, <1>e DEF PostNextPass, PostFixed, PostUpper
  <2>2. PostSettled'
    BY <1>2, NAssumption DEF PostNextPass, PostSettled
  <2> QED BY <1>p, <1>j, <2>1, <2>2
<1>3. CASE PostFinish
  <2>1. PostFixed' /\ PostUpper'
    BY <1>3, <1>f, <1>e DEF PostFinish, PostFixed, PostUpper
  <2>2. Block \subseteq postCursor+1 .. N-1
    BY <1>3, NAssumption DEF PostFinish, PostTypeOK, Block
  <2>3. ASSUME NEW b \in Block PROVE PostEquation(b)'
    <3>1. PostEquation(b)
      BY <1>3, <2>2 DEF PostFinish, PostSettled
    <3> QED BY <1>3, <1>f, <3>1 DEF PostFinish, PostEquation, NextPostDominators
  <2>4. PostSettled'
    BY <1>3, <2>3 DEF PostFinish, PostSettled
  <2> QED BY <1>p, <1>j, <2>1, <2>4
<1>4. CASE Render \/ UNCHANGED postVars
  <2>1. UNCHANGED postDominators
    BY <1>4 DEF Render, postVars, postOwn
  <2>2. PostFixed' /\ PostUpper'
    BY <2>1, <1>f, <1>e DEF PostFixed, PostUpper
  <2>3. \A b : PostEquation(b)' <=> PostEquation(b)
    BY <2>1, <1>f DEF PostEquation, NextPostDominators
  <2>4. PostSettled'
    BY <1>4, <2>3 DEF Render, postVars, postOwn, PostSettled
  <2> QED BY <1>p, <1>j, <2>2, <2>4
<1> QED BY <1>p, <1>j, <1>1, <1>2, <1>3, <1>4 DEF PostNext, PostStart

(* Together: every step that finds the reachable blocks known.              *)
LEMMA PostIInvStep ==
    ASSUME PostIInv, [PostNext \/ Render]_postVars,
           postPhase = "idle" => reachable = Reached(succ)
    PROVE  PostIInv'
<1>0. PostTypeOK'
  BY PostTypeStep DEF PostIInv
<1>1. CASE PostStart
  BY <1>1, PostStartStep DEF PostStart
<1>2. CASE postPhase # "idle"
  BY <1>0, <1>2, PostSweepStep DEF PostIInv
<1>3. CASE postPhase = "idle" /\ UNCHANGED postVars
  BY <1>0, <1>3 DEF PostIInv, postVars, postOwn
<1> QED
  BY <1>1, <1>2, <1>3
     DEF PostNext, PostVisit, PostNextPass, PostFinish, Render

-----------------------------------------------------------------------------
(* The inductive invariant implies that the final sets are exact. *)
LEMMA PostIInvCorrect == PostIInv => PostDominatorsCorrect
<1> SUFFICES ASSUME PostIInv, postPhase \notin {"idle", "sweep"}, NEW b \in reachable, NEW d \in reachable
             PROVE  d \in postDominators[b] <=> PostDominates(succ, d, b)
  BY DEF PostDominatorsCorrect, PostOver
<1> USE DEF PostIInv, PostSweeping
<1>1. ASSUME d \notin postDominators[b] PROVE ~ PostDominates(succ, d, b)
  BY <1>1 DEF PostUpper, Escapes, PostDominates
<1>2. ASSUME d \in postDominators[b] PROVE PostDominates(succ, d, b)
  <2> SUFFICES ASSUME NEW e \in ExitBlocks(succ), PathAvoiding(succ, b, d, e)
               PROVE  FALSE
    BY DEF PostDominates
  <2> DEFINE S == {x \in reachable : d \in postDominators[x] /\ x # d}
  <2>1. S \in SUBSET Block
    BY DEF PostTypeOK
  <2>2. b # d => b \in S
    BY <1>2
  <2>3. ASSUME NEW x \in S, NEW y \in succ[x], y # d PROVE y \in S
    <3>1. y \in reachable
      BY <2>3, ReachedClosed DEF PostFixed, PostTypeOK
    <3>2. postDominators[x] = NextPostDominators(x)
      BY <2>1, <2>3 DEF PostSettled, PostEquation, PostTypeOK
    <3>3. d \in postDominators[y]
      BY <2>3, <3>2 DEF NextPostDominators
    <3> QED BY <2>3, <3>1, <3>3
  <2>4. ClosedAvoiding(succ, d, S)
    BY <2>3 DEF ClosedAvoiding
  <2>5. e \in S
    BY <2>1, <2>2, <2>4 DEF PathAvoiding
  <2>6. postDominators[e] = {e}
    BY <2>5 DEF PostFixed, ExitBlocks
  <2> QED BY <2>5, <2>6
<1> QED BY <1>1, <1>2

(* It implies that no true post-dominator is lost on the way. *)
LEMMA PostIInvNoneLost == PostIInv => NoPostDominatorLost
  BY DEF PostIInv, PostSweeping, PostUpper, Escapes, NoPostDominatorLost, PostDominates

(* A set with two blocks is a pair of them in order. *)
LEMMA TwoBlocks ==
    ASSUME NEW S \in SUBSET Block, Cardinality(S) = 2
    PROVE  \E l, r \in S : l < r /\ S = {l, r}
<1>1. IsFiniteSet(S)
  BY BlocksFinite
<1>2. PICK x \in S : TRUE
  BY <1>1, FS_EmptySet
<1>3. IsFiniteSet(S \ {x}) /\ Cardinality(S \ {x}) = 1
  BY <1>1, <1>2, FS_RemoveElement
<1>4. PICK y : S \ {x} = {y}
  BY <1>3, FS_Singleton
<1>5. y \in S /\ x # y /\ \A z \in S : z \in {x, y}
  BY <1>4, Zenon
<1>6. S = {x, y}
  BY <1>2, <1>5
<1>7. x \in Int /\ y \in Int
  BY <1>5, NAssumption DEF Block
<1> QED BY <1>5, <1>6, <1>7

(* The join of a branch is a common post-dominator of its arms. *)
LEMMA PostIInvJoin == PostIInv => JoinIsCommon
<1> DEFINE common(b) == {d \in reachable : \A s \in succ[b] : PostDominates(succ, d, s)}
<1> SUFFICES ASSUME PostIInv, postPhase = "rendered", NEW b \in reachable,
                    Cardinality(succ[b]) = 2
             PROVE  IF common(b) = {} THEN join[b] = None ELSE join[b] \in common(b)
  BY DEF JoinIsCommon
<1> USE DEF PostIInv, PostSweeping
<1>1. /\ reachable = Reached(succ) /\ succ \in Graph /\ b \in Block
      /\ succ[b] \in SUBSET Block /\ succ[b] \subseteq reachable /\ reachable \subseteq Block
  BY ReachedClosed DEF PostFixed, PostTypeOK, Graph
<1>2. PICK l, r \in succ[b] : l < r /\ succ[b] = {l, r}
  BY <1>1, TwoBlocks
<1>3. ASSUME NEW s \in succ[b] PROVE postDominators[s] \subseteq reachable
  <2>1. s \in reachable /\ s \in Block
    BY <1>1
  <2>2. CASE succ[s] = {}
    BY <2>1, <2>2 DEF PostFixed
  <2>3. CASE succ[s] # {}
    BY <2>1, <2>3 DEF PostSettled, PostEquation, NextPostDominators
  <2> QED BY <2>2, <2>3
<1>4. \A s \in succ[b], d \in reachable : d \in postDominators[s] <=> PostDominates(succ, d, s)
  BY <1>1, PostIInvCorrect DEF PostDominatorsCorrect, PostOver
<1>5. common(b) = postDominators[l] \cap postDominators[r]
  BY <1>2, <1>3, <1>4
<1>6. JoinsOf(b) = CommonPostdoms(l, r)
  <2>1. l \in Int /\ r \in Int
    BY <1>1 DEF Block
  <2>2. {q \in succ[b] \X succ[b] : q[1] < q[2]} = {<<l, r>>}
    BY <1>2, <2>1
  <2>3. JoinsOf(b) = UNION {CommonPostdoms(p[1], p[2]) : p \in {<<l, r>>}}
    BY <2>2 DEF JoinsOf
  <2> QED BY <2>3
<1>7. join[b] \in CommonPostdoms(l, r)
  BY <1>1, <1>6 DEF PostRendered
<1> QED BY <1>5, <1>7 DEF CommonPostdoms

-----------------------------------------------------------------------------
(* Natural loops. *)

(* What the loops are built from when the dominator analysis is over. *)
Known ==
    /\ succ \in Graph
    /\ reachable = Reached(succ)
    /\ \A b \in Block : dominators[b] = IF b \in reachable THEN DominatorsOf(succ, b) ELSE {}

(* The members L found for the back edge e, of which W are to be expanded:  *)
(* a member that is not the header and has been expanded brought all its    *)
(* predecessors, and every member but the header reaches the latch without  *)
(* passing through the header.                                              *)
Collected(e, L, W) ==
    /\ e \in BackEdges
    /\ e[1] \in L /\ e[2] \in L /\ L \subseteq reachable /\ W \subseteq L
    /\ \A x \in L \ W : x # e[2] => Preds(succ, x) \cap reachable \subseteq L
    /\ e[1] # e[2] =>
         e[2] \notin W /\ \A x \in L : x = e[2] \/ PathAvoiding(succ, x, e[2], e[1])

Merged ==
    /\ DOMAIN natural = BackEdges
    /\ loops = [h \in {e[2] : e \in BackEdges} |-> Region(h)]

LoopIInv ==
    /\ loopPhase \in {"scan", "collect", "merge", "done"}
    /\ IF loopPhase = "collect" THEN Collected(edge, loop, work) ELSE loop = {} /\ work = {}
    /\ \A e \in DOMAIN natural : Collected(e, natural[e], {})
    /\ IF loopPhase \in {"merge", "done"} THEN Merged ELSE DOMAIN loops = {}
    /\ IF loopPhase = "done" THEN parent = [h \in DOMAIN loops |-> ParentScope(h)]
       ELSE DOMAIN parent = {}

(* The dominator analysis leaves what the loops need. *)
LEMMA DominatorsKnown ==
    ASSUME DomIInv, domPhase = "done"
    PROVE  Known
<1>1. succ \in Graph /\ reachable = Reached(succ)
  BY IInvReachable DEF ReachableCorrect, DomIInv, DomTypeOK
<1> QED BY <1>1, FinalSets DEF Known, DomIInv, DomBounded

(* A back edge goes from a reached block to a header that dominates it. *)
LEMMA BackEdge ==
    ASSUME Known, NEW e \in BackEdges
    PROVE  /\ e \in Block \X Block /\ e[1] \in Block /\ e[2] \in Block
           /\ e[2] \in succ[e[1]] /\ e[1] \in reachable /\ e[2] \in reachable
           /\ Dominates(succ, e[2], e[1])
<1>1. /\ e \in Block \X Block /\ e[1] \in Block /\ e[2] \in Block
      /\ e[2] \in succ[e[1]] /\ e[2] \in reachable /\ e[2] \in dominators[e[1]]
  BY DEF BackEdges
<1>2. e[1] \in reachable /\ e[2] \in DominatorsOf(succ, e[1])
  BY <1>1 DEF Known
<1> QED BY <1>1, <1>2 DEF DominatorsOf

(* The invariant holds before the first loop is looked at. *)
LEMMA LoopIInvInit == LoopInit => LoopIInv
  BY DEF LoopInit, LoopIInv

(* A worklist starts with the header and the latch. *)
LEMMA StartCollected ==
    ASSUME Known, NEW e \in BackEdges
    PROVE  Collected(e, {e[2], e[1]}, {e[1]})
<1>1. e[1] # e[2] => PathAvoiding(succ, e[1], e[2], e[1])
  BY PathToSelf
<1> QED BY <1>1, BackEdge DEF Collected

(* A turn of the worklist loop keeps what is known of the members. *)
LEMMA ExpandCollected ==
    ASSUME Known, NEW e, NEW L, NEW W, Collected(e, L, W), NEW current \in W,
           NEW new, new = (Preds(succ, current) \cap reachable) \ L
    PROVE  Collected(e, L \cup new, (W \ {current}) \cup new)
<1>1. /\ e \in BackEdges /\ e[1] \in L /\ e[2] \in L /\ L \subseteq reachable /\ W \subseteq L
      /\ current \in Block /\ new \subseteq reachable
  BY ReachedClosed DEF Collected, Known
<1>2. ASSUME NEW x \in (L \cup new) \ ((W \ {current}) \cup new), x # e[2]
      PROVE  Preds(succ, x) \cap reachable \subseteq L \cup new
  <2>1. CASE x = current
    BY <2>1
  <2>2. CASE x # current
    BY <1>2, <2>2 DEF Collected
  <2> QED BY <2>1, <2>2
<1>3. ASSUME e[1] # e[2], NEW x \in new PROVE PathAvoiding(succ, x, e[2], e[1])
  <2>1. x \in Block /\ current \in succ[x] /\ x # e[2]
    BY <1>1, <1>3 DEF Preds
  <2>2. current # e[2]
    BY <1>3 DEF Collected
  <2>3. PathAvoiding(succ, current, e[2], e[1])
    BY <1>1, <1>3, <2>2 DEF Collected
  <2> QED BY <2>1, <2>3, PathPrepends DEF Known
<1>4. ASSUME e[1] # e[2] PROVE e[2] \notin (W \ {current}) \cup new
  BY <1>1, <1>4 DEF Collected
<1> QED BY <1>1, <1>2, <1>3, <1>4 DEF Collected

(* Every step of the loop and scope passes preserves the invariant. *)
LEMMA LoopIInvStep ==
    ASSUME Known, LoopIInv, LoopNext \/ MakeScopes \/ UNCHANGED loopVars
    PROVE  LoopIInv'
<1> USE DEF LoopIInv
<1>f. UNCHANGED <<succ, reachable, dominators>>
  BY DEF LoopNext, StartLoop, Expand, EndLoop, Merge, MakeScopes, loopVars
<1>b. BackEdges' = BackEdges
  BY <1>f DEF BackEdges
<1>c. \A e, L, W : Collected(e, L, W)' <=> Collected(e, L, W)
  BY <1>f, <1>b DEF Collected
<1>1. ASSUME NEW e \in Block \X Block, StartLoop(e) PROVE LoopIInv'
  BY <1>1, <1>c, StartCollected DEF StartLoop
<1>2. ASSUME NEW current \in Block, Expand(current) PROVE LoopIInv'
  <2>1. Collected(edge, loop', work')
    BY <1>2, ExpandCollected DEF Expand
  <2> QED BY <1>2, <1>c, <2>1 DEF Expand
<1>3. CASE EndLoop
  <2>1. Collected(edge, loop, {})
    BY <1>3 DEF EndLoop
  <2>2. \A e \in DOMAIN natural' : Collected(e, natural'[e], {})
    BY <1>3, <2>1 DEF EndLoop
  <2> QED BY <1>3, <1>c, <2>2 DEF EndLoop
<1>r. ASSUME UNCHANGED natural PROVE \A h : Region(h)' = Region(h)
  BY <1>f, <1>r DEF Region, Preheader, Exits
<1>4. CASE Merge
  <2>1. Merged'
    BY <1>4, <1>b, <1>r DEF Merge, Merged
  <2> QED BY <1>4, <1>c, <2>1 DEF Merge
<1>m. ASSUME UNCHANGED <<natural, loops>> PROVE Merged' <=> Merged
  BY <1>b, <1>r, <1>m DEF Merged
<1>p. ASSUME UNCHANGED loops PROVE \A h : ParentScope(h)' = ParentScope(h)
  BY <1>p DEF ParentScope
<1>5. CASE MakeScopes
  <2>1. Merged' /\ parent' = [h \in DOMAIN loops |-> ParentScope(h)']
    BY <1>5, <1>m, <1>p DEF MakeScopes
  <2> QED BY <1>5, <1>c, <2>1 DEF MakeScopes
<1>6. CASE UNCHANGED loopVars
  <2>1. UNCHANGED loopOwn
    BY <1>6 DEF loopVars
  <2>2. (Merged' <=> Merged) /\ \A h : ParentScope(h)' = ParentScope(h)
    BY <2>1, <1>m, <1>p DEF loopOwn
  <2> QED BY <2>1, <2>2, <1>c DEF loopOwn
<1> QED BY <1>1, <1>2, <1>3, <1>4, <1>5, <1>6 DEF LoopNext

-----------------------------------------------------------------------------
LEMMA RegionFields ==
    ASSUME LoopIInv, loopPhase \in {"merge", "done"}, NEW h \in DOMAIN loops
    PROVE  /\ loops[h].blocks = UNION {natural[e] : e \in {e \in BackEdges : e[2] = h}}
           /\ loops[h].preheader = Preheader(h, loops[h].blocks)
           /\ \E e \in BackEdges : e[2] = h
           /\ DOMAIN natural = BackEdges
<1>1. DOMAIN natural = BackEdges /\ loops[h] = Region(h) /\ \E e \in BackEdges : e[2] = h
  BY DEF LoopIInv, Merged
<1> DEFINE blocks == UNION {natural[e] : e \in {e \in BackEdges : e[2] = h}}
<1>2. Region(h).blocks = blocks /\ Region(h).preheader = Preheader(h, blocks)
  BY <1>1 DEF Region
<1> QED BY <1>1, <1>2

(* A merged region: its header is a member, all members are reached, and    *)
(* the predecessors of a member other than the header are members.          *)
LEMMA RegionClosed ==
    ASSUME Known, LoopIInv, loopPhase \in {"merge", "done"}, NEW h \in DOMAIN loops
    PROVE  /\ h \in loops[h].blocks /\ h \in Block
           /\ loops[h].blocks \subseteq reachable
           /\ \A y \in loops[h].blocks \ {h} : Preds(succ, y) \cap reachable \subseteq loops[h].blocks
<1> DEFINE edges == {e \in BackEdges : e[2] = h}
           B == loops[h].blocks
<1>1. B = UNION {natural[e] : e \in edges} /\ \E e \in edges : TRUE
  BY RegionFields
<1>2. \A e \in edges : Collected(e, natural[e], {}) /\ e[2] = h
  BY DEF LoopIInv, Merged
<1>3. h \in B /\ B \subseteq reachable
  BY <1>1, <1>2 DEF Collected
<1>4. ASSUME NEW y \in B \ {h} PROVE Preds(succ, y) \cap reachable \subseteq B
  <2>1. PICK e \in edges : y \in natural[e]
    BY <1>1
  <2>2. Preds(succ, y) \cap reachable \subseteq natural[e]
    BY <1>2, <2>1 DEF Collected
  <2> QED BY <1>1, <2>1, <2>2
<1> QED BY <1>3, <1>4, ReachedClosed DEF Known

(* The region of a header that does not branch to itself is its natural     *)
(* loop.                                                                    *)
LEMMA RegionExact ==
    ASSUME Known, LoopIInv, loopPhase \in {"merge", "done"}, NEW h \in DOMAIN loops,
           h \notin succ[h]
    PROVE  loops[h].blocks = LoopBody(h)
<1> DEFINE edges == {e \in BackEdges : e[2] = h}
           B == loops[h].blocks
<1>1. B = UNION {natural[e] : e \in edges}
  BY RegionFields
<1>2. \A e \in edges : Collected(e, natural[e], {}) /\ e[2] = h
  BY DEF LoopIInv, Merged
<1>3. ASSUME NEW x \in B PROVE x \in LoopBody(h)
  <2>1. PICK e \in edges : x \in natural[e]
    BY <1>1
  <2>2. /\ e[1] \in Preds(succ, h) \cap Reached(succ) /\ Dominates(succ, h, e[1])
        /\ e[1] # h
    BY <2>1, BackEdge DEF Known, Preds
  <2>3. x \in reachable /\ (x = h \/ PathAvoiding(succ, x, h, e[1]))
    BY <1>2, <2>1, <2>2 DEF Collected
  <2> QED BY <2>2, <2>3 DEF LoopBody, Known
<1>4. ASSUME NEW x \in LoopBody(h) PROVE x \in B
  <2>1. CASE x = h
    BY <2>1, RegionClosed
  <2>2. CASE x # h
    <3>1. PICK t \in Preds(succ, h) \cap Reached(succ) :
             Dominates(succ, h, t) /\ PathAvoiding(succ, x, h, t)
      BY <2>2 DEF LoopBody
    <3>2. t \in reachable /\ t \in Block /\ h \in succ[t] /\ h \in Block /\ h \in reachable
      BY <3>1, ReachedClosed DEF Known, Preds
    <3>3. h \in dominators[t]
      BY <3>1, <3>2 DEF Known, DominatorsOf
    <3>4. <<t, h>> \in edges
      BY <3>2, <3>3 DEF BackEdges
    <3> DEFINE L == natural[<<t, h>>]
               S == {y \in Reached(succ) : y \notin L}
    <3>5. Collected(<<t, h>>, L, {}) /\ L \subseteq B
      BY <1>1, <1>2, <3>4
    <3>6. t \in L /\ \A y \in L : y # h => Preds(succ, y) \cap reachable \subseteq L
      BY <3>5 DEF Collected
    <3> HIDE DEF L
    <3>7. ASSUME NEW y \in S, NEW z \in succ[y], z # h PROVE z \in S
      <4>1. z \in Reached(succ) /\ y \in Block /\ y \in Preds(succ, z) \cap reachable
        BY ReachedClosed DEF Known, Preds
      <4> QED BY <3>6, <3>7, <4>1
    <3>8. S \in SUBSET Block /\ ClosedAvoiding(succ, h, S)
      BY <3>7, ReachedClosed DEF ClosedAvoiding, Known
    <3>9. x \notin S
      BY <3>1, <3>6, <3>8 DEF PathAvoiding
    <3>10. x \in Reached(succ)
      BY <2>2 DEF LoopBody
    <3> QED BY <3>5, <3>9, <3>10
  <2> QED BY <2>1, <2>2
<1> QED BY <1>3, <1>4

(* The header dominates its natural loop. *)
LEMMA HeaderDominates ==
    ASSUME Known, LoopIInv, loopPhase \in {"merge", "done"}, NEW h \in DOMAIN loops,
           h \notin succ[h], NEW x \in loops[h].blocks
    PROVE  Dominates(succ, h, x)
<1>1. x \in LoopBody(h) /\ h \in Block
  BY RegionExact, RegionClosed
<1>2. CASE x = h
  BY <1>1, <1>2, DominatesEnds DEF Known
<1>3. CASE x # h
  <2>1. PICK t : Dominates(succ, h, t) /\ PathAvoiding(succ, x, h, t)
    BY <1>1, <1>3 DEF LoopBody
  <2> QED BY <2>1, PathsJoin DEF Dominates
<1> QED BY <1>2, <1>3

(* The merged regions are natural loops. *)
LEMMA LoopsAreNatural == Known /\ LoopIInv => NaturalLoopExact
  BY RegionExact DEF NaturalLoopExact

(* They are entered through the header, and from a preheader. *)
LEMMA LoopsHaveOneEntry == Known /\ LoopIInv => SingleEntry
<1> SUFFICES ASSUME Known, LoopIInv, loopPhase = "done", NEW h \in DOMAIN loops
             PROVE  /\ \A b \in reachable \ loops[h].blocks : succ[b] \cap loops[h].blocks \subseteq {h}
                    /\ h \notin succ[h] \cup {Entry} /\ loops[h].preheader # None =>
                          Dominates(succ, loops[h].preheader, h)
  BY DEF SingleEntry
<1> DEFINE B == loops[h].blocks
           p == loops[h].preheader
<1>1. /\ h \in B /\ B \subseteq reachable
      /\ \A y \in B \ {h} : Preds(succ, y) \cap reachable \subseteq B
  BY RegionClosed
<1>2. ASSUME NEW b \in reachable \ B, NEW y \in succ[b], y \in B PROVE y = h
  <2>1. b \in Preds(succ, y) \cap reachable
    BY ReachedClosed DEF Known, Preds
  <2> QED BY <1>1, <1>2, <2>1
<1>3. ASSUME h \notin succ[h], h # Entry, p # None PROVE Dominates(succ, p, h)
  <2>1. PICK q : Preds(succ, h) \ B = {q}
    <3>1. p = Preheader(h, B)
      BY RegionFields
    <3>2. Cardinality(Preds(succ, h) \ B) = 1
      BY <1>3, <3>1 DEF Preheader
    <3>3. IsFiniteSet(Preds(succ, h) \ B)
      BY BlocksFinite DEF Preds
    <3> QED BY <3>2, <3>3, FS_Singleton
  <2>2. p = q
    <3>1. p = Preheader(h, B)
      BY RegionFields
    <3> QED BY <1>3, <2>1, <3>1 DEF Preheader
  <2> DEFINE S == {x \in Reached(succ) : x \notin B /\ x # p}
  <2>3. Entry \notin B
    BY <1>3, HeaderDominates, DominatesEnds DEF Known
  <2>4. Entry # p => Entry \in S
    BY <2>3, ReachedClosed DEF Known
  <2>5. ASSUME NEW x \in S, NEW y \in succ[x], y # p PROVE y \in S
    <3>1. y \in Reached(succ) /\ x \in reachable \ B /\ x \in Block
      BY ReachedClosed DEF Known
    <3>2. y # h
      BY <2>1, <2>2, <3>1 DEF Preds
    <3> QED BY <1>2, <2>5, <3>1, <3>2
  <2>6. S \in SUBSET Block /\ ClosedAvoiding(succ, p, S)
    BY <2>5, ReachedClosed DEF ClosedAvoiding, Known
  <2>7. h \notin S
    BY <1>1
  <2> QED BY <2>4, <2>6, <2>7 DEF Dominates, PathAvoiding
<1> QED BY <1>2, <1>3

(* The scope that ParentScope chooses among the larger regions. *)
Size(c) == Cardinality(loops[c].blocks)
Larger(h) == {c \in DOMAIN loops \ {h} : Size(c) > Size(h) /\ loops[h].blocks \subseteq loops[c].blocks}

LEMMA ParentIsSmallest ==
    ASSUME Known, LoopIInv, loopPhase \in {"merge", "done"}, NEW h \in DOMAIN loops
    PROVE  IF Larger(h) = {} THEN ParentScope(h) = None
           ELSE /\ ParentScope(h) \in Larger(h)
                /\ \A d \in Larger(h) : Size(ParentScope(h)) <= Size(d)
<1> DEFINE Least(c) == \A d \in Larger(h) : Size(c) <= Size(d)
<1>1. ParentScope(h) = IF Larger(h) = {} THEN None ELSE CHOOSE c \in Larger(h) : Least(c)
  BY DEF ParentScope, Larger, Size
<1>2. ASSUME Larger(h) # {} PROVE \E c \in Larger(h) : Least(c)
  <2> DEFINE Sizes == {Size(c) : c \in Larger(h)}
  <2>1. \A c \in DOMAIN loops : Size(c) \in Nat
    BY RegionClosed, ReachedClosed, BlocksFinite DEF Known, Size
  <2>2. Sizes \in SUBSET Nat /\ Sizes # {}
    BY <1>2, <2>1 DEF Larger
  <2>3. PICK m \in Sizes : \A n \in Sizes : m <= n
    BY <2>2, LeastNumber
  <2> QED BY <2>3
<1> HIDE DEF Least
<1>3. ASSUME Larger(h) # {} PROVE ParentScope(h) \in Larger(h) /\ Least(ParentScope(h))
  BY <1>1, <1>2, <1>3
<1> QED BY <1>1, <1>3 DEF Least

(* No header branches to itself. *)
NoSelfLoop == \A b \in Block : b \notin succ[b]

(* A loop whose header is a member of another loop lies in it: a path to    *)
(* one of its latches enters the other loop, if it is not in it already,    *)
(* through that loop's header, which then is dominated by its member.       *)
LEMMA MembersNest ==
    ASSUME Known, LoopIInv, loopPhase \in {"merge", "done"}, NoSelfLoop,
           NEW h \in DOMAIN loops, NEW c \in DOMAIN loops \ {h}, h \in loops[c].blocks
    PROVE  loops[h].blocks \subseteq loops[c].blocks /\ c \notin loops[h].blocks
<1> DEFINE B == loops[c].blocks
<1>1. /\ h \in Block /\ c \in Block /\ h \notin succ[h] /\ c \notin succ[c] /\ c \in B
      /\ h \in reachable /\ B \subseteq reachable
      /\ \A y \in B \ {c} : Preds(succ, y) \cap reachable \subseteq B
  BY RegionClosed DEF NoSelfLoop
<1>2. Dominates(succ, c, h)
  BY <1>1, HeaderDominates
<1>3. ~ Dominates(succ, h, c)
  BY <1>1, <1>2, DominatesAntisymmetric DEF Known
<1>4. c \notin loops[h].blocks
  BY <1>1, <1>3, HeaderDominates
<1>5. ASSUME NEW x \in loops[h].blocks, x \notin B PROVE FALSE
  <2>1. x \in LoopBody(h) /\ x # h
    BY <1>1, <1>5, RegionExact
  <2>2. PICK t \in Preds(succ, h) \cap Reached(succ) :
           Dominates(succ, h, t) /\ PathAvoiding(succ, x, h, t)
    BY <2>1 DEF LoopBody
  <2>3. t \in B
    BY <1>1, <2>2 DEF Known
  <2> DEFINE Outside == {y \in Reached(succ) : y \notin B}
             Through == {y \in Block : PathAvoiding(succ, c, h, y)}
             S == Outside \cup Through
  <2>4. c \in Through
    BY <1>1, PathToSelf
  <2>5. ASSUME NEW y \in S, NEW z \in succ[y], z # h PROVE z \in S
    <3>1. CASE y \in Through
      <4>1. z \in Block
        BY <3>1 DEF Known, Graph
      <4> QED BY <1>1, <2>5, <3>1, <4>1, PathExtends DEF Known
    <3>2. CASE y \in Outside
      <4>1. z \in Reached(succ) /\ y \in Preds(succ, z) \cap reachable
        BY <3>2, ReachedClosed DEF Known, Preds
      <4>2. z = c \/ z \notin B
        BY <1>1, <3>2, <4>1
      <4> QED BY <2>4, <4>1, <4>2
    <3> QED BY <3>1, <3>2
  <2>6. S \in SUBSET Block /\ ClosedAvoiding(succ, h, S)
    BY <2>5, ReachedClosed DEF ClosedAvoiding, Known
  <2>7. x \in S
    BY <1>5, <2>1 DEF LoopBody
  <2>8. t \in S
    BY <2>2, <2>6, <2>7 DEF PathAvoiding
  <2>9. PathAvoiding(succ, c, h, t)
    BY <2>3, <2>8
  <2> QED BY <1>3, <2>2, <2>9, PathsJoin DEF Dominates
<1> QED BY <1>4, <1>5

(* A larger region around a header is one that has it as a member. *)
LEMMA LargerIsAround ==
    ASSUME Known, LoopIInv, loopPhase \in {"merge", "done"}, NoSelfLoop, NEW h \in DOMAIN loops
    PROVE  Larger(h) = {c \in DOMAIN loops \ {h} : h \in loops[c].blocks}
<1>1. h \in loops[h].blocks
  BY RegionClosed
<1>2. ASSUME NEW c \in DOMAIN loops \ {h}, h \in loops[c].blocks PROVE c \in Larger(h)
  <2>1. loops[h].blocks \subseteq loops[c].blocks /\ c \notin loops[h].blocks
    BY <1>2, MembersNest
  <2>2. c \in loops[c].blocks /\ loops[c].blocks \in SUBSET Block
    BY RegionClosed, ReachedClosed DEF Known
  <2>3. Cardinality(loops[h].blocks) < Cardinality(loops[c].blocks)
    BY <2>1, <2>2, ProperSubsetSmaller
  <2>4. Cardinality(loops[h].blocks) \in 0 .. N /\ Cardinality(loops[c].blocks) \in 0 .. N
    BY <2>1, <2>2, BlocksFinite
  <2> QED BY <2>1, <2>3, <2>4, NAssumption DEF Larger, Size
<1> QED BY <1>1, <1>2 DEF Larger

(* Of two headers of loops around a block, the one that the other dominates *)
(* is a member of the other's loop: without it the block could be reached   *)
(* through the other header.                                                *)
LEMMA DominatedIsInner ==
    ASSUME Known, LoopIInv, loopPhase \in {"merge", "done"}, NoSelfLoop,
           NEW c \in DOMAIN loops, NEW p \in DOMAIN loops \ {c}, NEW h \in loops[c].blocks,
           Dominates(succ, c, p), Dominates(succ, p, h)
    PROVE  p \in loops[c].blocks
<1> DEFINE B == loops[c].blocks
<1> SUFFICES ASSUME p \notin B PROVE FALSE
  OBVIOUS
<1>1. /\ c \in Block /\ c \in B /\ p \in Block /\ p \in reachable /\ c \in reachable
      /\ B \subseteq reachable
      /\ \A y \in B \ {c} : Preds(succ, y) \cap reachable \subseteq B
  BY RegionClosed
<1>2. PathAvoiding(succ, Entry, p, c)
  BY <1>1, DominatesAntisymmetric DEF Known, Dominates
<1> DEFINE Outside == {y \in Reached(succ) : y \notin B}
           Without == {y \in Block : PathAvoiding(succ, Entry, p, y)}
           S == Outside \cup Without
<1>3. Entry \in S
  <2>1. Entry # p
    BY <1>2, PathFromAvoided
  <2> QED BY <2>1, PathToSelf, EntryIsBlock
<1>4. ASSUME NEW y \in S, NEW z \in succ[y] PROVE z \in S
  <2>1. CASE y \in Without
    <3>1. z \in Block
      BY <2>1 DEF Known, Graph
    <3>2. CASE z = p
      BY <1>1, <3>2 DEF Known
    <3>3. CASE z # p
      BY <2>1, <3>1, <3>3, PathExtends, EntryIsBlock DEF Known
    <3> QED BY <3>2, <3>3
  <2>2. CASE y \in Outside
    <3>1. z \in Reached(succ) /\ y \in Preds(succ, z) \cap reachable
      BY <2>2, ReachedClosed DEF Known, Preds
    <3>2. z = c \/ z \notin B
      BY <1>1, <2>2, <3>1
    <3> QED BY <1>1, <1>2, <3>1, <3>2
  <2> QED BY <2>1, <2>2
<1>5. Reached(succ) \subseteq S
  <2>1. S \in SUBSET Block /\ succ \in Graph
    BY ReachedClosed DEF Known
  <2> HIDE DEF S
  <2> QED BY <1>3, <1>4, <2>1, ReachedInClosed
<1>6. h \in Without
  BY <1>1, <1>5 DEF Known
<1> QED BY <1>6 DEF Dominates

(* Scopes nest, and the parent is the innermost loop around. *)
LEMMA ScopesAreNested == Known /\ LoopIInv => ScopesNest
<1> DEFINE around(h) == {c \in DOMAIN loops \ {h} : h \in loops[c].blocks}
<1> SUFFICES ASSUME Known, LoopIInv, loopPhase = "done", NoSelfLoop, NEW h \in DOMAIN loops
             PROVE  /\ \A c \in around(h) : loops[h].blocks \subseteq loops[c].blocks
                    /\ parent[h] = None <=> around(h) = {}
                    /\ \A c \in around(h) : loops[parent[h]].blocks \subseteq loops[c].blocks
  BY DEF ScopesNest, NoSelfLoop
<1>1. \A c \in around(h) : loops[h].blocks \subseteq loops[c].blocks
  BY MembersNest
<1>2. around(h) = Larger(h) /\ parent[h] = ParentScope(h)
  BY LargerIsAround DEF LoopIInv
<1>3. \A c \in DOMAIN loops : c # None
  BY RegionClosed, EntryIsBlock
<1>4. parent[h] = None <=> around(h) = {}
  BY <1>2, <1>3, ParentIsSmallest DEF Larger
<1>5. ASSUME NEW c \in around(h) PROVE loops[parent[h]].blocks \subseteq loops[c].blocks
  <2> DEFINE p == parent[h]
  <2>1. p \in around(h) /\ Size(p) <= Size(c)
    BY <1>2, <1>5, ParentIsSmallest
  <2> HIDE DEF p
  <2>2. CASE p = c
    BY <2>2 DEF p
  <2>3. CASE p # c
    <3>1. /\ Dominates(succ, p, h) /\ Dominates(succ, c, h) /\ h \in Reached(succ)
          /\ succ \in Graph
      BY <1>5, <2>1, HeaderDominates, RegionClosed DEF NoSelfLoop, Known
    <3>2. CASE Dominates(succ, c, p)
      <4>1. p \in loops[c].blocks
        BY <1>5, <2>1, <2>3, <3>1, <3>2, DominatedIsInner
      <4> QED BY <1>5, <2>1, <2>3, <4>1, MembersNest DEF p
    <3>3. CASE Dominates(succ, p, c)
      <4>1. c \in loops[p].blocks
        BY <1>5, <2>1, <2>3, <3>1, <3>3, DominatedIsInner
      <4>2. p \in Larger(c)
        BY <1>5, <2>1, <2>3, <4>1, LargerIsAround
      <4>3. Size(p) > Size(c) /\ Size(p) \in Nat /\ Size(c) \in Nat
        BY <1>5, <2>1, <4>2, RegionClosed, ReachedClosed, BlocksFinite DEF Larger, Known, Size
      <4> QED BY <2>1, <4>3
    <3> QED BY <3>1, <3>2, <3>3, DominatorsChain
  <2> QED BY <2>2, <2>3
<1> QED BY <1>1, <1>4, <1>5

(* The loops and scopes hold blocks. *)
LEMMA LoopTypes ==
    ASSUME Known, LoopIInv
    PROVE  LoopTypeOK
<1>1. reachable \subseteq Block
  BY ReachedClosed DEF Known
<1>2. loop \subseteq Block /\ work \subseteq loop
  BY <1>1 DEF LoopIInv, Collected
<1>3. \A e \in DOMAIN natural : natural[e] \subseteq Block
  BY <1>1 DEF LoopIInv, Collected
<1>4. ASSUME NEW h \in DOMAIN loops
      PROVE  loops[h].blocks \subseteq reachable /\ loops[h].preheader \in Block \cup {None}
  <2>1. loopPhase \in {"merge", "done"}
    BY DEF LoopIInv
  <2>2. loops[h].preheader = Preheader(h, loops[h].blocks)
    BY <2>1, RegionFields
  <2> DEFINE outside == Preds(succ, h) \ loops[h].blocks
  <2>3. outside \subseteq Block /\ IsFiniteSet(outside)
    BY BlocksFinite DEF Preds
  <2>4. Cardinality(outside) = 1 => \E q : outside = {q}
    BY <2>3, FS_Singleton
  <2>5. Preheader(h, loops[h].blocks) \in Block \cup {None}
    BY <2>3, <2>4 DEF Preheader
  <2> QED BY <2>1, <2>2, <2>5, RegionClosed
<1>5. ASSUME NEW h \in DOMAIN parent PROVE parent[h] \in DOMAIN loops \cup {None}
  <2>1. loopPhase = "done" /\ h \in DOMAIN loops /\ parent[h] = ParentScope(h)
    BY DEF LoopIInv
  <2> QED BY <2>1, ParentIsSmallest DEF Larger
<1> QED BY <1>2, <1>3, <1>4, <1>5 DEF LoopTypeOK, LoopIInv, Known

-----------------------------------------------------------------------------
(* Strongly connected components. *)

(* An active call, the blocks that were entered, those on the stack, and    *)
(* those in a component.                                                    *)
Frame == [v : Block, todo : SUBSET Block]
Visited == {b \in Block : index[b] # None}
Waiting == ToSet(stack)
Found == UNION {components[i] : i \in DOMAIN components}

SccTypes ==
    /\ index \in [Block -> -1 .. N-1] /\ low \in [Block -> -1 .. N-1]
    /\ nextIndex = Cardinality(Visited) /\ Visited \subseteq reachable
    /\ stack \in Seq(Block)
    /\ calls \in Seq(Frame)
    /\ components \in Seq(SUBSET Block)

(* Blocks are numbered in the order of their visits, and both stacks hold   *)
(* them in this order; a visited block is on the stack or in a component.   *)
SccOrder ==
    /\ \A b \in Visited : index[b] < nextIndex
    /\ \A b, c \in Visited : index[b] = index[c] => b = c
    /\ \A i, j \in DOMAIN stack : i < j => index[stack[i]] < index[stack[j]]
    /\ \A i, j \in DOMAIN calls : i < j => index[calls[i].v] < index[calls[j].v]
    /\ \A i \in DOMAIN calls :
          calls[i].v \in Waiting /\ calls[i].todo \subseteq succ[calls[i].v]
    /\ Visited = Waiting \cup Found /\ Waiting \cap Found = {}

(* A block on the stack reaches the newer ones, and an active call that is  *)
(* not newer.                                                               *)
SccConnected ==
    /\ \A x, y \in Waiting : index[x] <= index[y] => Path(succ, x, y)
    /\ \A y \in Waiting : \E i \in DOMAIN calls :
          index[calls[i].v] <= index[y] /\ Path(succ, y, calls[i].v)

(* Successors are visited, or still to be looked at. *)
SccSeen ==
    \A y \in Visited : \A z \in succ[y] :
        z \in Visited \/ \E i \in DOMAIN calls : calls[i].v = y /\ z \in calls[i].todo

(* low[v] is the number of a block on the stack that v reaches. *)
LowReached ==
    \A v \in Waiting : \E w \in Waiting :
        index[w] = low[v] /\ low[v] <= index[v] /\ Path(succ, v, w)

(* Call i has taken into account the edges from the blocks that it and the  *)
(* calls it made, except the one that is active, have put on the stack.     *)
Accounted(i, y, z) ==
    /\ index[calls[i].v] <= index[y]
    /\ i < Len(calls) => index[y] < index[calls[i+1].v]
    /\ y = calls[i].v => z \notin calls[i].todo

LowCounts ==
    \A i \in DOMAIN calls : \A y, z \in Waiting :
        z \in succ[y] /\ Accounted(i, y, z) /\ index[z] < index[calls[i].v] =>
            low[calls[i].v] <= index[z]

(* A component is exact, leads to earlier ones only, and shares no block    *)
(* with another.                                                            *)
SccExact ==
    /\ \A i \in DOMAIN components : \A b \in components[i] :
          /\ components[i] = ComponentOf(b)
          /\ \A z \in succ[b] : \E j \in 1 .. i : z \in components[j]
    /\ \A i, j \in DOMAIN components : i # j => components[i] \cap components[j] = {}

SccIInv == /\ SccTypes /\ SccOrder /\ SccConnected /\ SccSeen
           /\ LowReached /\ LowCounts /\ SccExact

(* A nonempty set of blocks has a least one, and two numbers do. *)
LEMMA MinBlock ==
    ASSUME NEW S \in SUBSET Block, S # {}
    PROVE  Min(S) \in S
<1>1. S \in SUBSET Nat
  BY NAssumption DEF Block
<1>2. \E x \in S : \A y \in S : x =< y
  BY <1>1, LeastNumber
<1> QED BY <1>2 DEF Min

LEMMA MinOfTwo ==
    ASSUME NEW a \in Int, NEW b \in Int
    PROVE  Min({a, b}) = IF a <= b THEN a ELSE b
  BY DEF Min

(* The frames of the callers. *)
LEMMA FrontFrames ==
    ASSUME calls \in Seq(Frame), calls # << >>
    PROVE  /\ Len(calls) \in Nat \ {0} /\ Current = calls[Len(calls)]
           /\ Front(calls) \in Seq(Frame)
           /\ Len(Front(calls)) = Len(calls) - 1
           /\ \A i \in 1 .. Len(calls) - 1 : Front(calls)[i] = calls[i]
           /\ Front(calls) = << >> <=> Len(calls) = 1
<1>1. Len(calls) \in Nat \ {0}
  BY EmptySeq
<1>2. \A i \in 1 .. Len(calls) - 1 : calls[i] \in Frame
  BY <1>1, ElementOfSeq
<1>3. /\ Front(calls) \in Seq(Frame)
      /\ Len(Front(calls)) = Len(calls) - 1
      /\ \A i \in 1 .. Len(calls) - 1 : Front(calls)[i] = calls[i]
  <2> DEFINE n == Len(calls) - 1
  <2>1. n \in Nat /\ \A i \in 1 .. n : calls[i] \in Frame
    BY <1>1, <1>2
  <2>2. /\ Front(calls) \in Seq(Frame)
        /\ Len(Front(calls)) = (IF 1 <= n THEN n - 1 + 1 ELSE 0)
        /\ \A i \in 1 .. n - 1 + 1 : Front(calls)[i] = calls[1 + i - 1]
    BY <2>1, SubSeqProperties DEF Front
  <2>3. \A i \in 1 .. n : i \in 1 .. n - 1 + 1 /\ 1 + i - 1 = i
    BY <2>1
  <2>4. \A i \in 1 .. n : Front(calls)[i] = calls[i]
    BY <2>2, <2>3, Zenon
  <2>5. Len(Front(calls)) = n
    <3> HIDE DEF n
    <3> DEFINE m == Len(Front(calls))
    <3>1. m = IF 1 <= n THEN n - 1 + 1 ELSE 0
      BY <2>2
    <3> HIDE DEF m
    <3>2. m = n
      BY <2>1, <3>1
    <3> QED BY <3>2 DEF m
  <2> QED BY <2>2, <2>4, <2>5
<1>4. Front(calls) = << >> <=> Len(calls) = 1
  BY <1>1, <1>3, EmptySeq
<1> QED BY <1>1, <1>3, <1>4 DEF Current, Last

(* The frames after the current call has looked at w. *)
LEMMA AdvancedFrames ==
    ASSUME NEW w, calls \in Seq(Frame), calls # << >>
    PROVE  /\ Advanced(w) \in Seq(Frame)
           /\ Len(Advanced(w)) = Len(calls)
           /\ \A i \in 1 .. Len(calls) - 1 : Advanced(w)[i] = calls[i]
           /\ Advanced(w)[Len(calls)].v = Current.v
           /\ Advanced(w)[Len(calls)].todo = Current.todo \ {w}
<1> DEFINE n == Len(calls)
           last == [Current EXCEPT !.todo = @ \ {w}]
<1>1. n \in Nat \ {0} /\ Current \in Frame
  BY FrontFrames, ElementOfSeq
<1>2. last \in Frame /\ last.v = Current.v /\ last.todo = Current.todo \ {w}
  BY <1>1 DEF Frame
<1>4. Advanced(w) = Front(calls) \o <<last>>
  BY DEF Advanced
<1> HIDE DEF last
<1>5. <<last>> \in Seq(Frame) /\ Len(<<last>>) = 1 /\ <<last>>[1] = last
  BY <1>2
<1>6. /\ Advanced(w) \in Seq(Frame) /\ Len(Advanced(w)) = n
      /\ \A i \in 1 .. n : Advanced(w)[i] = IF i <= n - 1 THEN Front(calls)[i] ELSE <<last>>[i - (n - 1)]
  BY <1>1, <1>4, <1>5, FrontFrames, ConcatProperties
<1>7. n - (n - 1) = 1 /\ n \in 1 .. n /\ ~ (n <= n - 1)
  BY <1>1
<1>8. Advanced(w)[n] = last
  BY <1>5, <1>6, <1>7
<1> QED BY <1>1, <1>2, <1>6, <1>8, FrontFrames

(* What the types and the order say of one block. *)
LEMMA SccBasics ==
    ASSUME Known, SccTypes, SccOrder
    PROVE  /\ Waiting \subseteq Visited /\ Found \subseteq Visited
           /\ Visited \subseteq reachable /\ reachable \subseteq Block
           /\ \A b \in Block : index[b] \in Int /\ low[b] \in Int
           /\ \A b \in Visited : index[b] \in Nat /\ index[b] < nextIndex
           /\ nextIndex \in Nat
           /\ calls \in Seq(Frame)
           /\ DOMAIN calls = 1 .. Len(calls) /\ Len(calls) \in Nat
           /\ \A i \in DOMAIN calls : calls[i].v \in Waiting /\ calls[i].todo \subseteq Block
<1>1. reachable \subseteq Block
  BY ReachedClosed DEF Known
<1>2. nextIndex \in Nat
  BY BlocksFinite, NAssumption DEF SccTypes, Visited
<1>3. \A b \in Block : index[b] \in -1 .. N-1 /\ low[b] \in -1 .. N-1
  BY DEF SccTypes
<1>4. \A b \in Block : index[b] \in Int /\ low[b] \in Int
  BY <1>3, NAssumption
<1>5. \A b \in Visited : index[b] \in Nat
  BY <1>3, NAssumption DEF Visited, None
<1>6. calls \in Seq(Frame) /\ DOMAIN calls = 1 .. Len(calls) /\ Len(calls) \in Nat
  BY LenProperties DEF SccTypes
<1>7. \A i \in DOMAIN calls : calls[i] \in Frame
  BY <1>6, ElementOfSeq
<1>8. \A i \in DOMAIN calls : calls[i].v \in Waiting /\ calls[i].todo \subseteq Block
  BY <1>7 DEF SccOrder, Frame
<1> QED BY <1>1, <1>2, <1>4, <1>5, <1>6, <1>8 DEF SccTypes, SccOrder

(* The innermost call is the newest, and every block on the stack reaches   *)
(* its block.                                                               *)
LEMMA InnermostReached ==
    ASSUME Known, SccTypes, SccOrder, SccConnected, calls # << >>
    PROVE  /\ Current.v \in Waiting
           /\ \A i \in DOMAIN calls : index[calls[i].v] <= index[Current.v]
           /\ \A y \in Waiting : Path(succ, y, Current.v)
<1> USE SccBasics
<1>1. Len(calls) \in DOMAIN calls /\ Current = calls[Len(calls)]
  BY FrontFrames
<1>2. ASSUME NEW i \in DOMAIN calls PROVE index[calls[i].v] <= index[Current.v]
  BY <1>1 DEF SccOrder
<1>3. ASSUME NEW y \in Waiting PROVE Path(succ, y, Current.v)
  <2>1. PICK i \in DOMAIN calls : Path(succ, y, calls[i].v)
    BY DEF SccConnected
  <2>2. Path(succ, calls[i].v, Current.v)
    BY <1>1, <1>2 DEF SccConnected
  <2> QED BY <2>1, <2>2, PathsJoin DEF Path
<1> QED BY <1>1, <1>2, <1>3

(* strongConnect puts a new block on both stacks. *)
LEMMA EnterIInv ==
    ASSUME Known, SccIInv, NEW v \in reachable, index[v] = None,
           NEW callers \in Seq(Frame), Len(callers) = Len(calls),
           \A i \in DOMAIN calls :
               /\ callers[i].v = calls[i].v /\ callers[i].todo \subseteq calls[i].todo
               /\ calls[i].todo \subseteq callers[i].todo \cup {v},
           calls # << >> => v \in succ[Current.v],
           Enter(v, callers)
    PROVE  SccIInv'
<1> DEFINE n == Len(calls)
<1>1. SccTypes /\ SccOrder /\ SccConnected /\ SccSeen /\ LowReached /\ LowCounts /\ SccExact
  BY DEF SccIInv
<1>2. /\ Waiting \subseteq Visited /\ Found \subseteq Visited
      /\ Visited \subseteq reachable /\ reachable \subseteq Block
      /\ \A b \in Block : index[b] \in Int /\ low[b] \in Int
      /\ \A b \in Visited : index[b] \in Nat /\ index[b] < nextIndex
      /\ nextIndex \in Nat /\ calls \in Seq(Frame) /\ DOMAIN calls = 1 .. n /\ n \in Nat
      /\ \A i \in DOMAIN calls : calls[i].v \in Waiting /\ calls[i].todo \subseteq Block
  BY <1>1, SccBasics
<1>3. UNCHANGED <<succ, reachable, components, Found>>
  BY DEF Enter, Found
<1>4. /\ v \in Block /\ v \notin Visited /\ index'[v] = nextIndex /\ low'[v] = nextIndex
      /\ \A b \in Block \ {v} : index'[b] = index[b] /\ low'[b] = low[b]
  BY <1>1, <1>2 DEF Enter, SccTypes, Visited
<1>5. Visited' = Visited \cup {v}
  BY <1>2, <1>4 DEF Visited, None
<1>6. /\ nextIndex' = nextIndex + 1 /\ nextIndex + 1 = Cardinality(Visited') /\ nextIndex < N
  <2>1. IsFiniteSet(Visited) /\ Cardinality(Visited \cup {v}) = nextIndex + 1
    <3>1. Visited \in SUBSET Block /\ nextIndex = Cardinality(Visited)
      BY <1>1, <1>2 DEF SccTypes
    <3>2. IsFiniteSet(Visited)
      BY <3>1, BlocksFinite
    <3> QED BY <1>4, <3>1, <3>2, FS_AddElement
  <2>2. Visited \cup {v} \in SUBSET Block
    BY <1>2, <1>4
  <2>3. nextIndex + 1 <= N
    BY <2>1, <2>2, BlocksFinite, NAssumption
  <2> QED BY <1>2, <1>5, <2>1, <2>3, NAssumption DEF Enter
<1>7. /\ stack' \in Seq(Block) /\ Len(stack) \in Nat /\ DOMAIN stack = 1 .. Len(stack)
      /\ DOMAIN stack' = 1 .. Len(stack) + 1
      /\ stack'[Len(stack) + 1] = v
      /\ \A i \in DOMAIN stack : stack'[i] = stack[i]
  <2>1. stack \in Seq(Block) /\ stack' = Append(stack, v)
    BY <1>1 DEF Enter, SccTypes
  <2> QED BY <1>4, <2>1
<1>8. Waiting' = Waiting \cup {v}
  BY <1>7 DEF Waiting, ToSet
<1>9. /\ calls' \in Seq(Frame) /\ DOMAIN calls' = 1 .. n + 1 /\ Len(calls') = n + 1
      /\ calls'[n + 1].v = v /\ calls'[n + 1].todo = succ[v]
      /\ \A i \in 1 .. n : calls'[i] = callers[i]
  <2> DEFINE f == [v |-> v, todo |-> succ[v]]
  <2>1. f \in Frame /\ f.v = v /\ f.todo = succ[v]
    BY <1>4 DEF Known, Graph, Frame
  <2> HIDE DEF f
  <2>2. calls' = Append(callers, f)
    BY DEF Enter, f
  <2> QED BY <1>2, <2>1, <2>2
<1>10. \A i \in 1 .. n : /\ calls'[i].v = calls[i].v /\ calls'[i].todo \subseteq calls[i].todo
                         /\ calls[i].todo \subseteq calls'[i].todo \cup {v}
                         /\ calls[i].v \in Waiting /\ calls[i].v # v
                         /\ index'[calls[i].v] = index[calls[i].v]
  BY <1>2, <1>4, <1>9
<1>11. \A y \in Waiting : y \in Block /\ y # v /\ index'[y] = index[y] /\ low'[y] = low[y]
                          /\ index[y] \in Nat /\ index[y] < nextIndex
  BY <1>2, <1>4
<1> HIDE DEF n
<1>12. SccTypes'
  <2>1. index' \in [Block -> -1 .. N-1] /\ low' \in [Block -> -1 .. N-1]
    <3>1. nextIndex \in -1 .. N-1
      BY <1>2, <1>6, NAssumption
    <3> QED BY <1>1, <3>1 DEF SccTypes, Enter
  <2> QED BY <1>1, <1>2, <1>3, <1>5, <1>6, <1>7, <1>9, <2>1 DEF SccTypes
<1>13. SccOrder'
  <2>1. \A b \in Visited' : index'[b] < nextIndex'
    BY <1>2, <1>4, <1>5, <1>6
  <2>2. \A b, c \in Visited' : index'[b] = index'[c] => b = c
    BY <1>1, <1>2, <1>4, <1>5 DEF SccOrder
  <2>3. \A i, j \in DOMAIN stack' : i < j => index'[stack'[i]] < index'[stack'[j]]
    <3>1. \A i \in DOMAIN stack : stack[i] \in Waiting
      BY DEF Waiting, ToSet
    <3> QED BY <1>1, <1>4, <1>7, <1>11, <3>1 DEF SccOrder
  <2>4. \A i, j \in DOMAIN calls' : i < j => index'[calls'[i].v] < index'[calls'[j].v]
    BY <1>1, <1>2, <1>4, <1>9, <1>10, <1>11 DEF SccOrder
  <2>5. \A i \in DOMAIN calls' :
           calls'[i].v \in Waiting' /\ calls'[i].todo \subseteq succ'[calls'[i].v]
    <3>1. calls'[n + 1].v \in Waiting' /\ calls'[n + 1].todo \subseteq succ'[calls'[n + 1].v]
      BY <1>3, <1>8, <1>9
    <3>2. ASSUME NEW i \in 1 .. n
          PROVE  calls'[i].v \in Waiting' /\ calls'[i].todo \subseteq succ'[calls'[i].v]
      <4>1. calls[i].todo \subseteq succ[calls[i].v]
        BY <1>1, <1>2 DEF SccOrder
      <4> QED BY <1>3, <1>8, <1>10, <4>1
    <3> QED BY <1>2, <1>9, <3>1, <3>2
  <2>6. Visited' = Waiting' \cup Found' /\ Waiting' \cap Found' = {}
    BY <1>1, <1>2, <1>3, <1>4, <1>5, <1>8 DEF SccOrder
  <2> QED BY <2>1, <2>2, <2>3, <2>4, <2>5, <2>6 DEF SccOrder
<1>14. SccConnected'
  <2>1. ASSUME NEW x \in Waiting PROVE Path(succ, x, v)
    <3>1. calls # << >>
      BY <1>1 DEF SccConnected
    <3>2. Path(succ, x, Current.v) /\ Current.v \in Block
      BY <1>1, <1>2, <3>1, InnermostReached
    <3> QED BY <1>2, <1>4, <3>1, <3>2, PathExtends DEF Path, Known, None, Block
  <2>2. Path(succ, v, v)
    BY <1>4, PathToSelf, EntryIsBlock DEF Path
  <2>3. ASSUME NEW x \in Waiting', NEW y \in Waiting', index'[x] <= index'[y]
        PROVE  Path(succ, x, y)
    BY <1>1, <1>4, <1>8, <1>11, <2>1, <2>2, <2>3, <1>2 DEF SccConnected
  <2>4. ASSUME NEW y \in Waiting'
        PROVE  \E i \in DOMAIN calls' : index'[calls'[i].v] <= index'[y] /\ Path(succ, y, calls'[i].v)
    <3>1. CASE y = v
      BY <1>2, <1>4, <1>9, <2>2, <3>1
    <3>2. CASE y \in Waiting
      <4>1. PICK i \in 1 .. n : index[calls[i].v] <= index[y] /\ Path(succ, y, calls[i].v)
        BY <1>1, <1>2, <3>2 DEF SccConnected
      <4>2. i \in DOMAIN calls' /\ index'[calls'[i].v] <= index'[y] /\ Path(succ, y, calls'[i].v)
        BY <1>2, <1>9, <1>10, <1>11, <3>2, <4>1
      <4> QED BY <4>2
    <3> QED BY <1>8, <3>1, <3>2
  <2> QED BY <1>3, <2>3, <2>4 DEF SccConnected
<1>15. SccSeen'
  <2> SUFFICES ASSUME NEW y \in Visited', NEW z \in succ[y], z \notin Visited'
               PROVE  \E i \in DOMAIN calls' : calls'[i].v = y /\ z \in calls'[i].todo
    BY <1>3 DEF SccSeen
  <2>1. CASE y = v
    BY <1>2, <1>9, <2>1
  <2>2. CASE y \in Visited
    <3>1. PICK i \in 1 .. n : calls[i].v = y /\ z \in calls[i].todo
      BY <1>1, <1>2, <1>5, <2>2 DEF SccSeen
    <3>2. i \in DOMAIN calls' /\ calls'[i].v = y /\ z \in calls'[i].todo
      BY <1>2, <1>5, <1>9, <1>10, <3>1
    <3> QED BY <3>2
  <2> QED BY <1>5, <2>1, <2>2
<1>16. LowReached'
  <2> SUFFICES ASSUME NEW x \in Waiting'
               PROVE  \E w \in Waiting' : index'[w] = low'[x] /\ low'[x] <= index'[x] /\ Path(succ, x, w)
    BY <1>3 DEF LowReached
  <2>1. CASE x = v
    BY <1>2, <1>4, <1>8, <2>1, PathToSelf, EntryIsBlock DEF Path
  <2>2. CASE x \in Waiting
    <3>1. PICK w \in Waiting : index[w] = low[x] /\ low[x] <= index[x] /\ Path(succ, x, w)
      BY <1>1, <2>2 DEF LowReached
    <3> QED BY <1>8, <1>11, <2>2, <3>1
  <2> QED BY <1>8, <2>1, <2>2
<1>17. LowCounts'
  <2> SUFFICES ASSUME NEW i \in DOMAIN calls', NEW y \in Waiting', NEW z \in Waiting',
                      z \in succ[y], Accounted(i, y, z)', index'[z] < index'[calls'[i].v]
               PROVE  low'[calls'[i].v] <= index'[z]
    BY <1>3 DEF LowCounts
  <2>1. /\ index'[calls'[i].v] <= index'[y]
        /\ i < n + 1 => index'[y] < index'[calls'[i+1].v]
        /\ y = calls'[i].v => z \notin calls'[i].todo
    BY <1>9 DEF Accounted
  <2>2. CASE i = n + 1
    <3>1. y = v
      BY <1>2, <1>4, <1>8, <1>9, <1>11, <2>1, <2>2
    <3> QED BY <1>9, <2>1, <2>2, <3>1
  <2>3. CASE i \in 1 .. n
    <3>1. y # v /\ z # v
      <4>1. i + 1 \in 1 .. n + 1 /\ i < n + 1
        BY <1>2, <2>3
      <4>2. calls'[i+1].v = v \/ calls'[i+1].v \in Waiting
        BY <1>2, <1>9, <1>10, <4>1
      <4>3. index'[calls'[i+1].v] <= nextIndex
        BY <1>2, <1>4, <1>11, <4>2
      <4>5. y # v
        BY <1>2, <1>4, <1>11, <2>1, <4>1, <4>2
      <4>6. z # v
        BY <1>2, <1>4, <1>10, <1>11, <2>3
      <4> QED BY <4>5, <4>6
    <3>2. y \in Waiting /\ z \in Waiting
      BY <1>8, <3>1
    <3>3. Accounted(i, y, z)
      <4>1. index[calls[i].v] <= index[y]
        BY <1>10, <1>11, <2>1, <2>3, <3>2
      <4>2. i < n => index[y] < index[calls[i+1].v]
        BY <1>2, <1>10, <1>11, <2>1, <2>3, <3>2
      <4>3. y = calls[i].v => z \notin calls[i].todo
        BY <1>10, <2>1, <2>3, <3>1
      <4> QED BY <4>1, <4>2, <4>3 DEF Accounted, n
    <3> QED BY <1>1, <1>2, <1>10, <1>11, <2>3, <3>2, <3>3 DEF LowCounts
  <2> QED BY <1>2, <1>9, <2>2, <2>3
<1>18. SccExact'
  BY <1>1, <1>3 DEF SccExact, ComponentOf
<1> QED BY <1>12, <1>13, <1>14, <1>15, <1>16, <1>17, <1>18 DEF SccIInv

(* The call at the top is for a reachable block, and the successor it looks *)
(* at next is a reachable block too.                                        *)
LEMMA NextSuccessor ==
    ASSUME Known, SccIInv, calls # << >>
    PROVE  /\ Len(calls) \in DOMAIN calls /\ Current = calls[Len(calls)]
           /\ Current.v \in Waiting
           /\ Current.todo # {} =>
                 /\ Min(Current.todo) \in Current.todo
                 /\ Min(Current.todo) \in succ[Current.v]
                 /\ Min(Current.todo) \in reachable
<1>1. SccTypes /\ SccOrder
  BY DEF SccIInv
<1>2. Len(calls) \in DOMAIN calls /\ Current = calls[Len(calls)]
  BY <1>1, SccBasics, FrontFrames
<1>3. Current.v \in Waiting /\ Current.todo \subseteq Block /\ Current.todo \subseteq succ[Current.v]
  BY <1>1, <1>2, SccBasics DEF SccOrder
<1>4. Current.v \in reachable /\ succ[Current.v] \subseteq reachable
  BY <1>1, <1>3, SccBasics, ReachedClosed DEF Known
<1> QED BY <1>2, <1>3, <1>4, MinBlock

(* The outer loop calls strongConnect when no call is active. *)
LEMMA StartRootIInv ==
    ASSUME Known, SccIInv, StartRoot
    PROVE  SccIInv'
<1>1. Unvisited \in SUBSET Block /\ Unvisited # {}
  BY ReachedClosed DEF Known, Unvisited, StartRoot
<1>2. Min(Unvisited) \in reachable /\ index[Min(Unvisited)] = None
  BY <1>1, MinBlock DEF Unvisited
<1>3. << >> \in Seq(Frame) /\ calls = << >> /\ DOMAIN << >> = {}
  BY EmptySeq DEF StartRoot
<1>4. Enter(Min(Unvisited), << >>)
  BY DEF StartRoot
<1> QED BY <1>2, <1>3, <1>4, EnterIInv

(* A call makes another one. *)
LEMMA RecurseIInv ==
    ASSUME Known, SccIInv, Recurse
    PROVE  SccIInv'
<1> DEFINE w == Min(Current.todo)
           n == Len(calls)
<1>1. calls # << >> /\ w \in reachable /\ index[w] = None /\ Enter(w, Advanced(w))
  BY DEF Recurse
<1>2. w \in succ[Current.v] /\ n \in DOMAIN calls /\ Current = calls[n]
  BY <1>1, NextSuccessor DEF Recurse
<1>3. calls \in Seq(Frame) /\ DOMAIN calls = 1 .. n /\ n \in Nat
  BY SccBasics DEF SccIInv
<1>4. /\ Advanced(w) \in Seq(Frame) /\ Len(Advanced(w)) = n
      /\ \A i \in 1 .. n - 1 : Advanced(w)[i] = calls[i]
      /\ Advanced(w)[n].v = Current.v /\ Advanced(w)[n].todo = Current.todo \ {w}
  BY <1>1, <1>3, AdvancedFrames
<1> HIDE DEF w
<1>5. ASSUME NEW i \in DOMAIN calls
      PROVE  /\ Advanced(w)[i].v = calls[i].v /\ Advanced(w)[i].todo \subseteq calls[i].todo
             /\ calls[i].todo \subseteq Advanced(w)[i].todo \cup {w}
  <2>1. CASE i = n
    BY <1>2, <1>4, <2>1
  <2>2. CASE i \in 1 .. n - 1
    BY <1>4, <2>2
  <2> QED BY <1>3, <2>1, <2>2
<1> QED BY <1>1, <1>2, <1>4, <1>5, EnterIInv

(* A call looks at an edge to a visited block. *)
LEMMA LookAtIInv ==
    ASSUME Known, SccIInv, LookAt
    PROVE  SccIInv'
<1> DEFINE w == Min(Current.todo)
           v == Current.v
           n == Len(calls)
<1>1. SccTypes /\ SccOrder /\ SccConnected /\ SccSeen /\ LowReached /\ LowCounts /\ SccExact
  BY DEF SccIInv
<1>2. /\ Waiting \subseteq Visited /\ Found \subseteq Visited
      /\ Visited \subseteq reachable /\ reachable \subseteq Block
      /\ \A b \in Block : index[b] \in Int /\ low[b] \in Int
      /\ calls \in Seq(Frame) /\ DOMAIN calls = 1 .. n /\ n \in Nat
      /\ \A i \in DOMAIN calls : calls[i].v \in Waiting /\ calls[i].todo \subseteq Block
  BY <1>1, SccBasics
<1>3. /\ n \in 1 .. n /\ calls[n].v = v /\ calls[n].todo = Current.todo /\ v \in Waiting
      /\ w \in Current.todo /\ w \in succ[v] /\ w \in reachable
      /\ calls # << >>
  BY <1>2, NextSuccessor DEF LookAt
<1>4. /\ UNCHANGED <<succ, reachable, index, stack, nextIndex, components>>
      /\ index[w] # None /\ calls' = Advanced(w)
      /\ low' = IF OnStack(w) THEN [low EXCEPT ![v] = Min({low[v], index[w]})] ELSE low
  BY <1>3 DEF LookAt
<1>5. UNCHANGED <<Visited, Waiting, Found>> /\ w \in Visited
  BY <1>2, <1>3, <1>4 DEF Visited, Waiting, Found
<1>6. /\ calls' \in Seq(Frame) /\ Len(calls') = n /\ DOMAIN calls' = 1 .. n
      /\ \A i \in 1 .. n - 1 : calls'[i] = calls[i]
      /\ calls'[n].v = v /\ calls'[n].todo = Current.todo \ {w}
  BY <1>2, <1>3, <1>4, AdvancedFrames, LenProperties
<1> HIDE DEF w, v, n
<1>7. /\ w \in Waiting => low'[v] = IF low[v] <= index[w] THEN low[v] ELSE index[w]
      /\ w \notin Waiting => low'[v] = low[v]
      /\ \A b \in Block \ {v} : low'[b] = low[b]
      /\ low' \in [Block -> -1 .. N-1]
  <2>1. v \in Block /\ w \in Block /\ low[v] \in Int /\ index[w] \in Int
    BY <1>2, <1>3
  <2>2. Min({low[v], index[w]}) = IF low[v] <= index[w] THEN low[v] ELSE index[w]
    BY <2>1, MinOfTwo
  <2> QED BY <1>1, <1>4, <2>1, <2>2 DEF SccTypes, OnStack, Waiting
<1>8. ASSUME NEW i \in 1 .. n
      PROVE  /\ calls'[i].v = calls[i].v /\ calls'[i].todo \subseteq calls[i].todo
             /\ calls[i].todo \subseteq calls'[i].todo \cup {w}
             /\ i # n => calls'[i].todo = calls[i].todo
  <2>1. CASE i = n
    BY <1>3, <1>6, <2>1
  <2>2. CASE i \in 1 .. n - 1
    BY <1>6, <2>2
  <2> QED BY <1>2, <2>1, <2>2
<1>9. SccTypes'
  BY <1>1, <1>4, <1>5, <1>6, <1>7 DEF SccTypes
<1>10. SccOrder'
  <2>1. \A i, j \in DOMAIN calls' : i < j => index[calls'[i].v] < index[calls'[j].v]
    BY <1>1, <1>2, <1>6, <1>8 DEF SccOrder
  <2>2. ASSUME NEW i \in DOMAIN calls'
        PROVE  calls'[i].v \in Waiting /\ calls'[i].todo \subseteq succ[calls'[i].v]
    <3>1. i \in DOMAIN calls /\ calls[i].todo \subseteq succ[calls[i].v]
      BY <1>1, <1>2, <1>6 DEF SccOrder
    <3> QED BY <1>2, <1>6, <1>8, <3>1
  <2> QED BY <1>1, <1>4, <1>5, <2>1, <2>2 DEF SccOrder
<1>11. SccConnected'
  <2>1. ASSUME NEW y \in Waiting
        PROVE  \E i \in DOMAIN calls' : index[calls'[i].v] <= index[y] /\ Path(succ, y, calls'[i].v)
    BY <1>1, <1>2, <1>6, <1>8 DEF SccConnected
  <2> QED BY <1>1, <1>4, <1>5, <2>1 DEF SccConnected
<1>12. SccSeen'
  <2> SUFFICES ASSUME NEW y \in Visited, NEW z \in succ[y], z \notin Visited
               PROVE  \E i \in DOMAIN calls' : calls'[i].v = y /\ z \in calls'[i].todo
    BY <1>4, <1>5 DEF SccSeen
  <2>1. PICK i \in 1 .. n : calls[i].v = y /\ z \in calls[i].todo
    BY <1>1, <1>2 DEF SccSeen
  <2> QED BY <1>5, <1>6, <1>8, <2>1
<1>13. LowReached'
  <2> SUFFICES ASSUME NEW x \in Waiting
               PROVE  \E u \in Waiting : index[u] = low'[x] /\ low'[x] <= index[x] /\ Path(succ, x, u)
    BY <1>4, <1>5 DEF LowReached
  <2>1. PICK u \in Waiting : index[u] = low[x] /\ low[x] <= index[x] /\ Path(succ, x, u)
    BY <1>1 DEF LowReached
  <2>2. CASE low'[x] = low[x]
    BY <2>1, <2>2
  <2>3. CASE low'[x] # low[x]
    <3>1. x = v /\ w \in Waiting /\ low'[x] = index[w] /\ ~ (low[v] <= index[w])
      BY <1>2, <1>7, <2>3
    <3>2. Path(succ, x, w)
      <4>1. Path(succ, x, x) /\ x \in Block /\ w \in succ[x] /\ w # None
        BY <1>2, <1>3, <3>1, PathToSelf, EntryIsBlock DEF Path
      <4> QED BY <4>1, PathExtends DEF Path, Known
    <3> QED BY <1>2, <2>1, <3>1, <3>2
  <2> QED BY <2>2, <2>3
<1>14. LowCounts'
  <2> SUFFICES ASSUME NEW i \in 1 .. n, NEW y \in Waiting, NEW z \in Waiting,
                      z \in succ[y], Accounted(i, y, z)', index[z] < index[calls'[i].v]
               PROVE  low'[calls'[i].v] <= index[z]
    BY <1>4, <1>5, <1>6 DEF LowCounts
  <2>1. /\ index[calls[i].v] <= index[y]
        /\ i < n => index[y] < index[calls[i+1].v]
        /\ y = calls[i].v => z \notin calls'[i].todo
    BY <1>2, <1>4, <1>6, <1>8 DEF Accounted
  <2>2. low'[calls[i].v] <= low[calls[i].v] /\ low'[calls[i].v] \in Int /\ low[calls[i].v] \in Int
    BY <1>2, <1>3, <1>7
  <2>3. CASE y = calls[i].v /\ z \in calls[i].todo
    <3>1. i = n /\ z = w
      BY <1>8, <2>1, <2>3
    <3> QED BY <1>2, <1>3, <1>7, <1>8, <3>1
  <2>4. CASE ~ (y = calls[i].v /\ z \in calls[i].todo)
    <3>1. Accounted(i, y, z)
      BY <2>1, <2>4 DEF Accounted, n
    <3>2. low[calls[i].v] <= index[z]
      BY <1>1, <1>2, <1>8, <3>1 DEF LowCounts
    <3> QED BY <1>2, <1>8, <2>2, <3>2
  <2> QED BY <2>3, <2>4
<1>15. SccExact'
  BY <1>1, <1>4 DEF SccExact, ComponentOf
<1> QED BY <1>9, <1>10, <1>11, <1>12, <1>13, <1>14, <1>15 DEF SccIInv

(* The stack above and below v, by numbers. *)
LEMMA StackSplit ==
    ASSUME Known, SccTypes, SccOrder, NEW v \in Waiting
    PROVE  /\ PoppedWith(v) = {y \in Waiting : index[v] <= index[y]}
           /\ ToSet(Below(v)) = {y \in Waiting : index[y] < index[v]}
           /\ Below(v) \in Seq(Block)
           /\ \A i \in DOMAIN Below(v) : i \in DOMAIN stack /\ Below(v)[i] = stack[i]
<1> DEFINE at == CHOOSE i \in DOMAIN stack : stack[i] = v
<1>1. at \in DOMAIN stack /\ stack[at] = v
  BY DEF Waiting, ToSet
<1>2. PoppedWith(v) = {stack[i] : i \in at .. Len(stack)} /\ Below(v) = SubSeq(stack, 1, at - 1)
  BY DEF PoppedWith, Below
<1>3. stack \in Seq(Block) /\ DOMAIN stack = 1 .. Len(stack) /\ Len(stack) \in Nat
  BY LenProperties DEF SccTypes
<1> HIDE DEF at
<1>4. \A i \in DOMAIN stack : stack[i] \in Waiting /\ stack[i] \in Block /\ index[stack[i]] \in Int
  BY SccBasics DEF Waiting, ToSet
<1>5. \A i \in DOMAIN stack : /\ i < at => index[stack[i]] < index[v]
                              /\ i >= at => index[v] <= index[stack[i]]
  BY <1>1, <1>3, <1>4 DEF SccOrder
<1>6. \A y \in Waiting : \E i \in DOMAIN stack : y = stack[i]
  BY DEF Waiting, ToSet
<1>7. PoppedWith(v) = {y \in Waiting : index[v] <= index[y]}
  <2>1. ASSUME NEW y \in PoppedWith(v) PROVE y \in Waiting /\ index[v] <= index[y]
    <3>1. PICK i \in at .. Len(stack) : y = stack[i]
      BY <1>2
    <3>2. i \in DOMAIN stack /\ i >= at
      BY <1>1, <1>3
    <3> QED BY <1>4, <1>5, <3>1, <3>2
  <2>2. ASSUME NEW y \in Waiting, index[v] <= index[y] PROVE y \in PoppedWith(v)
    <3>1. PICK i \in DOMAIN stack : y = stack[i]
      BY <1>6
    <3>2. i \in at .. Len(stack)
      BY <1>1, <1>3, <1>4, <1>5, <2>2, <3>1
    <3> QED BY <1>2, <3>1, <3>2
  <2> QED BY <2>1, <2>2
<1>8. /\ Below(v) \in Seq(Block) /\ Len(Below(v)) = at - 1
      /\ \A i \in 1 .. at - 1 : Below(v)[i] = stack[i]
  <2> DEFINE m == at - 1
  <2>1. m \in Nat /\ \A i \in 1 .. m : stack[i] \in Block
    BY <1>1, <1>3, <1>4
  <2> HIDE DEF m
  <2>2. /\ Below(v) \in Seq(Block)
        /\ Len(Below(v)) = IF 1 <= m THEN m - 1 + 1 ELSE 0
        /\ \A i \in 1 .. m - 1 + 1 : Below(v)[i] = stack[1 + i - 1]
    BY <1>2, <2>1, SubSeqProperties DEF m
  <2>3. \A i \in 1 .. m : i \in 1 .. m - 1 + 1 /\ 1 + i - 1 = i
    BY <2>1
  <2>4. \A i \in 1 .. m : Below(v)[i] = stack[i]
    BY <2>2, <2>3, Zenon
  <2> DEFINE l == Len(Below(v))
  <2>5. l = IF 1 <= m THEN m - 1 + 1 ELSE 0
    BY <2>2
  <2> HIDE DEF l
  <2>6. l = m
    BY <2>1, <2>5
  <2> QED BY <2>2, <2>4, <2>6 DEF l, m
<1>9. DOMAIN Below(v) = 1 .. at - 1
  BY <1>8, LenProperties
<1>10. \A i \in DOMAIN Below(v) : i \in DOMAIN stack /\ Below(v)[i] = stack[i] /\ i < at
  BY <1>1, <1>3, <1>8, <1>9
<1>11. ToSet(Below(v)) = {y \in Waiting : index[y] < index[v]}
  <2>1. ASSUME NEW y \in ToSet(Below(v)) PROVE y \in Waiting /\ index[y] < index[v]
    BY <1>4, <1>5, <1>10 DEF ToSet
  <2>2. ASSUME NEW y \in Waiting, index[y] < index[v] PROVE y \in ToSet(Below(v))
    <3>1. PICK i \in DOMAIN stack : y = stack[i]
      BY <1>6
    <3>2. i \in DOMAIN Below(v)
      BY <1>1, <1>3, <1>4, <1>5, <1>9, <2>2, <3>1
    <3> QED BY <1>10, <3>1, <3>2 DEF ToSet
  <2> QED BY <2>1, <2>2
<1> QED BY <1>7, <1>8, <1>10, <1>11

(* When low[v] is v's own number at the end of the call, the blocks above v *)
(* are a component, and lead only to each other and to earlier components.  *)
LEMMA RootIsComponent ==
    ASSUME Known, SccIInv, calls # << >>, Current.todo = {}, low[Current.v] = index[Current.v],
           NEW C, C = {y \in Waiting : index[Current.v] <= index[y]}
    PROVE  /\ \A b \in C : C = ComponentOf(b)
           /\ \A b \in C : succ[b] \subseteq C \cup Found
<1> DEFINE v == Current.v
           n == Len(calls)
<1>1. SccTypes /\ SccOrder /\ SccConnected /\ SccSeen /\ LowReached /\ LowCounts /\ SccExact
  BY DEF SccIInv
<1>2. /\ Waiting \subseteq Visited /\ Found \subseteq Visited
      /\ Visited \subseteq reachable /\ reachable \subseteq Block
      /\ \A b \in Block : index[b] \in Int /\ low[b] \in Int
      /\ calls \in Seq(Frame) /\ DOMAIN calls = 1 .. n /\ n \in Nat
      /\ \A i \in DOMAIN calls : calls[i].v \in Waiting /\ calls[i].todo \subseteq Block
  BY <1>1, SccBasics
<1>3. n \in 1 .. n /\ calls[n].v = v /\ calls[n].todo = {} /\ v \in Waiting
  BY <1>2, NextSuccessor
<1>4. v \in C
  BY <1>2, <1>3
<1> HIDE DEF n, v
<1>5. C = {y \in Waiting : index[v] <= index[y]} /\ low[v] = index[v]
  BY DEF v
<1>6. ASSUME NEW b \in C, NEW z \in succ[b] PROVE z \in C \cup Found
  <2>1. b \in Waiting /\ index[v] <= index[b]
    BY <1>5
  <2>2. z \in Visited
    <3> SUFFICES ASSUME z \notin Visited PROVE FALSE
      OBVIOUS
    <3>1. PICK i \in DOMAIN calls : calls[i].v = b /\ z \in calls[i].todo
      BY <1>1, <1>2, <2>1 DEF SccSeen
    <3>2. CASE i = n
      BY <1>3, <3>1, <3>2
    <3>3. CASE i < n
      <4>1. index[calls[i].v] < index[calls[n].v]
        BY <1>1, <1>2, <1>3, <3>3 DEF SccOrder
      <4> QED BY <1>2, <1>3, <2>1, <3>1, <4>1
    <3> QED BY <1>2, <1>3, <3>2, <3>3
  <2>3. ASSUME z \in Waiting, index[z] < index[v] PROVE FALSE
    <3>1. Accounted(n, b, z)
      BY <1>3, <2>1 DEF Accounted, n
    <3>2. low[v] <= index[z]
      BY <1>1, <1>2, <1>3, <1>6, <2>1, <2>3, <3>1 DEF LowCounts
    <3> QED BY <1>2, <1>3, <1>5, <2>3, <3>2
  <2> QED BY <1>1, <1>2, <1>3, <1>5, <2>2, <2>3 DEF SccOrder
<1>7. ASSUME NEW b \in C, NEW c \in C PROVE Path(succ, b, c)
  <2>1. Path(succ, b, v)
    BY <1>1, <1>5, InnermostReached DEF v
  <2>2. Path(succ, v, c)
    BY <1>1, <1>3, <1>5 DEF SccConnected
  <2> QED BY <2>1, <2>2, PathsJoin DEF Path
<1>8. \A b \in Found : succ[b] \subseteq Found
  <2> SUFFICES ASSUME NEW b \in Found, NEW z \in succ[b] PROVE z \in Found
    OBVIOUS
  <2>1. PICK i \in DOMAIN components : b \in components[i]
    BY DEF Found
  <2>2. PICK j \in 1 .. i : z \in components[j]
    BY <1>1, <2>1 DEF SccExact
  <2>3. j \in DOMAIN components
    BY <1>1, <2>1, <2>2, LenProperties DEF SccTypes
  <2> QED BY <2>2, <2>3 DEF Found
<1>9. ASSUME NEW b \in C, NEW c \in reachable, Path(succ, b, c), Path(succ, c, b)
      PROVE  c \in C
  <2>1. C \cup Found \in SUBSET Block /\ Found \in SUBSET Block
    BY <1>2, <1>5
  <2>2. ClosedAvoiding(succ, None, C \cup Found) /\ ClosedAvoiding(succ, None, Found)
    BY <1>6, <1>8 DEF ClosedAvoiding
  <2>3. b \notin Found
    BY <1>1, <1>5 DEF SccOrder
  <2>4. c \in C \cup Found
    BY <1>9, <2>1, <2>2 DEF Path, PathAvoiding
  <2>5. c \notin Found
    BY <1>9, <2>1, <2>2, <2>3 DEF Path, PathAvoiding
  <2> QED BY <2>4, <2>5
<1>10. \A b \in C : C = ComponentOf(b)
  <2> SUFFICES ASSUME NEW b \in C PROVE C = ComponentOf(b)
    OBVIOUS
  <2>1. C \subseteq reachable
    BY <1>2, <1>5
  <2> QED BY <1>7, <1>9, <2>1 DEF ComponentOf
<1> QED BY <1>6, <1>10

(* A call returns, with or without a component. *)
LEMMA ReturnIInv ==
    ASSUME Known, SccIInv, Return
    PROVE  SccIInv'
<1> DEFINE v == Current.v
           n == Len(calls)
           u == calls[n - 1].v
           C == {y \in Waiting : index[v] <= index[y]}
<1>1. SccTypes /\ SccOrder /\ SccConnected /\ SccSeen /\ LowReached /\ LowCounts /\ SccExact
  BY DEF SccIInv
<1>2. /\ Waiting \subseteq Visited /\ Found \subseteq Visited
      /\ Visited \subseteq reachable /\ reachable \subseteq Block
      /\ \A b \in Block : index[b] \in Int /\ low[b] \in Int
      /\ calls \in Seq(Frame) /\ DOMAIN calls = 1 .. n /\ n \in Nat
      /\ \A i \in DOMAIN calls : calls[i].v \in Waiting /\ calls[i].todo \subseteq Block
  BY <1>1, SccBasics
<1>3. /\ calls # << >> /\ n \in 1 .. n /\ n - 1 \in Nat
      /\ calls[n].v = v /\ calls[n].todo = {} /\ Current.todo = {} /\ v \in Waiting
  BY <1>2, NextSuccessor DEF Return
<1>4. /\ calls' = Front(calls) /\ calls' \in Seq(Frame) /\ Len(calls') = n - 1
      /\ DOMAIN calls' = 1 .. n - 1
      /\ \A i \in 1 .. n - 1 : calls'[i] = calls[i]
      /\ Front(calls) = << >> <=> n = 1
  BY <1>2, <1>3, FrontFrames, LenProperties DEF Return
<1>5. UNCHANGED <<succ, reachable, index, nextIndex, Visited>>
  BY DEF Return, Visited
<1>6. \A i \in 1 .. n - 1 : i \in DOMAIN calls /\ index[calls[i].v] < index[v]
  BY <1>1, <1>2, <1>3 DEF SccOrder
<1>7. /\ n = 1 => low' = low
      /\ n # 1 => low' = [low EXCEPT ![u] = Min({low[u], low[v]})]
  <2>1. n # 1 => Last(Front(calls)) = calls[n - 1]
    BY <1>2, <1>3, <1>4 DEF Last
  <2> QED BY <1>4, <2>1 DEF Return
<1>8. \/ /\ low[v] = index[v]
         /\ components' = Append(components, PoppedWith(v)) /\ stack' = Below(v)
      \/ low[v] # index[v] /\ UNCHANGED <<components, stack>>
  BY DEF Return
<1> HIDE DEF v, n, u, C
<1>9. /\ low' \in [Block -> -1 .. N-1]
      /\ \A b \in Block : low'[b] \in Int /\ low'[b] <= low[b]
      /\ \A b \in Block : n = 1 \/ b # u => low'[b] = low[b]
      /\ n # 1 => u \in Waiting /\ index[u] < index[v] /\ u = calls[n - 1].v /\ low'[u] <= low[v]
      /\ n # 1 => low'[u] = low[u] \/ low'[u] = low[v]
  <2>1. v \in Block /\ low \in [Block -> -1 .. N-1]
    BY <1>1, <1>2, <1>3 DEF SccTypes
  <2>2. CASE n = 1
    BY <1>2, <1>7, <2>1, <2>2
  <2>3. CASE n # 1
    <3>1. u = calls[n - 1].v /\ n - 1 \in 1 .. n - 1
      BY <1>2, <1>3, <2>3 DEF u
    <3>2. u \in Waiting /\ index[u] < index[v] /\ u \in Block
      BY <1>2, <1>6, <3>1
    <3>3. Min({low[u], low[v]}) = IF low[u] <= low[v] THEN low[u] ELSE low[v]
      BY <1>2, <2>1, <3>2, MinOfTwo
    <3> QED BY <1>2, <1>7, <2>1, <2>3, <3>1, <3>2, <3>3
  <2> QED BY <2>2, <2>3
<1>10. Waiting' \subseteq Waiting
  BY <1>1, <1>3, <1>8, StackSplit DEF Waiting
<1>11. SccSeen'
  <2> SUFFICES ASSUME NEW y \in Visited, NEW z \in succ[y], z \notin Visited
               PROVE  \E i \in DOMAIN calls' : calls'[i].v = y /\ z \in calls'[i].todo
    BY <1>5 DEF SccSeen
  <2>1. PICK i \in 1 .. n : calls[i].v = y /\ z \in calls[i].todo
    BY <1>1, <1>2 DEF SccSeen
  <2>2. i \in 1 .. n - 1
    BY <1>2, <1>3, <2>1
  <2> QED BY <1>4, <2>1, <2>2
<1>12. LowCounts'
  <2> SUFFICES ASSUME NEW i \in 1 .. n - 1, NEW y \in Waiting', NEW z \in Waiting',
                      z \in succ[y], Accounted(i, y, z)', index[z] < index[calls'[i].v]
               PROVE  low'[calls'[i].v] <= index[z]
    BY <1>4, <1>5 DEF LowCounts
  <2>1. /\ calls'[i].v = calls[i].v /\ calls[i].v \in Waiting /\ calls[i].v \in Block
        /\ index[z] < index[calls[i].v] /\ index[calls[i].v] < index[v]
        /\ y \in Waiting /\ z \in Waiting /\ y \in Block /\ z \in Block /\ v \in Block
    BY <1>2, <1>3, <1>4, <1>6, <1>10
  <2>2. /\ index[calls[i].v] <= index[y]
        /\ i < n - 1 => index[y] < index[calls[i+1].v]
        /\ y = calls[i].v => z \notin calls[i].todo
    BY <1>3, <1>4, <1>5, <2>1 DEF Accounted
  <2>3. CASE i < n - 1 \/ index[y] < index[v]
    <3>1. i < n => index[y] < index[calls[i+1].v]
      BY <1>2, <1>3, <2>2, <2>3
    <3>2. low[calls[i].v] <= index[z]
      <4>1. Accounted(i, y, z)
        BY <2>2, <3>1 DEF Accounted, n
      <4> QED BY <1>1, <1>6, <2>1, <4>1 DEF LowCounts
    <3> QED BY <1>2, <1>9, <2>1, <3>2
  <2>4. CASE i = n - 1 /\ index[v] <= index[y]
    <3>1. Accounted(n, y, z) /\ n \in DOMAIN calls
      BY <1>2, <1>3, <2>4 DEF Accounted, n
    <3>2. low[v] <= index[z]
      BY <1>1, <1>2, <1>3, <2>1, <3>1 DEF LowCounts
    <3>3. n # 1 /\ calls'[i].v = u
      BY <1>3, <1>9, <2>1, <2>4
    <3> QED BY <1>2, <1>9, <2>1, <3>2, <3>3
  <2> QED BY <1>2, <1>3, <2>1, <2>3, <2>4
<1>13. CASE low[v] # index[v]
  <2>1. UNCHANGED <<components, stack, Waiting, Found>>
    BY <1>8, <1>13 DEF Waiting, Found
  <2>2. SccTypes'
    BY <1>1, <1>4, <1>5, <1>9, <2>1 DEF SccTypes
  <2>3. SccOrder'
    <3>1. \A i, j \in DOMAIN calls' : i < j => index[calls'[i].v] < index[calls'[j].v]
      BY <1>1, <1>4, <1>6 DEF SccOrder
    <3>2. \A i \in DOMAIN calls' :
             calls'[i].v \in Waiting /\ calls'[i].todo \subseteq succ[calls'[i].v]
      BY <1>1, <1>4, <1>6 DEF SccOrder
    <3> QED BY <1>1, <1>5, <2>1, <3>1, <3>2 DEF SccOrder
  <2>4. PICK w \in Waiting : index[w] = low[v] /\ low[v] <= index[v] /\ Path(succ, v, w)
    BY <1>1, <1>3 DEF LowReached
  <2>5. index[w] < index[v]
    BY <1>2, <1>3, <1>13, <2>4
  <2>6. SccConnected'
    <3>1. ASSUME NEW y \in Waiting
          PROVE  \E i \in DOMAIN calls' : index[calls'[i].v] <= index[y] /\ Path(succ, y, calls'[i].v)
      <4>1. PICK i \in 1 .. n : index[calls[i].v] <= index[y] /\ Path(succ, y, calls[i].v)
        BY <1>1, <1>2 DEF SccConnected
      <4>2. CASE i # n
        <5>1. i \in 1 .. n - 1
          BY <1>2, <4>2
        <5> QED BY <1>4, <4>1, <5>1
      <4>3. CASE i = n
        <5>1. PICK k \in 1 .. n : index[calls[k].v] <= index[w] /\ Path(succ, w, calls[k].v)
          BY <1>1, <1>2 DEF SccConnected
        <5>2. calls[k].v \in Block /\ w \in Block /\ v \in Block /\ y \in Block
          BY <1>2, <1>3
        <5>3. k \in 1 .. n - 1
          BY <1>2, <1>3, <2>5, <5>1, <5>2
        <5>4. Path(succ, y, calls[k].v)
          BY <1>3, <2>4, <4>1, <4>3, <5>1, PathsJoin DEF Path
        <5>5. index[calls[k].v] <= index[y]
          BY <1>2, <1>3, <2>5, <4>1, <4>3, <5>1, <5>2
        <5> QED BY <1>4, <5>3, <5>4, <5>5
      <4> QED BY <4>2, <4>3
    <3> QED BY <1>1, <1>5, <2>1, <3>1 DEF SccConnected
  <2>7. LowReached'
    <3> SUFFICES ASSUME NEW x \in Waiting
                 PROVE  \E y \in Waiting : index[y] = low'[x] /\ low'[x] <= index[x] /\ Path(succ, x, y)
      BY <1>5, <2>1 DEF LowReached
    <3>1. PICK y \in Waiting : index[y] = low[x] /\ low[x] <= index[x] /\ Path(succ, x, y)
      BY <1>1 DEF LowReached
    <3>2. CASE low'[x] = low[x]
      BY <3>1, <3>2
    <3>3. CASE low'[x] # low[x]
      <4>1. x = u /\ low'[x] = low[v] /\ index[x] < index[v] /\ low'[x] <= low[x]
        BY <1>2, <1>9, <3>3
      <4>2. Path(succ, x, v)
        BY <1>1, <1>2, <1>3, <4>1 DEF SccConnected
      <4>3. Path(succ, x, w)
        BY <2>4, <4>2, PathsJoin DEF Path
      <4>4. index[w] = low'[x] /\ low'[x] <= index[x]
        BY <1>2, <1>3, <1>9, <2>4, <3>1, <4>1
      <4> QED BY <4>3, <4>4
    <3> QED BY <3>2, <3>3
  <2>8. SccExact'
    BY <1>1, <1>5, <2>1 DEF SccExact, ComponentOf
  <2> QED BY <1>11, <1>12, <2>2, <2>3, <2>6, <2>7, <2>8 DEF SccIInv
<1>14. CASE low[v] = index[v]
  <2>1. /\ components' = Append(components, C) /\ stack' = Below(v)
        /\ Waiting' = {y \in Waiting : index[y] < index[v]}
    BY <1>1, <1>3, <1>8, <1>14, StackSplit DEF C, Waiting
  <2>2. /\ \A b \in C : C = ComponentOf(b)
        /\ \A b \in C : succ[b] \subseteq C \cup Found
    BY <1>3, <1>14, RootIsComponent DEF C, v
  <2>3. C \subseteq Waiting /\ C \subseteq Block
    BY <1>2 DEF C
  <2>4. /\ components \in Seq(SUBSET Block) /\ Len(components) \in Nat
        /\ DOMAIN components = 1 .. Len(components)
    BY <1>1, LenProperties DEF SccTypes
  <2>5. /\ components' \in Seq(SUBSET Block)
        /\ DOMAIN components' = 1 .. Len(components) + 1
        /\ components'[Len(components) + 1] = C
        /\ \A i \in DOMAIN components : components'[i] = components[i]
    BY <2>1, <2>3, <2>4
  <2>6. Found' = Found \cup C
    BY <2>4, <2>5 DEF Found
  <2>7. \A b \in Waiting : b \in C <=> b \notin Waiting'
    BY <1>2, <1>3, <2>1 DEF C
  <2>8. SccTypes'
    BY <1>1, <1>3, <1>4, <1>5, <1>9, <2>1, <2>5, StackSplit DEF SccTypes
  <2>9. SccOrder'
    <3>1. \A i, j \in DOMAIN calls' : i < j => index[calls'[i].v] < index[calls'[j].v]
      BY <1>1, <1>4, <1>6 DEF SccOrder
    <3>2. \A i \in DOMAIN calls' :
             calls'[i].v \in Waiting' /\ calls'[i].todo \subseteq succ[calls'[i].v]
      BY <1>1, <1>2, <1>4, <1>6, <2>1 DEF SccOrder
    <3>3. \A i, j \in DOMAIN stack' : i < j => index[stack'[i]] < index[stack'[j]]
      BY <1>1, <1>3, <2>1, StackSplit DEF SccOrder
    <3>4. Visited = Waiting' \cup Found' /\ Waiting' \cap Found' = {}
      BY <1>1, <1>10, <2>3, <2>6, <2>7 DEF SccOrder
    <3> QED BY <1>1, <1>5, <3>1, <3>2, <3>3, <3>4 DEF SccOrder
  <2>10. SccConnected'
    <3>1. ASSUME NEW y \in Waiting'
          PROVE  \E i \in DOMAIN calls' : index[calls'[i].v] <= index[y] /\ Path(succ, y, calls'[i].v)
      <4>1. y \in Waiting /\ index[y] < index[v] /\ y \in Block /\ v \in Block
        BY <1>2, <1>3, <2>1
      <4>2. PICK i \in 1 .. n : index[calls[i].v] <= index[y] /\ Path(succ, y, calls[i].v)
        BY <1>1, <1>2, <4>1 DEF SccConnected
      <4>3. i # n
        BY <1>2, <1>3, <4>1, <4>2
      <4> QED BY <1>2, <1>4, <4>2, <4>3
    <3> QED BY <1>1, <1>5, <1>10, <3>1 DEF SccConnected
  <2>11. LowReached'
    <3> SUFFICES ASSUME NEW x \in Waiting'
                 PROVE  \E y \in Waiting' : index[y] = low'[x] /\ low'[x] <= index[x] /\ Path(succ, x, y)
      BY <1>5 DEF LowReached
    <3>1. x \in Waiting /\ x \in Block /\ index[x] < index[v] /\ v \in Block
      BY <1>2, <1>3, <2>1
    <3>2. PICK y \in Waiting : index[y] = low[x] /\ low[x] <= index[x] /\ Path(succ, x, y)
      BY <1>1, <3>1 DEF LowReached
    <3>3. y \in Waiting'
      BY <1>2, <2>1, <3>1, <3>2
    <3>4. low'[x] = low[x]
      BY <1>2, <1>9, <1>14, <3>1, <3>2
    <3> QED BY <3>2, <3>3, <3>4
  <2>12. SccExact'
    <3> DEFINE m == Len(components)
    <3>1. ASSUME NEW i \in 1 .. m + 1, NEW b \in components'[i]
          PROVE  /\ components'[i] = ComponentOf(b)
                 /\ \A z \in succ[b] : \E j \in 1 .. i : z \in components'[j]
      <4>1. CASE i = m + 1
        <5>1. b \in C /\ components'[i] = C
          BY <2>5, <3>1, <4>1
        <5>2. ASSUME NEW z \in succ[b] PROVE \E j \in 1 .. i : z \in components'[j]
          <6>1. CASE z \in C
            BY <2>4, <4>1, <5>1, <6>1
          <6>2. CASE z \in Found
            <7>1. PICK j \in DOMAIN components : z \in components[j]
              BY <6>2 DEF Found
            <7> QED BY <2>4, <2>5, <4>1, <7>1
          <6> QED BY <2>2, <5>1, <6>1, <6>2
        <5> QED BY <2>2, <5>1, <5>2
      <4>2. CASE i \in 1 .. m
        <5>1. components'[i] = components[i] /\ b \in components[i] /\ i \in DOMAIN components
          BY <2>4, <2>5, <3>1, <4>2
        <5>2. ASSUME NEW z \in succ[b] PROVE \E j \in 1 .. i : z \in components'[j]
          <6>1. PICK j \in 1 .. i : z \in components[j]
            BY <1>1, <5>1 DEF SccExact
          <6> QED BY <2>4, <2>5, <4>2, <6>1
        <5> QED BY <1>1, <5>1, <5>2 DEF SccExact
      <4> QED BY <2>4, <4>1, <4>2
    <3>2. \A i \in 1 .. m : components[i] \cap C = {}
      BY <1>1, <2>3, <2>4 DEF SccOrder, Found
    <3>3. \A i, j \in 1 .. m + 1 : i # j => components'[i] \cap components'[j] = {}
      BY <1>1, <2>4, <2>5, <3>2 DEF SccExact
    <3> QED BY <1>5, <2>5, <3>1, <3>3 DEF SccExact, ComponentOf
  <2> QED BY <1>11, <1>12, <2>8, <2>9, <2>10, <2>11, <2>12 DEF SccIInv
<1> QED BY <1>13, <1>14

(* Nothing is visited when the search starts. *)
LEMMA SccIInvInit == SccInit => SccIInv
<1> SUFFICES ASSUME SccInit PROVE SccIInv
  OBVIOUS
<1>1. Visited = {} /\ Waiting = {} /\ Found = {}
  BY DEF SccInit, Visited, Waiting, Found, ToSet
<1>2. DOMAIN calls = {} /\ DOMAIN stack = {} /\ DOMAIN components = {}
  BY DEF SccInit
<1>3. index \in [Block -> -1 .. N-1] /\ low \in [Block -> -1 .. N-1]
  BY NAssumption DEF SccInit, None
<1>4. SccTypes
  BY <1>1, <1>3, FS_EmptySet, EmptySeq DEF SccInit, SccTypes
<1>5. SccOrder
  BY <1>1, <1>2 DEF SccOrder
<1> QED BY <1>1, <1>2, <1>4, <1>5
        DEF SccIInv, SccConnected, SccSeen, LowReached, LowCounts, SccExact

(* Every step of strongConnect preserves the invariant. *)
LEMMA SccIInvStep ==
    ASSUME Known, SccIInv, [SccNext]_sccVars
    PROVE  SccIInv'
<1>1. CASE UNCHANGED sccVars
  <2>1. UNCHANGED <<succ, reachable, index, low, stack, nextIndex, calls, components,
                    Visited, Waiting, Found>>
    BY <1>1 DEF sccVars, sccOwn, Visited, Waiting, Found
  <2>2. SccTypes' /\ SccOrder'
    BY <2>1 DEF SccIInv, SccTypes, SccOrder
  <2>3. SccConnected'
    BY <2>1 DEF SccIInv, SccConnected
  <2>4. SccSeen' /\ LowReached'
    BY <2>1 DEF SccIInv, SccSeen, LowReached
  <2>5. LowCounts'
    BY <2>1 DEF SccIInv, LowCounts, Accounted
  <2>6. SccExact'
    BY <2>1 DEF SccIInv, SccExact, ComponentOf
  <2> QED BY <2>2, <2>3, <2>4, <2>5, <2>6 DEF SccIInv
<1> QED BY <1>1, StartRootIInv, RecurseIInv, LookAtIInv, ReturnIInv DEF SccNext

(* The search keeps its types. *)
LEMMA SccTypesHold ==
    ASSUME Known, SccIInv
    PROVE  SccTypeOK
<1>1. SccTypes /\ SccOrder
  BY DEF SccIInv
<1>2. nextIndex \in 0 .. N
  BY <1>1, BlocksFinite DEF SccTypes, Visited
<1>3. \A i \in DOMAIN stack : stack[i] \in reachable
  BY <1>1, SccBasics DEF Waiting, ToSet
<1>4. \A i \in DOMAIN calls : calls[i].v \in reachable /\ calls[i].todo \subseteq Block
  BY <1>1, SccBasics
<1>5. \A i \in DOMAIN components : components[i] \subseteq reachable
  BY <1>1, SccBasics DEF Found
<1> QED BY <1>1, <1>2, <1>3, <1>4, <1>5 DEF SccTypeOK, SccTypes, Known

(* The components are exact. *)
LEMMA ComponentsAreExact ==
    ASSUME Known, SccIInv
    PROVE  ComponentsExact
<1>1. SccTypes /\ SccOrder /\ SccConnected /\ SccExact
  BY DEF SccIInv
<1>2. components \in Seq(SUBSET Block) /\ DOMAIN components = 1 .. Len(components)
  BY <1>1, LenProperties DEF SccTypes
<1>3. ASSUME NEW b \in reachable
      PROVE  Cardinality({i \in DOMAIN components : b \in components[i]})
                 \in (IF Unvisited = {} /\ calls = << >> THEN {1} ELSE {0, 1})
  <2> DEFINE In == {i \in DOMAIN components : b \in components[i]}
  <2>1. CASE b \in Found
    <3>1. PICK i \in DOMAIN components : b \in components[i]
      BY <2>1 DEF Found
    <3>2. In = {i}
      BY <1>1, <3>1 DEF SccExact
    <3>3. Cardinality(In) = 1
      BY <3>2, FS_Singleton
    <3> QED BY <3>3
  <2>2. CASE b \notin Found
    <3>1. In = {}
      BY <2>2 DEF Found
    <3>2. Cardinality(In) = 0
      BY <3>1, FS_EmptySet
    <3>3. ~ (Unvisited = {} /\ calls = << >>)
      <4> SUFFICES ASSUME Unvisited = {}, calls = << >> PROVE FALSE
        OBVIOUS
      <4>1. Waiting = {}
        BY <1>1 DEF SccConnected
      <4>2. b \in Visited
        BY ReachedClosed DEF Unvisited, Visited, Known
      <4> QED BY <1>1, <2>2, <4>1, <4>2 DEF SccOrder
    <3> QED BY <3>2, <3>3
  <2> QED BY <2>1, <2>2
<1>4. ASSUME NEW i \in DOMAIN components, NEW j \in DOMAIN components, i < j,
             NEW b \in components[i], NEW c \in components[j]
      PROVE  ~ Path(succ, b, c)
  <2> DEFINE S == UNION {components[k] : k \in 1 .. i}
  <2>1. S \in SUBSET Block
    BY <1>2
  <2>2. b \in S
    BY <1>2
  <2>3. ClosedAvoiding(succ, None, S)
    <3> SUFFICES ASSUME NEW k \in 1 .. i, NEW x \in components[k], NEW y \in succ[x]
                 PROVE  y \in S
      BY DEF ClosedAvoiding
    <3>1. k \in DOMAIN components
      BY <1>2
    <3>2. PICK l \in 1 .. k : y \in components[l]
      BY <1>1, <3>1 DEF SccExact
    <3>3. l \in 1 .. i
      BY <1>2, <3>2
    <3> QED BY <3>2, <3>3
  <2>4. c \notin S
    <3>1. \A k \in 1 .. i : k \in DOMAIN components /\ k # j
      BY <1>2, <1>4
    <3> QED BY <1>1, <3>1 DEF SccExact
  <2> QED BY <2>1, <2>2, <2>3, <2>4 DEF Path, PathAvoiding
<1> QED BY <1>1, <1>3, <1>4 DEF ComponentsExact, SccExact

-----------------------------------------------------------------------------
(* The passes run in the order of addFunction. *)
InOrder == domPhase # "done" => LoopInit /\ postPhase = "idle" /\ SccInit

IInv == DomIInv /\ LoopIInv /\ PostIInv /\ SccIInv /\ InOrder

(* The invariants hold when addFunction starts. *)
LEMMA IInvInit == Init => IInv
<1> SUFFICES ASSUME Init PROVE IInv
  OBVIOUS
<1>1. DomIInv
  BY DomIInvInit DEF Init
<1>2. postChanged \in BOOLEAN
  BY Zenon DEF Init, PostInit
<1>3. postCursor \in -1 .. N-1
  BY NAssumption DEF Init, PostInit
<1>4. PostTypeOK
  BY <1>1, <1>2, <1>3 DEF Init, PostInit, PostTypeOK, DomIInv, DomTypeOK
<1>5. PostIInv
  BY <1>4 DEF Init, PostInit, PostIInv
<1>6. LoopIInv /\ SccIInv /\ InOrder
  BY LoopIInvInit, SccIInvInit DEF Init, InOrder, PostInit
<1> QED BY <1>1, <1>5, <1>6 DEF IInv

(* A step of the dominator analysis finds the later passes not begun. *)
LEMMA FindDominatorsStep == IInv /\ FindDominators => IInv'
<1> SUFFICES ASSUME IInv, FindDominators PROVE IInv'
  OBVIOUS
<1> USE DEF IInv
<1>1. domPhase # "done" /\ postPhase = "idle" /\ LoopInit /\ SccInit
  BY DEF FindDominators, DomNext, MarkReachable, DomStart, DomVisit, DomNextPass, DomFinish, InOrder
<1>2. DomIInv'
  BY DomIInvStep DEF FindDominators
<1>3. UNCHANGED loopOwn /\ UNCHANGED postOwn /\ UNCHANGED sccOwn
  BY DEF FindDominators
<1>4. LoopInit'
  BY <1>1, <1>3 DEF loopOwn, LoopInit
<1>5. LoopIInv'
  BY <1>4 DEF LoopInit, LoopIInv
<1>6. PostTypeOK'
  BY <1>2, <1>3 DEF PostIInv, PostTypeOK, DomIInv, DomTypeOK, postOwn
<1>7. PostIInv'
  BY <1>1, <1>3, <1>6 DEF PostIInv, postOwn
<1>8. SccInit'
  BY <1>1, <1>3 DEF sccOwn, SccInit
<1>9. SccIInv'
  BY <1>8, SccIInvInit, PTL
<1> QED BY <1>1, <1>2, <1>3, <1>4, <1>5, <1>7, <1>8, <1>9 DEF InOrder, postOwn

(* A later step leaves the dominators alone. *)
LEMMA LaterStep ==
    ASSUME IInv, UNCHANGED domVars, domPhase # "done" => UNCHANGED <<loopOwn, postOwn, sccOwn>>,
           LoopNext \/ MakeScopes \/ UNCHANGED loopVars,
           [PostNext \/ Render]_postVars, [SccNext]_sccVars
    PROVE  IInv'
<1> USE DEF IInv
<1>1. DomIInv'
  BY DomIInvStep
<1>2. CASE domPhase = "done"
  <2>1. Known /\ reachable = Reached(succ)
    BY <1>2, DominatorsKnown DEF Known
  <2>2. LoopIInv'
    BY <2>1, LoopIInvStep
  <2>3. PostIInv'
    BY <2>1, PostIInvStep
  <2>4. SccIInv'
    BY <2>1, SccIInvStep
  <2> QED BY <1>1, <1>2, <2>2, <2>3, <2>4 DEF InOrder, domVars
<1>3. CASE domPhase # "done"
  <2>1. LoopInit' /\ postPhase' = "idle" /\ UNCHANGED postVars /\ SccInit'
    BY <1>3 DEF InOrder, LoopInit, loopOwn, postOwn, postVars, domVars, SccInit, sccOwn
  <2>2. LoopIInv'
    BY <2>1 DEF LoopInit, LoopIInv
  <2>3. PostTypeOK'
    BY <2>1, PostTypeStep DEF PostIInv
  <2>4. PostIInv'
    BY <1>3, <2>1, <2>3 DEF PostIInv, postVars, postOwn, InOrder
  <2>5. SccIInv'
    BY <2>1, SccIInvInit, PTL
  <2> QED BY <1>1, <2>1, <2>2, <2>4, <2>5 DEF InOrder
<1> QED BY <1>2, <1>3

(* Every step of every pass preserves the invariants. *)
LEMMA IInvStep == IInv /\ [Next]_vars => IInv'
<1> SUFFICES ASSUME IInv, [Next]_vars PROVE IInv'
  OBVIOUS
<1>1. CASE FindDominators
  BY <1>1, FindDominatorsStep
<1>2. CASE FindPostDominators \/ RenderPlan
  <2>1. /\ domPhase = "done" /\ UNCHANGED domVars /\ UNCHANGED loopOwn /\ UNCHANGED sccOwn
        /\ PostNext \/ Render
    BY <1>2 DEF FindPostDominators, RenderPlan, IInv, InOrder, LoopInit
  <2>2. UNCHANGED loopVars /\ UNCHANGED sccVars
    BY <2>1 DEF domVars, loopVars, sccVars
  <2> QED BY <2>1, <2>2, LaterStep
<1>3. CASE FindLoops \/ FindComponents \/ FindScopes
  <2>1. /\ domPhase = "done" /\ UNCHANGED domVars /\ UNCHANGED postOwn
        /\ LoopNext \/ MakeScopes \/ UNCHANGED loopOwn
        /\ SccNext \/ UNCHANGED sccOwn
    BY <1>3 DEF FindLoops, FindComponents, FindScopes, IInv, InOrder
  <2>2. /\ UNCHANGED postVars /\ (LoopNext \/ MakeScopes \/ UNCHANGED loopVars)
        /\ SccNext \/ UNCHANGED sccVars
    BY <2>1 DEF domVars, postVars, loopVars, sccVars
  <2> QED BY <2>1, <2>2, LaterStep
<1>4. CASE Done \/ UNCHANGED vars
  <2>1. /\ UNCHANGED domVars /\ UNCHANGED loopVars /\ UNCHANGED postVars
        /\ UNCHANGED sccVars
    BY <1>4 DEF Done, vars
  <2>2. UNCHANGED <<loopOwn, postOwn, sccOwn>>
    BY <2>1 DEF loopVars, postVars, sccVars
  <2> QED BY <2>1, <2>2, LaterStep
<1> QED BY <1>1, <1>2, <1>3, <1>4 DEF Next

(* The invariant of the whole of addFunction. *)
LEMMA Invariance == Spec => []IInv
  BY IInvInit, IInvStep, PTL DEF Spec

-----------------------------------------------------------------------------
(* The analyses keep their types on every graph: cursors stay in range,     *)
(* worklists hold members, and loops and components reachable blocks only.  *)
THEOREM TypeTheorem == Spec => []TypeOK
<1>1. IInv => TypeOK
  <2> SUFFICES ASSUME IInv PROVE TypeOK
    OBVIOUS
  <2>1. DomTypeOK /\ PostTypeOK
    BY DEF IInv, DomIInv, PostIInv
  <2>2. CASE domPhase = "done"
    BY <2>1, <2>2, LoopTypes, SccTypesHold, DominatorsKnown DEF IInv, TypeOK
  <2>3. CASE domPhase # "done"
    <3>1. LoopTypeOK
      BY <2>1, <2>3 DEF IInv, InOrder, LoopInit, LoopTypeOK, DomTypeOK
    <3>2. SccTypeOK
      BY <2>1, <2>3, NAssumption DEF IInv, InOrder, SccInit, SccTypeOK, DomTypeOK, None
    <3> QED BY <2>1, <3>1, <3>2 DEF TypeOK
  <2> QED BY <2>2, <2>3
<1> QED BY <1>1, Invariance, PTL

(* markReachable marks exactly the blocks that can be reached from the      *)
(* entry, for every graph.                                                  *)
THEOREM ReachableTheorem == Spec => []ReachableCorrect
<1>1. IInv => ReachableCorrect
  BY IInvReachable DEF IInv
<1> QED BY <1>1, Invariance, PTL

(* The dominator sets never lose a true dominator during the sweeps. *)
THEOREM NoDominatorLostTheorem == Spec => []NoDominatorLost
<1>1. IInv => NoDominatorLost
  BY IInvNoDominatorLost DEF IInv
<1> QED BY <1>1, Invariance, PTL

(* When the loop "while (changed)" ends, the sets are the dominator sets,   *)
(* for every graph of any size, and no later pass spoils them.              *)
THEOREM DominatorsTheorem == Spec => []DominatorsCorrect
<1>1. IInv => DominatorsCorrect
  BY IInvDominators DEF IInv
<1> QED BY <1>1, Invariance, PTL

(* The post-dominator sweeps never lose a true post-dominator. *)
THEOREM NoPostDominatorLostTheorem == Spec => []NoPostDominatorLost
<1>1. IInv => NoPostDominatorLost
  BY PostIInvNoneLost DEF IInv
<1> QED BY <1>1, Invariance, PTL

(* When the loop "while (postChanged)" ends, the sets are the               *)
(* post-dominator sets, for every graph of any size.                        *)
THEOREM PostDominatorsTheorem == Spec => []PostDominatorsCorrect
<1>1. IInv => PostDominatorsCorrect
  BY PostIInvCorrect DEF IInv
<1> QED BY <1>1, Invariance, PTL

(* "Largest dominator set" picks the closest strict dominator of every      *)
(* block of every graph.                                                    *)
THEOREM ImmediateTheorem == Spec => []ImmediateCorrect
<1>1. IInv => ImmediateCorrect
  BY IInvImmediate DEF IInv
<1> QED BY <1>1, Invariance, PTL

(* The merged region of a header is its natural loop, however the loops of  *)
(* one header overlap and in whatever order the back edges are found.       *)
THEOREM NaturalLoopTheorem == Spec => []NaturalLoopExact
<1>1. IInv => NaturalLoopExact
  BY LoopsAreNatural, DominatorsKnown DEF IInv, InOrder, LoopInit, NaturalLoopExact
<1> QED BY <1>1, Invariance, PTL

(* Control enters a loop region through its header only, and a preheader    *)
(* is on every path into the loop.                                          *)
THEOREM SingleEntryTheorem == Spec => []SingleEntry
<1>1. IInv => SingleEntry
  BY LoopsHaveOneEntry, DominatorsKnown DEF IInv, InOrder, LoopInit, SingleEntry
<1> QED BY <1>1, Invariance, PTL

(* The scopes form a tree, and the parent found by comparing sizes is the   *)
(* innermost enclosing loop.                                                *)
THEOREM ScopesTheorem == Spec => []ScopesNest
<1>1. IInv => ScopesNest
  BY ScopesAreNested, DominatorsKnown DEF IInv, InOrder, LoopInit, ScopesNest
<1> QED BY <1>1, Invariance, PTL

(* The join that the plan names for a branch is passed by both arms. *)
THEOREM JoinTheorem == Spec => []JoinIsCommon
<1>1. IInv => JoinIsCommon
  BY PostIInvJoin DEF IInv
<1> QED BY <1>1, Invariance, PTL

(* Every component that strongConnect reports is a whole class of blocks    *)
(* that reach each other, comes out before those that lead to it, and every *)
(* reachable block ends up in exactly one.                                  *)
THEOREM ComponentsTheorem == Spec => []ComponentsExact
<1>1. IInv => ComponentsExact
  <2> SUFFICES ASSUME IInv PROVE ComponentsExact
    OBVIOUS
  <2>1. CASE domPhase = "done"
    BY <2>1, ComponentsAreExact, DominatorsKnown DEF IInv
  <2>2. CASE domPhase # "done"
    <3>1. components = << >> /\ DOMAIN components = {}
      BY <2>2 DEF IInv, InOrder, SccInit
    <3>2. \A b : {i \in DOMAIN components : b \in components[i]} = {}
      BY <3>1
    <3>3. \A b \in reachable : b \in Unvisited
      BY <2>2 DEF IInv, InOrder, SccInit, Unvisited, DomIInv, DomTypeOK
    <3> QED BY <3>1, <3>2, <3>3, FS_EmptySet DEF ComponentsExact
  <2> QED BY <2>1, <2>2
<1> QED BY <1>1, Invariance, PTL
=============================================================================
