----------------------------- MODULE Lua51Proof -----------------------------
(***************************************************************************)
(* The text of a Lua 5.1 function, for every code that the reader accepts   *)
(* and that has the shape the compiler gives it.                            *)
(*                                                                          *)
(* First its control flow: the loop over the blocks selects the block that  *)
(* the pc variable names, and every step follows an edge of the graph.      *)
(* Then the assignments that are left out: which call or RETURN each of     *)
(* them waits for.  Then its storage: cells and variables, and the upvalues *)
(* they stand for.  Together they show that every statement is a step of    *)
(* the virtual machine, unless looking back in the text has misled it.      *)
(***************************************************************************)
EXTENDS Lua51Text, FiniteSetTheorems, WellFoundedInduction, TLAPS

(* What is known of the code that is rendered. *)
Valid(p) == Decoded(p) /\ validateProtoData(p) /\ Compiled(p)

-----------------------------------------------------------------------------
(* Numbers. *)

(* A set of numbers has a smallest one. *)
LEMMA LeastNumber ==
    ASSUME NEW T \in SUBSET Nat, T # {}
    PROVE  \E x \in T : \A y \in T : x <= y
<1>1. T \subseteq Nat
  OBVIOUS
<1>2. PICK x \in T : \A y \in T : ~ (<<y, x>> \in OpToRel(<, Nat))
  BY <1>1, WFMin, NatLessThanWellFounded, Zenon
<1>3. \A y \in T : ~ (y < x)
  BY <1>1, <1>2, Zenon DEF OpToRel
<1> QED BY <1>3

(* What Min chooses. *)
LEMMA MinOf ==
    ASSUME NEW T \in SUBSET Nat, T # {}
    PROVE  Min(T) \in T /\ \A y \in T : Min(T) <= y
<1>1. \E x \in T : \A y \in T : x <= y
  BY LeastNumber
<1> QED BY <1>1 DEF Min

-----------------------------------------------------------------------------
(* The code. *)

(* What Decoded says, in the form the proofs use. *)
LEMMA CodeShape ==
    ASSUME NEW p, Decoded(p)
    PROVE  /\ Size(p) \in Nat \ {0}
           /\ DOMAIN p = 0 .. Size(p)-1
           /\ \A pc \in DOMAIN p : /\ p[pc].a \in Nat /\ p[pc].b \in Nat
                                   /\ p[pc].c \in Nat /\ p[pc].sbx \in Int
                                   /\ p[pc].op = "CLOSURE" => p[pc].c = 1
<1>1. IsFiniteSet(DOMAIN p) /\ DOMAIN p = 0 .. Size(p)-1 /\ DOMAIN p # {}
  BY DEF Decoded
<1>2. Size(p) \in Nat
  BY <1>1, FS_CardinalityType DEF Size
<1>3. Size(p) # 0
  BY <1>1, <1>2
<1> QED BY <1>1, <1>2, <1>3 DEF Decoded

(* Only a RETURN ends the code. *)
LEMMA NextInCode ==
    ASSUME NEW p, Valid(p), NEW pc \in DOMAIN p, p[pc].op # "RETURN"
    PROVE  pc + 1 \in DOMAIN p
<1>1. Size(p) \in Nat \ {0} /\ DOMAIN p = 0 .. Size(p)-1
  BY CodeShape DEF Valid
<1>2. p[Size(p)-1].op = "RETURN"
  BY DEF Valid, Compiled
<1>3. pc # Size(p)-1
  BY <1>2
<1> QED BY <1>1, <1>3

(* Where the code after an instruction starts again. *)
LEMMA BoundaryAfter ==
    ASSUME NEW p, Valid(p), NEW pc, Boundary(p, pc)
    PROVE  /\ p[pc].op \notin {"RETURN", "CLOSURE"} /\ ~ (p[pc].op = "SETLIST" /\ p[pc].c = 0)
                => Boundary(p, pc + 1)
           /\ p[pc].op = "SETLIST" /\ p[pc].c = 0
                => Boundary(p, pc + 2) /\ extraWord(p, pc + 1) /\ pc + 1 \in DOMAIN p
           /\ p[pc].op = "CLOSURE"
                => Boundary(p, pc + 2) /\ closureBinding(p, pc + 1) /\ pc + 1 \in DOMAIN p
<1>1. Size(p) \in Nat \ {0} /\ DOMAIN p = 0 .. Size(p)-1
  BY CodeShape DEF Valid
<1>2. pc \in DOMAIN p /\ pc \in Nat /\ ~ extraWord(p, pc) /\ ~ closureBinding(p, pc)
  BY <1>1 DEF Boundary
<1>3. \A q \in DOMAIN p : p[q].op = "CLOSURE" => p[q].c = 1
  BY CodeShape DEF Valid
<1>4. \A q \in DOMAIN p : q # Size(p)-1 => q + 1 \in DOMAIN p
  BY <1>1
<1>5. \A q \in DOMAIN p : (p[q].op = "EXTRA") = extraWord(p, q) /\ (closureBinding(p, q) => p[q].op = "MOVE")
  BY DEF Valid, validateProtoData
<1>6. \A q \in Nat : closureBinding(p, q+1) /\ q+1 \in DOMAIN p => p[q].op = "CLOSURE"
  <2> SUFFICES ASSUME NEW q \in Nat, closureBinding(p, q+1), q+1 \in DOMAIN p PROVE p[q].op = "CLOSURE"
    OBVIOUS
  <2>1. PICK r \in 0 .. (q+1)-1 : p[r].op = "CLOSURE" /\ q+1 <= r + p[r].c
    BY DEF closureBinding
  <2>2. r \in DOMAIN p
    BY <1>1, <2>1
  <2>3. r = q
    BY <1>3, <2>1, <2>2
  <2> QED BY <2>1, <2>3
<1>7. \A q \in DOMAIN p : p[q].op = "CLOSURE" => closureBinding(p, q+1)
  BY <1>1, <1>3 DEF closureBinding
<1>8. \A q \in Nat : extraWord(p, q+1) <=> p[q].op = "SETLIST" /\ p[q].c = 0
  BY DEF extraWord
<1>9. \A q \in DOMAIN p : p[q].op # "RETURN" => q+1 \in DOMAIN p
  BY NextInCode
<1>10. ASSUME p[pc].op \notin {"RETURN", "CLOSURE"}, ~ (p[pc].op = "SETLIST" /\ p[pc].c = 0)
       PROVE  Boundary(p, pc + 1)
  BY <1>2, <1>6, <1>8, <1>9, <1>10 DEF Boundary
<1>11. ASSUME p[pc].op = "SETLIST", p[pc].c = 0
       PROVE  Boundary(p, pc + 2) /\ extraWord(p, pc + 1) /\ pc + 1 \in DOMAIN p
  <2>1. extraWord(p, pc+1) /\ pc+1 \in DOMAIN p /\ p[pc+1].op = "EXTRA"
    BY <1>2, <1>5, <1>8, <1>9, <1>11
  <2>2. (pc+1)+1 \in DOMAIN p /\ ~ extraWord(p, (pc+1)+1) /\ ~ closureBinding(p, (pc+1)+1)
    <3>1. pc+1 \in Nat
      BY <1>2
    <3>2. (pc+1)+1 \in DOMAIN p
      BY <1>9, <2>1
    <3> QED BY <1>6, <1>8, <2>1, <3>1, <3>2
  <2>3. (pc+1)+1 = pc+2
    BY <1>2
  <2> QED BY <2>1, <2>2, <2>3 DEF Boundary
<1>12. ASSUME p[pc].op = "CLOSURE"
       PROVE  Boundary(p, pc + 2) /\ closureBinding(p, pc + 1) /\ pc + 1 \in DOMAIN p
  <2>1. closureBinding(p, pc+1) /\ pc+1 \in DOMAIN p /\ p[pc+1].op = "MOVE"
    BY <1>2, <1>5, <1>7, <1>9, <1>12
  <2>2. (pc+1)+1 \in DOMAIN p /\ ~ extraWord(p, (pc+1)+1) /\ ~ closureBinding(p, (pc+1)+1)
    <3>1. pc+1 \in Nat
      BY <1>2
    <3>2. (pc+1)+1 \in DOMAIN p
      BY <1>9, <2>1
    <3> QED BY <1>6, <1>8, <2>1, <3>1, <3>2
  <2>3. (pc+1)+1 = pc+2
    BY <1>2
  <2> QED BY <2>1, <2>2, <2>3 DEF Boundary
<1> QED BY <1>10, <1>11, <1>12

(* The JMP after a test or a TFORLOOP, and where it goes. *)
LEMMA BranchAfter ==
    ASSUME NEW p, Valid(p), NEW pc, Boundary(p, pc), isTest(p[pc].op) \/ p[pc].op = "TFORLOOP"
    PROVE  /\ Boundary(p, pc + 1) /\ p[pc+1].op = "JMP"
           /\ followingControlTarget(p, pc) = target(p, pc + 1)
           /\ target(p, pc + 1) = pc + 1 + p[pc+1].sbx + 1
           /\ Boundary(p, target(p, pc + 1))
           /\ Boundary(p, pc + 2)
<1>1. Size(p) \in Nat \ {0} /\ DOMAIN p = 0 .. Size(p)-1 /\ pc \in DOMAIN p
  BY CodeShape DEF Valid, Boundary
<1>2. Boundary(p, pc + 1)
  BY BoundaryAfter DEF isTest, isCondition
<1>3. p[pc+1].op = "JMP"
  BY <1>1 DEF Valid, Compiled
<1>4. p[pc+1].sbx \in Int /\ pc + 1 \in DOMAIN p
  BY <1>2, CodeShape DEF Valid, Boundary
<1>5. target(p, pc + 1) = pc + 1 + p[pc+1].sbx + 1
  BY <1>3 DEF target, isTest, isCondition
<1>6. followingControlTarget(p, pc) = target(p, pc + 1)
  BY <1>1, <1>4, <1>5 DEF followingControlTarget
<1>7. \A q : Boundary(p, q) /\ hasTarget(p[q]) => Boundary(p, target(p, q))
  BY DEF Valid, validateProtoData, Boundary
<1>8. Boundary(p, target(p, pc + 1))
  BY <1>2, <1>3, <1>7 DEF hasTarget
<1>9. target(p, pc) = pc + 2 /\ hasTarget(p[pc])
  BY DEF target, hasTarget, isTest, isCondition
<1> QED BY <1>2, <1>3, <1>5, <1>6, <1>7, <1>8, <1>9

(* An instruction that goes on with the next one. *)
Plain(i) ==
    ~ hasTarget(i) /\ i.op \notin {"TAILCALL", "RETURN", "CLOSURE"} /\ ~ (i.op = "SETLIST" /\ i.c = 0)

(* The edges of buildControlFlowGraph, and that they lead to instructions.  *)
LEMMA SuccessorsOf ==
    ASSUME NEW p, Valid(p), NEW pc, Boundary(p, pc)
    PROVE  /\ p[pc].op \in {"JMP", "FORPREP"} => controlSuccessors(p, pc) = {target(p, pc)}
           /\ isTest(p[pc].op) \/ p[pc].op = "TFORLOOP"
                => controlSuccessors(p, pc) = {followingControlTarget(p, pc), pc + 2}
           /\ p[pc].op = "FORLOOP" => controlSuccessors(p, pc) = {target(p, pc), pc + 1}
           /\ p[pc].op = "LOADBOOL" /\ p[pc].c # 0 => controlSuccessors(p, pc) = {pc + 2}
           /\ p[pc].op = "SETLIST" /\ p[pc].c = 0 => controlSuccessors(p, pc) = {pc + 2}
           /\ p[pc].op = "CLOSURE" => controlSuccessors(p, pc) = {pc + 2}
           /\ Plain(p[pc]) => controlSuccessors(p, pc) = {pc + 1}
           /\ \A t \in controlSuccessors(p, pc) : Boundary(p, t)
<1>1. Size(p) \in Nat \ {0} /\ DOMAIN p = 0 .. Size(p)-1 /\ pc \in DOMAIN p
  BY CodeShape DEF Valid, Boundary
<1>2. \A t : Boundary(p, t) => t \in 0 .. Size(p)
  BY <1>1 DEF Boundary
<1>3. hasTarget(p[pc]) => Boundary(p, target(p, pc))
  BY <1>1 DEF Valid, validateProtoData
<1>4. ASSUME p[pc].op \in {"JMP", "FORPREP"}
      PROVE  controlSuccessors(p, pc) = {target(p, pc)} /\ Boundary(p, target(p, pc))
  BY <1>2, <1>3, <1>4 DEF controlSuccessors, hasTarget, isTest, isCondition
<1>5. ASSUME isTest(p[pc].op) \/ p[pc].op = "TFORLOOP"
      PROVE  /\ controlSuccessors(p, pc) = {followingControlTarget(p, pc), pc + 2}
             /\ Boundary(p, followingControlTarget(p, pc)) /\ Boundary(p, pc + 2)
  BY <1>2, <1>5, BranchAfter DEF controlSuccessors, isTest, isCondition
<1>6. ASSUME p[pc].op = "FORLOOP"
      PROVE  /\ controlSuccessors(p, pc) = {target(p, pc), pc + 1}
             /\ Boundary(p, target(p, pc)) /\ Boundary(p, pc + 1)
  BY <1>2, <1>3, <1>6, BoundaryAfter DEF controlSuccessors, hasTarget, isTest, isCondition
<1>7. ASSUME p[pc].op = "LOADBOOL", p[pc].c # 0
      PROVE  controlSuccessors(p, pc) = {pc + 2} /\ Boundary(p, pc + 2)
  <2>1. target(p, pc) = pc + 2
    BY <1>7 DEF target, isTest, isCondition
  <2> QED BY <1>2, <1>3, <1>7, <2>1 DEF controlSuccessors, hasTarget, isTest, isCondition
<1>8. ASSUME p[pc].op = "SETLIST", p[pc].c = 0
      PROVE  controlSuccessors(p, pc) = {pc + 2} /\ Boundary(p, pc + 2)
  BY <1>2, <1>8, BoundaryAfter DEF controlSuccessors, isTest, isCondition
<1>9. ASSUME p[pc].op = "CLOSURE"
      PROVE  controlSuccessors(p, pc) = {pc + 2} /\ Boundary(p, pc + 2)
  <2>1. pc + 1 + p[pc].c = pc + 2
    BY <1>1, <1>9, CodeShape DEF Valid
  <2> QED BY <1>2, <1>9, <2>1, BoundaryAfter DEF controlSuccessors, isTest, isCondition
<1>10. ASSUME Plain(p[pc])
       PROVE  controlSuccessors(p, pc) = {pc + 1} /\ Boundary(p, pc + 1)
  <2>1. Boundary(p, pc + 1)
    BY <1>10, BoundaryAfter DEF Plain
  <2> QED BY <1>2, <1>10, <2>1 DEF Plain, hasTarget, controlSuccessors
<1>11. ASSUME p[pc].op \in {"TAILCALL", "RETURN"} PROVE controlSuccessors(p, pc) = {}
  BY <1>11 DEF controlSuccessors, isTest, isCondition
<1>12. \A t \in controlSuccessors(p, pc) : Boundary(p, t)
  BY <1>4, <1>5, <1>6, <1>7, <1>8, <1>9, <1>10, <1>11 DEF Plain, hasTarget
<1> QED BY <1>4, <1>5, <1>6, <1>7, <1>8, <1>9, <1>10, <1>12

(* Where a branch inside the loop goes, a block starts. *)
LEMMA BranchLeaders ==
    ASSUME NEW p, Valid(p), NEW b, NEW e, NEW pc \in b .. e-1, Boundary(p, pc), hasTarget(p[pc]),
           NEW t \in controlSuccessors(p, pc), t \in b .. e-1
    PROVE  t \in leaders(p, b, e)
<1>1. Boundary(p, t)
  BY SuccessorsOf
<1>2. t \in addLeaders(p, pc)
  <2>1. CASE p[pc].op \in {"JMP", "FORPREP"}
    BY <2>1, SuccessorsOf DEF addLeaders, isTest, isCondition
  <2>2. CASE isTest(p[pc].op) \/ p[pc].op = "TFORLOOP"
    BY <2>2, SuccessorsOf DEF addLeaders, isTest, isCondition
  <2>3. CASE p[pc].op = "FORLOOP"
    BY <2>3, SuccessorsOf DEF addLeaders, isTest, isCondition
  <2>4. CASE p[pc].op = "LOADBOOL" /\ p[pc].c # 0
    BY <2>4, SuccessorsOf DEF addLeaders, isTest, isCondition
  <2> QED BY <2>1, <2>2, <2>3, <2>4 DEF hasTarget
<1> QED BY <1>1, <1>2 DEF leaders

-----------------------------------------------------------------------------
(* The dispatcher. *)

Rank(S, s) == Cardinality({t \in S : t < s})
StartOf(S, n) == CHOOSE s \in S : Rank(S, s) = n

(* The starts of the blocks are numbered in their order. *)
LEMMA Ranks ==
    ASSUME NEW S \in SUBSET Nat, IsFiniteSet(S)
    PROVE  /\ Cardinality(S) \in Nat
           /\ \A s \in S : Rank(S, s) \in 0 .. Cardinality(S)-1
           /\ \A s, t \in S : s < t <=> Rank(S, s) < Rank(S, t)
           /\ \A n \in 0 .. Cardinality(S)-1 : 
                 /\ StartOf(S, n) \in S /\ Rank(S, StartOf(S, n)) = n
                 /\ \A s \in S : s < StartOf(S, n) <=> Rank(S, s) < n
<1> DEFINE Below(s) == {t \in S : t < s}
           N == Cardinality(S)
<1>0. \A s \in S : s \in Nat
  OBVIOUS
<1>1. N \in Nat
  BY FS_CardinalityType
<1>2. \A s \in S : IsFiniteSet(Below(s)) /\ Rank(S, s) \in Nat /\ Rank(S, s) = Cardinality(Below(s))
  BY FS_Subset, FS_CardinalityType DEF Rank
<1>3. ASSUME NEW s \in S, NEW t \in S, s < t PROVE Rank(S, s) < Rank(S, t)
  <2>1. Below(s) \subseteq Below(t) \ {s} /\ s \in Below(t)
    <3>1. \A x \in S : x < s => x < t /\ x # s
      BY <1>0, <1>3
    <3> QED BY <1>3, <3>1
  <2> HIDE DEF Below
  <2>2. IsFiniteSet(Below(t) \ {s}) /\ Cardinality(Below(t) \ {s}) = Rank(S, t) - 1
    BY <1>2, <2>1, FS_RemoveElement
  <2>3. Cardinality(Below(s)) <= Cardinality(Below(t) \ {s})
    BY <2>1, <2>2, FS_Subset
  <2> QED BY <1>2, <2>2, <2>3
<1>4. ASSUME NEW s \in S PROVE Rank(S, s) \in 0 .. N-1
  <2>1. Below(s) \subseteq S \ {s}
    OBVIOUS
  <2>2. IsFiniteSet(S \ {s}) /\ Cardinality(S \ {s}) = N - 1
    BY FS_RemoveElement
  <2> HIDE DEF Below, N
  <2>3. Cardinality(Below(s)) <= Cardinality(S \ {s})
    BY <2>1, <2>2, FS_Subset
  <2> QED BY <1>1, <1>2, <2>2, <2>3
<1>5. \A s, t \in S : s < t <=> Rank(S, s) < Rank(S, t)
  <2> SUFFICES ASSUME NEW s \in S, NEW t \in S, Rank(S, s) < Rank(S, t) PROVE s < t
    BY <1>3
  <2> HIDE DEF Below
  <2>1. CASE s = t
    BY <1>2, <2>1
  <2>2. CASE t < s
    <3>1. Rank(S, t) < Rank(S, s)
      BY <1>3, <2>2
    <3> QED BY <1>2, <3>1
  <2> QED BY <1>0, <2>1, <2>2
<1>6. ASSUME NEW n \in 0 .. N-1 PROVE \E s \in S : Rank(S, s) = n
  <2> DEFINE f == [s \in S |-> Rank(S, s)]
             T == 0 .. N-1
  <2>1. f \in [S -> T]
    BY <1>4
  <2>2. \A s, t \in S : f[s] = f[t] => s = t
    <3> SUFFICES ASSUME NEW s \in S, NEW t \in S, Rank(S, s) = Rank(S, t) PROVE s = t
      OBVIOUS
    <3> HIDE DEF Below
    <3>1. ~ (s < t) /\ ~ (t < s)
      BY <1>2, <1>3
    <3> QED BY <1>0, <3>1
  <2>3. IsFiniteSet(T) /\ Cardinality(T) = N
    BY <1>1, FS_Interval
  <2>4. f \in Injection(S, T)
    <3> HIDE DEF f, T
    <3> QED BY <2>1, <2>2 DEF Injection, IsInjective
  <2>5. f \in Surjection(S, T)
    <3> HIDE DEF f, T
    <3> QED BY <2>3, <2>4, FS_Injection
  <2>6. \E s \in S : f[s] = n
    <3> HIDE DEF f
    <3> QED BY <2>5 DEF Surjection
  <2> QED BY <2>6
<1>7. ASSUME NEW n \in 0 .. N-1 PROVE StartOf(S, n) \in S /\ Rank(S, StartOf(S, n)) = n
  BY <1>6, Zenon DEF StartOf
<1>8. \A n \in 0 .. N-1 : \A s \in S : s < StartOf(S, n) <=> Rank(S, s) < n
  <2> SUFFICES ASSUME NEW n \in 0 .. N-1, NEW s \in S PROVE s < StartOf(S, n) <=> Rank(S, s) < n
    OBVIOUS
  <2>1. StartOf(S, n) \in S /\ Rank(S, StartOf(S, n)) = n
    BY <1>7
  <2>2. s < StartOf(S, n) <=> Rank(S, s) < Rank(S, StartOf(S, n))
    BY <1>5, <2>1
  <2> QED BY <2>1, <2>2
<1> QED BY <1>1, <1>4, <1>5, <1>7, <1>8

(* The nested comparisons, for the starts S of the blocks and a value pc.   *)
Compare(S, pc, f) ==
    [range \in (0 .. Cardinality(S)) \X (0 .. Cardinality(S)) |->
        LET first == range[1]
            last == range[2]
            middle == first + (last - first) \div 2
        IN  IF last - first = 1 THEN StartOf(S, first)
            ELSE IF pc < StartOf(S, middle) THEN f[<<first, middle>>]
            ELSE f[<<middle, last>>]]
Search(S, pc) == CHOOSE f : f = Compare(S, pc, f)

(* dispatch is the binary search over the leaders. *)
LEMMA DispatchSearches ==
    ASSUME NEW p, NEW b, NEW e, NEW pc
    PROVE  dispatch(p, b, e, pc) = Search(leaders(p, b, e), pc)[<<0, Cardinality(leaders(p, b, e))>>]
  BY DEF dispatch, Search, Compare, StartOf, Rank

(* Between two different bounds lies a middle. *)
LEMMA Middle ==
    ASSUME NEW first \in Nat, NEW last \in Nat
    PROVE  LET middle == first + (last - first) \div 2
           IN  /\ first < last /\ last - first # 1 => first < middle /\ middle < last
               /\ first <= last => middle \in first .. last
               /\ last < first => middle \in last .. first-1
               /\ middle \in Int
  OBVIOUS

(* The comparisons come to an end: there is a function that satisfies their *)
(* recursion.                                                               *)
LEMMA SearchUnfolds ==
    ASSUME NEW S \in SUBSET Nat, IsFiniteSet(S), NEW s \in S
    PROVE  Search(S, s) = Compare(S, s, Search(S, s))
<1> DEFINE N == Cardinality(S)
           k == Rank(S, s)
           Value0(first, last) ==
               IF last <= first THEN 0
               ELSE IF k < first THEN StartOf(S, first)
               ELSE IF k >= last THEN StartOf(S, last-1)
               ELSE StartOf(S, k)
           G == [x \in (0 .. N) \X (0 .. N) |-> Value0(x[1], x[2])]
           Step(first, last) ==
               LET middle == first + (last - first) \div 2
               IN  IF last - first = 1 THEN StartOf(S, first)
                   ELSE IF s < StartOf(S, middle) THEN G[<<first, middle>>]
                   ELSE G[<<middle, last>>]
<1>1. N \in Nat /\ k \in 0 .. N-1
  BY Ranks
<1>2. \A m \in 0 .. N-1 : s < StartOf(S, m) <=> k < m
  BY Ranks, Zenon
<1>3. \A first, last \in 0 .. N : G[<<first, last>>] = Value0(first, last)
  OBVIOUS
<1>4. ASSUME NEW first \in 0 .. N, NEW last \in 0 .. N
      PROVE  G[<<first, last>>] = Step(first, last)
  <2> DEFINE m == first + (last - first) \div 2
  <2>1. /\ first < last /\ last - first # 1 => first < m /\ m < last
        /\ first <= last => m \in first .. last
        /\ last < first => m \in last .. first-1
        /\ m \in Int
    BY <1>1, Middle
  <2>2. m \in 0 .. N
    BY <1>1, <2>1
  <2>3. Step(first, last) = IF last - first = 1 THEN StartOf(S, first)
                            ELSE IF s < StartOf(S, m) THEN Value0(first, m) ELSE Value0(m, last)
    <3>1. G[<<first, m>>] = Value0(first, m) /\ G[<<m, last>>] = Value0(m, last)
      BY <1>3, <2>2
    <3> HIDE DEF G, Value0
    <3> QED BY <3>1
  <2>4. G[<<first, last>>] = Value0(first, last)
    BY <1>3
  <2> HIDE DEF G, Step, m, N, k
  <2>5. CASE last <= first
    BY <1>1, <2>1, <2>2, <2>3, <2>4, <2>5
  <2>6. CASE last - first = 1
    BY <1>1, <2>1, <2>2, <2>3, <2>4, <2>6
  <2>7. CASE first < last /\ last - first # 1
    <3>1. first < m /\ m < last /\ m \in 0 .. N-1
      BY <1>1, <2>1, <2>2, <2>7
    <3>2. CASE k < m
      <4>1. Step(first, last) = Value0(first, m)
        BY <1>2, <2>3, <2>7, <3>1, <3>2
      <4> QED BY <1>1, <2>4, <3>1, <3>2, <4>1
    <3>3. CASE ~ (k < m)
      <4>1. Step(first, last) = Value0(m, last)
        BY <1>2, <2>3, <2>7, <3>1, <3>3
      <4> QED BY <1>1, <2>4, <3>1, <3>3, <4>1
    <3> QED BY <3>2, <3>3
  <2> QED BY <1>1, <2>5, <2>6, <2>7
<1>5. G = Compare(S, s, G)
  <2>1. Compare(S, s, G) = [x \in (0 .. N) \X (0 .. N) |-> Step(x[1], x[2])]
    BY DEF Compare
  <2>2. G = [x \in (0 .. N) \X (0 .. N) |-> G[<<x[1], x[2]>>]]
    OBVIOUS
  <2> HIDE DEF G, Step
  <2> QED BY <1>4, <2>1, <2>2
<1> HIDE DEF G
<1> QED BY <1>5 DEF Search

(* A value that is the start of a block selects this block. *)
LEMMA SearchFinds ==
    ASSUME NEW S \in SUBSET Nat, IsFiniteSet(S), NEW s \in S
    PROVE  Search(S, s)[<<0, Cardinality(S)>>] = s
<1> DEFINE N == Cardinality(S)
           k == Rank(S, s)
           h == Search(S, s)
           Bad == {d \in Nat : \E first, last \in 0 .. N :
                      first <= k /\ k < last /\ last - first = d /\ h[<<first, last>>] # s}
<1>1. N \in Nat /\ k \in 0 .. N-1
  BY Ranks
<1>2. \A m \in 0 .. N-1 : s < StartOf(S, m) <=> k < m
  BY Ranks, Zenon
<1>3. StartOf(S, k) = s
  <2>1. StartOf(S, k) \in S /\ Rank(S, StartOf(S, k)) = k
    BY <1>1, Ranks
  <2> DEFINE x == StartOf(S, k)
  <2>2. /\ x < s <=> Rank(S, x) < Rank(S, s)
        /\ s < x <=> Rank(S, s) < Rank(S, x)
    BY <2>1, Ranks, Zenon
  <2>3. x \in Nat /\ s \in Nat
    BY <2>1
  <2>4. Rank(S, x) = Rank(S, s) /\ Rank(S, s) \in Int
    BY <1>1, <2>1
  <2> HIDE DEF x
  <2>5. x = s
    BY <2>2, <2>3, <2>4
  <2> QED BY <2>5 DEF x
<1>4. \A first, last \in 0 .. N :
         h[<<first, last>>] = LET middle == first + (last - first) \div 2
                          IN  IF last - first = 1 THEN StartOf(S, first)
                              ELSE IF s < StartOf(S, middle) THEN h[<<first, middle>>]
                              ELSE h[<<middle, last>>]
  <2>1. h = Compare(S, s, h)
    BY SearchUnfolds
  <2> HIDE DEF h
  <2> QED BY <2>1 DEF Compare
<1> HIDE DEF N, k, h
<1>5. Bad = {}
  <2> SUFFICES ASSUME Bad # {} PROVE FALSE
    OBVIOUS
  <2>1. PICK d \in Bad : \A x \in Bad : d <= x
    BY LeastNumber
  <2>2. PICK first \in 0 .. N, last \in 0 .. N :
            first <= k /\ k < last /\ last - first = d /\ h[<<first, last>>] # s
    BY <2>1
  <2> DEFINE m == first + (last - first) \div 2
  <2>3. CASE last - first = 1
    <3>1. first = k
      BY <1>1, <2>2, <2>3
    <3> QED BY <1>3, <1>4, <2>2, <2>3, <3>1
  <2>4. CASE last - first # 1
    <3>1. first < m /\ m < last /\ m \in 0 .. N-1 /\ m \in 0 .. N
      BY <1>1, <2>2, <2>4, Middle
    <3>2. h[<<first, last>>] = IF s < StartOf(S, m) THEN h[<<first, m>>] ELSE h[<<m, last>>]
      BY <1>4, <2>4
    <3> HIDE DEF m
    <3>3. CASE k < m
      <4>1. h[<<first, m>>] # s /\ m - first \in Nat /\ m - first < d
        BY <1>1, <1>2, <2>2, <3>1, <3>2, <3>3
      <4>2. m - first \in Bad
        BY <1>1, <2>2, <3>1, <3>3, <4>1
      <4> HIDE DEF Bad
      <4> QED BY <1>1, <2>1, <2>2, <4>1, <4>2
    <3>4. CASE ~ (k < m)
      <4>1. h[<<m, last>>] # s /\ last - m \in Nat /\ last - m < d
        BY <1>1, <1>2, <2>2, <3>1, <3>2, <3>4
      <4>2. last - m \in Bad /\ d \in Nat
        <5>1. m <= k
          BY <1>1, <3>1, <3>4
        <5> QED BY <1>1, <2>2, <3>1, <4>1, <5>1
      <4> HIDE DEF Bad
      <4> QED BY <1>1, <2>1, <2>2, <4>1, <4>2
    <3> QED BY <3>3, <3>4
  <2> QED BY <2>3, <2>4
<1>6. N \in Nat /\ 0 \in 0 .. N /\ N \in 0 .. N /\ 0 <= k /\ k < N /\ N - 0 = N
  BY <1>1
<1>7. h[<<0, N>>] = s
  BY <1>5, <1>6
<1> QED BY <1>7 DEF h, N

-----------------------------------------------------------------------------
(* The control flow of the text. *)

(* What is rendered: valid code, as a loop, with a loop in it or without.   *)
Rendered ==
    /\ Valid(code)
    /\ mode \in {"dispatcher", "region", "structured"}
    /\ begin \in 0 .. Size(code) /\ end \in 0 .. Size(code)
    /\ mode = "dispatcher" => begin = 0 /\ end = Size(code)
    /\ mode = "structured" => begin = Size(code) /\ end = Size(code)
    /\ mode = "region" => isSingleEntryExitRegion(code, begin, end)

(* What is known of the numbers in it. *)
LEMMA RenderedNumbers ==
    ASSUME Rendered
    PROVE  /\ Size(code) \in Nat \ {0} /\ DOMAIN code = 0 .. Size(code)-1
           /\ begin \in Nat /\ end \in Nat /\ end <= Size(code)
           /\ \A t : Boundary(code, t) => t \in Nat /\ t \in 0 .. Size(code)-1
  BY CodeShape DEF Rendered, Valid, Boundary

(* The leaders are finitely many instructions of the region, and its        *)
(* first one is among them.                                                 *)
LEMMA LeadersInRegion ==
    ASSUME Rendered, InLoop
    PROVE  /\ leaders(code, begin, end) \subseteq Region
           /\ leaders(code, begin, end) \in SUBSET Nat
           /\ IsFiniteSet(leaders(code, begin, end))
           /\ \A s \in leaders(code, begin, end) : s = begin \/ Boundary(code, s)
<1>1. begin \in Nat /\ end \in Nat
  BY RenderedNumbers
<1>2. begin \in Region
  BY <1>1 DEF InLoop, Region
<1>3. leaders(code, begin, end) \subseteq Region
  BY <1>2 DEF leaders, Region
<1>4. IsFiniteSet(Region) /\ Region \subseteq Nat
  BY <1>1, FS_Interval DEF Region
<1>5. IsFiniteSet(leaders(code, begin, end))
  BY <1>3, <1>4, FS_Subset
<1> QED BY <1>3, <1>4, <1>5 DEF leaders

(* The only way out of the loop goes to its end, the only way in to begin.  *)
LEMMA RegionExits ==
    ASSUME Rendered, Boundary(code, at), NEW t \in controlSuccessors(code, at)
    PROVE  /\ InLoop /\ t \notin Region => t = end
           /\ ~ InLoop /\ t \in Region => t = begin
<1>1. Boundary(code, t)
  BY SuccessorsOf DEF Rendered
<1>2. Size(code) \in Nat \ {0} /\ DOMAIN code = 0 .. Size(code)-1 /\ begin \in Nat /\ end \in Nat
  BY RenderedNumbers
<1>3. at \in DOMAIN code /\ t \in DOMAIN code
  BY <1>1 DEF Boundary
<1>4. CASE mode = "region"
  <2> DEFINE entries == {u \in Region : \E s \in DOMAIN code \ Region : u \in controlSuccessors(code, s)}
                          \cup (IF begin = 0 THEN {0} ELSE {})
             outgoing == UNION {controlSuccessors(code, s) : s \in Region}
             exits == outgoing \ Region
  <2>1. isSingleEntryExitRegion(code, begin, end)
    BY <1>4 DEF Rendered
  <2>2. entries = {begin} /\ exits = {end}
    BY <2>1, Zenon DEF isSingleEntryExitRegion, Region
  <2>3. ASSUME InLoop, t \notin Region PROVE t = end
    <3>1. t \in exits
      <4>1. \E s \in Region : t \in controlSuccessors(code, s)
        BY <2>3 DEF InLoop
      <4>2. t \in outgoing
        BY <4>1, Zenon
      <4> HIDE DEF outgoing
      <4> QED BY <2>3, <4>2
    <3> HIDE DEF exits
    <3> QED BY <2>2, <3>1
  <2>4. ASSUME ~ InLoop, t \in Region PROVE t = begin
    <3>1. t \in entries
      BY <1>3, <2>4 DEF InLoop
    <3> HIDE DEF entries
    <3> QED BY <2>2, <3>1
  <2> QED BY <2>3, <2>4
<1>5. CASE mode = "dispatcher"
  BY <1>2, <1>3, <1>5 DEF Rendered, InLoop, Region
<1>6. CASE mode = "structured"
  BY <1>2, <1>3, <1>6 DEF Rendered, InLoop, Region
<1> QED BY <1>4, <1>5, <1>6 DEF Rendered

(* The pc variable selects the instruction it was set to. *)
LEMMA AssignGoes ==
    ASSUME Rendered, Boundary(code, at), NEW t \in controlSuccessors(code, at), Assign(t),
           InLoop /\ t \in Region => t \in leaders(code, begin, end)
    PROVE  at' = t
<1>1. CASE InLoop /\ t \in Region
  <2> DEFINE S == leaders(code, begin, end)
  <2>1. at' = dispatch(code, begin, end, t)
    BY <1>1 DEF Assign
  <2>2. dispatch(code, begin, end, t) = Search(S, t)[<<0, Cardinality(S)>>]
    BY DispatchSearches
  <2>3. S \in SUBSET Nat /\ IsFiniteSet(S) /\ t \in S
    BY <1>1, LeadersInRegion
  <2> HIDE DEF S
  <2>4. Search(S, t)[<<0, Cardinality(S)>>] = t
    BY <2>3, SearchFinds
  <2> QED BY <2>1, <2>2, <2>4
<1>2. CASE InLoop /\ t \notin Region
  <2>1. at' = end
    BY <1>2 DEF Assign
  <2> QED BY <1>2, <2>1, RegionExits
<1>3. CASE ~ InLoop /\ t \in Region
  <2>1. at' = begin
    BY <1>3 DEF Assign
  <2> QED BY <1>3, <2>1, RegionExits
<1>4. CASE ~ InLoop /\ t \notin Region
  BY <1>4 DEF Assign
<1> QED BY <1>1, <1>2, <1>3, <1>4

(* A branch goes to its target. *)
LEMMA BranchGoes ==
    ASSUME Rendered, Boundary(code, at), hasTarget(I), NEW t \in controlSuccessors(code, at), Assign(t)
    PROVE  at' = t
<1>1. InLoop /\ t \in Region => t \in leaders(code, begin, end)
  BY BranchLeaders DEF Rendered, InLoop, Region, I
<1> QED BY <1>1, AssignGoes

(* An instruction that is not a branch is followed by the next one, be it   *)
(* in its block or the first of the next block.                             *)
LEMMA ContinueGoes ==
    ASSUME Rendered, Boundary(code, at), NEW next, controlSuccessors(code, at) = {next},
           next = at + 1 \/ (next = at + 2 /\ ~ Boundary(code, at + 1)), Continue(next)
    PROVE  at' = next
<1> DEFINE S == leaders(code, begin, end)
           later == {s \in S : s > at} \cup {end}
           last == blockEnd(code, begin, end, at)
<1>1. Boundary(code, next)
  BY SuccessorsOf DEF Rendered
<1>2. /\ Size(code) \in Nat \ {0} /\ DOMAIN code = 0 .. Size(code)-1
      /\ begin \in Nat /\ end \in Nat /\ end <= Size(code)
      /\ at \in 0 .. Size(code)-1 /\ next \in 0 .. Size(code)-1
  BY <1>1, RenderedNumbers DEF Boundary
<1>3. CASE ~ InLoop
  <2>1. Assign(next)
    BY <1>3 DEF Continue
  <2> QED BY <1>3, <2>1, AssignGoes
<1>4. CASE InLoop
  <2>1. begin <= at /\ at < end
    BY <1>2, <1>4 DEF InLoop, Region
  <2>2. /\ S \in SUBSET Nat /\ S \subseteq Region
        /\ \A s \in S : s = begin \/ Boundary(code, s)
    BY <1>4, LeadersInRegion
  <2>3. last = Min(later)
    BY DEF blockEnd
  <2> HIDE DEF S, last
  <2>4. later \in SUBSET Nat /\ later # {}
    BY <1>2, <2>2
  <2>5. last \in later /\ \A y \in later : last <= y
    BY <2>3, <2>4, MinOf
  <2>6. last \in Nat /\ at < last
    BY <1>2, <2>1, <2>2, <2>5
  <2>7. CASE next < last
    BY <1>4, <2>7 DEF Continue, last
  <2>8. CASE ~ (next < last)
    <3>1. Assign(last)
      BY <1>4, <2>8 DEF Continue, last
    <3>2. next \notin Region => next = end
      BY <1>4, RegionExits
    <3>3. last = next
      <4>1. CASE next = at + 1
        BY <1>2, <2>6, <2>8, <4>1
      <4>2. CASE next = at + 2 /\ ~ Boundary(code, at + 1)
        <5>1. last # at + 1
          <6> SUFFICES ASSUME last = at + 1 PROVE FALSE
            OBVIOUS
          <6>1. CASE last \in S
            BY <1>2, <2>1, <2>2, <4>2, <6>1
          <6>2. CASE last = end
            <7>1. next \notin Region
              BY <1>2, <4>2, <6>2 DEF Region
            <7> QED BY <1>2, <3>2, <4>2, <6>2, <7>1
          <6> QED BY <2>5, <6>1, <6>2
        <5> QED BY <1>2, <2>6, <2>8, <4>2, <5>1
      <4> QED BY <4>1, <4>2
    <3>4. next \in Region => next \in S
      BY <1>2, <2>5, <3>3 DEF Region
    <3> QED BY <3>1, <3>3, <3>4, AssignGoes DEF S
  <2> QED BY <2>7, <2>8
<1> QED BY <1>3, <1>4

(* A plain instruction. *)
LEMMA PlainGoes ==
    ASSUME Rendered, Boundary(code, at), Plain(I), Continue(at + 1)
    PROVE  at' = at + 1 /\ at' \in controlSuccessors(code, at)
<1>1. controlSuccessors(code, at) = {at + 1}
  BY SuccessorsOf DEF Rendered, I
<1> QED BY <1>1, ContinueGoes

(* An instruction followed by a record that belongs to it. *)
LEMMA SkipGoes ==
    ASSUME Rendered, Boundary(code, at), Continue(at + 2),
           I.op = "CLOSURE" \/ (I.op = "SETLIST" /\ I.c = 0)
    PROVE  at' = at + 2 /\ at' \in controlSuccessors(code, at)
<1>1. controlSuccessors(code, at) = {at + 2}
  BY SuccessorsOf DEF Rendered, I
<1>2. ~ Boundary(code, at + 1)
  BY BoundaryAfter DEF Rendered, I, Boundary
<1> QED BY <1>1, <1>2, ContinueGoes

(* Where the text is after each statement. *)
Goes(next) == Boundary(code, at) /\ at' = next /\ at' \in controlSuccessors(code, at)

(* A LOADBOOL that skips an instruction is not left out. *)
LEMMA OmittedIsPlain ==
    ASSUME at \in Nat, Omitted, I.op = "LOADBOOL"
    PROVE  I.c = 0
<1>1. PICK e : canOmitArgumentSetup(code, at, e)
  BY DEF Omitted
<1>2. PICK call \in argumentCalls(code, at, e) :
        \A pc \in at .. call-1 : safeArgumentSetup(code, pc, code[call].a + 1, code[call].a + code[call].b - 1)
  BY <1>1 DEF canOmitArgumentSetup
<1>3. at \in at .. call-1
  BY <1>2 DEF argumentCalls
<1> QED BY <1>2, <1>3 DEF safeArgumentSetup, I

(* Where each statement goes. *)
LEMMA StatementGoes ==
    ASSUME Rendered, at = Returned \/ Boundary(code, at)
    PROVE  /\ AssignSimple => Goes(IF I.op = "LOADBOOL" /\ I.c # 0 THEN at + 2 ELSE at + 1)
           /\ OmitArgumentSetup => Goes(at + 1)
           /\ EmitJmp \/ EmitForPrep => Goes(target(code, at))
           /\ isTest(I.op) \/ I.op = "TFORLOOP" =>
                 /\ at \in DOMAIN code /\ Assign(followingControlTarget(code, at))
                      => Goes(followingControlTarget(code, at))
                 /\ at \in DOMAIN code /\ Assign(at + 2) => Goes(at + 2)
           /\ Statement("FORLOOP") /\ Assign(target(code, at)) => Goes(target(code, at))
           /\ Statement("FORLOOP") /\ Assign(at + 1) => Goes(at + 1)
           /\ EmitSetList => Goes(IF I.c = 0 THEN at + 2 ELSE at + 1)
           /\ EmitClosure => Goes(at + 2)
           /\ EmitClose \/ EmitCall => Goes(at + 1)
<1> USE DEF Goes, I
<1>1. at \in DOMAIN code => Boundary(code, at)
  BY RenderedNumbers DEF Returned, Vm!Returned
<1>2. ASSUME AssignSimple PROVE Goes(IF I.op = "LOADBOOL" /\ I.c # 0 THEN at + 2 ELSE at + 1)
  <2>1. at \in DOMAIN code /\ I.op \in {"LOADK", "LOADNIL", "MOVE", "LOADBOOL"} /\ Boundary(code, at)
    BY <1>1, <1>2 DEF AssignSimple, Statement
  <2>2. CASE I.op = "LOADBOOL" /\ I.c # 0
    <3>1. hasTarget(I) /\ at + 2 \in controlSuccessors(code, at)
      BY <2>1, <2>2, SuccessorsOf DEF hasTarget, Rendered
    <3>2. Assign(at + 2)
      BY <1>2, <2>2 DEF AssignSimple
    <3> QED BY <2>1, <2>2, <3>1, <3>2, BranchGoes
  <2>3. CASE ~ (I.op = "LOADBOOL" /\ I.c # 0)
    <3>1. Plain(I)
      BY <2>1, <2>3 DEF Plain, hasTarget, isTest, isCondition
    <3>2. Continue(at + 1)
      BY <1>2, <2>3 DEF AssignSimple
    <3> QED BY <2>1, <2>3, <3>1, <3>2, PlainGoes
  <2> QED BY <2>2, <2>3
<1>3. ASSUME OmitArgumentSetup PROVE Goes(at + 1)
  <2>1. at \in DOMAIN code /\ I.op \in {"LOADK", "LOADNIL", "MOVE", "LOADBOOL"} /\ Continue(at + 1)
    BY <1>3 DEF OmitArgumentSetup, Statement
  <2>2. I.op = "LOADBOOL" => I.c = 0
    BY <1>3, <2>1, RenderedNumbers, OmittedIsPlain DEF OmitArgumentSetup
  <2>3. Plain(I)
    BY <2>1, <2>2 DEF Plain, hasTarget, isTest, isCondition
  <2> QED BY <1>1, <2>1, <2>3, PlainGoes
<1>4. ASSUME EmitJmp \/ EmitForPrep PROVE Goes(target(code, at))
  <2>1. at \in DOMAIN code /\ I.op \in {"JMP", "FORPREP"} /\ Assign(target(code, at))
    BY <1>4 DEF EmitJmp, EmitForPrep, Statement
  <2>2. hasTarget(I) /\ target(code, at) \in controlSuccessors(code, at)
    BY <1>1, <2>1, SuccessorsOf DEF hasTarget, Rendered
  <2> QED BY <1>1, <2>1, <2>2, BranchGoes
<1>5. ASSUME isTest(I.op) \/ I.op = "TFORLOOP", at \in DOMAIN code,
             NEW t \in {followingControlTarget(code, at), at + 2}, Assign(t)
      PROVE  Goes(t)
  <2>1. hasTarget(I) /\ t \in controlSuccessors(code, at)
    BY <1>1, <1>5, SuccessorsOf DEF hasTarget, Rendered
  <2> QED BY <1>1, <1>5, <2>1, BranchGoes
<1>6. ASSUME Statement("FORLOOP"), NEW t \in {target(code, at), at + 1}, Assign(t) PROVE Goes(t)
  <2>1. hasTarget(I) /\ t \in controlSuccessors(code, at) /\ at \in DOMAIN code
    BY <1>1, <1>6, SuccessorsOf DEF hasTarget, Rendered, Statement
  <2> QED BY <1>1, <1>6, <2>1, BranchGoes
<1>7. ASSUME EmitSetList PROVE Goes(IF I.c = 0 THEN at + 2 ELSE at + 1)
  <2>1. at \in DOMAIN code /\ I.op = "SETLIST" /\ Continue(IF I.c = 0 THEN at + 2 ELSE at + 1)
    BY <1>7 DEF EmitSetList, Statement
  <2>2. CASE I.c = 0
    BY <1>1, <2>1, <2>2, SkipGoes
  <2>3. CASE I.c # 0
    <3>1. Plain(I)
      BY <2>1, <2>3 DEF Plain, hasTarget, isTest, isCondition
    <3> QED BY <1>1, <2>1, <2>3, <3>1, PlainGoes
  <2> QED BY <2>2, <2>3
<1>8. ASSUME EmitClosure PROVE Goes(at + 2)
  <2>1. at \in DOMAIN code /\ I.op = "CLOSURE" /\ Continue(at + 1 + I.c)
    BY <1>8 DEF EmitClosure, Statement
  <2>2. at + 1 + I.c = at + 2
    BY <2>1, RenderedNumbers, CodeShape DEF Rendered, Valid
  <2> QED BY <1>1, <2>1, <2>2, SkipGoes
<1>9. ASSUME EmitClose \/ EmitCall PROVE Goes(at + 1)
  <2>1. at \in DOMAIN code /\ I.op \in {"CLOSE", "CALL"} /\ Continue(at + 1)
    BY <1>9 DEF EmitClose, EmitCall, Statement
  <2>2. Plain(I)
    BY <2>1 DEF Plain, hasTarget, isTest, isCondition
  <2> QED BY <1>1, <2>1, <2>2, PlainGoes
<1> QED BY <1>2, <1>3, <1>4, <1>5, <1>6, <1>7, <1>8, <1>9

(* What is rendered stays, and the text is at the start of an instruction.  *)
ControlInv == Rendered /\ (at = Returned \/ Boundary(code, at))

(* It holds at the start. *)
LEMMA ControlInit == Init => ControlInv
<1> SUFFICES ASSUME Init PROVE ControlInv
  OBVIOUS
<1>1. mode \in {"dispatcher", "region", "structured"} /\ code \in Programs[mode]
      /\ validateProtoData(code) /\ Compiled(code)
  BY DEF Init
<1>2. Valid(code)
  BY <1>1, TextAssumption DEF Valid
<1>3. begin \in 0 .. Size(code) /\ end \in 0 .. Size(code) /\ at = 0
  BY DEF Init
<1>4. ASSUME mode = "dispatcher" PROVE Rendered
  BY <1>1, <1>2, <1>3, <1>4 DEF Init, Rendered
<1>5. ASSUME mode = "structured" PROVE Rendered
  BY <1>1, <1>2, <1>3, <1>5 DEF Init, Rendered
<1>6. ASSUME mode = "region" PROVE Rendered
  BY <1>1, <1>2, <1>3, <1>6 DEF Init, Rendered
<1>7. Rendered
  BY <1>1, <1>4, <1>5, <1>6
<1>8. 0 \in DOMAIN code
  BY <1>7, RenderedNumbers
<1>9. Boundary(code, 0)
  BY <1>8 DEF Boundary, extraWord, closureBinding
<1> QED BY <1>3, <1>7, <1>9 DEF ControlInv

(* Every step keeps it and follows an edge. *)
LEMMA ControlStep ==
    ASSUME ControlInv, [Next]_vars
    PROVE  ControlInv' /\ (at' \in controlSuccessors(code, at) \/ EmitReturn \/ Ended \/ UNCHANGED vars)
<1>1. Rendered /\ (at = Returned \/ Boundary(code, at))
  BY DEF ControlInv
<1>2. UNCHANGED <<code, mode, begin, end>>
  BY DEF Next, vars, Fixed, Store, AssignSimple, OmitArgumentSetup, EmitJmp, EmitCondition, EmitTestSet,
         EmitForPrep, EmitForLoop, EmitTForLoop, EmitSetList, EmitClosure, EmitClose, EmitCall,
         EmitReturn, Ended
<1>3. Rendered'
  BY <1>1, <1>2 DEF Rendered
<1>4. (Boundary(code, at) /\ at' \in controlSuccessors(code, at)) \/ EmitReturn \/ Ended \/ UNCHANGED vars
  <2>1. CASE AssignSimple \/ OmitArgumentSetup \/ EmitJmp \/ EmitForPrep \/ EmitSetList
             \/ EmitClosure \/ EmitClose \/ EmitCall
    BY <1>1, <2>1, StatementGoes DEF Goes
  <2>2. CASE EmitCondition
    <3>1. at \in DOMAIN code /\ isTest(I.op)
      BY <2>2 DEF EmitCondition, Statement, isTest, isCondition
    <3>2. Assign(followingControlTarget(code, at)) \/ Assign(at + 2)
      BY <2>2 DEF EmitCondition
    <3> QED BY <1>1, <3>1, <3>2, StatementGoes DEF Goes
  <2>3. CASE EmitTestSet
    <3>1. at \in DOMAIN code /\ isTest(I.op)
      BY <2>3 DEF EmitTestSet, Statement, isTest, isCondition
    <3>2. Assign(followingControlTarget(code, at)) \/ Assign(at + 2)
      BY <2>3 DEF EmitTestSet
    <3> QED BY <1>1, <3>1, <3>2, StatementGoes DEF Goes
  <2>4. CASE EmitTForLoop
    <3>1. at \in DOMAIN code /\ I.op = "TFORLOOP"
      BY <2>4 DEF EmitTForLoop, Statement
    <3>2. Assign(followingControlTarget(code, at)) \/ Assign(at + 2)
      BY <2>4 DEF EmitTForLoop
    <3> QED BY <1>1, <3>1, <3>2, StatementGoes DEF Goes
  <2>5. CASE EmitForLoop
    <3>1. Statement("FORLOOP") /\ (Assign(target(code, at)) \/ Assign(at + 1))
      BY <2>5 DEF EmitForLoop
    <3> QED BY <1>1, <3>1, StatementGoes DEF Goes
  <2> QED BY <2>1, <2>2, <2>3, <2>4, <2>5 DEF Next
<1>5. (at = Returned \/ Boundary(code, at))'
  <2>1. CASE Ended \/ UNCHANGED vars
    BY <1>1, <1>2, <2>1 DEF Ended, vars, Returned, Vm!Returned
  <2>2. CASE EmitReturn
    BY <2>2 DEF EmitReturn, Returned, Vm!Returned
  <2>3. CASE Boundary(code, at) /\ at' \in controlSuccessors(code, at)
    BY <1>1, <1>2, <2>3, SuccessorsOf DEF Rendered
  <2> QED BY <1>4, <2>1, <2>2, <2>3
<1> QED BY <1>3, <1>4, <1>5 DEF ControlInv

(* It holds throughout. *)
LEMMA ControlInvariance == Spec => []ControlInv
<1>1. ControlInv /\ [Next]_vars => ControlInv'
  BY ControlStep
<1> QED BY <1>1, ControlInit, PTL DEF Spec

(* The text follows the graph of buildControlFlowGraph: the loop selects    *)
(* exactly the block that the pc variable names, whatever the blocks are.   *)
THEOREM FollowsGraphTheorem == Spec => FollowsGraph
<1>1. ControlInv /\ [Next]_vars => [at' \in controlSuccessors(code, at) \cup {Returned}]_at
  BY ControlStep DEF EmitReturn, Ended, vars
<1> QED BY <1>1, ControlInvariance, PTL DEF Spec, FollowsGraph

-----------------------------------------------------------------------------
(* The assignments that are left out. *)

(* The assignment of r at setup, which prepares the call, was left out, and *)
(* on the way to pc r was not set again.                                    *)
Prepared(p, setup, call, r, pc) ==
    /\ setup \in DOMAIN p /\ setup < pc
    /\ call \in setup+1 .. Size(p)-1
    /\ p[call].op \in {"CALL", "TAILCALL"}
    /\ \A q \in setup .. call-1 : isSetup(p[q].op) /\ (p[q].op = "LOADBOOL" => p[q].c = 0)
    /\ r \in writesRegister(p, setup)
    /\ ~ registerMayBeReadAfterCall(p, call, r)
    /\ \A q \in setup+1 .. call-1 :
          r \in readsRegister(p, q) => \E s \in setup+1 .. q-1 : r \in writesRegister(p, s)
    /\ \A q \in setup+1 .. pc-1 : r \notin writesRegister(p, q)
    /\ \A q \in call+1 .. pc-1 : p[q].op \notin {"TAILCALL", "RETURN"}

(* canOmitArgumentSetup finds the call that the setup prepares. *)
LEMMA OmittedIsPrepared ==
    ASSUME NEW p, Valid(p), NEW pc \in DOMAIN p, NEW e \in 0 .. Size(p), canOmitArgumentSetup(p, pc, e),
           NEW r \in writesRegister(p, pc)
    PROVE  \E call : Prepared(p, pc, call, r, pc + 1)
<1>1. Size(p) \in Nat \ {0} /\ DOMAIN p = 0 .. Size(p)-1 /\ pc \in Nat
  BY CodeShape DEF Valid
<1>2. PICK call \in argumentCalls(p, pc, e) :
        /\ \A q \in pc .. call-1 : safeArgumentSetup(p, q, p[call].a + 1, p[call].a + p[call].b - 1)
        /\ ~ registerMayBeReadAfterCall(p, call, r)
        /\ \A q \in pc+1 .. call-1 :
              r \in readsRegister(p, q) => \E s \in pc+1 .. q-1 : r \in writesRegister(p, s)
  BY DEF canOmitArgumentSetup
<1>3. call \in pc+1 .. Size(p)-1 /\ p[call].op \in {"CALL", "TAILCALL"}
  <2>1. Min({e, pc + 34}) \in {e, pc + 34} /\ Min({e, pc + 34}) <= e
    <3> DEFINE T == {e, pc + 34}
    <3>1. T \in SUBSET Nat /\ e \in T
      BY <1>1
    <3> HIDE DEF T
    <3>2. Min(T) \in T /\ Min(T) <= e
      BY <3>1, MinOf
    <3> QED BY <3>2 DEF T
  <2>2. call \in pc+1 .. Min({e, pc + 34})-1 /\ p[call].op \in {"CALL", "TAILCALL"}
    BY <1>2 DEF argumentCalls
  <2> QED BY <1>1, <2>1, <2>2
<1>4. \A q \in pc .. call-1 : isSetup(p[q].op) /\ (p[q].op = "LOADBOOL" => p[q].c = 0)
  BY <1>2 DEF safeArgumentSetup
<1>5. (pc+1 .. (pc+1)-1 = {}) /\ (call+1 .. (pc+1)-1 = {}) /\ pc < pc+1
  BY <1>1, <1>3
<1> QED BY <1>2, <1>3, <1>4, <1>5 DEF Prepared

(* Only the call uses the value. *)
LEMMA PreparedUnread ==
    ASSUME NEW p, Valid(p), NEW pc \in DOMAIN p, NEW setup, NEW call, NEW r, Prepared(p, setup, call, r, pc)
    PROVE  /\ target(p, pc) = NoTarget
           /\ pc # call => r \notin readsRegister(p, pc)
           /\ \A m \in setup+1 .. pc-1 : m # call => r \notin readsRegister(p, m)
<1>1. Size(p) \in Nat \ {0} /\ DOMAIN p = 0 .. Size(p)-1 /\ pc \in Nat /\ setup \in Nat /\ call \in Nat
      /\ setup < call /\ setup < pc
  <2>1. Size(p) \in Nat \ {0} /\ DOMAIN p = 0 .. Size(p)-1
    BY CodeShape DEF Valid
  <2> QED BY <2>1 DEF Prepared
<1>2. ASSUME NEW m \in setup+1 .. pc, m # call PROVE r \notin readsRegister(p, m)
  <2>1. CASE m < call
    <3>1. m \in setup+1 .. call-1 /\ \A s \in setup+1 .. m-1 : s \in setup+1 .. pc-1
      BY <1>1, <2>1
    <3> QED BY <3>1 DEF Prepared
  <2>2. CASE m > call
    <3>1. m \in call+1 .. Size(p)-1 /\ \A q \in call+1 .. m-1 : q \in setup+1 .. pc-1 /\ q \in call+1 .. pc-1
      BY <1>1, <2>2
    <3>2. \A q \in call+1 .. m-1 : p[q].op \notin {"TAILCALL", "RETURN"} /\ r \notin writesRegister(p, q)
      BY <3>1 DEF Prepared
    <3> QED BY <3>1, <3>2 DEF Prepared, registerMayBeReadAfterCall
  <2> QED BY <1>1, <1>2, <2>1, <2>2
<1>3. target(p, pc) = NoTarget
  <2>1. CASE pc < call
    <3>1. pc \in setup .. call-1
      BY <1>1, <2>1
    <3>2. isSetup(p[pc].op) /\ (p[pc].op = "LOADBOOL" => p[pc].c = 0)
      BY <3>1 DEF Prepared
    <3> QED BY <3>2 DEF isSetup, target, isTest, isCondition
  <2>2. CASE pc = call
    BY <2>2 DEF Prepared, target, isTest, isCondition
  <2>3. CASE pc > call
    <3>1. pc \in call+1 .. Size(p)-1 /\ \A q \in call+1 .. pc-1 : q \in setup+1 .. pc-1
      BY <1>1, <2>3
    <3>2. \A q \in call+1 .. pc-1 : p[q].op \notin {"TAILCALL", "RETURN"} /\ r \notin writesRegister(p, q)
      BY <3>1 DEF Prepared
    <3> QED BY <3>1, <3>2 DEF Prepared, registerMayBeReadAfterCall
  <2> QED BY <1>1, <2>1, <2>2, <2>3
<1>4. pc \in setup+1 .. pc /\ \A m \in setup+1 .. pc-1 : m \in setup+1 .. pc
  BY <1>1
<1> QED BY <1>2, <1>3, <1>4 DEF Prepared

(* A setup that was left out stays prepared until its register is set. *)
LEMMA PreparedStep ==
    ASSUME NEW p, Valid(p), NEW pc, Boundary(p, pc), NEW t \in controlSuccessors(p, pc),
           NEW setup, NEW call, NEW r, Prepared(p, setup, call, r, pc), r \notin writesRegister(p, pc)
    PROVE  Prepared(p, setup, call, r, t)
<1>1. Size(p) \in Nat \ {0} /\ DOMAIN p = 0 .. Size(p)-1 /\ pc \in DOMAIN p /\ pc \in Nat
  BY CodeShape DEF Valid, Boundary
<1>3. t = pc + 1 \/ (t = pc + 2 /\ p[pc+1].op \in {"EXTRA", "MOVE"} /\ ~ Boundary(p, pc + 1))
  <2>1. ~ hasTarget(p[pc])
    <3>1. target(p, pc) = NoTarget
      BY <1>1, PreparedUnread
    <3>2. hasTarget(p[pc]) => target(p, pc) \in DOMAIN p
      BY <1>1 DEF Valid, validateProtoData, Boundary
    <3>3. NoTarget \notin DOMAIN p
      BY <1>1 DEF NoTarget
    <3> QED BY <3>1, <3>2, <3>3
  <2>2. CASE Plain(p[pc])
    BY <2>2, SuccessorsOf
  <2>3. CASE p[pc].op = "SETLIST" /\ p[pc].c = 0
    <3>1. t = pc + 2 /\ extraWord(p, pc + 1) /\ pc + 1 \in DOMAIN p
      BY <2>3, SuccessorsOf, BoundaryAfter
    <3>2. p[pc+1].op = "EXTRA" /\ ~ Boundary(p, pc + 1)
      BY <3>1 DEF Valid, validateProtoData, Boundary
    <3> QED BY <3>1, <3>2
  <2>4. CASE p[pc].op = "CLOSURE"
    <3>1. t = pc + 2 /\ closureBinding(p, pc + 1) /\ pc + 1 \in DOMAIN p
      BY <2>4, SuccessorsOf, BoundaryAfter
    <3>2. p[pc+1].op = "MOVE" /\ ~ Boundary(p, pc + 1)
      BY <3>1 DEF Valid, validateProtoData, Boundary
    <3> QED BY <3>1, <3>2
  <2>5. CASE p[pc].op \in {"TAILCALL", "RETURN"}
    BY <2>5 DEF controlSuccessors, isTest, isCondition
  <2> QED BY <2>1, <2>2, <2>3, <2>4, <2>5 DEF Plain
<1>2. setup \in Nat /\ call \in Nat /\ setup < call /\ setup < pc /\ t \in Nat /\ t > pc
  BY <1>1, <1>3 DEF Prepared
<1>4. p[pc].op \notin {"TAILCALL", "RETURN"}
  BY DEF controlSuccessors, isTest, isCondition
<1>5. ~ Boundary(p, pc + 1) => writesRegister(p, pc + 1) = {}
  BY DEF writesRegister
<1>6. \A q \in setup+1 .. t-1 : r \notin writesRegister(p, q)
  <2> SUFFICES ASSUME NEW q \in setup+1 .. t-1 PROVE r \notin writesRegister(p, q)
    OBVIOUS
  <2>1. q \in setup+1 .. pc-1 \/ q = pc \/ (q = pc + 1 /\ t # pc + 1)
    BY <1>1, <1>2, <1>3
  <2> QED BY <1>3, <1>5, <2>1 DEF Prepared
<1>7. \A q \in call+1 .. t-1 : p[q].op \notin {"TAILCALL", "RETURN"}
  <2> SUFFICES ASSUME NEW q \in call+1 .. t-1 PROVE p[q].op \notin {"TAILCALL", "RETURN"}
    OBVIOUS
  <2>1. q \in call+1 .. pc-1 \/ q = pc \/ (q = pc + 1 /\ t # pc + 1)
    BY <1>1, <1>2, <1>3
  <2> QED BY <1>3, <1>4, <2>1 DEF Prepared
<1>8. setup < t
  BY <1>1, <1>2
<1> QED BY <1>6, <1>7, <1>8 DEF Prepared

-----------------------------------------------------------------------------
(* What the text keeps: cells, variables, and the closures that share them. *)

Place == Register \X Generation

(* The registers have cells, the places have values, and every closure      *)
(* holds a place of a register that the code captures.                      *)
StorageInv ==
    /\ cell \in [Register -> Generation]
    /\ heap = [s \in Place |-> heap[s]]
    /\ \A s \in Place : heap[s] # NotUnset
    /\ unset = [r \in Register |-> unset[r]]
    /\ held \in Seq(Place) /\ Len(held) <= MaxClosures
    /\ \A k \in DOMAIN held : held[k][1] \in capturedRegisters(code)

(* No value is the mark of a register that is set. *)
LEMMA Marks ==
    ASSUME NEW n
    PROVE  /\ Nil # NotUnset /\ Vm!Nil # NotUnset /\ Vm!LoadedBy(n) # NotUnset
           /\ Vm!ResultOf(n) # NotUnset /\ Vm!StoredIn(n) # NotUnset /\ Vm!Argument(n) # NotUnset
           /\ Nil = Vm!Nil
<1>1. <<"nil">>[1] # <<"set">>[1]
  OBVIOUS
<1>2. <<"nil">> # <<"set">>
  BY <1>1
<1>3. <<"constant", n>> # <<"set">> /\ <<"result", n>> # <<"set">> /\ <<"stored", n>> # <<"set">>
      /\ <<"argument", n>> # <<"set">>
  OBVIOUS
<1> QED BY <1>2, <1>3 DEF Nil, Vm!Nil, NotUnset, Vm!LoadedBy, Vm!ResultOf, Vm!StoredIn, Vm!Argument

(* The parts of the storage, one by one. *)
LEMMA Held ==
    ASSUME StorageInv
    PROVE  /\ Len(held) \in Nat /\ DOMAIN held = 1 .. Len(held)
           /\ \A k \in DOMAIN held : /\ held[k] \in Place /\ held[k] = <<held[k][1], held[k][2]>>
                                     /\ held[k][1] \in Register /\ held[k][2] \in Generation
           /\ \A r \in Register : cell[r] \in Generation /\ <<r, cell[r]>> \in Place
           /\ DOMAIN heap = Place
<1>1. held \in Seq(Place) /\ cell \in [Register -> Generation] /\ heap = [s \in Place |-> heap[s]]
  BY DEF StorageInv
<1>2. Len(held) \in Nat /\ DOMAIN held = 1 .. Len(held) /\ \A k \in DOMAIN held : held[k] \in Place
  <2> HIDE DEF Place
  <2> QED BY <1>1
<1>3. \A s \in Place : s = <<s[1], s[2]>> /\ s[1] \in Register /\ s[2] \in Generation
  BY DEF Place
<1>4. \A r \in Register : cell[r] \in Generation /\ <<r, cell[r]>> \in Place
  BY <1>1 DEF Place
<1> HIDE DEF Place
<1> QED BY <1>1, <1>2, <1>3, <1>4

(* Two places are equal when their parts are. *)
LEMMA SamePlace ==
    ASSUME NEW s \in Place, NEW r, NEW g
    PROVE  s = <<r, g>> <=> s[1] = r /\ s[2] = g
  BY DEF Place

(* A new cell is one that no closure refers to: there are more generations  *)
(* than closures.                                                           *)
Unheld(r) == {g \in Generation : \A k \in DOMAIN held : held[k] # <<r, g>>}

(* The new cell of emitCapturedCellClose exists and is not held. *)
LEMMA FreshCell ==
    ASSUME StorageInv, NEW r \in Register
    PROVE  /\ Min(Unheld(r)) \in Generation
           /\ \A k \in DOMAIN held : held[k] # <<r, Min(Unheld(r))>>
<1>1. MaxClosures \in Nat /\ Len(held) \in Nat /\ Len(held) <= MaxClosures /\ DOMAIN held = 1 .. Len(held)
  BY Held, TextAssumption DEF StorageInv
<1>2. Unheld(r) # {}
  <2> SUFFICES ASSUME Unheld(r) = {} PROVE FALSE
    OBVIOUS
  <2> DEFINE holder(g) == CHOOSE k \in DOMAIN held : held[k] = <<r, g>>
             f == [g \in Generation |-> holder(g)]
  <2>1. \A g \in Generation : \E k \in DOMAIN held : held[k] = <<r, g>>
    BY DEF Unheld
  <2>2. \A g \in Generation : holder(g) \in DOMAIN held /\ held[holder(g)] = <<r, g>>
    BY <2>1
  <2> HIDE DEF holder
  <2>3. f \in [Generation -> 1 .. Len(held)]
    BY <1>1, <2>2
  <2>4. IsFiniteSet(Generation) /\ Cardinality(Generation) = MaxClosures + 1
    <3>1. /\ IsFiniteSet(0 .. MaxClosures)
          /\ Cardinality(0 .. MaxClosures) = IF 0 > MaxClosures THEN 0 ELSE MaxClosures - 0 + 1
      BY <1>1, FS_Interval
    <3> QED BY <1>1, <3>1 DEF Generation
  <2>5. IsFiniteSet(1 .. Len(held)) /\ Cardinality(1 .. Len(held)) = Len(held)
    <3>1. \A n \in Nat : IsFiniteSet(1 .. n) /\ Cardinality(1 .. n) = n
      <4> SUFFICES ASSUME NEW n \in Nat PROVE IsFiniteSet(1 .. n) /\ Cardinality(1 .. n) = n
        OBVIOUS
      <4>1. IsFiniteSet(1 .. n) /\ Cardinality(1 .. n) = IF 1 > n THEN 0 ELSE n - 1 + 1
        BY FS_Interval
      <4> QED BY <4>1
    <3> QED BY <1>1, <3>1
  <2>6. \E x, y \in Generation : x # y /\ f[x] = f[y]
    <3> HIDE DEF f
    <3>1. Cardinality(1 .. Len(held)) < Cardinality(Generation)
      BY <1>1, <2>4, <2>5
    <3> QED BY <2>3, <2>4, <2>5, <3>1, FS_PigeonHole
  <2>7. PICK x \in Generation, y \in Generation : x # y /\ holder(x) = holder(y)
    BY <2>6
  <2>8. <<r, x>> = <<r, y>>
    BY <2>2, <2>7
  <2> QED BY <2>7, <2>8
<1>3. Unheld(r) \in SUBSET Nat
  BY <1>1 DEF Unheld, Generation
<1>4. Min(Unheld(r)) \in Unheld(r)
  BY <1>2, <1>3, MinOf
<1> QED BY <1>4 DEF Unheld

(* The upvalues: each is named by its first closure. *)
OpenAt(u) == held[u] = <<held[u][1], cell[held[u][1]]>>

(* What the refinement mapping makes of the closures. *)
LEMMA Upvalues ==
    ASSUME StorageInv
    PROVE  /\ DOMAIN CloBar = DOMAIN held
           /\ \A k \in DOMAIN held : CloBar[k] \in DOMAIN held /\ held[CloBar[k]] = held[k]
           /\ \A j, k \in DOMAIN held : held[j] = held[k] => CloBar[j] = CloBar[k]
           /\ DOMAIN UvBar = {CloBar[k] : k \in DOMAIN held}
           /\ \A u \in DOMAIN UvBar :
                 /\ u \in DOMAIN held
                 /\ UvBar[u] = [reg |-> held[u][1], open |-> OpenAt(u),
                                val |-> IF OpenAt(u) THEN Vm!Nil ELSE heap[held[u]]]
<1> DEFINE Same(k) == {j \in DOMAIN held : held[j] = held[k]}
<1>1. DOMAIN held = 1 .. Len(held) /\ Len(held) \in Nat
  BY Held
<1>2. DOMAIN CloBar = DOMAIN held /\ \A k \in DOMAIN held : CloBar[k] = Min(Same(k))
  BY DEF CloBar
<1>3. \A k \in DOMAIN held : Min(Same(k)) \in Same(k)
  <2> SUFFICES ASSUME NEW k \in DOMAIN held PROVE Min(Same(k)) \in Same(k)
    OBVIOUS
  <2>1. Same(k) \in SUBSET Nat /\ k \in Same(k)
    BY <1>1
  <2> HIDE DEF Same
  <2> QED BY <2>1, MinOf
<1>4. \A k \in DOMAIN held : CloBar[k] \in DOMAIN held /\ held[CloBar[k]] = held[k]
  BY <1>2, <1>3
<1>5. \A j, k \in DOMAIN held : held[j] = held[k] => Same(j) = Same(k)
  OBVIOUS
<1>6. \A j, k \in DOMAIN held : held[j] = held[k] => CloBar[j] = CloBar[k]
  BY <1>2, <1>5
<1>7. DOMAIN UvBar = {CloBar[k] : k \in DOMAIN held}
  BY DEF UvBar
<1>8. \A u \in DOMAIN UvBar : u \in DOMAIN held
  BY <1>4, <1>7
<1>9. \A u \in DOMAIN UvBar :
         UvBar[u] = [reg |-> held[u][1], open |-> OpenAt(u),
                     val |-> IF OpenAt(u) THEN Vm!Nil ELSE heap[held[u]]]
  BY <1>7 DEF UvBar, OpenAt, Vm!Nil
<1> QED BY <1>2, <1>4, <1>6, <1>7, <1>8, <1>9

(* The registers that the instruction names. *)
LEMMA Named ==
    ASSUME Rendered, Boundary(code, at)
    PROVE  /\ at \in Nat /\ at \in DOMAIN code /\ checkRegisters(I)
           /\ I.a \in Nat /\ I.b \in Nat /\ I.c \in Nat
           /\ \A x \in Nat, y \in Int : y <= MaxStack => x .. y-1 \subseteq Register
           /\ MaxStack \in Nat
<1>1. at \in DOMAIN code /\ at \in Nat
  BY RenderedNumbers DEF Boundary
<1>2. I.a \in Nat /\ I.b \in Nat /\ I.c \in Nat
  BY <1>1, CodeShape DEF Rendered, Valid, I
<1>3. checkRegisters(I)
  BY <1>1 DEF Rendered, Valid, validateProtoData, I
<1> QED BY <1>1, <1>2, <1>3, Lua51Assumption DEF Register

(* Assignments to variables and cells change no upvalue that is closed, and *)
(* an open one is its register.                                             *)
LEMMA SameUpvalues ==
    ASSUME StorageInv, UNCHANGED <<held, cell>>,
           \A s \in Place : s[2] # cell[s[1]] => heap'[s] = heap[s]
    PROVE  CloBar' = CloBar /\ UvBar' = UvBar
<1>1. CloBar' = CloBar
  BY DEF CloBar
<1>2. \A u \in DOMAIN held : held[u] \in Place /\ (~ OpenAt(u) => held[u][2] # cell[held[u][1]])
  <2> SUFFICES ASSUME NEW u \in DOMAIN held PROVE held[u] \in Place /\ (~ OpenAt(u) => held[u][2] # cell[held[u][1]])
    OBVIOUS
  <2>1. held[u] \in Place
    BY Held
  <2> QED BY <2>1, SamePlace DEF OpenAt
<1>3. \A u \in DOMAIN held : (IF OpenAt(u) THEN <<"nil">> ELSE heap'[held[u]]) = IF OpenAt(u) THEN <<"nil">> ELSE heap[held[u]]
  BY <1>2
<1>4. \A u \in {CloBar[k] : k \in DOMAIN held} : u \in DOMAIN held
  BY Upvalues
<1> DEFINE U == {CloBar[k] : k \in DOMAIN held}
<1>5. UvBar = [u \in U |-> [reg |-> held[u][1], open |-> OpenAt(u),
                           val |-> IF OpenAt(u) THEN <<"nil">> ELSE heap[held[u]]]]
  BY DEF UvBar, OpenAt
<1>6. UvBar' = [u \in U |-> [reg |-> held[u][1], open |-> OpenAt(u),
                            val |-> IF OpenAt(u) THEN <<"nil">> ELSE heap'[held[u]]]]
  BY <1>1 DEF UvBar, OpenAt
<1> HIDE DEF U
<1>7. \A u \in U : (IF OpenAt(u) THEN <<"nil">> ELSE heap'[held[u]]) = IF OpenAt(u) THEN <<"nil">> ELSE heap[held[u]]
  BY <1>3, <1>4 DEF U
<1>8. UvBar' = UvBar
  BY <1>5, <1>6, <1>7
<1> QED BY <1>1, <1>8

(* What Store does to the registers of the virtual machine. *)
LEMMA StoreMeans ==
    ASSUME StorageInv, NEW f, DOMAIN f \subseteq Register, \A r \in DOMAIN f : f[r] # NotUnset, Store(f)
    PROVE  /\ RegsBar' = Over(f, RegsBar) /\ CloBar' = CloBar /\ UvBar' = UvBar
           /\ UNCHANGED <<seen, code, mode>> /\ StorageInv'
           /\ unset' = [r \in Register |-> IF r \in DOMAIN f THEN NotUnset ELSE unset[r]]
<1>1. /\ heap' = [s \in Place |-> IF s[1] \in DOMAIN f /\ s[2] = cell[s[1]] THEN f[s[1]] ELSE heap[s]]
      /\ unset' = [r \in Register |-> IF r \in DOMAIN f THEN NotUnset ELSE unset[r]]
      /\ UNCHANGED <<cell, held, seen, code, mode>>
  BY Held DEF Store, Stored, Fixed
<1>2. CloBar' = CloBar /\ UvBar' = UvBar
  BY <1>1, SameUpvalues
<1>3. \A r \in Register : heap'[<<r, cell[r]>>] = IF r \in DOMAIN f THEN f[r] ELSE heap[<<r, cell[r]>>]
  BY <1>1, Held
<1>4. RegsBar' = Over(f, RegsBar)
  <2>1. RegsBar = [r \in Register |-> IF unset[r] = NotUnset THEN heap[<<r, cell[r]>>] ELSE unset[r]]
    BY DEF RegsBar, Read
  <2>2. RegsBar' = [r \in Register |-> IF unset'[r] = NotUnset THEN heap'[<<r, cell[r]>>] ELSE unset'[r]]
    BY <1>1 DEF RegsBar, Read
  <2>3. Over(f, RegsBar) = [r \in Register |-> IF r \in DOMAIN f THEN f[r] ELSE RegsBar[r]]
    <3>1. DOMAIN f \cup DOMAIN RegsBar = Register
      BY <2>1
    <3> QED BY <3>1 DEF Over
  <2>4. \A r \in Register : (IF unset'[r] = NotUnset THEN heap'[<<r, cell[r]>>] ELSE unset'[r])
                              = IF r \in DOMAIN f THEN f[r] ELSE RegsBar[r]
    BY <1>1, <1>3, <2>1
  <2> QED BY <2>2, <2>3, <2>4
<1>5. StorageInv'
  <2>1. heap' = [s \in Place |-> heap'[s]] /\ \A s \in Place : heap'[s] # NotUnset
    BY <1>1 DEF StorageInv
  <2>2. unset' = [r \in Register |-> unset'[r]]
    BY <1>1
  <2> QED BY <1>1, <2>1, <2>2 DEF StorageInv, Place, Generation
<1> QED BY <1>1, <1>2, <1>4, <1>5

(* An assignment that was left out prepares a call that is still ahead, its *)
(* register is not read again, or a RETURN ends the function.               *)
Awaited(p, r, pc) ==
    (\E setup, call : Prepared(p, setup, call, r, pc)) \/ p[pc].op \in {"TAILCALL", "RETURN"}

(* The dispatcher leaves nothing out. *)
UnsetInv ==
    /\ mode = "dispatcher" => \A r \in Register : unset[r] = NotUnset
    /\ at # Returned => \A r \in Register : unset[r] # NotUnset => Awaited(code, r, at)

(* The inductive invariant. *)
TextInv == ControlInv /\ StorageInv /\ UnsetInv

(* The text is at the start of an instruction. *)
LEMMA AtInstruction ==
    ASSUME ControlInv, at \in DOMAIN code
    PROVE  /\ Rendered /\ Valid(code) /\ Boundary(code, at) /\ at \in Nat /\ at # Returned
           /\ Size(code) \in Nat \ {0} /\ DOMAIN code = 0 .. Size(code)-1 /\ at \in 0 .. Size(code)
<1>1. Rendered /\ Valid(code) /\ (at = Returned \/ Boundary(code, at))
  BY DEF ControlInv, Rendered
<1>2. Size(code) \in Nat \ {0} /\ DOMAIN code = 0 .. Size(code)-1
  BY <1>1, RenderedNumbers
<1>3. at \in Nat /\ at # -1 /\ at \in 0 .. Size(code)
  BY <1>2
<1> QED BY <1>1, <1>2, <1>3 DEF Returned, Vm!Returned

(* The value of a register. *)
LEMMA BarOf ==
    ASSUME NEW r \in Register
    PROVE  /\ RegsBar[r] = IF unset[r] = NotUnset THEN Read(r) ELSE unset[r]
           /\ StorageInv => RegsBar[r] # NotUnset
<1>1. RegsBar[r] = IF unset[r] = NotUnset THEN Read(r) ELSE unset[r]
  BY DEF RegsBar
<1>2. StorageInv => Read(r) # NotUnset
  BY Held DEF StorageInv, Read
<1> QED BY <1>1, <1>2

(* What a statement other than a call or a RETURN reads is there. *)
LEMMA ReadsAreCurrent ==
    ASSUME TextInv, at \in DOMAIN code, I.op \notin {"CALL", "TAILCALL", "RETURN"},
           NEW r \in Register, r \in readsRegister(code, at)
    PROVE  Read(r) = RegsBar[r] /\ unset[r] = NotUnset
<1>1. Valid(code) /\ at # Returned
  BY AtInstruction DEF TextInv
<1>2. unset[r] = NotUnset
  <2> SUFFICES ASSUME unset[r] # NotUnset PROVE FALSE
    OBVIOUS
  <2>1. PICK setup, call : Prepared(code, setup, call, r, at)
    BY <1>1 DEF TextInv, UnsetInv, Awaited, I
  <2>2. at # call
    BY <2>1 DEF Prepared, I
  <2> QED BY <1>1, <2>1, <2>2, PreparedUnread
<1> QED BY <1>2, BarOf

(* The registers that a call or a RETURN is given. *)
LEMMA ValuesAreRegisters ==
    ASSUME ControlInv, at \in DOMAIN code
    PROVE  /\ ValuesOf(I) \subseteq Register
           /\ I.op \in {"CALL", "TAILCALL"} =>
                ValuesOf(I) = I.a + 1 .. I.a + I.b - 1 /\ \A k \in 1 .. I.b - 1 : I.a + k \in ValuesOf(I)
           /\ I.op = "RETURN" =>
                ValuesOf(I) = I.a .. I.a + I.b - 2 /\ \A k \in 1 .. I.b - 1 : I.a + k - 1 \in ValuesOf(I)
<1>1. Rendered /\ Boundary(code, at)
  BY AtInstruction
<1>2. checkRegisters(I) /\ I.a \in Nat /\ I.b \in Nat /\ MaxStack \in Nat
  BY <1>1, Named
<1>3. CASE I.op \in {"CALL", "TAILCALL"}
  <2>1. ValuesOf(I) = I.a + 1 .. I.a + I.b - 1
    BY <1>3 DEF ValuesOf, I
  <2>2. I.a + I.b <= MaxStack
    BY <1>2, <1>3 DEF checkRegisters
  <2>3. I.a + 1 .. I.a + I.b - 1 \subseteq Register
    BY <1>2, <2>2 DEF Register
  <2>4. \A k \in 1 .. I.b - 1 : I.a + k \in I.a + 1 .. I.a + I.b - 1
    BY <1>2
  <2> QED BY <1>3, <2>1, <2>3, <2>4
<1>4. CASE I.op = "RETURN"
  <2>1. ValuesOf(I) = I.a .. I.a + I.b - 2
    BY <1>4 DEF ValuesOf, I
  <2>2. I.a + I.b - 1 <= MaxStack
    BY <1>2, <1>4 DEF checkRegisters
  <2>3. I.a .. I.a + I.b - 2 \subseteq Register
    BY <1>2, <2>2 DEF Register
  <2>4. \A k \in 1 .. I.b - 1 : I.a + k - 1 \in I.a .. I.a + I.b - 2
    BY <1>2
  <2> QED BY <1>4, <2>1, <2>3, <2>4
<1>5. CASE I.op \notin {"CALL", "TAILCALL", "RETURN"}
  BY <1>5 DEF ValuesOf, I
<1> QED BY <1>3, <1>4, <1>5

(* Where nothing misleads the text, an argument or a returned value is that *)
(* of its register, and what a closure can still see is set.                *)
LEMMA NotMisled ==
    ASSUME TextInv, ~ Misled
    PROVE  /\ at \in DOMAIN code => \A r \in ValuesOf(I) : Value(r) = RegsBar[r]
           /\ \A k \in DOMAIN held : OpenAt(k) => unset[held[k][1]] = NotUnset
<1>1. CASE mode = "dispatcher"
  <2>1. \A r \in Register : unset[r] = NotUnset
    BY <1>1 DEF TextInv, UnsetInv
  <2>2. \A k \in DOMAIN held : held[k][1] \in Register
    BY Held DEF TextInv
  <2>3. ASSUME at \in DOMAIN code, NEW r \in ValuesOf(I) PROVE Value(r) = RegsBar[r]
    <3>1. r \in Register
      BY <2>3, ValuesAreRegisters DEF TextInv
    <3>2. Value(r) = Read(r)
      BY <1>1 DEF Value
    <3> QED BY <2>1, <3>1, <3>2, BarOf
  <2> QED BY <2>1, <2>2, <2>3
<1>2. CASE FoldedValueIsCurrent /\ OmittedIsUnseen
  <2>1. \A k \in DOMAIN held : OpenAt(k) => held[k][2] = cell[held[k][1]]
    <3> SUFFICES ASSUME NEW k \in DOMAIN held, OpenAt(k) PROVE held[k][2] = cell[held[k][1]]
      OBVIOUS
    <3>1. held[k] \in Place
      BY Held DEF TextInv
    <3> QED BY <3>1, SamePlace DEF OpenAt
  <2> QED BY <1>2, <2>1 DEF FoldedValueIsCurrent, OmittedIsUnseen
<1> QED BY <1>1, <1>2 DEF Misled

-----------------------------------------------------------------------------
(* Every statement does what its instruction does on the virtual machine.   *)

(* An assignment that was left out stays left out only while nothing sets   *)
(* the register.                                                            *)
Kept == \A r \in Register : unset'[r] # NotUnset => unset[r] # NotUnset /\ r \notin writesRegister(code, at)

Does(step) == (Misled \/ step) /\ StorageInv' /\ UNCHANGED <<code, mode>> /\ Kept

(* The machine has its own copies of the operators for assignments. *)
LEMMA SameAssignments ==
    ASSUME NEW f, NEW g, NEW r, NEW v
    PROVE  Vm!Over(f, g) = Over(f, g) /\ Vm!Only(r, v) = Only(r, v)
  BY DEF Over, Vm!Over, Only, Vm!Only

(* An assignment of the text is one of the machine. *)
LEMMA SetMeans ==
    ASSUME TextInv, at \in DOMAIN code, NEW f, DOMAIN f \subseteq Register, \A r \in DOMAIN f : f[r] # NotUnset,
           Store(f), NEW n, at' = n,
           writesRegister(code, at) \subseteq DOMAIN f \/ \A r \in Register : unset[r] = NotUnset
    PROVE  Does(Vm!Set(f, n))
<1>1. /\ RegsBar' = Over(f, RegsBar) /\ CloBar' = CloBar /\ UvBar' = UvBar
      /\ UNCHANGED <<seen, code, mode>> /\ StorageInv'
      /\ unset' = [r \in Register |-> IF r \in DOMAIN f THEN NotUnset ELSE unset[r]]
  BY StoreMeans DEF TextInv
<1>2. Vm!Set(f, n)
  BY <1>1, SameAssignments DEF Vm!Set, Vm!Go
<1>3. Kept
  BY <1>1 DEF Kept
<1> QED BY <1>1, <1>2, <1>3 DEF Does

(* Before a branch nothing is left out. *)
LEMMA BranchesAreSet ==
    ASSUME TextInv, at \in DOMAIN code, hasTarget(I)
    PROVE  \A r \in Register : unset[r] = NotUnset
<1>1. /\ Valid(code) /\ Boundary(code, at) /\ at # Returned
      /\ DOMAIN code = 0 .. Size(code)-1 /\ Size(code) \in Nat
  BY AtInstruction DEF TextInv
<1>2. target(code, at) \in DOMAIN code
  BY <1>1 DEF Valid, validateProtoData, I, Boundary
<1>3. target(code, at) # NoTarget
  BY <1>1, <1>2 DEF NoTarget
<1> SUFFICES ASSUME NEW r \in Register, unset[r] # NotUnset PROVE FALSE
  OBVIOUS
<1>4. PICK setup, call : Prepared(code, setup, call, r, at)
  BY <1>1 DEF TextInv, UnsetInv, Awaited, I, hasTarget, isTest, isCondition
<1> QED BY <1>1, <1>3, <1>4, PreparedUnread

(* The assignments of emitSimple. *)
LEMMA SimpleMeans ==
    ASSUME TextInv, AssignSimple
    PROVE  Does(Vm!LoadK \/ Vm!LoadNil \/ Vm!Move \/ Vm!LoadBool)
<1>1. at \in DOMAIN code /\ I.op \in {"LOADK", "LOADNIL", "MOVE", "LOADBOOL"} /\ Store(Written)
  BY DEF AssignSimple, Statement
<1>2. Rendered /\ Boundary(code, at) /\ at # Returned
  BY <1>1, AtInstruction DEF TextInv
<1>3. checkRegisters(I) /\ I.a \in Nat /\ I.b \in Nat
  BY <1>2, Named
<1>4. I.a \in Register
  BY <1>1, <1>3 DEF checkRegisters
<1>5. at' = IF I.op = "LOADBOOL" /\ I.c # 0 THEN at + 2 ELSE at + 1
  BY StatementGoes DEF TextInv, ControlInv, Goes
<1>6. Vm!I = I /\ \A op : I.op = op => Vm!At(op)
  BY <1>2 DEF Vm!At, Vm!I, I, Returned
<1> USE <1>1, <1>2, <1>4, <1>5, <1>6, Marks
<1>7. CASE I.op = "LOADK"
  <2> DEFINE f == Only(I.a, Vm!LoadedBy(at))
  <2>1. Written = f
    BY <1>7 DEF Written
  <2>2. DOMAIN f = {I.a} /\ f[I.a] = Vm!LoadedBy(at)
    BY DEF Only
  <2>3. writesRegister(code, at) = {I.a}
    BY <1>7 DEF writesRegister, I
  <2> HIDE DEF f
  <2>4. Does(Vm!Set(f, at + 1))
    BY <1>7, <2>1, <2>2, <2>3, SetMeans
  <2> QED BY <1>7, <2>4, SameAssignments DEF Does, Vm!LoadK, f
<1>8. CASE I.op = "LOADNIL"
  <2> DEFINE f == [r \in I.a .. I.b |-> Nil]
  <2>1. Written = f
    BY <1>8 DEF Written
  <2>2. DOMAIN f = I.a .. I.b /\ \A r \in DOMAIN f : f[r] = Nil
    OBVIOUS
  <2>3. writesRegister(code, at) = I.a .. I.b /\ I.a .. I.b \subseteq Register
    <3>1. I.b \in Register
      BY <1>3, <1>8 DEF checkRegisters
    <3>2. I.a .. I.b \subseteq Register
      BY <1>3, <3>1, Lua51Assumption DEF Register
    <3> QED BY <1>8, <3>2 DEF writesRegister, I
  <2> HIDE DEF f
  <2>4. Does(Vm!Set(f, at + 1))
    BY <1>8, <2>1, <2>2, <2>3, SetMeans
  <2>5. f = [r \in Vm!I.a .. Vm!I.b |-> Vm!Nil]
    BY DEF f
  <2> QED BY <1>8, <2>4, <2>5 DEF Does, Vm!LoadNil
<1>9. CASE I.op = "MOVE"
  <2> DEFINE f == Only(I.a, Read(I.b))
  <2>1. Written = f
    BY <1>9 DEF Written
  <2>2. DOMAIN f = {I.a} /\ f[I.a] = Read(I.b)
    BY DEF Only
  <2>3. writesRegister(code, at) = {I.a} /\ I.b \in readsRegister(code, at)
    BY <1>9 DEF writesRegister, readsRegister, I
  <2>4. I.b \in Register
    BY <1>3, <1>9 DEF checkRegisters
  <2>5. Read(I.b) = RegsBar[I.b] /\ Read(I.b) # NotUnset
    BY <1>9, <2>3, <2>4, ReadsAreCurrent, BarOf DEF TextInv
  <2> HIDE DEF f
  <2>6. Does(Vm!Set(f, at + 1))
    BY <1>9, <2>1, <2>2, <2>3, <2>5, SetMeans
  <2> QED BY <1>9, <2>5, <2>6, SameAssignments DEF Does, Vm!Move, f
<1>10. CASE I.op = "LOADBOOL"
  <2> DEFINE v == IF I.b = 1 THEN Vm!LoadedBy(at) ELSE Nil
             f == Only(I.a, v)
             n == IF I.c # 0 THEN at + 2 ELSE at + 1
  <2>1. Written = f
    BY <1>10 DEF Written
  <2>2. DOMAIN f = {I.a} /\ f[I.a] = v /\ v # NotUnset
    BY DEF Only
  <2>3. writesRegister(code, at) = {I.a}
    BY <1>10 DEF writesRegister, I
  <2>4. at' = n
    BY <1>10
  <2> HIDE DEF f, n
  <2>5. Does(Vm!Set(f, n))
    BY <2>1, <2>2, <2>3, <2>4, SetMeans
  <2>6. f = Only(Vm!I.a, IF Vm!I.b = 1 THEN Vm!LoadedBy(at) ELSE Vm!Nil)
    BY DEF f
  <2> QED BY <1>10, <2>5, <2>6, SameAssignments DEF Does, Vm!LoadBool, n
<1> QED BY <1>7, <1>8, <1>9, <1>10

(* Jumps. *)
LEMMA JumpMeans ==
    ASSUME TextInv, EmitJmp
    PROVE  Does(Vm!Jmp)
<1>1. at \in DOMAIN code /\ I.op = "JMP" /\ Store(<<>>)
  BY DEF EmitJmp, Statement
<1>2. at # Returned
  BY <1>1, AtInstruction DEF TextInv
<1>3. at' = at + I.sbx + 1
  <2>1. at' = target(code, at)
    BY StatementGoes DEF TextInv, ControlInv, Goes
  <2> QED BY <1>1, <2>1 DEF target, I, isTest, isCondition
<1>4. Vm!I = I /\ Vm!At("JMP")
  BY <1>1, <1>2 DEF Vm!At, Vm!I, I, Returned
<1>5. \A r \in Register : unset[r] = NotUnset
  BY <1>1, BranchesAreSet DEF hasTarget
<1>6. DOMAIN <<>> = {}
  OBVIOUS
<1>7. Does(Vm!Set(<<>>, at + I.sbx + 1))
  BY <1>1, <1>3, <1>5, <1>6, SetMeans
<1> QED BY <1>4, <1>7 DEF Does, Vm!Jmp

(* The start of a numeric loop. *)
LEMMA ForPrepMeans ==
    ASSUME TextInv, EmitForPrep
    PROVE  Does(Vm!ForPrep)
<1> DEFINE f == Only(I.a, Vm!ResultOf(at))
<1>1. at \in DOMAIN code /\ I.op = "FORPREP" /\ Store(f)
  BY DEF EmitForPrep, Statement
<1>2. Rendered /\ Boundary(code, at) /\ at # Returned
  BY <1>1, AtInstruction DEF TextInv
<1>3. at' = at + I.sbx + 1
  <2>1. at' = target(code, at)
    BY StatementGoes DEF TextInv, ControlInv, Goes
  <2> QED BY <1>1, <2>1 DEF target, I, isTest, isCondition
<1>4. Vm!I = I /\ Vm!At("FORPREP")
  BY <1>1, <1>2 DEF Vm!At, Vm!I, I, Returned
<1>5. I.a \in Register
  BY <1>1, <1>2, Named DEF checkRegisters, Register
<1>6. \A r \in Register : unset[r] = NotUnset
  BY <1>1, BranchesAreSet DEF hasTarget
<1>7. DOMAIN f = {I.a} /\ f[I.a] = Vm!ResultOf(at)
  BY DEF Only
<1>8. f = Vm!Only(Vm!I.a, Vm!ResultOf(at))
  BY <1>4, SameAssignments
<1> HIDE DEF f
<1>9. Does(Vm!Set(f, at + I.sbx + 1))
  BY <1>1, <1>3, <1>5, <1>6, <1>7, Marks, SetMeans
<1> QED BY <1>4, <1>8, <1>9 DEF Does, Vm!ForPrep

(* Where the JMP after the instruction goes. *)
LEMMA TakenIs ==
    ASSUME ControlInv, at \in DOMAIN code, isTest(I.op) \/ I.op = "TFORLOOP"
    PROVE  Vm!Taken = followingControlTarget(code, at)
  BY AtInstruction, BranchAfter DEF I, Vm!Taken

(* Conditions: the text takes the branch that the machine takes. *)
LEMMA ConditionMeans ==
    ASSUME TextInv, EmitCondition
    PROVE  Does(Vm!Eq \/ Vm!Test)
<1>1. at \in DOMAIN code /\ I.op \in {"EQ", "TEST"} /\ Store(<<>>)
  BY DEF EmitCondition, Statement
<1>2. Rendered /\ Boundary(code, at) /\ at # Returned
  BY <1>1, AtInstruction DEF TextInv
<1>3. checkRegisters(I) /\ isTest(I.op)
  BY <1>1, <1>2, Named DEF isTest, isCondition
<1>4. Vm!I = I /\ Vm!At(I.op)
  BY <1>2 DEF Vm!At, Vm!I, I, Returned
<1>5. \A r \in Register : unset[r] = NotUnset
  BY <1>1, <1>3, BranchesAreSet DEF hasTarget
<1>6. \A r \in Register : Read(r) = RegsBar[r]
  BY <1>5, BarOf
<1>7. DOMAIN <<>> = {}
  OBVIOUS
<1>8. Vm!Taken = followingControlTarget(code, at)
  BY <1>1, <1>3, TakenIs DEF TextInv
<1>9. \A n : at' = n => Does(Vm!Set(<<>>, n))
  BY <1>1, <1>5, <1>7, SetMeans
<1> DEFINE holds == IF I.op = "EQ" THEN (Read(I.b) = Read(I.c)) = (I.a = 1)
                                   ELSE (Read(I.a) = Nil) # (I.c = 1)
<1>10. at' = IF holds THEN followingControlTarget(code, at) ELSE at + 2
  <2>1. Assign(IF holds THEN followingControlTarget(code, at) ELSE at + 2)
    BY DEF EmitCondition
  <2> HIDE DEF holds
  <2>2. CASE holds
    BY <1>1, <1>3, <2>1, <2>2, StatementGoes DEF TextInv, ControlInv, Goes
  <2>3. CASE ~ holds
    BY <1>1, <1>3, <2>1, <2>3, StatementGoes DEF TextInv, ControlInv, Goes
  <2> QED BY <2>2, <2>3
<1>11. CASE I.op = "EQ"
  <2>1. I.b \in Register /\ I.c \in Register
    BY <1>3, <1>11 DEF checkRegisters
  <2>2. holds <=> ((RegsBar[I.b] = RegsBar[I.c]) = (I.a = 1))
    BY <1>6, <1>11, <2>1
  <2> HIDE DEF holds
  <2>3. at' = IF (RegsBar[I.b] = RegsBar[I.c]) = (I.a = 1) THEN Vm!Taken ELSE at + 2
    BY <1>8, <1>10, <2>2
  <2>4. Does(Vm!Set(<<>>, IF (RegsBar[I.b] = RegsBar[I.c]) = (I.a = 1) THEN Vm!Taken ELSE at + 2))
    BY <1>9, <2>3
  <2> QED BY <1>4, <1>11, <2>4 DEF Does, Vm!Eq
<1>12. CASE I.op = "TEST"
  <2>1. I.a \in Register
    BY <1>3, <1>12 DEF checkRegisters
  <2>2. holds <=> (Vm!Truth(RegsBar[I.a]) = (I.c = 1))
    BY <1>6, <1>12, <2>1 DEF Vm!Truth, Nil
  <2> HIDE DEF holds
  <2>3. at' = IF Vm!Truth(RegsBar[I.a]) = (I.c = 1) THEN Vm!Taken ELSE at + 2
    BY <1>8, <1>10, <2>2
  <2>4. Does(Vm!Set(<<>>, IF Vm!Truth(RegsBar[I.a]) = (I.c = 1) THEN Vm!Taken ELSE at + 2))
    BY <1>9, <2>3
  <2> QED BY <1>4, <1>12, <2>4 DEF Does, Vm!Test
<1> QED BY <1>1, <1>11, <1>12

(* TESTSET assigns only where it branches. *)
LEMMA TestSetMeans ==
    ASSUME TextInv, EmitTestSet
    PROVE  Does(Vm!TestSet)
<1>1. at \in DOMAIN code /\ I.op = "TESTSET"
  BY DEF EmitTestSet, Statement
<1>2. Rendered /\ Boundary(code, at) /\ at # Returned
  BY <1>1, AtInstruction DEF TextInv
<1>3. isTest(I.op) /\ I.a \in Register /\ I.b \in Register
  BY <1>1, <1>2, Named DEF isTest, checkRegisters
<1>4. Vm!I = I /\ Vm!At("TESTSET")
  BY <1>1, <1>2 DEF Vm!At, Vm!I, I, Returned
<1>5. \A r \in Register : unset[r] = NotUnset
  BY <1>1, <1>3, BranchesAreSet DEF hasTarget
<1>6. Read(I.b) = RegsBar[I.b] /\ RegsBar[I.b] # NotUnset
  BY <1>3, <1>5, BarOf DEF TextInv
<1>7. Vm!Taken = followingControlTarget(code, at)
  BY <1>1, <1>3, TakenIs DEF TextInv
<1>8. (Vm!Truth(RegsBar[I.b]) = (I.c = 1)) <=> ((Read(I.b) = Nil) # (I.c = 1))
  BY <1>6 DEF Vm!Truth, Nil
<1>9. CASE (Read(I.b) = Nil) # (I.c = 1)
  <2> DEFINE f == Only(I.a, Read(I.b))
  <2>1. Store(f) /\ Assign(followingControlTarget(code, at))
    BY <1>9 DEF EmitTestSet
  <2>2. at' = Vm!Taken
    BY <1>1, <1>3, <1>7, <2>1, StatementGoes DEF TextInv, ControlInv, Goes
  <2>3. DOMAIN f = {I.a} /\ f[I.a] = Read(I.b)
    BY DEF Only
  <2>4. f = Vm!Only(Vm!I.a, RegsBar[Vm!I.b])
    BY <1>4, <1>6, SameAssignments
  <2> HIDE DEF f
  <2>5. Does(Vm!Set(f, Vm!Taken))
    BY <1>1, <1>3, <1>5, <1>6, <2>1, <2>2, <2>3, SetMeans
  <2> QED BY <1>4, <1>8, <1>9, <2>4, <2>5 DEF Does, Vm!TestSet
<1>10. CASE ~ ((Read(I.b) = Nil) # (I.c = 1))
  <2>1. Store(<<>>) /\ Assign(at + 2)
    BY <1>10 DEF EmitTestSet
  <2>2. at' = at + 2
    BY <1>1, <1>3, <2>1, StatementGoes DEF TextInv, ControlInv, Goes
  <2>3. DOMAIN <<>> = {}
    OBVIOUS
  <2>4. Does(Vm!Set(<<>>, at + 2))
    BY <1>1, <1>5, <2>1, <2>2, <2>3, SetMeans
  <2> QED BY <1>4, <1>8, <1>10, <2>4 DEF Does, Vm!TestSet
<1> QED BY <1>9, <1>10

(* The numeric loop. *)
LEMMA ForLoopMeans ==
    ASSUME TextInv, EmitForLoop
    PROVE  Does(Vm!ForLoop)
<1>1. at \in DOMAIN code /\ I.op = "FORLOOP" /\ Statement("FORLOOP")
  BY DEF EmitForLoop, Statement
<1>2. Rendered /\ Boundary(code, at) /\ at # Returned
  BY <1>1, AtInstruction DEF TextInv
<1>3. I.a \in Register /\ I.a + 3 \in Register
  BY <1>1, <1>2, Named DEF checkRegisters, Register
<1>4. Vm!I = I /\ Vm!At("FORLOOP")
  BY <1>1, <1>2 DEF Vm!At, Vm!I, I, Returned
<1>5. \A r \in Register : unset[r] = NotUnset
  BY <1>1, BranchesAreSet DEF hasTarget
<1>6. CASE Store([r \in {I.a, I.a + 3} |-> Vm!ResultOf(at)]) /\ Assign(target(code, at))
  <2> DEFINE f == [r \in {I.a, I.a + 3} |-> Vm!ResultOf(at)]
  <2>1. at' = at + I.sbx + 1
    <3>1. at' = target(code, at)
      BY <1>1, <1>6, StatementGoes DEF TextInv, ControlInv, Goes
    <3> QED BY <1>1, <3>1 DEF target, I, isTest, isCondition
  <2>2. DOMAIN f = {I.a, I.a + 3} /\ \A r \in DOMAIN f : f[r] = Vm!ResultOf(at)
    OBVIOUS
  <2>3. f = [r \in {Vm!I.a, Vm!I.a + 3} |-> Vm!ResultOf(at)]
    BY <1>4
  <2>4. Store(f)
    BY <1>6
  <2> HIDE DEF f
  <2>5. Does(Vm!Set(f, at + I.sbx + 1))
    BY <1>1, <1>3, <1>5, <2>1, <2>2, <2>4, Marks, SetMeans
  <2> QED BY <1>4, <2>3, <2>5 DEF Does, Vm!ForLoop
<1>7. CASE Store(Only(I.a, Vm!ResultOf(at))) /\ Assign(at + 1)
  <2> DEFINE f == Only(I.a, Vm!ResultOf(at))
  <2>1. at' = at + 1
    BY <1>1, <1>7, StatementGoes DEF TextInv, ControlInv, Goes
  <2>2. DOMAIN f = {I.a} /\ f[I.a] = Vm!ResultOf(at)
    BY DEF Only
  <2>3. f = Vm!Only(Vm!I.a, Vm!ResultOf(at))
    BY <1>4, SameAssignments
  <2>4. Store(f)
    BY <1>7
  <2> HIDE DEF f
  <2>5. Does(Vm!Set(f, at + 1))
    BY <1>1, <1>3, <1>5, <2>1, <2>2, <2>4, Marks, SetMeans
  <2> QED BY <1>4, <2>3, <2>5 DEF Does, Vm!ForLoop
<1> QED BY <1>6, <1>7 DEF EmitForLoop

(* The generic loop. *)
LEMMA TForLoopMeans ==
    ASSUME TextInv, EmitTForLoop
    PROVE  Does(Vm!TForLoop)
<1>1. at \in DOMAIN code /\ I.op = "TFORLOOP"
  BY DEF EmitTForLoop, Statement
<1>2. Rendered /\ Boundary(code, at) /\ at # Returned
  BY <1>1, AtInstruction DEF TextInv
<1>3. I.a + 2 .. I.a + 2 + I.c \subseteq Register /\ I.a + 3 .. I.a + 2 + I.c \subseteq Register
  <2>1. I.a \in Nat /\ I.c \in Nat /\ I.a + 3 + I.c <= MaxStack /\ MaxStack \in Nat
    BY <1>1, <1>2, Named DEF checkRegisters
  <2> QED BY <2>1 DEF Register
<1>4. Vm!I = I /\ Vm!At("TFORLOOP")
  BY <1>1, <1>2 DEF Vm!At, Vm!I, I, Returned
<1>5. \A r \in Register : unset[r] = NotUnset
  BY <1>1, BranchesAreSet DEF hasTarget
<1>6. Vm!Taken = followingControlTarget(code, at)
  BY <1>1, TakenIs DEF TextInv
<1>7. CASE /\ Store([r \in I.a + 2 .. I.a + 2 + I.c |-> Vm!ResultOf(at)])
           /\ Assign(followingControlTarget(code, at))
  <2> DEFINE f == [r \in I.a + 2 .. I.a + 2 + I.c |-> Vm!ResultOf(at)]
  <2>1. at' = Vm!Taken
    BY <1>1, <1>6, <1>7, StatementGoes DEF TextInv, ControlInv, Goes
  <2>2. DOMAIN f = I.a + 2 .. I.a + 2 + I.c /\ \A r \in DOMAIN f : f[r] = Vm!ResultOf(at)
    OBVIOUS
  <2>3. f = [r \in Vm!I.a + 2 .. Vm!I.a + 2 + Vm!I.c |-> Vm!ResultOf(at)]
    BY <1>4
  <2>4. Store(f)
    BY <1>7
  <2> HIDE DEF f
  <2>5. Does(Vm!Set(f, Vm!Taken))
    BY <1>1, <1>3, <1>5, <2>1, <2>2, <2>4, Marks, SetMeans
  <2> QED BY <1>4, <2>3, <2>5 DEF Does, Vm!TForLoop
<1>8. CASE Store([r \in I.a + 3 .. I.a + 2 + I.c |-> Nil]) /\ Assign(at + 2)
  <2> DEFINE f == [r \in I.a + 3 .. I.a + 2 + I.c |-> Nil]
  <2>1. at' = at + 2
    BY <1>1, <1>8, StatementGoes DEF TextInv, ControlInv, Goes
  <2>2. DOMAIN f = I.a + 3 .. I.a + 2 + I.c /\ \A r \in DOMAIN f : f[r] = Nil
    OBVIOUS
  <2>3. f = [r \in Vm!I.a + 3 .. Vm!I.a + 2 + Vm!I.c |-> Vm!Nil]
    BY <1>4, Marks
  <2>4. Store(f)
    BY <1>8
  <2> HIDE DEF f
  <2>5. Does(Vm!Set(f, at + 2))
    BY <1>1, <1>3, <1>5, <2>1, <2>2, <2>4, Marks, SetMeans
  <2> QED BY <1>4, <2>3, <2>5 DEF Does, Vm!TForLoop
<1> QED BY <1>7, <1>8 DEF EmitTForLoop

(* When no storage changes. *)
LEMMA SameStorage ==
    ASSUME StorageInv, UNCHANGED <<cell, heap, held, unset, code>>
    PROVE  StorageInv' /\ RegsBar' = RegsBar /\ CloBar' = CloBar /\ UvBar' = UvBar
  BY DEF StorageInv, Place, Generation, RegsBar, Read, CloBar, UvBar

(* SETLIST is given the values of its registers. *)
LEMMA SetListMeans ==
    ASSUME TextInv, EmitSetList
    PROVE  Does(Vm!SetList)
<1>1. at \in DOMAIN code /\ I.op = "SETLIST" /\ UNCHANGED <<cell, heap, held, unset, code, mode>>
      /\ seen' = [k \in 1 .. I.b |-> Read(I.a + k)]
  BY DEF EmitSetList, Statement, Fixed
<1>2. Rendered /\ Boundary(code, at) /\ at # Returned
  BY <1>1, AtInstruction DEF TextInv
<1>3. checkRegisters(I) /\ I.a \in Nat /\ I.b \in Nat /\ MaxStack \in Nat
  BY <1>2, Named
<1>4. Vm!I = I /\ Vm!At("SETLIST")
  BY <1>1, <1>2 DEF Vm!At, Vm!I, I, Returned
<1>5. \A k \in 1 .. I.b : Read(I.a + k) = RegsBar[I.a + k]
  <2> SUFFICES ASSUME NEW k \in 1 .. I.b PROVE Read(I.a + k) = RegsBar[I.a + k]
    OBVIOUS
  <2>1. I.a + 1 + I.b <= MaxStack
    BY <1>1, <1>3 DEF checkRegisters
  <2>2. I.a + k \in Register /\ I.a + k \in I.a .. I.a + I.b
    BY <1>3, <2>1 DEF Register
  <2>3. I.a + k \in readsRegister(code, at)
    BY <1>1, <2>2 DEF readsRegister, I
  <2> QED BY <1>1, <2>2, <2>3, ReadsAreCurrent
<1>6. seen' = [k \in 1 .. I.b |-> RegsBar[I.a + k]]
  BY <1>1, <1>5
<1>7. at' = IF I.c = 0 THEN at + 2 ELSE at + 1
  BY StatementGoes DEF TextInv, ControlInv, Goes
<1>8. StorageInv' /\ RegsBar' = RegsBar /\ CloBar' = CloBar /\ UvBar' = UvBar
  BY <1>1, SameStorage DEF TextInv
<1>9. writesRegister(code, at) = {}
  BY <1>1 DEF writesRegister, I
<1>10. Kept
  BY <1>1, <1>9 DEF Kept
<1>11. Vm!SetList
  BY <1>1, <1>4, <1>6, <1>7, <1>8 DEF Vm!SetList, Vm!Go
<1> QED BY <1>1, <1>8, <1>10, <1>11 DEF Does

(* RETURN and TAILCALL are given the values of their registers. *)
LEMMA ReturnMeans ==
    ASSUME TextInv, EmitReturn
    PROVE  (Misled \/ Vm!TailCall \/ Vm!Return) /\ StorageInv' /\ UNCHANGED <<code, mode, unset>> /\ at' = Returned
<1>1. at \in DOMAIN code /\ I.op \in {"TAILCALL", "RETURN"}
      /\ UNCHANGED <<cell, heap, held, unset, code, mode>> /\ at' = Returned
      /\ seen' = [k \in 1 .. I.b - 1 |-> Value(IF I.op = "RETURN" THEN I.a + k - 1 ELSE I.a + k)]
  BY DEF EmitReturn, Statement, Fixed
<1>2. at # Returned
  BY <1>1, AtInstruction DEF TextInv
<1>3. Vm!I = I /\ Vm!At(I.op)
  BY <1>2 DEF Vm!At, Vm!I, I, Returned
<1>4. StorageInv' /\ RegsBar' = RegsBar /\ CloBar' = CloBar /\ UvBar' = UvBar
  BY <1>1, SameStorage DEF TextInv
<1> SUFFICES ASSUME ~ Misled PROVE Vm!TailCall \/ Vm!Return
  BY <1>1, <1>4
<1>5. CASE I.op = "TAILCALL"
  <2>1. \A k \in 1 .. I.b - 1 : Value(IF I.op = "RETURN" THEN I.a + k - 1 ELSE I.a + k) = RegsBar[I.a + k]
    BY <1>1, <1>5, ValuesAreRegisters, NotMisled DEF TextInv
  <2>2. seen' = [k \in 1 .. I.b - 1 |-> RegsBar[I.a + k]]
    BY <1>1, <2>1
  <2> QED BY <1>1, <1>3, <1>4, <1>5, <2>2 DEF Vm!TailCall, Vm!Leave, Vm!Go, Returned
<1>6. CASE I.op = "RETURN"
  <2>1. \A k \in 1 .. I.b - 1 : Value(IF I.op = "RETURN" THEN I.a + k - 1 ELSE I.a + k) = RegsBar[I.a + k - 1]
    BY <1>1, <1>6, ValuesAreRegisters, NotMisled DEF TextInv
  <2>2. seen' = [k \in 1 .. I.b - 1 |-> RegsBar[I.a + k - 1]]
    BY <1>1, <2>1
  <2> QED BY <1>1, <1>3, <1>4, <1>6, <2>2 DEF Vm!Return, Vm!Leave, Vm!Go, Returned
<1> QED BY <1>1, <1>5, <1>6

(* An assignment that is left out: the call it prepares is the one that     *)
(* canOmitArgumentSetup found, or the function returns.                     *)
LEMMA OmitMeans ==
    ASSUME TextInv, OmitArgumentSetup
    PROVE  /\ Vm!LoadK \/ Vm!LoadNil \/ Vm!Move \/ Vm!LoadBool
           /\ StorageInv' /\ UNCHANGED <<code, mode>> /\ mode # "dispatcher" /\ at' = at + 1
           /\ \A r \in Register : unset'[r] # NotUnset =>
                 \/ Awaited(code, r, at + 1)
                 \/ r \notin writesRegister(code, at) /\ unset[r] # NotUnset
<1>1. at \in DOMAIN code /\ I.op \in {"LOADK", "LOADNIL", "MOVE", "LOADBOOL"} /\ Omitted
      /\ UNCHANGED <<cell, heap, held, seen, code, mode>>
      /\ unset' = Over(IF I.op = "MOVE" THEN Only(I.a, RegsBar[I.b]) ELSE Written, unset)
  BY DEF OmitArgumentSetup, Statement, Fixed
<1>2. Rendered /\ Valid(code) /\ Boundary(code, at) /\ at # Returned
      /\ DOMAIN code = 0 .. Size(code)-1 /\ Size(code) \in Nat /\ at \in Nat
  BY <1>1, AtInstruction DEF TextInv
<1>3. checkRegisters(I) /\ I.a \in Nat /\ I.b \in Nat
  BY <1>2, Named
<1>4. I.a \in Register
  BY <1>1, <1>3 DEF checkRegisters
<1>5. at' = at + 1
  BY StatementGoes DEF TextInv, ControlInv, Goes
<1>6. Vm!I = I /\ Vm!At(I.op)
  BY <1>2 DEF Vm!At, Vm!I, I, Returned
<1> DEFINE limit == IF at < begin THEN begin ELSE Size(code)
           stop == Min({q \in at+1 .. limit : hasControlEntryAt(code, q)} \cup {limit})
<1>7. ~ InLoop /\ (code[at+1].op \in {"RETURN", "TAILCALL"} \/ canOmitArgumentSetup(code, at, stop))
  BY <1>1 DEF Omitted
<1>8. mode # "dispatcher"
  BY <1>1, <1>2, <1>7 DEF Rendered, InLoop, Region
<1>9. \A r \in writesRegister(code, at) : Awaited(code, r, at + 1)
  <2>1. limit \in 0 .. Size(code)
    BY <1>2 DEF Rendered
  <2> HIDE DEF limit
  <2> DEFINE T == {q \in at+1 .. limit : hasControlEntryAt(code, q)} \cup {limit}
  <2>2. T \in SUBSET Nat /\ limit \in T /\ \A q \in T : q \in 0 .. Size(code)
    BY <1>2, <2>1
  <2> HIDE DEF T
  <2>3. Min(T) \in T
    BY <2>2, MinOf
  <2>4. stop = Min(T)
    BY DEF T
  <2> HIDE DEF stop
  <2>5. stop \in 0 .. Size(code)
    BY <2>2, <2>3, <2>4
  <2>6. CASE canOmitArgumentSetup(code, at, stop)
    BY <1>1, <1>2, <2>5, <2>6, OmittedIsPrepared DEF Awaited
  <2>7. CASE code[at+1].op \in {"RETURN", "TAILCALL"}
    BY <2>7 DEF Awaited
  <2> QED BY <1>7, <2>6, <2>7
<1> HIDE DEF stop, limit
<1>10. ASSUME NEW f, unset' = Over(f, unset), DOMAIN f \subseteq Register, \A r \in DOMAIN f : f[r] # NotUnset,
              DOMAIN f = writesRegister(code, at)
       PROVE  /\ Vm!Set(f, at + 1) /\ StorageInv'
              /\ \A r \in Register : unset'[r] # NotUnset =>
                    \/ Awaited(code, r, at + 1)
                    \/ r \notin writesRegister(code, at) /\ unset[r] # NotUnset
  <2>1. unset' = [r \in Register |-> IF r \in DOMAIN f THEN f[r] ELSE unset[r]]
    <3>1. DOMAIN f \cup DOMAIN unset = Register
      BY <1>10 DEF TextInv, StorageInv
    <3> QED BY <1>10, <3>1 DEF Over
  <2>2. CloBar' = CloBar /\ UvBar' = UvBar
    BY <1>1 DEF CloBar, UvBar
  <2>3. RegsBar' = Over(f, RegsBar)
    <3>1. RegsBar = [r \in Register |-> IF unset[r] = NotUnset THEN heap[<<r, cell[r]>>] ELSE unset[r]]
      BY DEF RegsBar, Read
    <3>2. RegsBar' = [r \in Register |-> IF unset'[r] = NotUnset THEN heap[<<r, cell[r]>>] ELSE unset'[r]]
      BY <1>1 DEF RegsBar, Read
    <3>3. Over(f, RegsBar) = [r \in Register |-> IF r \in DOMAIN f THEN f[r] ELSE RegsBar[r]]
      <4>1. DOMAIN f \cup DOMAIN RegsBar = Register
        BY <1>10, <3>1
      <4> QED BY <4>1 DEF Over
    <3>4. \A r \in Register : (IF unset'[r] = NotUnset THEN heap[<<r, cell[r]>>] ELSE unset'[r])
                                = IF r \in DOMAIN f THEN f[r] ELSE RegsBar[r]
      BY <1>10, <2>1, <3>1
    <3> QED BY <3>2, <3>3, <3>4
  <2>4. StorageInv'
    BY <1>1, <2>1 DEF TextInv, StorageInv, Place, Generation
  <2>5. Vm!Set(f, at + 1)
    BY <1>1, <1>5, <2>2, <2>3, SameAssignments DEF Vm!Set, Vm!Go
  <2> QED BY <1>9, <1>10, <2>1, <2>4, <2>5
<1>11. CASE I.op = "LOADK"
  <2> DEFINE f == Only(I.a, Vm!LoadedBy(at))
  <2>1. unset' = Over(f, unset)
    BY <1>1, <1>11 DEF Written
  <2>2. DOMAIN f = {I.a} /\ f[I.a] # NotUnset
    BY Marks DEF Only
  <2>3. writesRegister(code, at) = {I.a}
    BY <1>2, <1>11 DEF writesRegister, I
  <2>4. f = Vm!Only(Vm!I.a, Vm!LoadedBy(at))
    BY <1>6, SameAssignments
  <2> HIDE DEF f
  <2>5. /\ Vm!Set(f, at + 1) /\ StorageInv'
        /\ \A r \in Register : unset'[r] # NotUnset =>
              \/ Awaited(code, r, at + 1)
              \/ r \notin writesRegister(code, at) /\ unset[r] # NotUnset
    BY <1>4, <1>10, <2>1, <2>2, <2>3
  <2>6. Vm!LoadK
    BY <1>6, <1>11, <2>4, <2>5 DEF Vm!LoadK
  <2> QED BY <1>1, <1>5, <1>8, <2>5, <2>6
<1>12. CASE I.op = "LOADNIL"
  <2> DEFINE f == [r \in I.a .. I.b |-> Nil]
  <2>1. unset' = Over(f, unset)
    BY <1>1, <1>12 DEF Written
  <2>2. DOMAIN f = I.a .. I.b /\ \A r \in DOMAIN f : f[r] # NotUnset
    BY Marks
  <2>3. writesRegister(code, at) = I.a .. I.b /\ I.a .. I.b \subseteq Register
    <3>1. I.b \in Register
      BY <1>3, <1>12 DEF checkRegisters
    <3>2. I.a .. I.b \subseteq Register
      BY <1>3, <3>1, Lua51Assumption DEF Register
    <3> QED BY <1>2, <1>12, <3>2 DEF writesRegister, I
  <2>4. f = [r \in Vm!I.a .. Vm!I.b |-> Vm!Nil]
    BY <1>6, Marks
  <2> HIDE DEF f
  <2>5. /\ Vm!Set(f, at + 1) /\ StorageInv'
        /\ \A r \in Register : unset'[r] # NotUnset =>
              \/ Awaited(code, r, at + 1)
              \/ r \notin writesRegister(code, at) /\ unset[r] # NotUnset
    BY <1>10, <2>1, <2>2, <2>3
  <2>6. Vm!LoadNil
    BY <1>6, <1>12, <2>4, <2>5 DEF Vm!LoadNil
  <2> QED BY <1>1, <1>5, <1>8, <2>5, <2>6
<1>13. CASE I.op = "MOVE"
  <2> DEFINE f == Only(I.a, RegsBar[I.b])
  <2>1. unset' = Over(f, unset)
    BY <1>1, <1>13
  <2>2. I.b \in Register
    BY <1>3, <1>13 DEF checkRegisters
  <2>3. DOMAIN f = {I.a} /\ f[I.a] # NotUnset
    BY <2>2, BarOf DEF Only, TextInv
  <2>4. writesRegister(code, at) = {I.a}
    BY <1>2, <1>13 DEF writesRegister, I
  <2>5. f = Vm!Only(Vm!I.a, RegsBar[Vm!I.b])
    BY <1>6, SameAssignments
  <2> HIDE DEF f
  <2>6. /\ Vm!Set(f, at + 1) /\ StorageInv'
        /\ \A r \in Register : unset'[r] # NotUnset =>
              \/ Awaited(code, r, at + 1)
              \/ r \notin writesRegister(code, at) /\ unset[r] # NotUnset
    BY <1>4, <1>10, <2>1, <2>3, <2>4
  <2>7. Vm!Move
    BY <1>6, <1>13, <2>5, <2>6 DEF Vm!Move
  <2> QED BY <1>1, <1>5, <1>8, <2>6, <2>7
<1>14. CASE I.op = "LOADBOOL"
  <2> DEFINE v == IF I.b = 1 THEN Vm!LoadedBy(at) ELSE Nil
             f == Only(I.a, v)
  <2>1. unset' = Over(f, unset)
    BY <1>1, <1>14 DEF Written
  <2>2. DOMAIN f = {I.a} /\ f[I.a] # NotUnset
    BY Marks DEF Only
  <2>3. writesRegister(code, at) = {I.a}
    BY <1>2, <1>14 DEF writesRegister, I
  <2>4. f = Vm!Only(Vm!I.a, IF Vm!I.b = 1 THEN Vm!LoadedBy(at) ELSE Vm!Nil)
    BY <1>6, SameAssignments, Marks
  <2>5. I.c = 0
    BY <1>1, <1>2, <1>14, OmittedIsPlain
  <2> HIDE DEF f
  <2>6. /\ Vm!Set(f, at + 1) /\ StorageInv'
        /\ \A r \in Register : unset'[r] # NotUnset =>
              \/ Awaited(code, r, at + 1)
              \/ r \notin writesRegister(code, at) /\ unset[r] # NotUnset
    BY <1>4, <1>10, <2>1, <2>2, <2>3
  <2>7. Vm!LoadBool
    BY <1>6, <1>14, <2>4, <2>5, <2>6 DEF Vm!LoadBool
  <2> QED BY <1>1, <1>5, <1>8, <2>6, <2>7
<1> QED BY <1>1, <1>11, <1>12, <1>13, <1>14

(* A new cell for every managed register closes exactly the upvalues that   *)
(* CLOSE closes: the closures keep the old cell.                            *)
LEMMA CloseMeans ==
    ASSUME TextInv, EmitClose
    PROVE  Does(Vm!Close)
<1> DEFINE closed == {r \in managedCapturedRegisters(code) : r >= I.a}
           fresh(r) == Min(Unheld(r))
<1>1. at \in DOMAIN code /\ I.op = "CLOSE" /\ UNCHANGED <<held, seen, unset, code, mode>> /\ emitCapturedCellClose(I.a)
  BY DEF EmitClose, Statement, Fixed
<1>2. /\ cell' = [r \in Register |-> IF r \in closed THEN fresh(r) ELSE cell[r]]
      /\ heap' = [s \in Place |-> IF s[1] \in closed /\ s[2] = fresh(s[1]) THEN Read(s[1]) ELSE heap[s]]
  BY <1>1, Held DEF emitCapturedCellClose, Unheld, TextInv
<1>3. Rendered /\ Boundary(code, at) /\ at # Returned
  BY <1>1, AtInstruction DEF TextInv
<1>4. Vm!I = I /\ Vm!At("CLOSE")
  BY <1>1, <1>3 DEF Vm!At, Vm!I, I, Returned
<1>5. StorageInv
  BY DEF TextInv
<1>6. \A r \in Register : fresh(r) \in Generation /\ \A k \in DOMAIN held : held[k] # <<r, fresh(r)>>
  BY <1>5, FreshCell
<1>7. \A r \in managedCapturedRegisters(code) : r \in capturedRegisters(code)
  BY DEF managedCapturedRegisters
<1>8. \A r \in capturedRegisters(code) : r >= I.a => r \in closed
  BY <1>1 DEF managedCapturedRegisters, I
<1> HIDE DEF fresh, closed
<1>9. \A u \in DOMAIN held :
        /\ held[u] \in Place /\ held[u][1] \in Register /\ held[u] = <<held[u][1], held[u][2]>>
        /\ held[u][2] # fresh(held[u][1])
  <2> SUFFICES ASSUME NEW u \in DOMAIN held
               PROVE  /\ held[u] \in Place /\ held[u][1] \in Register /\ held[u] = <<held[u][1], held[u][2]>>
                      /\ held[u][2] # fresh(held[u][1])
    OBVIOUS
  <2>1. held[u] \in Place /\ held[u][1] \in Register /\ held[u] = <<held[u][1], held[u][2]>>
    BY <1>5, Held
  <2>2. held[u] # <<held[u][1], fresh(held[u][1])>>
    BY <1>6, <2>1
  <2> QED BY <2>1, <2>2
<1>10. \A u \in DOMAIN held : heap'[held[u]] = heap[held[u]]
  BY <1>2, <1>9
<1>11. \A r \in Register : Read(r)' = Read(r)
  <2> SUFFICES ASSUME NEW r \in Register PROVE heap'[<<r, cell'[r]>>] = heap[<<r, cell[r]>>]
    BY DEF Read
  <2>1. CASE r \in closed
    <3>1. cell'[r] = fresh(r) /\ <<r, fresh(r)>> \in Place
      BY <1>2, <1>6, <2>1 DEF Place
    <3>2. heap'[<<r, fresh(r)>>] = Read(r)
      BY <1>2, <2>1, <3>1
    <3> QED BY <3>1, <3>2 DEF Read
  <2>2. CASE r \notin closed
    <3>1. cell'[r] = cell[r] /\ <<r, cell[r]>> \in Place
      BY <1>2, <1>5, <2>2, Held
    <3> QED BY <1>2, <2>2, <3>1
  <2> QED BY <2>1, <2>2
<1>12. RegsBar' = RegsBar
  BY <1>1, <1>11 DEF RegsBar
<1>13. CloBar' = CloBar
  BY <1>1 DEF CloBar
<1>14. StorageInv'
  <2>1. cell' \in [Register -> Generation]
    BY <1>2, <1>5, <1>6 DEF StorageInv
  <2>2. heap' = [s \in Place |-> heap'[s]]
    BY <1>2
  <2>3. \A s \in Place : heap'[s] # NotUnset
    <3>1. \A s \in Place : s[1] \in Register /\ heap[s] # NotUnset
      BY <1>5 DEF StorageInv, Place
    <3>2. \A r \in Register : Read(r) # NotUnset
      BY <1>5, Held DEF StorageInv, Read
    <3> QED BY <1>2, <3>1, <3>2
  <2> QED BY <1>1, <1>5, <2>1, <2>2, <2>3 DEF StorageInv, Place, Generation
<1>15. \A u \in DOMAIN UvBar : u \in DOMAIN held
          /\ UvBar[u] = [reg |-> held[u][1], open |-> OpenAt(u),
                         val |-> IF OpenAt(u) THEN Vm!Nil ELSE heap[held[u]]]
  BY <1>5, Upvalues
<1> DEFINE U == DOMAIN UvBar
<1>16. UvBar' = [u \in U |-> [reg |-> held[u][1], open |-> OpenAt(u)',
                             val |-> IF OpenAt(u)' THEN Vm!Nil ELSE heap'[held[u]]]]
  <2>1. DOMAIN UvBar = {CloBar[k] : k \in DOMAIN held}
    BY DEF UvBar
  <2>2. UvBar' = [u \in {CloBar[k] : k \in DOMAIN held} |->
                     [reg |-> held[u][1], open |-> OpenAt(u)',
                      val |-> IF OpenAt(u)' THEN Vm!Nil ELSE heap'[held[u]]]]
    BY <1>1, <1>13 DEF UvBar, OpenAt, Vm!Nil
  <2> QED BY <2>1, <2>2
<1>17. ASSUME ~ Misled, NEW u \in U
       PROVE  [reg |-> held[u][1], open |-> OpenAt(u)', val |-> IF OpenAt(u)' THEN Vm!Nil ELSE heap'[held[u]]]
                = IF UvBar[u].open /\ UvBar[u].reg >= I.a
                  THEN [reg |-> UvBar[u].reg, open |-> FALSE, val |-> RegsBar[UvBar[u].reg]] ELSE UvBar[u]
  <2> DEFINE g == held[u][1]
  <2>1. u \in DOMAIN held /\ g \in Register /\ g \in capturedRegisters(code)
    BY <1>5, <1>9, <1>15 DEF StorageInv
  <2>2. UvBar[u].open = OpenAt(u) /\ UvBar[u].reg = g
    BY <1>15
  <2>3. OpenAt(u) <=> held[u][2] = cell[g]
    BY <1>9, <2>1, SamePlace DEF OpenAt
  <2>4. OpenAt(u)' <=> held[u][2] = cell'[g]
    BY <1>1, <1>9, <2>1, SamePlace DEF OpenAt
  <2>5. cell'[g] = IF g \in closed THEN fresh(g) ELSE cell[g]
    BY <1>2, <2>1
  <2>6. CASE OpenAt(u) /\ g >= I.a
    <3>1. ~ OpenAt(u)'
      BY <1>8, <1>9, <2>1, <2>4, <2>5, <2>6
    <3>2. heap'[held[u]] = RegsBar[g]
      <4>1. heap[held[u]] = Read(g)
        BY <2>6 DEF OpenAt, Read
      <4>2. unset[g] = NotUnset
        BY <1>17, <2>1, <2>6, NotMisled
      <4> QED BY <1>10, <2>1, <4>1, <4>2, BarOf
    <3>3. OpenAt(u) = TRUE /\ OpenAt(u)' = FALSE
      BY <2>6, <3>1 DEF OpenAt
    <3>4. UvBar[u] = [reg |-> g, open |-> TRUE, val |-> Vm!Nil]
      BY <1>15, <3>3
    <3>5. [reg |-> g, open |-> OpenAt(u)', val |-> IF OpenAt(u)' THEN Vm!Nil ELSE heap'[held[u]]]
            = [reg |-> g, open |-> FALSE, val |-> RegsBar[g]]
      BY <3>2, <3>3
    <3> HIDE DEF g
    <3>6. UvBar[u].reg = g
      BY <3>4
    <3>7. UvBar[u].open = TRUE /\ UvBar[u].reg >= I.a
      BY <2>6, <3>4 DEF g
    <3> QED BY <3>5, <3>6, <3>7, Zenon DEF g
  <2>7. CASE ~ OpenAt(u)
    <3>1. ~ OpenAt(u)'
      BY <1>9, <2>1, <2>3, <2>4, <2>5, <2>7
    <3>2. OpenAt(u) = FALSE /\ OpenAt(u)' = FALSE
      BY <2>7, <3>1 DEF OpenAt
    <3> QED BY <1>10, <1>15, <2>1, <2>2, <3>2
  <2>8. CASE OpenAt(u) /\ ~ (g >= I.a)
    <3>1. g \notin closed
      BY <2>8 DEF closed
    <3>2. OpenAt(u)'
      BY <2>3, <2>4, <2>5, <2>8, <3>1
    <3> QED BY <1>15, <2>2, <2>8, <3>2
  <2> QED BY <2>6, <2>7, <2>8
<1>18. ~ Misled => UvBar' = [u \in DOMAIN UvBar |->
                    IF UvBar[u].open /\ UvBar[u].reg >= I.a
                    THEN [reg |-> UvBar[u].reg, open |-> FALSE, val |-> RegsBar[UvBar[u].reg]] ELSE UvBar[u]]
  BY <1>16, <1>17
<1>19. at' = at + 1
  BY StatementGoes DEF TextInv, ControlInv, Goes
<1>20. ~ Misled => Vm!Close
  BY <1>1, <1>4, <1>12, <1>13, <1>18, <1>19 DEF Vm!Close, Vm!Go
<1>21. writesRegister(code, at) = {}
  BY <1>1 DEF writesRegister, I
<1>22. Kept
  BY <1>1, <1>21 DEF Kept
<1> QED BY <1>1, <1>14, <1>20, <1>22 DEF Does

(* There are as many closures in the machine as in the text. *)
LEMMA ClosureCount ==
    ASSUME StorageInv
    PROVE  CloBar \in Seq(Nat) /\ Len(CloBar) = Len(held)
<1>1. Len(held) \in Nat /\ DOMAIN held = 1 .. Len(held)
  BY Held
<1>2. DOMAIN CloBar = 1 .. Len(held) /\ \A k \in 1 .. Len(held) : CloBar[k] \in Nat
  BY <1>1, Upvalues
<1>3. CloBar = [k \in 1 .. Len(held) |-> CloBar[k]]
  BY <1>1 DEF CloBar
<1>4. \A n \in Nat : \A f : f = [k \in 1 .. n |-> f[k]] /\ (\A k \in 1 .. n : f[k] \in Nat)
                              => f \in Seq(Nat) /\ Len(f) = n
  OBVIOUS
<1> HIDE DEF CloBar
<1> QED BY <1>1, <1>2, <1>3, <1>4

(* The first place of a sequence where something is. *)
First(s, x) == Min({j \in DOMAIN s : s[j] = x})

(* The first place does not move when something is appended. *)
LEMMA FirstAppend ==
    ASSUME NEW S, NEW s \in Seq(S), NEW y \in S, NEW x
    PROVE  /\ (\E j \in DOMAIN s : s[j] = x) => First(Append(s, y), x) = First(s, x)
           /\ ~ (\E j \in DOMAIN s : s[j] = x) /\ x = y => First(Append(s, y), x) = Len(s) + 1
<1> DEFINE t == Append(s, y)
           n == Len(s)
           A == {j \in DOMAIN s : s[j] = x}
           B == {j \in DOMAIN t : t[j] = x}
<1>1. n \in Nat /\ DOMAIN s = 1 .. n /\ DOMAIN t = 1 .. n+1 /\ t[n+1] = y /\ \A j \in 1 .. n : t[j] = s[j]
  OBVIOUS
<1> HIDE DEF t, n
<1>2. A \in SUBSET Nat /\ B \in SUBSET Nat
  BY <1>1
<1>3. ASSUME \E j \in DOMAIN s : s[j] = x PROVE Min(B) = Min(A)
  <2>1. A # {} /\ \A j \in A : j \in B
    BY <1>1, <1>3
  <2>2. \A j \in B : j \in A \/ j = n + 1
    BY <1>1
  <2>3. \A j \in A : j <= n
    BY <1>1
  <2> HIDE DEF A, B
  <2>4. Min(A) \in A /\ \A j \in A : Min(A) <= j
    BY <1>2, <2>1, MinOf
  <2>5. Min(B) \in B /\ \A j \in B : Min(B) <= j
    BY <1>2, <2>1, MinOf
  <2>6. Min(A) \in Nat /\ Min(B) \in Nat /\ Min(B) <= Min(A)
    BY <1>2, <2>1, <2>4, <2>5
  <2>7. Min(A) <= Min(B)
    BY <1>1, <2>2, <2>3, <2>4, <2>5, <2>6
  <2> QED BY <2>6, <2>7
<1>4. ASSUME ~ \E j \in DOMAIN s : s[j] = x, x = y PROVE Min(B) = n + 1
  <2>1. B = {n + 1}
    BY <1>1, <1>4
  <2>2. Min(B) \in B
    BY <1>2, <2>1, MinOf
  <2> QED BY <2>1, <2>2
<1> QED BY <1>3, <1>4 DEF First, t, n

(* Append as a function. *)
LEMMA AppendIs ==
    ASSUME NEW S, NEW s \in Seq(S), NEW e \in S
    PROVE  Append(s, e) = [k \in 1 .. Len(s)+1 |-> IF k = Len(s)+1 THEN e ELSE s[k]]
<1> DEFINE t == Append(s, e)
           n == Len(s)
<1>1. t \in Seq(S) /\ Len(t) = n + 1 /\ n \in Nat
  OBVIOUS
<1>2. t[n+1] = e /\ \A k \in 1 .. n : t[k] = s[k]
  OBVIOUS
<1> HIDE DEF t, n
<1>3. t = [k \in 1 .. n+1 |-> t[k]]
  BY <1>1
<1>4. \A k \in 1 .. n+1 : t[k] = IF k = n+1 THEN e ELSE s[k]
  BY <1>1, <1>2
<1> QED BY <1>3, <1>4 DEF t, n

(* The machine has its own copy of Min. *)
LEMMA SameMin == ASSUME NEW S PROVE Vm!Min(S) = Min(S)
  BY DEF Vm!Min, Min

(* A closure that captures a cell which an earlier one holds shares its     *)
(* upvalue; any other has a new one.                                        *)
LEMMA ClosureMeans ==
    ASSUME TextInv, EmitClosure
    PROVE  Does(Vm!Closure)
<1> DEFINE b == code[at+1].b
           here == <<b, cell[b]>>
           n == Len(held)
           f == Only(I.a, Vm!LoadedBy(at))
<1>1. /\ at \in DOMAIN code /\ I.op = "CLOSURE" /\ UNCHANGED <<cell, seen, code, mode>>
      /\ held' = Append(held, here) /\ heap' = Stored(f, heap) /\ n < MaxClosures
      /\ unset' = [unset EXCEPT ![I.a] = NotUnset]
  BY DEF EmitClosure, Statement, Fixed
<1>2. Rendered /\ Valid(code) /\ Boundary(code, at) /\ at # Returned /\ at \in Nat
  BY <1>1, AtInstruction DEF TextInv
<1>3. Vm!I = I /\ Vm!At("CLOSURE")
  BY <1>1, <1>2 DEF Vm!At, Vm!I, I, Returned
<1>4. StorageInv
  BY DEF TextInv
<1>5. I.a \in Register /\ I.c = 1
  <2>1. I.a \in Register
    BY <1>1, <1>2, Named DEF checkRegisters
  <2> QED BY <1>1, <1>2, <2>1, CodeShape DEF Valid, I
<1>6. closureBinding(code, at + 1) /\ at + 1 \in DOMAIN code
  BY <1>1, <1>2, BoundaryAfter DEF I
<1>7. b \in Register /\ b \in capturedRegisters(code)
  BY <1>2, <1>6 DEF Valid, validateProtoData, capturedRegisters
<1>8. here \in Place /\ held \in Seq(Place) /\ n \in Nat /\ DOMAIN held = 1 .. n
  BY <1>4, <1>7, Held DEF StorageInv
<1> HIDE DEF here
<1>9. /\ DOMAIN held' = 1 .. n+1 /\ held'[n+1] = here /\ \A k \in 1 .. n : held'[k] = held[k]
      /\ held' \in Seq(Place) /\ Len(held') = n + 1
  <2> HIDE DEF Place
  <2> QED BY <1>1, <1>8
<1>10. unset' = [r \in Register |-> IF r = I.a THEN NotUnset ELSE unset[r]]
  BY <1>1, <1>4 DEF StorageInv
<1>11. heap' = [s \in Place |-> IF s[1] = I.a /\ s[2] = cell[s[1]] THEN Vm!LoadedBy(at) ELSE heap[s]]
  BY <1>1, <1>4, Held DEF Stored, Only
<1>12. RegsBar' = [RegsBar EXCEPT ![I.a] = Vm!LoadedBy(at)]
  <2>1. RegsBar = [r \in Register |-> IF unset[r] = NotUnset THEN heap[<<r, cell[r]>>] ELSE unset[r]]
    BY DEF RegsBar, Read
  <2>2. RegsBar' = [r \in Register |-> IF unset'[r] = NotUnset THEN heap'[<<r, cell[r]>>] ELSE unset'[r]]
    BY <1>1 DEF RegsBar, Read
  <2>3. \A r \in Register : heap'[<<r, cell[r]>>] = IF r = I.a THEN Vm!LoadedBy(at) ELSE heap[<<r, cell[r]>>]
    BY <1>4, <1>11, Held
  <2>4. \A r \in Register : (IF unset'[r] = NotUnset THEN heap'[<<r, cell[r]>>] ELSE unset'[r])
                              = IF r = I.a THEN Vm!LoadedBy(at) ELSE RegsBar[r]
    BY <1>10, <2>1, <2>3
  <2>5. RegsBar' = [r \in Register |-> IF r = I.a THEN Vm!LoadedBy(at) ELSE RegsBar[r]]
    BY <2>2, <2>4
  <2>6. DOMAIN RegsBar = Register
    BY DEF RegsBar
  <2> HIDE DEF RegsBar
  <2> QED BY <2>5, <2>6
<1>13. StorageInv'
  <2>1. heap' = [s \in Place |-> heap'[s]] /\ \A s \in Place : heap'[s] # NotUnset
    BY <1>4, <1>11, Marks DEF StorageInv
  <2>2. \A k \in DOMAIN held' : held'[k][1] \in capturedRegisters(code)
    <3> SUFFICES ASSUME NEW k \in 1 .. n+1 PROVE held'[k][1] \in capturedRegisters(code)
      BY <1>9
    <3>1. CASE k = n + 1
      BY <1>7, <1>9, <3>1 DEF here
    <3>2. CASE k # n + 1
      BY <1>4, <1>8, <1>9, <3>2 DEF StorageInv
    <3> QED BY <3>1, <3>2
  <2>3. Len(held') <= MaxClosures
    BY <1>1, <1>8, <1>9, TextAssumption
  <2>4. unset' = [r \in Register |-> unset'[r]]
    BY <1>10
  <2> QED BY <1>1, <1>4, <1>9, <2>1, <2>2, <2>3, <2>4 DEF StorageInv, Place, Generation
(* The upvalue of the new closure. *)
<1>14. CloBar = [k \in 1 .. n |-> First(held, held[k])]
  BY <1>8 DEF CloBar, First
<1>15. CloBar' = [k \in 1 .. n+1 |-> First(held', held'[k])]
  BY <1>9 DEF CloBar, First
<1>16. \A k \in 1 .. n : First(held', held'[k]) = CloBar[k]
  <2> SUFFICES ASSUME NEW k \in 1 .. n PROVE First(held', held[k]) = First(held, held[k])
    BY <1>9, <1>14
  <2>1. \E j \in DOMAIN held : held[j] = held[k]
    BY <1>8
  <2> HIDE DEF Place
  <2> QED BY <1>1, <1>8, <2>1, FirstAppend
<1> DEFINE top == First(held', here)
<1>17. CloBar' = Append(CloBar, top)
  <2>1. CloBar \in Seq(Nat) /\ Len(CloBar) = n
    BY <1>4, ClosureCount
  <2>2. CloBar' = [k \in 1 .. n+1 |-> IF k = n+1 THEN top ELSE CloBar[k]]
    BY <1>8, <1>9, <1>15, <1>16
  <2>3. top \in Nat
    <3> DEFINE T == {j \in DOMAIN held' : held'[j] = here}
    <3>1. T \in SUBSET Nat /\ T # {}
      BY <1>8, <1>9
    <3> HIDE DEF T
    <3>2. Min(T) \in T
      BY <3>1, MinOf
    <3> QED BY <3>1, <3>2 DEF First, T
  <2> HIDE DEF top, CloBar
  <2>4. Append(CloBar, top) = [k \in 1 .. n+1 |-> IF k = n+1 THEN top ELSE CloBar[k]]
    BY <2>1, <2>3, AppendIs
  <2> QED BY <2>2, <2>4
<1> HIDE DEF top
<1> DEFINE U == {CloBar[k] : k \in DOMAIN held}
           found == {u \in DOMAIN UvBar : UvBar[u].open /\ UvBar[u].reg = b}
<1>18. /\ DOMAIN UvBar = U
       /\ \A u \in U : u \in 1 .. n /\ UvBar[u] = [reg |-> held[u][1], open |-> OpenAt(u),
                                               val |-> IF OpenAt(u) THEN Vm!Nil ELSE heap[held[u]]]
  BY <1>4, <1>8, Upvalues
<1>19. \A u \in U : u \in found <=> held[u] = here
  <2> SUFFICES ASSUME NEW u \in U PROVE u \in found <=> held[u] = here
    OBVIOUS
  <2>1. held[u] \in Place
    BY <1>4, <1>8, <1>18, Held
  <2>2. u \in found <=> OpenAt(u) /\ held[u][1] = b
    <3>1. UvBar[u].open = OpenAt(u) /\ UvBar[u].reg = held[u][1]
      <4>1. UvBar[u] = [reg |-> held[u][1], open |-> OpenAt(u),
                        val |-> IF OpenAt(u) THEN Vm!Nil ELSE heap[held[u]]]
        BY <1>18, Zenon
      <4> HIDE DEF UvBar
      <4> QED BY <4>1
    <3>2. u \in DOMAIN UvBar
      BY <1>18
    <3> HIDE DEF UvBar
    <3> QED BY <3>1, <3>2
  <2>3. OpenAt(u) <=> held[u][2] = cell[held[u][1]]
    BY <2>1, SamePlace DEF OpenAt
  <2>4. held[u] = here <=> held[u][1] = b /\ held[u][2] = cell[b]
    BY <2>1, SamePlace DEF here
  <2> QED BY <2>2, <2>3, <2>4
<1> DEFINE OpenAfter(u) == held'[u] = <<held'[u][1], cell'[held'[u][1]]>>
           After(u) == [reg |-> held'[u][1], open |-> OpenAfter(u),
                        val |-> IF OpenAfter(u) THEN Vm!Nil ELSE heap'[held'[u]]]
<1>20. UvBar' = [u \in U \cup {top} |-> After(u)]
  <2>1. {CloBar'[k] : k \in DOMAIN held'} = U \cup {top}
    <3>1. \A k \in 1 .. n : CloBar'[k] = CloBar[k]
      BY <1>8, <1>15, <1>16
    <3>2. CloBar'[n+1] = top
      BY <1>8, <1>9, <1>15 DEF top
    <3>3. DOMAIN held' = DOMAIN held \cup {n+1}
      BY <1>8, <1>9
    <3> HIDE DEF CloBar
    <3> QED BY <1>8, <3>1, <3>2, <3>3
  <2>2. UvBar' = [u \in {CloBar'[k] : k \in DOMAIN held'} |->
                    [reg |-> held'[u][1], open |-> OpenAfter(u),
                     val |-> IF OpenAfter(u) THEN Vm!Nil ELSE heap'[held'[u]]]]
    BY DEF UvBar, Vm!Nil
  <2> QED BY <2>1, <2>2
<1>21. \A u \in U : UvBar[u] = After(u)
  <2> SUFFICES ASSUME NEW u \in U PROVE UvBar[u] = After(u)
    OBVIOUS
  <2>1. held[u] \in Place /\ held'[u] = held[u]
    BY <1>4, <1>8, <1>9, <1>18, Held
  <2>2. OpenAfter(u) = OpenAt(u)
    BY <1>1, <2>1 DEF OpenAt
  <2>3. ~ OpenAt(u) => held[u][2] # cell[held[u][1]]
    BY <2>1, SamePlace DEF OpenAt
  <2>4. ~ OpenAt(u) => heap'[held[u]] = heap[held[u]]
    BY <1>11, <2>1, <2>3
  <2>5. UvBar[u] = [reg |-> held[u][1], open |-> OpenAt(u),
                    val |-> IF OpenAt(u) THEN Vm!Nil ELSE heap[held[u]]]
    BY <1>18, Zenon
  <2> HIDE DEF UvBar, OpenAfter
  <2> QED BY <2>1, <2>2, <2>4, <2>5
<1>22. ASSUME found = {}
       PROVE  /\ CloBar' = Append(CloBar, Len(CloBar) + 1)
              /\ UvBar' = Vm!Over(Vm!Only(Len(CloBar) + 1, [reg |-> b, open |-> TRUE, val |-> Vm!Nil]), UvBar)
  <2>1. ~ \E j \in DOMAIN held : held[j] = here
    <3> SUFFICES ASSUME NEW j \in DOMAIN held, held[j] = here PROVE FALSE
      OBVIOUS
    <3>1. CloBar[j] \in U /\ held[CloBar[j]] = here
      BY <1>4, Upvalues
    <3> QED BY <1>19, <1>22, <3>1
  <2>2. top = n + 1
    <3> HIDE DEF Place
    <3> QED BY <1>1, <1>8, <2>1, FirstAppend DEF top
  <2> DEFINE new == [reg |-> b, open |-> TRUE, val |-> Vm!Nil]
  <2>3. After(n+1) = new
    <3>1. held'[n+1][1] = b
      BY <1>9 DEF here
    <3>2. OpenAfter(n+1) = TRUE
      <4>1. here = <<b, cell'[b]>>
        BY <1>1 DEF here
      <4>2. held'[n+1] = <<held'[n+1][1], cell'[held'[n+1][1]]>>
        BY <1>9, <3>1, <4>1, Zenon
      <4> QED BY <4>2
    <3> HIDE DEF OpenAfter
    <3> QED BY <3>1, <3>2
  <2>4. UvBar' = Over(Only(n+1, new), UvBar)
    <3>1. DOMAIN Only(n+1, new) = {n+1} /\ Only(n+1, new)[n+1] = new
      BY DEF Only
    <3>2. n + 1 \notin U
      <4>1. \A u \in U : u \in 1 .. n
        BY <1>18
      <4> HIDE DEF U
      <4> QED BY <1>8, <4>1
    <3>3. Over(Only(n+1, new), UvBar) = [u \in U \cup {n+1} |-> IF u = n+1 THEN new ELSE UvBar[u]]
      <4>1. {n+1} \cup U = U \cup {n+1}
        OBVIOUS
      <4> HIDE DEF new, U
      <4> QED BY <1>18, <3>1, <4>1 DEF Over
    <3> HIDE DEF new, U, UvBar, After
    <3>4. \A u \in U \cup {n+1} : After(u) = IF u = n+1 THEN new ELSE UvBar[u]
      BY <1>21, <2>3, <3>2
    <3> QED BY <1>20, <2>2, <3>3, <3>4
  <2>5. Len(CloBar) = n
    BY <1>4, ClosureCount
  <2>6. CloBar' = Append(CloBar, Len(CloBar) + 1)
    BY <1>17, <2>2, <2>5
  <2> HIDE DEF CloBar, UvBar
  <2> QED BY <2>4, <2>5, <2>6, SameAssignments
<1>23. ASSUME found # {}
       PROVE  CloBar' = Append(CloBar, Min(found)) /\ UvBar' = UvBar
  <2>1. PICK u \in found : TRUE
    BY <1>23
  <2>2. u \in U /\ held[u] = here
    BY <1>18, <1>19, <2>1
  <2>3. u \in 1 .. n /\ CloBar[u] = u
    <3>1. PICK k \in DOMAIN held : u = CloBar[k]
      BY <2>2
    <3> QED BY <1>4, <1>18, <2>2, <3>1, Upvalues
  <2>4. found = {u}
    <3> SUFFICES ASSUME NEW w \in found PROVE w = u
      BY <2>1
    <3>1. w \in U /\ held[w] = here
      BY <1>18, <1>19
    <3>2. PICK k \in DOMAIN held : w = CloBar[k]
      BY <3>1
    <3>3. CloBar[w] = w
      BY <1>4, <1>18, <3>1, <3>2, Upvalues
    <3> QED BY <1>4, <1>8, <1>18, <2>2, <2>3, <3>1, <3>3, Upvalues
  <2>5. Min(found) = u
    <3>1. {u} \in SUBSET Nat
      BY <1>8, <2>3
    <3>2. Min({u}) \in {u}
      BY <3>1, MinOf
    <3> QED BY <2>4, <3>2
  <2>6. top = u
    <3>1. \E j \in DOMAIN held : held[j] = here
      BY <1>8, <2>2, <2>3
    <3>2. top = First(held, here)
      <4> HIDE DEF Place
      <4> QED BY <1>1, <1>8, <3>1, FirstAppend DEF top
    <3>3. CloBar[u] = First(held, held[u])
      BY <1>14, <2>3
    <3> QED BY <2>2, <2>3, <3>2, <3>3
  <2>7. UvBar' = UvBar
    <3>1. U \cup {top} = U
      BY <2>2, <2>6
    <3>2. UvBar = [w \in U |-> UvBar[w]]
      BY DEF UvBar
    <3> HIDE DEF U
    <3> QED BY <1>20, <1>21, <3>1, <3>2
  <2> QED BY <1>17, <2>5, <2>6, <2>7
<1>24. at' = at + 1 + I.c
  <2>1. at' = at + 2
    BY StatementGoes DEF TextInv, ControlInv, Goes
  <2> QED BY <1>2, <1>5, <2>1
<1>25. Vm!Closure
  <2> HIDE DEF found
  <2>1. IF found = {}
        THEN CloBar' = Append(CloBar, Len(CloBar) + 1)
               /\ UvBar' = Vm!Over(Vm!Only(Len(CloBar) + 1, [reg |-> b, open |-> TRUE, val |-> Vm!Nil]), UvBar)
        ELSE CloBar' = Append(CloBar, Min(found)) /\ UvBar' = UvBar
    BY <1>22, <1>23
  <2>2. Vm!Min(found) = Min(found)
    BY SameMin
  <2> QED BY <1>1, <1>3, <1>12, <1>24, <2>1, <2>2 DEF Vm!Closure, Vm!Go, found
<1>26. Kept
  <2>1. writesRegister(code, at) = {I.a}
    BY <1>1, <1>2 DEF writesRegister, I
  <2> QED BY <1>10, <2>1 DEF Kept
<1> QED BY <1>1, <1>13, <1>25, <1>26 DEF Does

(* Assignments to registers, as functions on the registers. *)
LEMMA OverRegisters ==
    ASSUME NEW f, DOMAIN f \subseteq Register, NEW g, g = [r \in Register |-> g[r]]
    PROVE  /\ Over(f, g) = [r \in Register |-> IF r \in DOMAIN f THEN f[r] ELSE g[r]]
           /\ Over(<<>>, g) = g
<1>1. DOMAIN g = Register /\ DOMAIN f \cup Register = Register /\ DOMAIN <<>> \cup Register = Register
  OBVIOUS
<1>2. Over(f, g) = [r \in Register |-> IF r \in DOMAIN f THEN f[r] ELSE g[r]]
  BY <1>1 DEF Over
<1>3. Over(<<>>, g) = [r \in Register |-> g[r]]
  <2>1. DOMAIN <<>> = {}
    OBVIOUS
  <2> QED BY <1>1, <2>1 DEF Over
<1> QED BY <1>2, <1>3

(* A call sets its results, and the function called may have stored a value *)
(* in the variable that one of the closures shares.                         *)
LEMMA CallMeans ==
    ASSUME TextInv, EmitCall
    PROVE  Does(Vm!Call)
<1> DEFINE R == I.a .. I.a + I.c - 2
           f == [r \in R |-> Vm!ResultOf(at)]
           n == Len(held)
<1>1. /\ at \in DOMAIN code /\ I.op = "CALL" /\ UNCHANGED <<cell, held, code, mode>>
      /\ seen' = [k \in 1 .. I.b - 1 |-> Value(I.a + k)]
      /\ unset' = [r \in Register |-> IF r \in R THEN NotUnset ELSE unset[r]]
  BY DEF EmitCall, Statement, Fixed
<1>2. Rendered /\ Boundary(code, at) /\ at # Returned
  BY <1>1, AtInstruction DEF TextInv
<1>3. Vm!I = I /\ Vm!At("CALL")
  BY <1>1, <1>2 DEF Vm!At, Vm!I, I, Returned
<1>4. StorageInv
  BY DEF TextInv
<1>5. R \subseteq Register /\ writesRegister(code, at) = R
  <2>1. checkRegisters(I) /\ I.a \in Nat /\ I.c \in Nat /\ MaxStack \in Nat
    BY <1>2, Named
  <2>2. I.a + I.c - 1 <= MaxStack
    BY <1>1, <2>1 DEF checkRegisters
  <2>3. R \subseteq Register
    BY <2>1, <2>2 DEF Register
  <2> QED BY <1>1, <1>2, <2>3 DEF writesRegister, I
<1>6. at' = at + 1
  BY StatementGoes DEF TextInv, ControlInv, Goes
<1>8. Kept
  BY <1>1, <1>5 DEF Kept
<1>9. PICK k \in 0 .. n :
         heap' = Stored(f, IF k = 0 THEN heap ELSE [heap EXCEPT ![held[k]] = Vm!StoredIn(at)])
  BY DEF EmitCall
<1>10. n \in Nat /\ DOMAIN held = 1 .. n /\ DOMAIN heap = Place
  BY <1>4, Held
<1>11. k # 0 => k \in DOMAIN held /\ held[k] \in Place /\ held[k][1] \in Register
                /\ held[k][1] \in capturedRegisters(code)
  BY <1>4, <1>10, Held DEF StorageInv
<1> HIDE DEF R
<1> DEFINE new(s) == IF s[1] \in R /\ s[2] = cell[s[1]] THEN Vm!ResultOf(at)
                     ELSE IF k # 0 /\ s = held[k] THEN Vm!StoredIn(at) ELSE heap[s]
<1>12. heap' = [s \in Place |-> new(s)]
  <2>1. CASE k = 0
    BY <1>9, <1>10, <2>1 DEF Stored
  <2>2. CASE k # 0
    <3> DEFINE h == [heap EXCEPT ![held[k]] = Vm!StoredIn(at)]
    <3>1. DOMAIN h = Place /\ \A s \in Place : h[s] = IF s = held[k] THEN Vm!StoredIn(at) ELSE heap[s]
      BY <1>10
    <3>2. heap' = Stored(f, h)
      BY <1>9, <2>2
    <3> HIDE DEF h
    <3>3. heap' = [s \in Place |-> IF s[1] \in R /\ s[2] = cell[s[1]] THEN Vm!ResultOf(at) ELSE h[s]]
      BY <3>1, <3>2 DEF Stored
    <3> QED BY <2>2, <3>1, <3>3
  <2> QED BY <2>1, <2>2
<1>13. StorageInv'
  <2>1. heap' = [s \in Place |-> heap'[s]]
    BY <1>12
  <2>2. \A s \in Place : heap'[s] # NotUnset
    BY <1>4, <1>12, Marks DEF StorageInv
  <2>3. unset' = [r \in Register |-> unset'[r]]
    BY <1>1
  <2> QED BY <1>1, <1>4, <2>1, <2>2, <2>3 DEF StorageInv, Place, Generation
<1> SUFFICES ASSUME ~ Misled PROVE Vm!Call
  BY <1>1, <1>8, <1>13 DEF Does
<1>7. seen' = [j \in 1 .. I.b - 1 |-> RegsBar[I.a + j]]
  <2>1. \A j \in 1 .. I.b - 1 : Value(I.a + j) = RegsBar[I.a + j]
    <3> SUFFICES ASSUME NEW j \in 1 .. I.b - 1 PROVE Value(I.a + j) = RegsBar[I.a + j]
      OBVIOUS
    <3>1. I.a + j \in ValuesOf(I)
      BY <1>1, ValuesAreRegisters DEF TextInv
    <3> QED BY <1>1, <3>1, NotMisled
  <2> QED BY <1>1, <2>1
<1>14. /\ RegsBar = [r \in Register |-> IF unset[r] = NotUnset THEN heap[<<r, cell[r]>>] ELSE unset[r]]
       /\ RegsBar' = [r \in Register |-> IF unset'[r] = NotUnset THEN heap'[<<r, cell[r]>>] ELSE unset'[r]]
  BY <1>1 DEF RegsBar, Read
<1>15. \A r \in Register : heap'[<<r, cell[r]>>] = new(<<r, cell[r]>>)
  BY <1>4, <1>12, Held
<1>16. DOMAIN f = R /\ \A r \in R : f[r] = Vm!ResultOf(at)
  OBVIOUS
<1>17. CloBar' = CloBar
  BY <1>1 DEF CloBar
<1>18. Len(CloBar) = n
  BY <1>4, ClosureCount
<1>19. RegsBar = [r \in Register |-> RegsBar[r]]
  BY <1>14
<1> DEFINE u == CloBar[k]
           stored == IF k # 0 /\ UvBar[u].open THEN Vm!Only(UvBar[u].reg, Vm!StoredIn(at)) ELSE <<>>
<1>20. ASSUME RegsBar' = Vm!Over(f, Vm!Over(stored, RegsBar)),
              IF k = 0 \/ UvBar[u].open THEN UvBar' = UvBar
              ELSE UvBar' = [UvBar EXCEPT ![u].val = Vm!StoredIn(at)]
       PROVE  Vm!Call
  <2>1. k \in 0 .. Len(CloBar)
    BY <1>18
  <2>2. f = [r \in Vm!I.a .. Vm!I.a + Vm!I.c - 2 |-> Vm!ResultOf(at)]
    BY <1>3 DEF R
  <2>3. /\ Vm!Go(at + 1) /\ UNCHANGED CloBar
        /\ seen' = [j \in 1 .. Vm!I.b - 1 |-> RegsBar[Vm!I.a + j]]
    BY <1>1, <1>3, <1>6, <1>7, <1>17 DEF Vm!Go
  <2> HIDE DEF f, CloBar, UvBar, RegsBar, Vm!I
  <2> QED BY <1>3, <1>20, <2>1, <2>2, <2>3 DEF Vm!Call
<1>21. CASE k = 0
  <2>1. \A r \in Register : (IF unset'[r] = NotUnset THEN heap'[<<r, cell[r]>>] ELSE unset'[r])
                               = IF r \in R THEN f[r] ELSE RegsBar[r]
    BY <1>1, <1>14, <1>15, <1>21
  <2> HIDE DEF f, RegsBar
  <2>2. RegsBar' = Over(f, RegsBar)
    <3>1. Over(f, RegsBar) = [r \in Register |-> IF r \in DOMAIN f THEN f[r] ELSE RegsBar[r]]
      BY <1>5, <1>16, <1>19, OverRegisters
    <3>2. Over(f, RegsBar) = [r \in Register |-> IF r \in R THEN f[r] ELSE RegsBar[r]]
      BY <1>16, <3>1
    <3> QED BY <1>14, <2>1, <3>2
  <2>3. stored = <<>> /\ Over(<<>>, RegsBar) = RegsBar
    BY <1>5, <1>16, <1>19, <1>21, OverRegisters
  <2>4. RegsBar' = Vm!Over(f, Vm!Over(stored, RegsBar))
    BY <2>2, <2>3, SameAssignments
  <2>5. UvBar' = UvBar
    <3>1. \A s \in Place : s[2] # cell[s[1]] => heap'[s] = heap[s]
      BY <1>12, <1>21
    <3> QED BY <1>1, <1>4, <3>1, SameUpvalues
  <2> HIDE DEF stored
  <2> QED BY <1>20, <1>21, <2>4, <2>5 DEF f
<1>22. CASE k # 0
  <2>1. k \in DOMAIN held /\ held[k] \in Place
    BY <1>11, <1>22
  <2>2. /\ u \in DOMAIN UvBar /\ u \in DOMAIN held /\ held[u] = held[k]
        /\ UvBar[u] = [reg |-> held[u][1], open |-> OpenAt(u),
                       val |-> IF OpenAt(u) THEN Vm!Nil ELSE heap[held[u]]]
    BY <1>4, <2>1, Upvalues
  <2> DEFINE g == held[k][1]
  <2>3. g \in Register
    BY <1>11, <1>22
  <2>4. OpenAt(u) <=> held[k][2] = cell[g]
    <3> HIDE DEF u
    <3>1. held[u] = held[k]
      BY <2>2
    <3>2. OpenAt(u) <=> held[k] = <<g, cell[g]>>
      BY <3>1 DEF OpenAt
    <3>3. held[k] = <<g, cell[g]>> <=> held[k][1] = g /\ held[k][2] = cell[g]
      <4>1. held[k] \in Place
        BY <2>1
      <4> HIDE DEF g
      <4> QED BY <4>1, SamePlace
    <3> QED BY <3>2, <3>3
  <2>5. \A r \in Register : <<r, cell[r]>> = held[k] <=> held[k][2] = cell[g] /\ r = g
    <3> SUFFICES ASSUME NEW r \in Register
                 PROVE  <<r, cell[r]>> = held[k] <=> held[k][2] = cell[g] /\ r = g
      OBVIOUS
    <3>1. held[k] = <<r, cell[r]>> <=> held[k][1] = r /\ held[k][2] = cell[r]
      <4>1. held[k] \in Place
        BY <2>1
      <4> QED BY <4>1, SamePlace
    <3> QED BY <3>1
  <2>6. OpenAt(u) => unset[g] = NotUnset
    <3> HIDE DEF u
    <3> QED BY <2>2, NotMisled
  <2>7. \A r \in Register :
           RegsBar'[r] = IF r \in R THEN Vm!ResultOf(at)
                         ELSE IF <<r, cell[r]>> = held[k] /\ unset[r] = NotUnset THEN Vm!StoredIn(at) ELSE RegsBar[r]
    BY <1>1, <1>14, <1>15, <1>22
  <2>8. RegsBar' = [r \in Register |-> RegsBar'[r]]
    BY <1>14
  <2>9. CASE OpenAt(u)
    <3>1. UvBar[u].open = TRUE /\ UvBar[u].reg = g
      <4>1. OpenAt(u) = TRUE
        BY <2>9 DEF OpenAt
      <4> HIDE DEF UvBar, u
      <4> QED BY <2>2, <4>1
    <3> DEFINE o == Only(g, Vm!StoredIn(at))
    <3>2. stored = o
      BY <1>22, <3>1, SameAssignments
    <3>3. DOMAIN o = {g} /\ o[g] = Vm!StoredIn(at)
      BY DEF Only
    <3> HIDE DEF o, f, RegsBar, g
    <3>4. Over(o, RegsBar) = [r \in Register |-> IF r = g THEN Vm!StoredIn(at) ELSE RegsBar[r]]
      <4>1. DOMAIN o \subseteq Register
        BY <2>3, <3>3
      <4>2. Over(o, RegsBar) = [r \in Register |-> IF r \in DOMAIN o THEN o[r] ELSE RegsBar[r]]
        BY <1>19, <4>1, OverRegisters
      <4> QED BY <3>3, <4>2
    <3> DEFINE w == Over(o, RegsBar)
    <3>5. w = [r \in Register |-> w[r]]
      BY <3>4
    <3>6. \A r \in Register : w[r] = IF r = g THEN Vm!StoredIn(at) ELSE RegsBar[r]
      BY <3>4
    <3> HIDE DEF w
    <3>7. Over(f, w) = [r \in Register |-> IF r \in R THEN f[r] ELSE w[r]]
      <4>1. Over(f, w) = [r \in Register |-> IF r \in DOMAIN f THEN f[r] ELSE w[r]]
        BY <1>5, <1>16, <3>5, OverRegisters
      <4> QED BY <1>16, <4>1
    <3>8. \A r \in Register : RegsBar'[r] = IF r \in R THEN f[r] ELSE w[r]
      <4> SUFFICES ASSUME NEW r \in Register PROVE RegsBar'[r] = IF r \in R THEN f[r] ELSE w[r]
        OBVIOUS
      <4>1. RegsBar'[r] = IF r \in R THEN Vm!ResultOf(at)
                          ELSE IF <<r, cell[r]>> = held[k] /\ unset[r] = NotUnset THEN Vm!StoredIn(at) ELSE RegsBar[r]
        BY <2>7
      <4>2. <<r, cell[r]>> = held[k] /\ unset[r] = NotUnset <=> r = g
        BY <2>4, <2>5, <2>6, <2>9 DEF g
      <4> QED BY <1>16, <3>6, <4>1, <4>2
    <3>9. RegsBar' = Over(f, w)
      BY <2>8, <3>7, <3>8
    <3>10. RegsBar' = Vm!Over(f, Vm!Over(stored, RegsBar))
      BY <3>2, <3>9, SameAssignments DEF w
    <3>11. UvBar' = UvBar
      <4>1. \A s \in Place : s[2] # cell[s[1]] => heap'[s] = heap[s]
        BY <1>12, <2>4, <2>9 DEF g
      <4> QED BY <1>1, <1>4, <4>1, SameUpvalues
    <3> HIDE DEF stored, u
    <3> QED BY <1>20, <3>1, <3>10, <3>11 DEF f
  <2>10. CASE ~ OpenAt(u)
    <3>1. OpenAt(u) = FALSE
      BY <2>10 DEF OpenAt
    <3>2. UvBar[u] = [reg |-> held[u][1], open |-> FALSE, val |-> heap[held[u]]]
      BY <2>2, <3>1
    <3>3. ~ UvBar[u].open
      <4> HIDE DEF UvBar, u
      <4> QED BY <3>2
    <3>4. stored = <<>>
      BY <3>3
    <3>5. \A r \in Register : RegsBar'[r] = IF r \in R THEN f[r] ELSE RegsBar[r]
      <4> SUFFICES ASSUME NEW r \in Register PROVE RegsBar'[r] = IF r \in R THEN f[r] ELSE RegsBar[r]
        OBVIOUS
      <4>1. <<r, cell[r]>> # held[k]
        BY <2>4, <2>5, <2>10
      <4> QED BY <1>16, <2>7, <4>1
    <3> HIDE DEF f, RegsBar
    <3>6. Over(f, RegsBar) = [r \in Register |-> IF r \in R THEN f[r] ELSE RegsBar[r]] /\ Over(<<>>, RegsBar) = RegsBar
      <4>1. Over(f, RegsBar) = [r \in Register |-> IF r \in DOMAIN f THEN f[r] ELSE RegsBar[r]] /\ Over(<<>>, RegsBar) = RegsBar
        BY <1>5, <1>16, <1>19, OverRegisters
      <4> QED BY <1>16, <4>1
    <3>7. RegsBar' = Over(f, RegsBar)
      BY <2>8, <3>5, <3>6
    <3>8. RegsBar' = Vm!Over(f, Vm!Over(stored, RegsBar))
      BY <3>4, <3>6, <3>7, SameAssignments
    <3>9. UvBar' = [UvBar EXCEPT ![u].val = Vm!StoredIn(at)]
      <4> DEFINE U == {CloBar[j] : j \in DOMAIN held}
                 Before(x) == [reg |-> held[x][1], open |-> OpenAt(x),
                               val |-> IF OpenAt(x) THEN <<"nil">> ELSE heap[held[x]]]
                 After(x) == [reg |-> held[x][1], open |-> OpenAt(x),
                              val |-> IF OpenAt(x) THEN <<"nil">> ELSE heap'[held[x]]]
      <4>1. UvBar = [x \in U |-> Before(x)]
        BY DEF UvBar, OpenAt
      <4>2. UvBar' = [x \in U |-> After(x)]
        BY <1>1, <1>17 DEF UvBar, OpenAt
      <4>3. u \in U
        BY <2>1
      <4>4. After(u) = [reg |-> held[u][1], open |-> FALSE, val |-> Vm!StoredIn(at)]
        <5>1. held[k][2] # cell[held[k][1]]
          BY <2>4, <2>10
        <5>2. heap'[held[k]] = Vm!StoredIn(at)
          BY <1>12, <1>22, <2>1, <5>1
        <5> HIDE DEF u
        <5> QED BY <2>2, <3>1, <5>2
      <4>5. \A x \in U : x # u => After(x) = Before(x)
        <5> SUFFICES ASSUME NEW x \in U, x # u PROVE After(x) = Before(x)
          OBVIOUS
        <5>1. PICK j \in DOMAIN held : x = CloBar[j]
          OBVIOUS
        <5>2. x \in DOMAIN held /\ held[x] = held[j] /\ held[x] \in Place
          BY <1>4, <5>1, Upvalues, Held
        <5>3. held[x] # held[k]
          BY <1>4, <2>1, <5>1, <5>2, Upvalues
        <5>4. ~ OpenAt(x) => held[x][2] # cell[held[x][1]]
          BY <5>2, SamePlace DEF OpenAt
        <5>5. ~ OpenAt(x) => heap'[held[x]] = heap[held[x]]
          BY <1>12, <5>2, <5>3, <5>4
        <5> QED BY <5>5
      <4> DEFINE V == [UvBar EXCEPT ![u].val = Vm!StoredIn(at)]
                 last == [UvBar[u] EXCEPT !.val = Vm!StoredIn(at)]
      <4>6. last = [reg |-> held[u][1], open |-> FALSE, val |-> Vm!StoredIn(at)]
        <5> HIDE DEF UvBar, u
        <5>1. \A x, y, z, t : [[reg |-> x, open |-> y, val |-> z] EXCEPT !.val = t] = [reg |-> x, open |-> y, val |-> t]
          OBVIOUS
        <5>2. last = [[reg |-> held[u][1], open |-> FALSE, val |-> heap[held[u]]] EXCEPT !.val = Vm!StoredIn(at)]
          BY <3>2, Zenon
        <5> HIDE DEF last
        <5> QED BY <5>1, <5>2
      <4>7. DOMAIN UvBar = U /\ \A x \in U : UvBar[x] = Before(x)
        <5> HIDE DEF U, Before
        <5> QED BY <4>1
      <4> HIDE DEF U, Before, After, u, UvBar
      <4>8. V = [x \in U |-> IF x = u THEN last ELSE UvBar[x]]
        BY <4>7
      <4> HIDE DEF V, last
      <4>9. \A x \in U : After(x) = IF x = u THEN last ELSE UvBar[x]
        BY <4>4, <4>5, <4>6, <4>7
      <4>10. UvBar' = V
        BY <4>2, <4>8, <4>9
      <4> QED BY <4>10 DEF V
    <3> HIDE DEF stored, u
    <3> QED BY <1>20, <1>22, <3>3, <3>8, <3>9 DEF f
  <2> QED BY <2>9, <2>10
<1> QED BY <1>21, <1>22

-----------------------------------------------------------------------------
(* The invariant. *)

(* The invariant holds at the start. *)
LEMMA TextInit == Init => TextInv
<1> SUFFICES ASSUME Init PROVE TextInv
  OBVIOUS
<1>1. ControlInv
  BY ControlInit
<1>2. at = 0 /\ held = <<>> /\ cell = [r \in Register |-> 0] /\ unset = [r \in Register |-> NotUnset]
  BY DEF Init
<1>3. StorageInv
  <2>1. cell \in [Register -> Generation]
    BY <1>2, TextAssumption DEF Generation
  <2>2. heap = [s \in Place |-> heap[s]] /\ \A s \in Place : heap[s] # NotUnset
    <3>1. PICK given \in BOOLEAN :
             heap = [s \in Place |-> IF given /\ s[1] < Parameters THEN Vm!Argument(s[1]) ELSE Nil]
      BY DEF Init, Place
    <3>2. Nil # NotUnset /\ \A r : Vm!Argument(r) # NotUnset
      BY Marks
    <3> QED BY <3>1, <3>2
  <2>3. held \in Seq(Place) /\ Len(held) <= MaxClosures /\ DOMAIN held = {}
    BY <1>2, TextAssumption
  <2> QED BY <1>2, <2>1, <2>2, <2>3 DEF StorageInv
<1>4. UnsetInv
  BY <1>2 DEF UnsetInv
<1> QED BY <1>1, <1>3, <1>4 DEF TextInv

(* A step along an edge keeps the invariant, when what is left out after it *)
(* is awaited.                                                              *)
LEMMA StepKeeps ==
    ASSUME TextInv, ControlInv', StorageInv', UNCHANGED <<code, mode>>,
           \A r \in Register : unset'[r] # NotUnset => mode # "dispatcher" /\ Awaited(code, r, at')
    PROVE  TextInv'
<1>1. (mode = "dispatcher" => \A r \in Register : unset[r] = NotUnset)'
  OBVIOUS
<1>2. \A r \in Register : unset'[r] # NotUnset => Awaited(code', r, at')
  OBVIOUS
<1>3. UnsetInv'
  BY <1>1, <1>2 DEF UnsetInv
<1> QED BY <1>3 DEF TextInv

(* What is left out and not set stays awaited. *)
LEMMA StaysAwaited ==
    ASSUME TextInv, at \in DOMAIN code, NEW t \in controlSuccessors(code, at),
           NEW r \in Register, unset[r] # NotUnset, r \notin writesRegister(code, at)
    PROVE  mode # "dispatcher" /\ Awaited(code, r, t)
<1>1. Valid(code) /\ Boundary(code, at) /\ at # Returned
  BY AtInstruction DEF TextInv
<1>2. mode # "dispatcher" /\ Awaited(code, r, at)
  BY <1>1 DEF TextInv, UnsetInv
<1>3. code[at].op \notin {"TAILCALL", "RETURN"}
  BY DEF controlSuccessors, isTest, isCondition
<1>4. PICK setup, call : Prepared(code, setup, call, r, at)
  BY <1>2, <1>3 DEF Awaited
<1>5. Prepared(code, setup, call, r, t)
  BY <1>1, <1>4, PreparedStep
<1> QED BY <1>2, <1>5 DEF Awaited

(* A statement that does what its instruction does keeps the invariant. *)
LEMMA DoesKeeps ==
    ASSUME TextInv, at \in DOMAIN code, ControlInv', at' \in controlSuccessors(code, at), NEW step, Does(step)
    PROVE  TextInv'
<1>1. StorageInv' /\ UNCHANGED <<code, mode>> /\ Kept
  BY DEF Does
<1> DEFINE t == at'
<1>2. t \in controlSuccessors(code, at)
  OBVIOUS
<1> HIDE DEF t
<1>3. \A r \in Register : unset'[r] # NotUnset => mode # "dispatcher" /\ Awaited(code, r, t)
  BY <1>1, <1>2, StaysAwaited DEF Kept
<1> QED BY <1>1, <1>3, StepKeeps DEF t

(* So does an assignment that is left out. *)
LEMMA OmitKeeps ==
    ASSUME TextInv, OmitArgumentSetup, ControlInv', at' \in controlSuccessors(code, at)
    PROVE  TextInv' /\ Vm!Next
<1>1. at \in DOMAIN code
  BY DEF OmitArgumentSetup, Statement
<1>2. /\ Vm!LoadK \/ Vm!LoadNil \/ Vm!Move \/ Vm!LoadBool
      /\ StorageInv' /\ UNCHANGED <<code, mode>> /\ mode # "dispatcher" /\ at' = at + 1
      /\ \A r \in Register : unset'[r] # NotUnset =>
            \/ Awaited(code, r, at + 1)
            \/ r \notin writesRegister(code, at) /\ unset[r] # NotUnset
  BY OmitMeans
<1>3. Vm!Next
  BY <1>2 DEF Vm!Next
<1>4. at + 1 \in controlSuccessors(code, at)
  BY <1>2
<1>5. \A r \in Register : unset'[r] # NotUnset => mode # "dispatcher" /\ Awaited(code, r, at + 1)
  BY <1>1, <1>2, <1>4, StaysAwaited
<1> QED BY <1>2, <1>3, <1>5, StepKeeps

(* Every step keeps the invariant.  It is a step of the virtual machine or  *)
(* changes nothing of it, unless the text is misled.                        *)
LEMMA TextStep ==
    ASSUME TextInv, [Next]_vars
    PROVE  TextInv' /\ (Misled \/ Vm!Next \/ UNCHANGED Vm!vmvars)
<1>1. ControlInv' /\ (at' \in controlSuccessors(code, at) \/ EmitReturn \/ Ended \/ UNCHANGED vars)
  BY ControlStep DEF TextInv
<1>2. ASSUME ~ (Ended \/ UNCHANGED vars) PROVE at \in DOMAIN code
  BY <1>2 DEF Next, Statement, AssignSimple, OmitArgumentSetup, EmitJmp, EmitCondition, EmitTestSet,
              EmitForPrep, EmitForLoop, EmitTForLoop, EmitSetList, EmitClosure, EmitClose, EmitCall, EmitReturn
<1>3. CASE Ended \/ UNCHANGED vars
  <2>1. UNCHANGED <<code, mode, begin, end, at, cell, heap, held, seen, unset>>
    BY <1>3 DEF Ended, vars
  <2>2. StorageInv' /\ RegsBar' = RegsBar /\ CloBar' = CloBar /\ UvBar' = UvBar
    BY <2>1, SameStorage DEF TextInv
  <2>3. UnsetInv'
    <3>1. UnsetInv
      BY DEF TextInv
    <3> QED BY <2>1, <3>1 DEF UnsetInv, Awaited, Returned, Vm!Returned
  <2>4. UNCHANGED Vm!vmvars
    BY <2>1, <2>2 DEF Vm!vmvars
  <2> QED BY <1>1, <2>2, <2>3, <2>4 DEF TextInv
<1>4. CASE EmitReturn
  <2>1. (Misled \/ Vm!TailCall \/ Vm!Return) /\ StorageInv' /\ UNCHANGED <<code, mode, unset>> /\ at' = Returned
    BY <1>4, ReturnMeans
  <2>2. Misled \/ Vm!Next
    BY <2>1 DEF Vm!Next
  <2>3. at' = Vm!Returned /\ Vm!Returned' = Vm!Returned
    BY <2>1 DEF Returned, Vm!Returned
  <2>4. UnsetInv'
    <3>1. UnsetInv
      BY DEF TextInv
    <3> QED BY <2>1, <2>3, <3>1 DEF UnsetInv, Returned
  <2> QED BY <1>1, <2>1, <2>2, <2>4 DEF TextInv
<1>5. CASE ~ (EmitReturn \/ Ended \/ UNCHANGED vars)
  <2>1. at \in DOMAIN code /\ at' \in controlSuccessors(code, at)
    BY <1>1, <1>2, <1>5
  <2>2. CASE OmitArgumentSetup
    BY <1>1, <2>1, <2>2, OmitKeeps
  <2>3. ASSUME Does(Vm!Next) PROVE TextInv' /\ (Misled \/ Vm!Next)
    BY <1>1, <2>1, <2>3, DoesKeeps DEF Does
  <2>4. CASE AssignSimple
    <3>1. Does(Vm!LoadK \/ Vm!LoadNil \/ Vm!Move \/ Vm!LoadBool)
      BY <2>4, SimpleMeans
    <3> QED BY <2>3, <3>1 DEF Does, Vm!Next
  <2>5. CASE EmitJmp
    <3>1. Does(Vm!Jmp)
      BY <2>5, JumpMeans
    <3> QED BY <2>3, <3>1 DEF Does, Vm!Next
  <2>6. CASE EmitCondition
    <3>1. Does(Vm!Eq \/ Vm!Test)
      BY <2>6, ConditionMeans
    <3> QED BY <2>3, <3>1 DEF Does, Vm!Next
  <2>7. CASE EmitTestSet
    <3>1. Does(Vm!TestSet)
      BY <2>7, TestSetMeans
    <3> QED BY <2>3, <3>1 DEF Does, Vm!Next
  <2>8. CASE EmitForPrep \/ EmitForLoop
    <3>1. Does(Vm!ForPrep \/ Vm!ForLoop)
      BY <2>8, ForPrepMeans, ForLoopMeans DEF Does
    <3> QED BY <2>3, <3>1 DEF Does, Vm!Next
  <2>9. CASE EmitTForLoop
    <3>1. Does(Vm!TForLoop)
      BY <2>9, TForLoopMeans
    <3> QED BY <2>3, <3>1 DEF Does, Vm!Next
  <2>10. CASE EmitSetList
    <3>1. Does(Vm!SetList)
      BY <2>10, SetListMeans
    <3> QED BY <2>3, <3>1 DEF Does, Vm!Next
  <2>11. CASE EmitClosure
    <3>1. Does(Vm!Closure)
      BY <2>11, ClosureMeans
    <3> QED BY <2>3, <3>1 DEF Does, Vm!Next
  <2>12. CASE EmitClose
    <3>1. Does(Vm!Close)
      BY <2>12, CloseMeans
    <3> QED BY <2>3, <3>1 DEF Does, Vm!Next
  <2>13. CASE EmitCall
    <3>1. Does(Vm!Call)
      BY <2>13, CallMeans
    <3> QED BY <2>3, <3>1 DEF Does, Vm!Next
  <2> QED BY <1>5, <2>2, <2>4, <2>5, <2>6, <2>7, <2>8, <2>9, <2>10, <2>11, <2>12, <2>13 DEF Next
<1> QED BY <1>3, <1>4, <1>5

(* The machine starts where the text does. *)
LEMMA VmInit == ASSUME Init, ControlInv PROVE Vm!Init
<1>1. at = 0 /\ held = <<>> /\ seen = <<>> /\ 0 \in DOMAIN code
  BY RenderedNumbers DEF Init, ControlInv
<1>2. DOMAIN held = {}
  BY <1>1
<1>3. CloBar = <<>>
  <2>1. CloBar = [k \in {} |-> Min({j \in {} : held[j] = held[k]})]
    BY <1>2 DEF CloBar
  <2> QED BY <2>1
<1>4. UvBar = <<>>
  <2>1. {CloBar[k] : k \in DOMAIN held} = {}
    BY <1>2
  <2>2. DOMAIN UvBar = {} /\ UvBar = [u \in DOMAIN UvBar |-> UvBar[u]]
    BY <2>1 DEF UvBar
  <2> HIDE DEF UvBar
  <2> QED BY <2>2
<1> QED BY <1>1, <1>3, <1>4 DEF Vm!Init

(* The invariant holds throughout. *)
LEMMA TextInvariance == Spec => []TextInv
<1>1. TextInv /\ [Next]_vars => TextInv'
  BY TextStep
<1> QED BY <1>1, TextInit, PTL DEF Spec

(* The text of emitReadableBody does what the code does on the virtual      *)
(* machine, cells and left-out assignments included, except in the steps    *)
(* where looking back misleads it.                                          *)
THEOREM KeepsVmTheorem == Spec => KeepsVm
<1>1. Init => Vm!Init
  BY ControlInit, VmInit
<1>2. TextInv /\ [Next]_vars => [Misled \/ Vm!Next]_(Vm!vmvars)
  BY TextStep
<1> QED BY <1>1, <1>2, TextInvariance, PTL DEF Spec, KeepsVm

(* The dispatcher of a whole function does what the code does on the        *)
(* virtual machine, without any exception and for every code.               *)
THEOREM DispatcherTheorem == mode = "dispatcher" /\ Spec => Vm!Spec
<1>1. Init => Vm!Init
  BY ControlInit, VmInit
<1>2. mode = "dispatcher" /\ TextInv /\ [Next]_vars => [Vm!Next]_(Vm!vmvars) /\ (mode = "dispatcher")'
  <2> SUFFICES ASSUME mode = "dispatcher", TextInv, [Next]_vars
               PROVE  [Vm!Next]_(Vm!vmvars) /\ (mode = "dispatcher")'
    OBVIOUS
  <2>1. ~ Misled
    BY DEF Misled
  <2>2. mode' = mode
    BY DEF Next, vars, Fixed, Store, AssignSimple, OmitArgumentSetup, EmitJmp, EmitCondition, EmitTestSet,
           EmitForPrep, EmitForLoop, EmitTForLoop, EmitSetList, EmitClosure, EmitClose, EmitCall, EmitReturn, Ended
  <2> QED BY <2>1, <2>2, TextStep
<1> QED BY <1>1, <1>2, TextInvariance, PTL DEF Spec, Vm!Spec
=============================================================================
