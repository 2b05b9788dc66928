---------------------------- MODULE LivenessProof ----------------------------
(***************************************************************************)
(* The liveness analysis is exact for every number of blocks and registers, *)
(* every graph and all block bodies.  All the time a register called live   *)
(* is read later (Sound); a pass that changed nothing has seen every block  *)
(* satisfy its equations (Settled), and then the blocks that have r in      *)
(* live_in form a set of the kind ReadLater quantifies over.  The peak is   *)
(* counted along a walk back through each block: the function it computes   *)
(* exists (WalkExists) and is, at each instruction, what is needed there    *)
(* (WalkIsNeeded).  Both go by the least number for which they would fail.  *)
(***************************************************************************)
EXTENDS Liveness, WellFoundedInduction, TLAPS

Sound ==
    \A b \in Block :
        /\ \A r \in liveIn[b] : ReadLater(r, b)
        /\ \A r \in liveOut[b] : \E s \in succ[b] : ReadLater(r, s)

Equations(b) == liveOut[b] = NextOut(b) /\ liveIn[b] = NextIn(b)

(* The blocks visited in a pass that has changed nothing so far satisfy     *)
(* their equations.                                                         *)
Settled ==
    /\ phase = "sweep" /\ ~ changed => \A b \in cursor+1 .. N-1 : Equations(b)
    /\ phase = "done" => \A b \in Block : Equations(b)

IInv == TypeOK /\ Sound /\ Settled

-----------------------------------------------------------------------------
(* The successors computed from terminators are blocks. *)
LEMMA GraphOfType == \A last : GraphOf(last) \in Graph
  BY DEF GraphOf, Graph, Successors

(* A block that exposes a read of r has r live. *)
LEMMA ReadHere ==
    ASSUME NEW r, NEW b \in Block, r \in BlockUses(b)
    PROVE  ReadLater(r, b)
  BY DEF ReadLater

(* A block that does not write r passes it on from its successors. *)
LEMMA ReadBehind ==
    ASSUME NEW r, NEW b \in Block, NEW s \in succ[b],
           r \notin BlockDefs(b), ReadLater(r, s)
    PROVE  ReadLater(r, b)
<1> SUFFICES ASSUME NEW S \in SUBSET Block,
                    \A x \in Block : r \in BlockUses(x) => x \in S,
                    \A x \in Block : r \notin BlockDefs(x) /\ succ[x] \cap S # {} => x \in S
             PROVE  b \in S
  BY DEF ReadLater
<1>1. s \in S
  BY DEF ReadLater
<1> QED BY <1>1

(* The type invariant holds initially. *)
LEMMA TypeInit == Init => TypeOK
<1> SUFFICES ASSUME Init PROVE TypeOK
  OBVIOUS
<1>1. changed \in BOOLEAN
  BY Zenon DEF Init, FunctionInit, Start
<1>2. succ \in Graph
  BY GraphOfType DEF Init, FunctionInit, Start
<1>3. cursor \in -1 .. N-1
  BY NAssumption DEF Init, FunctionInit, Start
<1> QED BY <1>1, <1>2, <1>3 DEF Init, FunctionInit, Start, TypeOK

(* Every step preserves the type invariant. *)
LEMMA TypeStep == TypeOK /\ [Next]_vars => TypeOK'
<1> SUFFICES ASSUME TypeOK, [Next]_vars PROVE TypeOK'
  OBVIOUS
<1> USE DEF TypeOK
<1>1. CASE Visit
  <2>1. NextOut(cursor) \subseteq Reg
    BY <1>1 DEF Visit, NextOut, Graph
  <2>2. NextIn(cursor) \subseteq Reg
    BY <1>1, <2>1 DEF NextIn, BlockUses
  <2>3. cursor' \in -1 .. N-1
    BY <1>1, NAssumption DEF Visit, Block
  <2> QED BY <1>1, <2>1, <2>2, <2>3 DEF Visit
<1>2. CASE NextPass
  <2>1. changed' \in BOOLEAN
    BY <1>2, Zenon DEF NextPass
  <2>2. cursor' \in -1 .. N-1
    BY <1>2, NAssumption DEF NextPass
  <2> QED BY <1>2, <2>1, <2>2 DEF NextPass
<1>3. CASE Finish
  BY <1>3 DEF Finish
<1>4. CASE UNCHANGED vars
  BY <1>4 DEF vars
<1> QED BY <1>1, <1>2, <1>3, <1>4 DEF Next, Done

(* The type invariant of the liveness analysis. *)
THEOREM TypeCorrect == Spec => []TypeOK
  BY TypeInit, TypeStep, PTL DEF Spec

-----------------------------------------------------------------------------
(* The graph and the bodies are fixed, so what is read later is too. *)
LEMMA ReadLaterFixed ==
    ASSUME UNCHANGED <<succ, body>>, NEW r, NEW b
    PROVE  /\ BlockUses(b)' = BlockUses(b)
           /\ BlockDefs(b)' = BlockDefs(b)
           /\ ReadLater(r, b)' <=> ReadLater(r, b)
<1>1. \A x : BlockUses(x)' = BlockUses(x) /\ BlockDefs(x)' = BlockDefs(x)
  BY DEF BlockUses, BlockDefs
<1> QED BY <1>1 DEF ReadLater

(* A visit computes live registers from live registers. *)
LEMMA VisitSound ==
    ASSUME TypeOK, Sound, NEW b \in Block
    PROVE  /\ \A r \in NextOut(b) : \E s \in succ[b] : ReadLater(r, s)
           /\ \A r \in NextIn(b) : ReadLater(r, b)
<1>1. ASSUME NEW r \in NextOut(b) PROVE \E s \in succ[b] : ReadLater(r, s)
  BY <1>1 DEF NextOut, Sound, TypeOK, Graph
<1>2. ASSUME NEW r \in NextIn(b) PROVE ReadLater(r, b)
  <2>1. CASE r \in BlockUses(b)
    BY <2>1, ReadHere
  <2>2. CASE r \in NextOut(b) \ BlockDefs(b)
    BY <1>1, <2>2, ReadBehind
  <2> QED BY <1>2, <2>1, <2>2 DEF NextIn
<1> QED BY <1>1, <1>2

(* The inductive invariant holds initially. *)
LEMMA IInvInit == Init => IInv
<1> SUFFICES ASSUME Init PROVE IInv
  OBVIOUS
<1>1. TypeOK
  BY TypeInit
<1>2. Sound
  BY DEF Init, FunctionInit, Start, Sound
<1>3. Settled
  BY NAssumption DEF Init, FunctionInit, Start, Settled
<1> QED BY <1>1, <1>2, <1>3 DEF IInv

(* Every step preserves the inductive invariant. *)
LEMMA IInvStep == IInv /\ [Next]_vars => IInv'
<1> SUFFICES ASSUME IInv, [Next]_vars PROVE IInv'
  OBVIOUS
<1> USE DEF IInv
<1>0. TypeOK'
  BY TypeStep
<1>f. UNCHANGED <<succ, body>>
  BY DEF Next, Visit, NextPass, Finish, Done, vars
<1>1. CASE Visit
  <2> USE <1>1
  <2>1. Sound'
    <3>1. ASSUME NEW b \in Block
          PROVE  /\ \A r \in liveIn'[b] : ReadLater(r, b)
                 /\ \A r \in liveOut'[b] : \E s \in succ[b] : ReadLater(r, s)
      <4>1. CASE liveIn'[b] = liveIn[b] /\ liveOut'[b] = liveOut[b]
        BY <4>1 DEF Sound
      <4>2. CASE liveIn'[b] = NextIn(b) /\ liveOut'[b] = NextOut(b)
        BY <4>2, VisitSound
      <4> QED BY <4>1, <4>2 DEF Visit, TypeOK
    <3> QED BY <3>1, <1>f, ReadLaterFixed DEF Sound
  <2>2. Settled'
    <3>1. ASSUME ~ changed', NEW b \in cursor .. N-1 PROVE Equations(b)'
      <4>1. ~ changed /\ liveIn' = liveIn /\ liveOut' = liveOut
        BY <3>1 DEF Visit
      <4>2. NextOut(b)' = NextOut(b) /\ NextIn(b)' = NextIn(b)
        BY <4>1, <1>f, ReadLaterFixed DEF NextOut, NextIn
      <4>3. Equations(b)
        <5>1. CASE b = cursor
          BY <3>1, <4>1, <5>1 DEF Visit, Equations
        <5>2. CASE b # cursor
          <6>1. b \in cursor+1 .. N-1
            BY <5>2, NAssumption DEF TypeOK
          <6> QED BY <4>1, <6>1 DEF Visit, Settled
        <5> QED BY <5>1, <5>2
      <4> QED BY <4>1, <4>2, <4>3 DEF Equations
    <3>2. cursor' + 1 = cursor
      BY DEF Visit, TypeOK
    <3> QED BY <3>1, <3>2 DEF Visit, Settled
  <2> QED BY <1>0, <2>1, <2>2
<1>2. CASE NextPass
  <2>1. Sound'
    BY <1>2, <1>f, ReadLaterFixed DEF NextPass, Sound
  <2>2. Settled'
    BY <1>2, NAssumption DEF NextPass, Settled
  <2> QED BY <1>0, <2>1, <2>2
<1>3. CASE Finish
  <2>1. Sound'
    BY <1>3, <1>f, ReadLaterFixed DEF Finish, Sound
  <2>2. Block \subseteq cursor+1 .. N-1
    BY <1>3, NAssumption DEF Finish, TypeOK, Block
  <2>3. ASSUME NEW b \in Block PROVE Equations(b)'
    <3>1. Equations(b)
      BY <1>3, <2>2 DEF Finish, Settled
    <3> QED BY <1>3, <3>1, <1>f, ReadLaterFixed DEF Finish, Equations, NextIn, NextOut
  <2>4. Settled'
    BY <1>3, <2>3 DEF Finish, Settled
  <2> QED BY <1>0, <2>1, <2>4
<1>4. CASE UNCHANGED vars
  <2>1. Sound'
    BY <1>4, <1>f, ReadLaterFixed DEF vars, Sound
  <2>2. \A b : Equations(b)' <=> Equations(b)
    BY <1>4, <1>f, ReadLaterFixed DEF vars, Equations, NextIn, NextOut
  <2>3. Settled'
    BY <1>4, <2>2 DEF vars, Settled
  <2> QED BY <1>0, <2>1, <2>3
<1> QED BY <1>1, <1>2, <1>3, <1>4 DEF Next, Done

(* The inductive invariant holds throughout. *)
LEMMA Invariance == Spec => []IInv
  BY IInvInit, IInvStep, PTL DEF Spec

-----------------------------------------------------------------------------
(* With all equations settled, a register that is read later is in live_in. *)
LEMMA SettledComplete ==
    ASSUME IInv, phase = "done", NEW b \in Block, NEW r \in Reg, ReadLater(r, b)
    PROVE  r \in liveIn[b]
<1> DEFINE S == {x \in Block : r \in liveIn[x]}
<1>1. \A x \in Block : r \in BlockUses(x) => x \in S
  BY DEF IInv, Settled, Equations, NextIn
<1>2. ASSUME NEW x \in Block, r \notin BlockDefs(x), succ[x] \cap S # {}
      PROVE  x \in S
  <2>1. r \in NextOut(x)
    BY <1>2 DEF NextOut
  <2>2. r \in NextIn(x)
    BY <1>2, <2>1 DEF NextIn
  <2> QED BY <2>2 DEF IInv, Settled, Equations
<1>3. S \in SUBSET Block
  OBVIOUS
<1>4. b \in S
  BY <1>1, <1>2, <1>3 DEF ReadLater
<1> QED BY <1>4

(* The inductive invariant implies that the final sets are exact. *)
LEMMA IInvCorrect == IInv => LivenessCorrect
<1> SUFFICES ASSUME IInv, phase = "done", NEW b \in Block, NEW r \in Reg
             PROVE  /\ r \in liveIn[b] <=> ReadLater(r, b)
                    /\ r \in liveOut[b] <=> \E s \in succ[b] : ReadLater(r, s)
  BY DEF LivenessCorrect
<1>1. r \in liveIn[b] <=> ReadLater(r, b)
  BY SettledComplete DEF IInv, Sound
<1>2. r \in liveOut[b] => \E s \in succ[b] : ReadLater(r, s)
  BY DEF IInv, Sound
<1>3. ASSUME NEW s \in succ[b], ReadLater(r, s) PROVE r \in liveOut[b]
  <2>1. s \in Block
    BY DEF IInv, TypeOK, Graph
  <2>2. r \in liveIn[s]
    BY <1>3, <2>1, SettledComplete
  <2> QED BY <2>2 DEF IInv, Settled, Equations, NextOut
<1> QED BY <1>1, <1>2, <1>3

(* No register is ever called live whose value no path reads. *)
THEOREM NoFalseLiveTheorem == Spec => []NoFalseLive
<1>1. IInv => NoFalseLive
  BY DEF IInv, Sound, NoFalseLive
<1> QED BY <1>1, Invariance, PTL

(* When the loop "while (livenessChanged)" ends, live_in and live_out are   *)
(* exact, for every graph and all bodies.                                   *)
THEOREM LivenessTheorem == Spec => []LivenessCorrect
  BY Invariance, IInvCorrect, PTL

-----------------------------------------------------------------------------
(* A set of numbers has a least one. *)
LEMMA LeastNumber ==
    ASSUME NEW S, S \subseteq Nat, S # {}
    PROVE  \E n \in S : \A k \in S : n <= k
<1>1. PICK n \in S : \A k \in S : ~ (<<k, n>> \in OpToRel(<, Nat))
  BY WFMin, NatLessThanWellFounded, Zenon
<1>2. \A k \in S : ~ (k < n)
  BY <1>1, Zenon DEF OpToRel
<1> QED BY <1>2

(* f removes D[k] and adds U[k] in step k, starting from start. *)
IsWalk(f, start, D, U, n) ==
    f = [k \in 0 .. n |-> IF k = 0 THEN start ELSE (f[k-1] \ D[k]) \cup U[k]]

(* A function defined by this recursion exists. *)
LEMMA WalkExists ==
    ASSUME NEW start, NEW D, NEW U, NEW n \in Nat
    PROVE  \E f : IsWalk(f, start, D, U, n)
<1> DEFINE Good(f, m) ==
             f = [k \in 0 .. m |-> IF k = 0 THEN start ELSE (f[k-1] \ D[k]) \cup U[k]]
           Bad == {m \in Nat : ~ \E f : Good(f, m)}
<1>1. SUFFICES ASSUME Bad # {} PROVE FALSE
  BY DEF IsWalk
<1>2. PICK m \in Bad : \A k \in Bad : m <= k
  <2> HIDE DEF Bad
  <2>1. Bad \subseteq Nat
    BY DEF Bad
  <2> QED BY <1>1, <2>1, LeastNumber
<1>3. CASE m = 0
  <2> DEFINE f == [k \in 0 .. 0 |-> start]
  <2>1. Good(f, 0)
    OBVIOUS
  <2> QED BY <1>3, <2>1
<1>4. CASE m # 0
  <2>1. m-1 \in Nat /\ m-1 \notin Bad
    BY <1>2, <1>4
  <2>2. PICK g : Good(g, m-1)
    BY <2>1
  <2> DEFINE f == [k \in 0 .. m |-> IF k = m THEN (g[m-1] \ D[m]) \cup U[m] ELSE g[k]]
  <2>3. ASSUME NEW k \in 0 .. m
        PROVE  f[k] = IF k = 0 THEN start ELSE (f[k-1] \ D[k]) \cup U[k]
    <3>1. CASE k = m
      BY <1>4, <3>1
    <3>2. CASE k # m
      <4>1. k \in 0 .. m-1 /\ f[k] = g[k]
        BY <3>2
      <4>2. g[k] = IF k = 0 THEN start ELSE (g[k-1] \ D[k]) \cup U[k]
        BY <2>2, <4>1, Zenon
      <4>3. k # 0 => k-1 \in 0 .. m /\ k-1 # m /\ f[k-1] = g[k-1]
        BY <4>1
      <4> HIDE DEF f
      <4> QED BY <4>1, <4>2, <4>3
    <3> QED BY <3>1, <3>2
  <2>4. Good(f, m)
    <3>1. f = [k \in 0 .. m |-> f[k]]
      OBVIOUS
    <3> HIDE DEF f
    <3> QED BY <2>3, <3>1
  <2> QED BY <2>4, <1>2
<1> QED BY <1>3, <1>4

(* What the code leaves in "live" k instructions from the end of block b. *)
Walk(b) ==
    CHOOSE f : f = [k \in 0 .. Len(body[b]) |->
        IF k = 0 THEN liveOut[b]
        ELSE (f[k-1] \ body[b][Len(body[b]) - k + 1].definitions)
                \cup body[b][Len(body[b]) - k + 1].uses]

(* LiveAt counts the instructions from the start of the block. *)
LEMMA LiveAtWalk == \A b : LiveAt(b) = [i \in 0 .. Len(body[b]) |-> Walk(b)[Len(body[b]) - i]]
  BY DEF LiveAt, Walk

(* The walk does what its recursion says. *)
LEMMA WalkUnfolds ==
    ASSUME NEW b, Len(body[b]) \in Nat
    PROVE  Walk(b) = [k \in 0 .. Len(body[b]) |->
               IF k = 0 THEN liveOut[b]
               ELSE (Walk(b)[k-1] \ body[b][Len(body[b]) - k + 1].definitions)
                       \cup body[b][Len(body[b]) - k + 1].uses]
<1> DEFINE len == Len(body[b])
           D == [k \in 1 .. len |-> body[b][len - k + 1].definitions]
           U == [k \in 1 .. len |-> body[b][len - k + 1].uses]
           Rec(f) == [k \in 0 .. len |->
                        IF k = 0 THEN liveOut[b]
                        ELSE (f[k-1] \ body[b][len - k + 1].definitions)
                                \cup body[b][len - k + 1].uses]
<1>1. PICK f : IsWalk(f, liveOut[b], D, U, len)
  <2> HIDE DEF D, U
  <2> QED BY WalkExists
<1>2. f = Rec(f)
  <2>1. \A k \in 0 .. len : k # 0 => D[k] = body[b][len - k + 1].definitions
                                     /\ U[k] = body[b][len - k + 1].uses
    OBVIOUS
  <2> HIDE DEF D, U
  <2> QED BY <1>1, <2>1 DEF IsWalk
<1>3. Walk(b) = CHOOSE g : g = Rec(g)
  BY DEF Walk
<1> HIDE DEF Rec
<1>4. Walk(b) = Rec(Walk(b))
  BY <1>2, <1>3
<1> QED BY <1>4 DEF Rec

(* The registers whose values are needed after i instructions. *)
Needed(b, i) == {r \in Reg : LiveAfter(r, b, i)}

(* What an instruction needs, from what is needed behind it. *)
LEMMA NeededBefore ==
    ASSUME TypeOK, NEW b \in Block, NEW i \in Nat, i < Len(body[b])
    PROVE  Needed(b, i) =
             (Needed(b, i+1) \ body[b][i+1].definitions) \cup body[b][i+1].uses
<1> DEFINE len == Len(body[b])
<1>1. body[b] \in Seq(Instruction) /\ len \in Nat /\ i < len
  BY BodiesAssumption DEF TypeOK
<1>2. body[b][i+1].uses \subseteq Reg
  <2>1. i+1 \in 1 .. len
    BY <1>1
  <2>2. body[b][i+1] \in Instruction
    BY <1>1, <2>1
  <2> QED BY <2>2 DEF Instruction
<1>3. ASSUME NEW r \in Reg
      PROVE  LiveAfter(r, b, i) <=>
               \/ r \in body[b][i+1].uses
               \/ r \notin body[b][i+1].definitions /\ LiveAfter(r, b, i+1)
  <2> DEFINE Uses(j) == r \in body[b][j].uses
             Defs(j) == r \in body[b][j].definitions
             Later == \E s \in succ[b] : ReadLater(r, s)
             L(x) == \/ \E j \in x+1 .. len : Uses(j) /\ \A k \in x+1 .. j-1 : ~ Defs(k)
                     \/ (\A k \in x+1 .. len : ~ Defs(k)) /\ Later
  <2>1. LiveAfter(r, b, i) <=> L(i)
    BY DEF LiveAfter
  <2>2. LiveAfter(r, b, i+1) <=> L(i+1)
    BY DEF LiveAfter
  <2> HIDE DEF Uses, Defs, Later, len
  <2>3. ASSUME L(i) PROVE Uses(i+1) \/ (~ Defs(i+1) /\ L(i+1))
    <3>1. CASE \E j \in i+1 .. len : Uses(j) /\ \A k \in i+1 .. j-1 : ~ Defs(k)
      <4>1. PICK j \in i+1 .. len : Uses(j) /\ \A k \in i+1 .. j-1 : ~ Defs(k)
        BY <3>1
      <4>2. CASE j = i+1
        BY <4>1, <4>2
      <4>3. CASE j # i+1
        <5>1. j \in (i+1)+1 .. len /\ i+1 \in i+1 .. j-1
          BY <1>1, <4>1, <4>3
        <5>2. \A k \in (i+1)+1 .. j-1 : k \in i+1 .. j-1
          BY <1>1, <4>1
        <5> QED BY <4>1, <5>1, <5>2
      <4> QED BY <4>2, <4>3
    <3>2. CASE (\A k \in i+1 .. len : ~ Defs(k)) /\ Later
      BY <1>1, <3>2
    <3> QED BY <2>3, <3>1, <3>2
  <2>4. ASSUME Uses(i+1) PROVE L(i)
    BY <1>1, <2>4 DEF len
  <2>5. ASSUME ~ Defs(i+1), L(i+1) PROVE L(i)
    <3>1. CASE \E j \in (i+1)+1 .. len : Uses(j) /\ \A k \in (i+1)+1 .. j-1 : ~ Defs(k)
      <4>1. PICK j \in (i+1)+1 .. len : Uses(j) /\ \A k \in (i+1)+1 .. j-1 : ~ Defs(k)
        BY <3>1
      <4>2. j \in i+1 .. len /\ \A k \in i+1 .. j-1 : k = i+1 \/ k \in (i+1)+1 .. j-1
        BY <1>1, <4>1
      <4> QED BY <2>5, <4>1, <4>2
    <3>2. CASE (\A k \in (i+1)+1 .. len : ~ Defs(k)) /\ Later
      <4>1. \A k \in i+1 .. len : k = i+1 \/ k \in (i+1)+1 .. len
        BY <1>1
      <4> QED BY <2>5, <3>2, <4>1
    <3> QED BY <2>5, <3>1, <3>2
  <2> QED BY <2>1, <2>2, <2>3, <2>4, <2>5 DEF Uses, Defs
<1> QED BY <1>2, <1>3 DEF Needed

(* With exact live_out sets the walk finds what is needed, everywhere. *)
LEMMA WalkIsNeeded ==
    ASSUME IInv, \A r \in Reg, c \in Block : r \in liveOut[c] <=> \E s \in succ[c] : ReadLater(r, s),
           NEW b \in Block, NEW i \in 0 .. Len(body[b])
    PROVE  LiveAt(b)[i] = Needed(b, i)
<1> DEFINE len == Len(body[b])
           Bad == {k \in 0 .. len : Walk(b)[k] # Needed(b, len - k)}
<1>1. len \in Nat
  BY BodiesAssumption DEF IInv, TypeOK
<1>2. \A k \in 0 .. len :
        Walk(b)[k] = IF k = 0 THEN liveOut[b]
                     ELSE (Walk(b)[k-1] \ body[b][len - k + 1].definitions)
                             \cup body[b][len - k + 1].uses
  BY <1>1, WalkUnfolds, Zenon
<1>3. ASSUME Bad # {} PROVE FALSE
  <2>1. PICK k \in Bad : \A j \in Bad : k <= j
    <3>1. Bad \subseteq Nat
      BY <1>1
    <3> HIDE DEF Bad
    <3> QED BY <1>3, <3>1, LeastNumber
  <2>2. CASE k = 0
    <3>1. liveOut[b] \subseteq Reg
      BY DEF IInv, TypeOK
    <3>2. \A r \in Reg : LiveAfter(r, b, len) <=> \E s \in succ[b] : ReadLater(r, s)
      BY <1>1 DEF LiveAfter
    <3>3. liveOut[b] = Needed(b, len)
      BY <3>1, <3>2 DEF Needed
    <3>4. 0 \in 0 .. len /\ len - 0 = len
      BY <1>1
    <3>5. Walk(b)[0] = Needed(b, len - 0)
      BY <1>2, <3>3, <3>4
    <3> QED BY <2>1, <2>2, <3>5
  <2>3. CASE k # 0
    <3>1. k-1 \in 0 .. len /\ k-1 \notin Bad /\ len - k \in Nat /\ len - k < len
          /\ len - (k-1) = len - k + 1
      BY <1>1, <2>1, <2>3
    <3>2. Walk(b)[k-1] = Needed(b, len - k + 1)
      BY <3>1
    <3>3. Needed(b, len - k) = (Needed(b, len - k + 1) \ body[b][len - k + 1].definitions)
                                  \cup body[b][len - k + 1].uses
      BY <3>1, NeededBefore DEF IInv
    <3> QED BY <1>2, <2>1, <2>3, <3>2, <3>3
  <2> QED BY <2>2, <2>3
<1>4. LiveAt(b)[i] = Walk(b)[len - i]
  BY LiveAtWalk
<1>5. len - i \in 0 .. len /\ len - (len - i) = i
  BY <1>1
<1> QED BY <1>3, <1>4, <1>5

(* The largest number of registers needed at one point of block b. *)
PeakOf(b) == Max({Cardinality(Needed(b, i)) : i \in 0 .. Len(body[b])})

PeakNeeded == phase = "done" => \A b \in Block : peak[b] = PeakOf(b)

LEMMA PeakByNeeded == PeakCorrect <=> PeakNeeded
  BY DEF PeakCorrect, PeakNeeded, PeakOf, Needed

(* What is needed depends on the function only. *)
LEMMA PeakOfFixed ==
    ASSUME UNCHANGED <<succ, body>>
    PROVE  \A b : PeakOf(b)' = PeakOf(b)
<1>1. \A r, b, i : LiveAfter(r, b, i)' <=> LiveAfter(r, b, i)
  BY ReadLaterFixed DEF LiveAfter
<1>2. \A b, i : Needed(b, i)' = Needed(b, i)
  BY <1>1 DEF Needed
<1> QED BY <1>2 DEF PeakOf

(* The last step computes the peaks, and nothing changes them afterwards. *)
LEMMA PeakStep == IInv /\ PeakCorrect /\ [Next]_vars => PeakCorrect'
<1> SUFFICES ASSUME IInv, PeakCorrect, [Next]_vars, phase' = "done", NEW b \in Block
             PROVE  (peak[b] = PeakOf(b))'
  <2>1. (PeakCorrect <=> PeakNeeded)'
    BY PeakByNeeded, PTL
  <2> QED BY <2>1 DEF PeakNeeded
<1>1. PeakOf(b)' = PeakOf(b)
  BY PeakOfFixed DEF Next, Visit, NextPass, Finish, Done, vars
<1>2. CASE Finish
  <2>1. \A r \in Reg, c \in Block : r \in liveOut[c] <=> \E s \in succ[c] : ReadLater(r, s)
    <3>1. IInv' /\ phase' = "done"
      BY <1>2, IInvStep DEF Next, Finish
    <3>2. LivenessCorrect'
      BY <3>1, IInvCorrect, PTL
    <3>3. \A r, c : ReadLater(r, c)' <=> ReadLater(r, c)
      BY <1>2, ReadLaterFixed DEF Finish
    <3> QED BY <1>2, <3>1, <3>2, <3>3 DEF LivenessCorrect, Finish
  <2>2. \A i \in 0 .. Len(body[b]) : LiveAt(b)[i] = Needed(b, i)
    BY <2>1, WalkIsNeeded
  <2>3. peak'[b] = Max({Cardinality(LiveAt(b)[i]) : i \in 0 .. Len(body[b])})
    BY <1>2 DEF Finish
  <2>4. {Cardinality(LiveAt(b)[i]) : i \in 0 .. Len(body[b])} =
        {Cardinality(Needed(b, i)) : i \in 0 .. Len(body[b])}
    BY <2>2
  <2> QED BY <1>1, <2>3, <2>4 DEF PeakOf
<1>3. CASE ~ Finish
  <2>1. phase = "done" /\ peak' = peak
    BY <1>3 DEF Next, Visit, NextPass, Done, vars
  <2> QED BY <1>1, <2>1, PeakByNeeded DEF PeakNeeded
<1> QED BY <1>2, <1>3

(* blockLiveRegisterCount is the largest number of registers needed at one  *)
(* point of the block, for all bodies.                                      *)
THEOREM PeakTheorem == Spec => []PeakCorrect
<1>1. Init => PeakCorrect
  BY DEF Init, FunctionInit, Start, PeakCorrect
<1> QED BY <1>1, Invariance, PeakStep, PTL DEF Spec
=============================================================================
