------------------------------ MODULE SsaProof ------------------------------
(***************************************************************************)
(* The register SSA is right for any number of blocks, registers and        *)
(* instructions.                                                            *)
(*                                                                          *)
(* Numbers: whatever version a register is given is none, the initial 0, or *)
(* one plus a multiple of the number of registers plus the register         *)
(* (Numbered), so that versions of different registers differ.              *)
(*                                                                          *)
(* Values: a pass that changed nothing has seen every block satisfy its     *)
(* equations (Settled), although phi versions of earlier passes may be left *)
(* where the predecessors agree by now; and then the version that a block   *)
(* says a register has is among those the walker finds current.             *)
(***************************************************************************)
EXTENDS FunctionRegisters, FiniteSetTheorems, TLAPS

Versions == [Block -> [Reg -> Int]]

TypeInv ==
    /\ succ \in Graph
    /\ body \in [Block -> Bodies]
    /\ ssaPhase \in {"sweep", "done"}
    /\ incoming \in Versions /\ outgoing \in Versions /\ phiVersions \in Versions
    /\ ssaCursor \in 0 .. N
    /\ ssaPhase = "done" => at \in Block

OfRegister(v, r) == v \in {NoVersion, 0} \/ \E m \in Nat : v = 1 + m * Registers + r

Numbered == \A b \in Block, r \in Reg : OfRegister(outgoing[b][r], r)

SettledBlock(b) ==
    /\ incoming[b] = NextIncoming(b)
    /\ outgoing[b] = NextOutgoing(b)
    /\ \A r \in NeedsPhi(b) : phiVersions[b][r] = PhiVersion(b, r)

Settled ==
    /\ ssaPhase = "sweep" /\ ~ ssaChanged => \A b \in Block : b < ssaCursor => SettledBlock(b)
    /\ ssaPhase = "done" => \A b \in Block : SettledBlock(b)

Current ==
    /\ ssaPhase = "sweep" => holds = [r \in Reg |-> {0}]
    /\ DOMAIN holds = Reg
    /\ ssaPhase = "done" /\ Preds(succ, Entry) = {} => \A r \in Reg : incoming[at][r] \in holds[r]

IInv == TypeInv /\ Numbered /\ Settled /\ Current

-----------------------------------------------------------------------------
(* A register can be read off a number of this form. *)
LEMMA RegisterOfNumber ==
    ASSUME NEW m \in Nat, NEW n \in Nat, NEW r \in Reg, NEW q \in Reg,
           m * Registers + r = n * Registers + q
    PROVE  r = q
<1>1. Registers \in Nat /\ r \in Nat /\ q \in Nat /\ r < Registers /\ q < Registers
  BY BodiesAssumption DEF Reg
<1>2. \A x, y \in Nat : x < y => x * Registers + Registers <= y * Registers
  <2>1. SUFFICES ASSUME NEW x \in Nat, NEW y \in Nat, x < y
                 PROVE  x * Registers + Registers <= y * Registers
    OBVIOUS
  <2>2. PICK k \in Nat : y = x + 1 + k
    <3>1. y - x - 1 \in Nat /\ y = x + 1 + (y - x - 1)
      BY <2>1
    <3> QED BY <3>1
  <2>3. y * Registers = x * Registers + Registers + k * Registers
    BY <1>1, <2>2
  <2>4. k * Registers \in Nat /\ x * Registers \in Nat
    BY <1>1
  <2> QED BY <1>1, <2>3, <2>4
<1>3. m * Registers \in Nat /\ n * Registers \in Nat
  BY <1>1
<1>4. ~ (m < n)
  <2>1. m < n => m * Registers + Registers <= n * Registers
    BY <1>2
  <2> QED BY <1>1, <1>3, <2>1
<1>5. ~ (n < m)
  <2>1. n < m => n * Registers + Registers <= m * Registers
    BY <1>2
  <2> QED BY <1>1, <1>3, <2>1
<1>6. m = n
  BY <1>4, <1>5
<1> QED BY <1>1, <1>3, <1>6

(* The numbers of definitions and of phi nodes have the form. *)
LEMMA NumbersFit ==
    ASSUME NEW b \in Block, NEW r \in Reg
    PROVE  /\ OfRegister(PhiVersion(b, r), r) /\ PhiVersion(b, r) \in Nat \ {0}
           /\ \A k \in 1 .. PerBlock :
                /\ OfRegister(DefinitionVersion(InstructionIndex(b, k), r), r)
                /\ DefinitionVersion(InstructionIndex(b, k), r) \in Int
<1>1. Registers \in Nat /\ PerBlock \in Nat /\ N \in Nat /\ b \in Nat /\ r \in Nat
  BY BodiesAssumption, NAssumption DEF Reg, Block
<1>2. N * PerBlock \in Nat /\ b * PerBlock \in Nat
  BY <1>1
<1> DEFINE m == N * PerBlock + 1 + b
<1>3. m \in Nat
  BY <1>1, <1>2
<1>4. PhiVersion(b, r) = 1 + m * Registers + r
  <2> DEFINE w == N * PerBlock + 1
  <2>1. w \in Nat
    BY <1>2
  <2> HIDE DEF w
  <2>2. (w + b) * Registers = w * Registers + b * Registers
    BY <1>1, <2>1
  <2> QED BY <1>1, <2>1, <2>2 DEF PhiVersion, w
<1>5. m * Registers \in Nat
  BY <1>1, <1>3
<1>6. ASSUME NEW k \in 1 .. PerBlock
      PROVE  /\ OfRegister(DefinitionVersion(InstructionIndex(b, k), r), r)
             /\ DefinitionVersion(InstructionIndex(b, k), r) \in Int
  <2>1. InstructionIndex(b, k) \in Nat
    BY <1>1, <1>2 DEF InstructionIndex
  <2> HIDE DEF m
  <2>2. InstructionIndex(b, k) * Registers \in Nat
    BY <1>1, <2>1
  <2>3. DefinitionVersion(InstructionIndex(b, k), r) = 1 + InstructionIndex(b, k) * Registers + r
    BY DEF DefinitionVersion
  <2>4. OfRegister(DefinitionVersion(InstructionIndex(b, k), r), r)
    <3> DEFINE i == InstructionIndex(b, k)
    <3>1. i \in Nat /\ DefinitionVersion(InstructionIndex(b, k), r) = 1 + i * Registers + r
      BY <2>1, <2>3
    <3> HIDE DEF i
    <3> QED BY <3>1 DEF OfRegister
  <2> QED BY <1>1, <2>2, <2>3, <2>4
<1> HIDE DEF m
<1>7. PhiVersion(b, r) \in Nat \ {0}
  BY <1>1, <1>4, <1>5
<1> QED BY <1>3, <1>4, <1>6, <1>7 DEF OfRegister

(* The versions that arrive at a block are finitely many. *)
LEMMA ArrivingFinite ==
    ASSUME NEW b \in Block, NEW r \in Reg
    PROVE  /\ IsFiniteSet(Arriving(b, r)) /\ Cardinality(Arriving(b, r)) \in Nat
           /\ Cardinality(Arriving(b, r)) = 0 <=> Arriving(b, r) = {}
           /\ Cardinality(Arriving(b, r)) = 1 => \E v : Arriving(b, r) = {v}
<1> DEFINE f == [p \in Preds(succ, b) |-> outgoing[p][r]]
<1>1. IsFiniteSet(Preds(succ, b))
  <2>1. IsFiniteSet(Block)
    BY FS_Interval, NAssumption DEF Block
  <2> QED BY <2>1, FS_Subset DEF Preds
<1>2. f \in Surjection(Preds(succ, b), Arriving(b, r))
  BY DEF Surjection, Arriving
<1>3. IsFiniteSet(Arriving(b, r))
  BY <1>1, <1>2, FS_Surjection
<1> QED BY <1>3, FS_CardinalityType, FS_EmptySet, FS_Singleton

(* What the incoming version of a register can be. *)
LEMMA IncomingCases ==
    ASSUME NEW b \in Block, NEW r \in Reg
    PROVE  \/ b = Entry /\ NextIncoming(b)[r] = 0
           \/ b # Entry /\ Arriving(b, r) = {} /\ NextIncoming(b)[r] = NoVersion
           \/ b # Entry /\ Arriving(b, r) = {NextIncoming(b)[r]}
           \/ b # Entry /\ r \in NeedsPhi(b) /\ NextIncoming(b)[r] = PhiVersion(b, r)
<1> DEFINE A == Arriving(b, r)
<1>1. NextIncoming(b)[r] =
        CASE b = Entry -> 0
          [] b # Entry /\ A = {} -> NoVersion
          [] b # Entry /\ Cardinality(A) = 1 -> CHOOSE v \in A : TRUE
          [] OTHER -> PhiVersion(b, r)
  BY DEF NextIncoming
<1>2. /\ Cardinality(A) \in Nat /\ (Cardinality(A) = 0 <=> A = {})
      /\ Cardinality(A) = 1 => \E v : A = {v}
  BY ArrivingFinite
<1> HIDE DEF A
<1>3. CASE b = Entry
  BY <1>1, <1>3
<1>4. CASE b # Entry /\ A = {}
  BY <1>1, <1>4 DEF A
<1>5. CASE b # Entry /\ Cardinality(A) = 1
  <2>1. PICK v : A = {v}
    BY <1>2, <1>5
  <2>2. A # {} /\ (CHOOSE x \in A : TRUE) = v
    BY <2>1
  <2> QED BY <1>1, <1>5, <2>1, <2>2 DEF A
<1>6. CASE b # Entry /\ A # {} /\ Cardinality(A) # 1
  <2>1. NextIncoming(b)[r] = PhiVersion(b, r)
    BY <1>1, <1>6
  <2>2. Cardinality(A) > 1
    BY <1>2, <1>6
  <2> QED BY <1>6, <2>1, <2>2 DEF NeedsPhi, A
<1> QED BY <1>3, <1>4, <1>5, <1>6

(* What the outgoing version can be: the last definition of the block, or   *)
(* what came in.                                                            *)
LEMMA OutgoingCases ==
    ASSUME TypeInv, NEW b \in Block, NEW r \in Reg
    PROVE  \/ Defining(b, r) = {} /\ NextOutgoing(b)[r] = NextIncoming(b)[r]
           \/ /\ Defining(b, r) # {}
              /\ \E k \in 1 .. PerBlock :
                    NextOutgoing(b)[r] = DefinitionVersion(InstructionIndex(b, k), r)
<1> DEFINE D == Defining(b, r)
           Latest(k) == \A j \in D : j <= k
<1>1. NextOutgoing(b)[r] =
        IF D = {} THEN NextIncoming(b)[r]
        ELSE DefinitionVersion(InstructionIndex(b, CHOOSE k \in D : Latest(k)), r)
  BY DEF NextOutgoing
<1>2. ASSUME D # {} PROVE \E k \in D : Latest(k)
  <2>1. D \subseteq Nat /\ PerBlock \in Nat /\ \A k \in D : k <= PerBlock
    BY BodiesAssumption DEF Defining
  <2> DEFINE Below == {PerBlock - k : k \in D}
  <2>2. \A k \in D : PerBlock - k \in Nat
    BY <2>1
  <2>3. Below \subseteq Nat /\ Below # {}
    BY <1>2, <2>2
  <2> HIDE DEF Below
  <2>4. PICK n \in Below : \A k \in Below : ~ (<<k, n>> \in OpToRel(<, Nat))
    BY <2>3, WFMin, NatLessThanWellFounded, Zenon
  <2>5. \A k \in Below : ~ (k < n)
    BY <2>3, <2>4, Zenon DEF OpToRel
  <2>6. PICK k \in D : n = PerBlock - k
    BY <2>4 DEF Below
  <2>7. ASSUME NEW j \in D PROVE j <= k
    <3>1. ~ (PerBlock - j < PerBlock - k)
      BY <2>5, <2>6 DEF Below
    <3> QED BY <2>1, <3>1
  <2> QED BY <2>7
<1>3. D # {} => (CHOOSE k \in D : Latest(k)) \in D
  <2> HIDE DEF D, Latest
  <2> QED BY <1>2
<1>4. D \subseteq 1 .. PerBlock
  BY DEF Defining
<1> HIDE DEF Latest
<1> QED BY <1>1, <1>3, <1>4

(* What a visit computes has its type, and the numbers fit. *)
LEMMA VisitNumbers ==
    ASSUME TypeInv, Numbered, NEW b \in Block
    PROVE  /\ NextIncoming(b) \in [Reg -> Int] /\ NextOutgoing(b) \in [Reg -> Int]
           /\ \A r \in Reg : OfRegister(NextOutgoing(b)[r], r)
<1>1. ASSUME NEW r \in Reg PROVE NextIncoming(b)[r] \in Int /\ OfRegister(NextIncoming(b)[r], r)
  <2>1. CASE NextIncoming(b)[r] \in {0, NoVersion}
    BY <2>1 DEF OfRegister, NoVersion
  <2>2. CASE NextIncoming(b)[r] \in Arriving(b, r)
    <3>1. PICK p \in Preds(succ, b) : NextIncoming(b)[r] = outgoing[p][r]
      BY <2>2 DEF Arriving
    <3>2. p \in Block /\ outgoing[p][r] \in Int
      BY <3>1 DEF Preds, TypeInv, Versions
    <3> QED BY <3>1, <3>2 DEF Numbered
  <2>3. CASE NextIncoming(b)[r] = PhiVersion(b, r)
    BY <2>3, NumbersFit
  <2> QED BY <2>1, <2>2, <2>3, IncomingCases
<1>2. ASSUME NEW r \in Reg PROVE NextOutgoing(b)[r] \in Int /\ OfRegister(NextOutgoing(b)[r], r)
  BY <1>1, OutgoingCases, NumbersFit
<1>3. NextIncoming(b) \in [Reg -> Int]
  <2>1. NextIncoming(b) = [r \in Reg |-> NextIncoming(b)[r]]
    BY DEF NextIncoming
  <2> QED BY <1>1, <2>1
<1>4. NextOutgoing(b) \in [Reg -> Int]
  <2>1. NextOutgoing(b) = [r \in Reg |-> NextOutgoing(b)[r]]
    BY DEF NextOutgoing
  <2> QED BY <1>2, <2>1
<1> QED BY <1>2, <1>3, <1>4

-----------------------------------------------------------------------------
(* The invariant holds when the sweeps start. *)
LEMMA InitIInv == SsaInit => IInv
<1> SUFFICES ASSUME SsaInit PROVE IInv
  OBVIOUS
<1>1. succ \in Graph
  BY DEF SsaInit, FunctionInit, SsaStart, GraphOf, Graph, Successors
<1>2. Unversioned \in Versions /\ \A b \in Block, r \in Reg : Unversioned[b][r] = NoVersion
  BY DEF Unversioned, Versions, NoVersion
<1>3. TypeInv
  BY <1>1, <1>2, NAssumption DEF SsaInit, FunctionInit, SsaStart, TypeInv
<1>4. Numbered
  BY <1>2 DEF SsaInit, FunctionInit, SsaStart, Numbered, OfRegister
<1>5. Settled
  BY DEF SsaInit, FunctionInit, SsaStart, Settled, Block
<1>6. Current
  BY DEF SsaInit, FunctionInit, SsaStart, Current
<1> QED BY <1>3, <1>4, <1>5, <1>6 DEF IInv

(* The last of some instructions, as the outgoing version picks it. *)
LastOf(D) == CHOOSE k \in D : \A j \in D : j <= k

LastDefinition(b) ==
    [r \in Reg |->
        IF Defining(b, r) = {} THEN NextIncoming(b)[r]
        ELSE DefinitionVersion(InstructionIndex(b, LastOf(Defining(b, r))), r)]

LEMMA OutgoingByLast == \A b : NextOutgoing(b) = LastDefinition(b)
  BY DEF NextOutgoing, LastDefinition, LastOf

(* The equations only read these tables. *)
LEMMA EquationsKept ==
    ASSUME UNCHANGED <<succ, body, outgoing>>
    PROVE  \A b : /\ NextIncoming(b)' = NextIncoming(b) /\ NextOutgoing(b)' = NextOutgoing(b)
                 /\ NeedsPhi(b)' = NeedsPhi(b)
<1>1. \A b, r : Arriving(b, r)' = Arriving(b, r) /\ Defining(b, r)' = Defining(b, r)
  BY DEF Arriving, Defining
<1>2. \A b : NextIncoming(b)' = NextIncoming(b)
  BY <1>1 DEF NextIncoming
<1>3. \A b : NextOutgoing(b)' = NextOutgoing(b)
  <2>1. \A b : LastDefinition(b)' = LastDefinition(b)
    BY <1>1, <1>2 DEF LastDefinition
  <2>2. (\A b : NextOutgoing(b) = LastDefinition(b))'
    BY OutgoingByLast, PTL
  <2> QED BY <2>1, <2>2, OutgoingByLast
<1>4. \A b : NeedsPhi(b)' = NeedsPhi(b)
  BY <1>1 DEF NeedsPhi
<1> QED BY <1>2, <1>3, <1>4

(* A visit keeps types and numbers, and settles its block if it does not    *)
(* ask for another pass.                                                    *)
LEMMA VisitIInv ==
    ASSUME IInv, VisitVersions
    PROVE  IInv'
<1> USE DEF IInv
<1>1. /\ ssaCursor \in Block /\ ssaCursor \in Nat /\ ssaCursor' = ssaCursor + 1 /\ ssaCursor' \in 0 .. N
      /\ ssaPhase = "sweep" /\ ssaPhase' = "sweep" /\ UNCHANGED <<succ, body, holds, at>>
  BY NAssumption DEF VisitVersions, Block
<1>2. /\ NextIncoming(ssaCursor) \in [Reg -> Int] /\ NextOutgoing(ssaCursor) \in [Reg -> Int]
      /\ \A r \in Reg : OfRegister(NextOutgoing(ssaCursor)[r], r)
  BY <1>1, VisitNumbers
<1>3. /\ incoming' = [incoming EXCEPT ![ssaCursor] = NextIncoming(ssaCursor)]
      /\ outgoing' = [outgoing EXCEPT ![ssaCursor] = NextOutgoing(ssaCursor)]
      /\ ssaChanged' = (ssaChanged \/ incoming' # incoming \/ outgoing' # outgoing)
      /\ phiVersions' = [phiVersions EXCEPT ![ssaCursor] =
                            [r \in Reg |-> IF r \in NeedsPhi(ssaCursor)
                                           THEN PhiVersion(ssaCursor, r) ELSE phiVersions[ssaCursor][r]]]
  BY <1>1 DEF VisitVersions
<1> DEFINE phis == [r \in Reg |-> IF r \in NeedsPhi(ssaCursor)
                                  THEN PhiVersion(ssaCursor, r) ELSE phiVersions[ssaCursor][r]]
<1>4. phis \in [Reg -> Int]
  BY <1>1, NumbersFit DEF TypeInv, Versions
<1>5. /\ phis = [r \in Reg |-> phis[r]] /\ phiVersions' = [phiVersions EXCEPT ![ssaCursor] = phis]
      /\ \A r \in NeedsPhi(ssaCursor) : phis[r] = PhiVersion(ssaCursor, r)
  BY <1>3 DEF NeedsPhi
<1> HIDE DEF phis
<1>6. TypeInv'
  <2>1. incoming' \in Versions /\ outgoing' \in Versions
    BY <1>2, <1>3 DEF TypeInv, Versions
  <2>2. phiVersions' \in Versions
    BY <1>4, <1>5 DEF TypeInv, Versions
  <2> QED BY <1>1, <2>1, <2>2 DEF TypeInv
<1>7. Numbered'
  BY <1>1, <1>2, <1>3 DEF Numbered, TypeInv, Versions
<1>8. Settled'
  <2>1. SUFFICES ASSUME ~ ssaChanged', NEW b \in Block, b < ssaCursor' PROVE SettledBlock(b)'
    BY <1>1 DEF Settled
  <2>2. ~ ssaChanged /\ UNCHANGED <<incoming, outgoing>>
    BY <1>3, <2>1
  <2>3. /\ NextIncoming(b)' = NextIncoming(b) /\ NextOutgoing(b)' = NextOutgoing(b)
        /\ NeedsPhi(b)' = NeedsPhi(b)
    BY <1>1, <2>2, EquationsKept
  <2>4. CASE b = ssaCursor
    <3>1. incoming'[b] = NextIncoming(b) /\ outgoing'[b] = NextOutgoing(b) /\ phiVersions'[b] = phis
      BY <1>1, <1>3, <1>5, <2>4 DEF TypeInv, Versions
    <3> QED BY <1>5, <2>3, <2>4, <3>1 DEF SettledBlock
  <2>5. CASE b # ssaCursor
    <3>1. b < ssaCursor
      BY <1>1, <2>1, <2>5 DEF Block
    <3>2. SettledBlock(b)
      BY <1>1, <2>2, <3>1 DEF Settled
    <3>3. phiVersions'[b] = phiVersions[b]
      BY <1>5, <2>5 DEF TypeInv, Versions
    <3> QED BY <2>2, <2>3, <3>2, <3>3 DEF SettledBlock
  <2> QED BY <2>4, <2>5
<1>9. Current'
  BY <1>1 DEF Current
<1> QED BY <1>6, <1>7, <1>8, <1>9

(* In a settled function the walker arrives with the versions that the      *)
(* block expects.                                                           *)
LEMMA WalkKeepsCurrent ==
    ASSUME IInv, NEW s \in Block, Walk(s), Preds(succ, Entry) = {}, NEW r \in Reg
    PROVE  incoming[s][r] \in holds'[r]
<1> USE DEF IInv
<1>1. ssaPhase = "done" /\ at \in Block /\ s \in succ[at] /\ s # Entry /\ at \in Preds(succ, s)
  BY DEF Walk, TypeInv, Preds
<1>2. SettledBlock(at) /\ SettledBlock(s) /\ incoming[at][r] \in holds[r]
  BY <1>1 DEF Settled, Current
<1> DEFINE now == AfterBlock(at, r)
<1>3. outgoing[at][r] \in now
  <2>1. outgoing[at][r] = NextOutgoing(at)[r] /\ incoming[at][r] = NextIncoming(at)[r]
    BY <1>2 DEF SettledBlock
  <2>2. CASE Defining(at, r) = {}
    BY <1>1, <1>2, <2>1, <2>2, OutgoingCases DEF AfterBlock
  <2>3. CASE Defining(at, r) # {}
    BY <2>3 DEF AfterBlock
  <2> QED BY <2>2, <2>3
<1>4. holds'[r] = IF r \notin PhiNodes(s) THEN now
                  ELSE IF IncomingVersion(at, r) \in now THEN now \cup {PhiVersion(s, r)}
                  ELSE now \ {PhiVersion(s, r)}
  BY DEF Walk
<1> HIDE DEF now
<1>5. now \subseteq holds'[r]
  BY <1>3, <1>4 DEF IncomingVersion
<1>6. outgoing[at][r] \in Arriving(s, r)
  BY <1>1 DEF Arriving
<1>7. incoming[s][r] = NextIncoming(s)[r]
  BY <1>2 DEF SettledBlock
<1>8. CASE Arriving(s, r) = {NextIncoming(s)[r]}
  BY <1>3, <1>5, <1>6, <1>7, <1>8
<1>9. CASE r \in NeedsPhi(s) /\ NextIncoming(s)[r] = PhiVersion(s, r)
  <2>1. phiVersions[s][r] = PhiVersion(s, r) /\ PhiVersion(s, r) # NoVersion
    BY <1>2, <1>9, NumbersFit DEF SettledBlock, NoVersion
  <2>2. r \in PhiNodes(s)
    BY <2>1 DEF PhiNodes
  <2> QED BY <1>3, <1>4, <1>7, <1>9, <2>2 DEF IncomingVersion
<1> QED BY <1>1, <1>6, <1>8, <1>9, IncomingCases

(* Every step preserves the invariant. *)
LEMMA NextIInv == IInv /\ [SsaNext]_ssaVars => IInv'
<1> SUFFICES ASSUME IInv, [SsaNext]_ssaVars PROVE IInv'
  OBVIOUS
<1> USE DEF IInv
<1>1. CASE VisitVersions
  BY <1>1, VisitIInv
<1>2. CASE UNCHANGED <<succ, body, incoming, outgoing, phiVersions>>
  <2>1. /\ \A b : SettledBlock(b)' <=> SettledBlock(b)
        /\ Numbered'
    BY <1>2, EquationsKept DEF SettledBlock, Numbered
  <2>2. CASE NextVersionPass
    <3>1. TypeInv' /\ Current'
      BY <1>2, <2>2, NAssumption DEF NextVersionPass, TypeInv, Current
    <3>2. Settled'
      BY <2>2, NAssumption DEF NextVersionPass, Settled, Block
    <3> QED BY <2>1, <3>1, <3>2
  <2>3. CASE FinishVersions
    <3>1. \A b \in Block : b < ssaCursor
      BY <2>3, NAssumption DEF FinishVersions, TypeInv, Block
    <3>2. Settled' /\ \A b \in Block : SettledBlock(b)
      BY <2>1, <2>3, <3>1 DEF FinishVersions, Settled
    <3>3. Entry \in Block
      BY NAssumption DEF Entry, Block
    <3>4. TypeInv'
      BY <1>2, <2>3, <3>3 DEF FinishVersions, TypeInv
    <3>5. \A r \in Reg : incoming[Entry][r] = 0
      BY <3>2, <3>3, IncomingCases DEF SettledBlock
    <3>6. Current'
      BY <2>3, <3>5 DEF FinishVersions, Current
    <3> QED BY <2>1, <3>2, <3>4, <3>6
  <2>4. ASSUME NEW s \in Block, Walk(s) PROVE IInv'
    <3>1. TypeInv' /\ Settled' /\ ssaPhase' = "done" /\ at' = s /\ DOMAIN holds' = Reg
      BY <1>2, <2>1, <2>4 DEF Walk, TypeInv, Settled
    <3>2. Preds(succ, Entry) = {} => \A r \in Reg : incoming[s][r] \in holds'[r]
      BY <2>4, WalkKeepsCurrent
    <3>3. Current'
      BY <1>2, <3>1, <3>2 DEF Current
    <3> QED BY <2>1, <3>1, <3>3
  <2>5. CASE UNCHANGED ssaVars
    BY <2>1, <2>5 DEF ssaVars, versionVars, TypeInv, Settled, Current
  <2> QED BY <1>1, <2>2, <2>3, <2>4, <2>5 DEF SsaNext, FindVersions, Returned
<1> QED BY <1>1, <1>2
      DEF SsaNext, FindVersions, NextVersionPass, FinishVersions, Walk, Returned, ssaVars, versionVars

LEMMA Invariance == SsaSpec => []IInv
  BY InitIInv, NextIInv, PTL DEF SsaSpec

(* Where addFunction runs the two analyses one after the other, either one  *)
(* behaves as it does alone.                                                *)
LEMMA RunsVersions == RegistersSpec => SsaSpec
<1>1. RegistersInit => SsaInit
  BY DEF RegistersInit, SsaInit
<1>2. [RegistersNext]_registerVars => [SsaNext]_ssaVars
  <2>1. FindLiveness => UNCHANGED ssaVars
    BY DEF FindLiveness, Visit, NextPass, Finish, ssaVars
  <2>2. GiveVersions \/ Run => SsaNext
    BY DEF GiveVersions, Run, SsaNext
  <2>3. UNCHANGED registerVars => UNCHANGED ssaVars
    BY DEF registerVars, vars, ssaVars
  <2> QED BY <2>1, <2>2, <2>3 DEF RegistersNext
<1> QED BY <1>1, <1>2, PTL DEF RegistersSpec, SsaSpec

LEMMA RunsLiveness == RegistersSpec => Spec
<1>1. RegistersInit => Init
  BY DEF RegistersInit, Init
<1>2. [RegistersNext]_registerVars => [Next]_vars
  BY DEF RegistersNext, FindLiveness, GiveVersions, Run, registerVars, Next, vars
<1> QED BY <1>1, <1>2, PTL DEF RegistersSpec, Spec

-----------------------------------------------------------------------------
(* However control reaches a block, the version that the tables give a      *)
(* register there stands for the register's value.                          *)
THEOREM VersionTheorem == RegistersSpec => []VersionIsCurrent
<1>1. IInv => VersionIsCurrent
  BY DEF IInv, Current, VersionIsCurrent
<1> QED BY <1>1, Invariance, RunsVersions, PTL

(* Versions of different registers never have the same number.              *)
THEOREM DisjointTheorem == RegistersSpec => []VersionsDisjoint
<1>1. IInv => VersionsDisjoint
  <2> SUFFICES ASSUME IInv, NEW b \in Block, NEW c \in Block, NEW r \in Reg, NEW q \in Reg,
                      outgoing[b][r] = outgoing[c][q], outgoing[b][r] \notin {NoVersion, 0}
               PROVE  r = q
    BY DEF VersionsDisjoint
  <2>1. PICK m \in Nat : outgoing[b][r] = 1 + m * Registers + r
    BY DEF IInv, Numbered, OfRegister
  <2>2. PICK n \in Nat : outgoing[c][q] = 1 + n * Registers + q
    BY DEF IInv, Numbered, OfRegister
  <2>3. m * Registers \in Nat /\ n * Registers \in Nat /\ r \in Nat /\ q \in Nat
    BY BodiesAssumption DEF Reg
  <2>4. m * Registers + r = n * Registers + q
    <3> DEFINE x == m * Registers
               y == n * Registers
    <3>1. x \in Nat /\ y \in Nat /\ 1 + x + r = 1 + y + q
      BY <2>1, <2>2, <2>3
    <3> HIDE DEF x, y
    <3>2. x + r = y + q
      BY <2>3, <3>1
    <3> QED BY <3>2 DEF x, y
  <2> QED BY <2>4, RegisterOfNumber
<1> QED BY <1>1, Invariance, RunsVersions, PTL
=============================================================================
