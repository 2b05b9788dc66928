----------------------- MODULE RegisterDecompileProof -----------------------
(***************************************************************************)
(* The register renderer.                                                   *)
(*                                                                          *)
(* The control-flow graph is exact, and the dispatcher follows the virtual  *)
(* machine, for code of any length.  The invariant is about decoding: the   *)
(* instructions found so far follow each other without gap or overlap up to *)
(* pc (Chained), so that in accepted code every instruction ends where      *)
(* another begins or at the end of the code.  From this it follows that a   *)
(* block that does not reach the end of the code is followed by the         *)
(* instruction behind its last one.                                         *)
(*                                                                          *)
(* The rendered text has the virtual machine's values for any number of     *)
(* registers, parameters, arguments and results and any values.             *)
(* SameAsMachine is not inductive by itself: that a range up to top can be  *)
(* read needs to know that the open results lie within the slots that both  *)
(* sides have written (OpenInSlots), and that an assignment between an      *)
(* open result and its use leaves top alone needs that top is not before    *)
(* the open results, which the same fact gives.                             *)
(***************************************************************************)
EXTENDS CodeBlocks, RegisterText, WellFoundedInduction, SequenceTheorems, TLAPS

Kinds == {"plain", "plain2", "return", "jump", "branch", "branch2", "cmpproto", "skip", "fastcall"}

Cells == [kind : Kinds \cup {"none"}, target : Int]

TypeInv ==
    /\ size \in Nat
    /\ pc \in 0 .. size
    /\ code \in [Word -> Cells]
    /\ \A p \in Boundaries : code[p].kind \in Kinds

Chained ==
    /\ pc = 0 \/ 0 \in Boundaries
    /\ \A p \in Boundaries : EndOf(p) <= pc /\ EndOf(p) \in Boundaries \cup {pc}
    /\ \A p, q \in Boundaries : p < q => EndOf(p) <= q

TargetsKept == \A p \in Boundaries : isJump(code[p]) => code[p].target \in jumpTargets

Accepted == phase \in {"accepted", "run", "returned", "stuck"}

AcceptedIsWhole == Accepted => pc = size /\ jumpTargets \subseteq Boundaries

BuiltFromCode ==
    Built => starts = Starts /\ succ = [b \in Starts |-> Successors(Starts, b)]

IInv == /\ TypeInv /\ Chained /\ TargetsKept /\ AcceptedIsWhole /\ BuiltFromCode
        /\ Running => ip \in Boundaries

-----------------------------------------------------------------------------
(* Every instruction has one or two words. *)
LEMMA Ends ==
    ASSUME TypeInv, NEW p \in Boundaries
    PROVE  /\ p \in Nat /\ p \in Word /\ EndOf(p) \in {p + 1, p + 2}
           /\ EndOf(p) \in Nat /\ code[p] \in Cells /\ code[p].kind \in Kinds
  BY DEF TypeInv, Boundaries, EndOf, Length, Word

(* A set of numbers has a least element. *)
LEMMA LeastNumber ==
    ASSUME NEW T \in SUBSET Nat, T # {}
    PROVE  \E x \in T : \A y \in T : x <= y
<1>1. T \subseteq Nat
  OBVIOUS
<1>2. PICK x \in T : \A y \in T : ~ (<<y, x>> \in OpToRel(<, Nat))
  BY <1>1, WFMin, NatLessThanWellFounded, Zenon
<1>3. \A y \in T : ~ (y < x)
  BY <1>1, <1>2, Zenon DEF OpToRel
<1> QED BY <1>3

(* A set of numbers below a bound has a greatest element. *)
LEMMA GreatestNumber ==
    ASSUME NEW T \in SUBSET Nat, T # {}, NEW m \in Nat, \A x \in T : x <= m
    PROVE  \E x \in T : \A y \in T : y <= x
<1> DEFINE Below == {m - x : x \in T}
<1>0. \A x \in T : m - x \in Nat
  OBVIOUS
<1>1. Below \in SUBSET Nat /\ Below # {}
  BY <1>0
<1>2. PICK n \in Below : \A k \in Below : n <= k
  BY <1>1, LeastNumber
<1>3. PICK x \in T : n = m - x
  BY <1>2
<1>4. ASSUME NEW y \in T PROVE y <= x
  <2>1. m - x <= m - y
    BY <1>2, <1>3
  <2> QED BY <2>1
<1> QED BY <1>4

-----------------------------------------------------------------------------
(* Code that has been accepted and cut into blocks. *)
Cut == TypeInv /\ Chained /\ TargetsKept /\ AcceptedIsWhole /\ BuiltFromCode /\ Built

(* The blocks start at instructions, if there are any. *)
LEMMA StartsAreInstructions ==
    ASSUME Cut, Boundaries # {}
    PROVE  /\ 0 \in starts /\ starts \subseteq Boundaries /\ Boundaries \subseteq Nat
           /\ \A p \in Boundaries : isJump(code[p]) => code[p].target \in starts
           /\ \A p \in Boundaries : isJump(code[p]) \/ code[p].kind = "return" =>
                 (EndOf(p) < size => EndOf(p) \in starts)
           /\ \A p \in Boundaries : EndOf(p) < size => EndOf(p) \in Boundaries
           /\ \A p \in Boundaries : EndOf(p) <= size
<1>1. starts = Starts /\ pc = size /\ jumpTargets \subseteq Boundaries
  BY DEF Cut, BuiltFromCode, AcceptedIsWhole, Accepted, Built
<1>2. Boundaries \subseteq Nat /\ \A p \in Boundaries : EndOf(p) \in Nat /\ EndOf(p) > 0
  BY Ends DEF Cut
<1>3. 0 \in Boundaries
  <2>1. PICK p \in Boundaries : TRUE
    OBVIOUS
  <2>2. EndOf(p) <= pc /\ EndOf(p) > 0 /\ EndOf(p) \in Nat
    BY <1>2 DEF Cut, Chained
  <2> QED BY <2>2 DEF Cut, Chained, TypeInv
<1>4. \A p \in Boundaries : EndOf(p) <= size /\ (EndOf(p) < size => EndOf(p) \in Boundaries)
  BY <1>1, <1>2 DEF Cut, Chained, TypeInv
<1>5. \A p \in Boundaries : isJump(code[p]) => code[p].target \in Boundaries
  BY <1>1 DEF Cut, TargetsKept
<1>6. Starts \subseteq Boundaries
  BY <1>3, <1>4, <1>5 DEF Starts
<1>7. \A p \in Boundaries : isJump(code[p]) => code[p].target \in Starts
  BY DEF Starts
<1>8. \A p \in Boundaries : isJump(code[p]) \/ code[p].kind = "return" =>
         (EndOf(p) < size => EndOf(p) \in Starts)
  BY DEF Starts
<1> QED BY <1>1, <1>2, <1>4, <1>6, <1>7, <1>8 DEF Starts

(* What Following, BlockOf and LastOf choose exists. *)
LEMMA FollowingExists ==
    ASSUME Cut, Boundaries # {}, NEW b \in Nat
    PROVE  /\ Following(starts, b) = {} => \A s \in starts : s <= b
           /\ \A s \in Following(starts, b) :
                 /\ Following(starts, b) = {s} /\ s \in starts /\ s > b
                 /\ \A t \in starts : t > b => s <= t
<1> DEFINE later == {s \in starts : s > b}
           Least(s) == \A t \in later : s <= t
<1>1. later \in SUBSET Nat /\ starts \subseteq Nat
  BY StartsAreInstructions
<1>2. Following(starts, b) = IF later = {} THEN {} ELSE {CHOOSE s \in later : Least(s)}
  BY DEF Following
<1>3. later # {} => \E s \in later : Least(s)
  BY <1>1, LeastNumber
<1>4. later # {} => (CHOOSE s \in later : Least(s)) \in later /\ Least(CHOOSE s \in later : Least(s))
  <2> HIDE DEF later, Least
  <2> QED BY <1>3
<1>5. later = {} => \A s \in starts : s <= b
  BY <1>1
<1>6. ASSUME NEW s \in Following(starts, b)
      PROVE  Following(starts, b) = {s} /\ s \in later /\ Least(s)
  <2> HIDE DEF later, Least
  <2> QED BY <1>2, <1>4, <1>6
<1> QED BY <1>2, <1>5, <1>6

LEMMA BlockOfExists ==
    ASSUME Cut, NEW p \in Boundaries
    PROVE  /\ BlockOf(p) \in starts /\ BlockOf(p) <= p
           /\ \A c \in starts : c <= p => c <= BlockOf(p)
<1> DEFINE Earlier == {b \in starts : b <= p}
           Latest(b) == b <= p /\ \A c \in starts : c <= p => c <= b
<1>1. Boundaries # {} /\ p \in Nat
  BY Ends DEF Cut
<1>2. Earlier \in SUBSET Nat /\ 0 \in Earlier
  <2>1. 0 \in starts /\ starts \subseteq Nat
    BY <1>1, StartsAreInstructions
  <2>2. 0 <= p
    BY <1>1
  <2>3. 0 \in Earlier
    BY <2>1, <2>2
  <2>4. \A b \in Earlier : b \in Nat
    BY <2>1
  <2> QED BY <2>3, <2>4
<1>3. PICK b \in Earlier : \A c \in Earlier : c <= b
  BY <1>1, <1>2, GreatestNumber
<1>4. \E x \in starts : Latest(x)
  BY <1>3
<1>5. BlockOf(p) = CHOOSE x \in starts : Latest(x)
  BY DEF BlockOf
<1>6. BlockOf(p) \in starts /\ Latest(BlockOf(p))
  <2> HIDE DEF Latest
  <2> QED BY <1>4, <1>5
<1> QED BY <1>6

LEMMA LastOfExists ==
    ASSUME Cut, NEW b, Members(starts, b) # {}
    PROVE  /\ LastOf(starts, b) \in Members(starts, b)
           /\ \A q \in Members(starts, b) : q <= LastOf(starts, b)
<1> DEFINE M == Members(starts, b)
           Latest(x) == \A q \in M : q <= x
<1>1. M \in SUBSET Nat /\ size \in Nat /\ \A q \in M : q <= size
  BY Ends DEF Members, Cut, TypeInv, Word
<1>2. \E x \in M : Latest(x)
  BY <1>1, GreatestNumber
<1>3. LastOf(starts, b) = CHOOSE x \in M : Latest(x)
  BY DEF LastOf
<1>4. LastOf(starts, b) \in M /\ Latest(LastOf(starts, b))
  <2> HIDE DEF M, Latest
  <2> QED BY <1>2, <1>3
<1> QED BY <1>4

(* An instruction is a member of one block only. *)
LEMMA MemberOfItsBlock ==
    ASSUME Cut, NEW p \in Boundaries, NEW b \in starts
    PROVE  p \in Members(starts, b) <=> b = BlockOf(p)
<1>1. Boundaries # {} /\ p \in Nat /\ starts \subseteq Nat
  BY Ends, StartsAreInstructions DEF Cut
<1>2. /\ BlockOf(p) \in starts /\ BlockOf(p) <= p
      /\ \A c \in starts : c <= p => c <= BlockOf(p)
  BY BlockOfExists
<1>3. ASSUME b = BlockOf(p) PROVE p \in Members(starts, b)
  <2>1. ASSUME NEW s \in Following(starts, b) PROVE p < s
    <3>1. s \in starts /\ s > b
      BY <1>1, <2>1, FollowingExists
    <3> QED BY <1>1, <1>2, <1>3, <3>1
  <2> QED BY <1>1, <1>2, <1>3, <2>1 DEF Members
<1>4. ASSUME p \in Members(starts, b) PROVE b = BlockOf(p)
  <2>1. b <= p /\ \A s \in Following(starts, b) : p < s
    BY <1>1, <1>4 DEF Members
  <2>2. b \in Nat /\ BlockOf(p) \in Nat /\ b <= BlockOf(p)
    BY <1>1, <1>2, <2>1
  <2>3. SUFFICES ASSUME BlockOf(p) > b PROVE FALSE
    BY <2>2
  <2>4. Following(starts, b) # {}
    <3>1. ~ (BlockOf(p) <= b)
      BY <2>2, <2>3
    <3> QED BY <1>1, <1>2, <2>2, <3>1, FollowingExists
  <2>5. PICK s \in Following(starts, b) : TRUE
    BY <2>4
  <2>6. s <= BlockOf(p) /\ s \in Nat /\ p < s
    BY <1>1, <1>2, <2>1, <2>2, <2>3, <2>5, FollowingExists
  <2> QED BY <1>1, <1>2, <2>2, <2>6
<1> QED BY <1>3, <1>4

(* The last instruction of a block ends where the next block starts, or at  *)
(* the end of the code.                                                     *)
LEMMA BehindLast ==
    ASSUME Cut, NEW p \in Boundaries, IsLast(p)
    PROVE  IF EndOf(p) < size THEN Following(starts, BlockOf(p)) = {EndOf(p)}
           ELSE Following(starts, BlockOf(p)) = {} /\ EndOf(p) = size
<1> DEFINE b == BlockOf(p)
<1>1. /\ Boundaries # {} /\ p \in Nat /\ EndOf(p) \in {p + 1, p + 2} /\ size \in Nat
      /\ b \in starts /\ b \in Nat /\ b <= p /\ starts \subseteq Boundaries /\ Boundaries \subseteq Nat
      /\ EndOf(p) <= size
  BY Ends, BlockOfExists, StartsAreInstructions DEF Cut, TypeInv
<1>2. p \in Members(starts, b) /\ \A q \in Members(starts, b) : q <= p
  BY <1>1, MemberOfItsBlock, LastOfExists DEF IsLast
<1>3. ASSUME NEW s \in Following(starts, b) PROVE s >= EndOf(p) /\ s < size /\ s \in Nat
  <2>1. s \in starts /\ p < s
    BY <1>1, <1>2, <1>3, FollowingExists DEF Members
  <2>2. s \in Boundaries /\ s \in Word
    BY <1>1, <2>1, Ends DEF Cut
  <2>3. EndOf(p) <= s
    BY <2>1, <2>2 DEF Cut, Chained
  <2> QED BY <1>1, <2>2, <2>3 DEF Word
<1> HIDE DEF b
<1>4. CASE EndOf(p) < size
  <2>1. EndOf(p) \in Boundaries /\ EndOf(p) \in Nat /\ EndOf(p) > p
    BY <1>1, <1>4, StartsAreInstructions
  <2>2. EndOf(p) \notin Members(starts, b)
    BY <1>1, <1>2, <2>1
  <2>3. PICK s \in Following(starts, b) : ~ (EndOf(p) < s)
    BY <1>1, <2>1, <2>2 DEF Members
  <2>4. s = EndOf(p)
    BY <1>3, <2>1, <2>3
  <2> QED BY <1>1, <1>4, <2>4, FollowingExists DEF b
<1>5. CASE ~ (EndOf(p) < size)
  BY <1>1, <1>3, <1>5 DEF b
<1> QED BY <1>4, <1>5

(* An instruction that is not the last of its block neither jumps nor       *)
(* returns, and the next one is in the same block.                          *)
LEMMA InsideBlock ==
    ASSUME Cut, NEW p \in Boundaries, ~ IsLast(p)
    PROVE  /\ EndOf(p) \in Boundaries /\ BlockOf(EndOf(p)) = BlockOf(p)
           /\ ~ isJump(code[p]) /\ code[p].kind # "return"
<1> DEFINE b == BlockOf(p)
<1>1. /\ Boundaries # {} /\ p \in Nat /\ EndOf(p) \in {p + 1, p + 2} /\ size \in Nat
      /\ b \in starts /\ b \in Nat /\ b <= p /\ starts \subseteq Boundaries /\ Boundaries \subseteq Nat
  BY Ends, BlockOfExists, StartsAreInstructions DEF Cut, TypeInv
<1>2. p \in Members(starts, b)
  BY <1>1, MemberOfItsBlock
<1>3. PICK q \in Members(starts, b) : p < q
  <2>1. LastOf(starts, b) \in Members(starts, b) /\ p <= LastOf(starts, b) /\ p # LastOf(starts, b)
    BY <1>2, LastOfExists DEF IsLast
  <2>2. LastOf(starts, b) \in Nat
    BY <1>1, <2>1 DEF Members
  <2> QED BY <1>1, <2>1, <2>2
<1>4. /\ q \in Boundaries /\ q \in Nat /\ q < size
      /\ \A s \in Following(starts, b) : q < s
  BY <1>1, Ends DEF Members, Cut, Word
<1>5. EndOf(p) <= q /\ EndOf(p) < size /\ EndOf(p) \in Nat
  BY <1>1, <1>3, <1>4 DEF Cut, Chained
<1>6. EndOf(p) \in Boundaries
  BY <1>1, <1>5, StartsAreInstructions
<1>7. ASSUME NEW s \in Following(starts, b) PROVE EndOf(p) < s
  <2>1. s \in Nat
    BY <1>1, <1>7, FollowingExists
  <2> QED BY <1>4, <1>5, <1>7, <2>1
<1>8. EndOf(p) \in Members(starts, b)
  BY <1>1, <1>5, <1>6, <1>7 DEF Members
<1>9. BlockOf(EndOf(p)) = b
  BY <1>1, <1>6, <1>8, MemberOfItsBlock
<1>10. EndOf(p) \notin starts
  <2>1. SUFFICES ASSUME EndOf(p) \in starts PROVE FALSE
    OBVIOUS
  <2>2. EndOf(p) > b
    BY <1>1
  <2>3. ~ (EndOf(p) <= b)
    BY <1>1
  <2>4. PICK s \in Following(starts, b) : TRUE
    BY <1>1, <2>1, <2>3, FollowingExists
  <2>5. s <= EndOf(p) /\ s \in Nat
    BY <1>1, <2>1, <2>2, <2>4, FollowingExists
  <2> QED BY <1>5, <1>7, <2>4, <2>5
<1>11. ~ isJump(code[p]) /\ code[p].kind # "return"
  BY <1>1, <1>5, <1>10, StartsAreInstructions
<1> QED BY <1>6, <1>9, <1>11

-----------------------------------------------------------------------------
(* Every step of the virtual machine is in the graph, and every edge is one *)
(* of its steps.                                                            *)
LEMMA CutIsExact == Cut => GraphExact
<1> SUFFICES ASSUME Cut PROVE GraphExact
  OBVIOUS
<1>1. succ = [b \in starts |-> Successors(starts, b)]
  BY DEF Cut, BuiltFromCode
<1>2. ASSUME NEW p \in Boundaries, NEW n \in VMNext(p), n < size
      PROVE  \/ n \in Boundaries /\ BlockOf(n) = BlockOf(p) /\ n = EndOf(p) /\ ~ IsLast(p)
             \/ IsLast(p) /\ n \in starts \cap Boundaries /\ n \in succ[BlockOf(p)]
  <2>1. Boundaries # {} /\ code[p].kind \in Kinds
    BY Ends DEF Cut
  <2>2. CASE ~ IsLast(p)
    <3>1. n = EndOf(p)
      BY <1>2, <2>1, <2>2, InsideBlock DEF VMNext, isJump, Kinds
    <3> QED BY <2>2, <3>1, InsideBlock
  <2>3. CASE IsLast(p)
    <3>1. /\ BlockOf(p) \in starts /\ LastOf(starts, BlockOf(p)) = p
          /\ p \in Members(starts, BlockOf(p)) /\ starts \subseteq Boundaries
      BY <2>1, <2>3, BlockOfExists, MemberOfItsBlock, StartsAreInstructions DEF IsLast
    <3>2. succ[BlockOf(p)] =
            {s \in starts : isJump(code[p]) /\ s = code[p].target}
              \cup (IF isConditional(code[p]) \/ (~ isJump(code[p]) /\ code[p].kind # "return")
                    THEN Following(starts, BlockOf(p)) ELSE {})
      BY <1>1, <3>1 DEF Successors
    <3>3. CASE isJump(code[p]) /\ n = code[p].target
      BY <2>1, <2>3, <3>1, <3>2, <3>3, StartsAreInstructions
    <3>4. CASE ~ (isJump(code[p]) /\ n = code[p].target)
      <4>1. /\ n = EndOf(p)
            /\ isConditional(code[p]) \/ (~ isJump(code[p]) /\ code[p].kind # "return")
        BY <1>2, <2>1, <3>4 DEF VMNext, isJump, isConditional, Kinds
      <4>2. n \in succ[BlockOf(p)]
        BY <1>2, <2>3, <3>2, <4>1, BehindLast
      <4>3. n \in Following(starts, BlockOf(p))
        BY <1>2, <2>3, <4>1, BehindLast
      <4>4. n \in starts
        BY <2>1, <3>1, <4>3, FollowingExists, StartsAreInstructions
      <4> QED BY <2>3, <3>1, <4>2, <4>4
    <3> QED BY <3>3, <3>4
  <2> QED BY <2>2, <2>3
<1>3. ASSUME NEW b \in starts, Members(starts, b) # {}, code[LastOf(starts, b)].kind # "skip"
      PROVE  succ[b] \subseteq VMNext(LastOf(starts, b))
  <2> DEFINE last == LastOf(starts, b)
  <2>1. last \in Members(starts, b) /\ last \in Boundaries
    BY <1>3, LastOfExists DEF Members
  <2>2. BlockOf(last) = b /\ IsLast(last)
    BY <2>1, MemberOfItsBlock DEF IsLast
  <2>3. code[last].kind \in Kinds
    BY <2>1, Ends DEF Cut
  <2>4. succ[b] =
          {s \in starts : isJump(code[last]) /\ s = code[last].target}
            \cup (IF isConditional(code[last]) \/ (~ isJump(code[last]) /\ code[last].kind # "return")
                  THEN Following(starts, b) ELSE {})
    BY <1>1, <1>3 DEF Successors
  <2>5. Following(starts, b) \subseteq {EndOf(last)}
    BY <2>1, <2>2, BehindLast
  <2> HIDE DEF last
  <2>6. isJump(code[last]) => code[last].target \in VMNext(last)
    BY <2>3 DEF VMNext, isJump, Kinds
  <2>7. isConditional(code[last]) \/ (~ isJump(code[last]) /\ code[last].kind # "return") =>
           EndOf(last) \in VMNext(last)
    BY <1>3, <2>3 DEF VMNext, isJump, isConditional, Kinds, last
  <2> QED BY <2>4, <2>5, <2>6, <2>7 DEF last
<1> QED BY <1>2, <1>3 DEF GraphExact

(* The dispatcher follows the virtual machine. *)
Follows ==
    Running => /\ ip' # ip => ip' \in VMNext(ip)
               /\ phase' = "stuck" => EndOf(ip) = size

LEMMA RunFollows ==
    ASSUME Cut, Running, ip \in Boundaries, [Next]_vars
    PROVE  Follows /\ (phase' = "run" => ip' \in Boundaries)
<1>1. /\ Boundaries # {} /\ code[ip].kind \in Kinds /\ starts \subseteq Boundaries
      /\ NoTarget \notin starts
  BY Ends, StartsAreInstructions DEF Cut, NoTarget
<1>2. IsLast(ip) => Fallthrough(ip) = IF EndOf(ip) < size THEN {EndOf(ip)} ELSE {NoTarget}
  BY BehindLast DEF Fallthrough
<1>3. IsLast(ip) /\ ~ (EndOf(ip) < size) => EndOf(ip) = size
  BY BehindLast
<1>4. CASE RunInside
  <2>1. EndOf(ip) \in VMNext(ip) /\ EndOf(ip) \in Boundaries
    BY <1>1, <1>4, InsideBlock DEF RunInside, VMNext, isJump, Kinds
  <2> QED BY <1>4, <2>1 DEF RunInside, Follows, Running
<1>5. ASSUME NEW n \in Word, RunTransfer(n) PROVE Follows /\ ip' \in Boundaries
  <2>1. n \in Assigned(ip) /\ n \in starts /\ IsLast(ip) /\ code[ip].kind # "return" /\ n # NoTarget
    BY <1>1, <1>5 DEF RunTransfer
  <2>2. \/ n = code[ip].target /\ code[ip].kind \in {"jump", "skip", "branch", "branch2"}
        \/ n \in Fallthrough(ip) /\ code[ip].kind \notin {"jump", "skip"}
    BY <2>1 DEF Assigned
  <2>3. n \in VMNext(ip)
    BY <1>1, <1>2, <2>1, <2>2 DEF VMNext, Kinds
  <2> QED BY <1>1, <1>5, <2>1, <2>3 DEF RunTransfer, Follows, Running
<1>6. CASE RunStuck
  <2>1. isJump(code[ip]) /\ IsLast(ip) /\ ~ (Assigned(ip) \subseteq starts)
    BY <1>6 DEF RunStuck, terminated
  <2>2. code[ip].target \in starts
    BY <1>1, <2>1, StartsAreInstructions
  <2>3. ~ (Fallthrough(ip) \subseteq starts)
    BY <2>1, <2>2 DEF Assigned
  <2>4. Following(starts, BlockOf(ip)) = {}
    <3>1. BlockOf(ip) \in Nat
      BY <1>1, BlockOfExists, StartsAreInstructions
    <3>2. Following(starts, BlockOf(ip)) \subseteq starts
      BY <1>1, <3>1, FollowingExists
    <3> QED BY <2>3, <3>2 DEF Fallthrough
  <2>5. EndOf(ip) = size
    BY <2>1, <2>4, BehindLast
  <2> QED BY <1>6, <2>5 DEF RunStuck, Follows
<1>7. CASE RunReturn
  BY <1>7 DEF RunReturn, Follows
<1>8. CASE UNCHANGED vars
  BY <1>8 DEF vars, Follows, Running
<1> QED
  BY <1>4, <1>5, <1>6, <1>7, <1>8
     DEF Next, Decode, Refuse, CheckTargets, Build, Ended, Running

-----------------------------------------------------------------------------
(* The invariant holds before the first word is decoded. *)
LEMMA InitIInv == Init => IInv
<1> SUFFICES ASSUME Init PROVE IInv
  OBVIOUS
<1>1. size \in Nat /\ pc = 0 /\ code = [p \in Word |-> NoWord] /\ phase = "decode"
  BY CodeAssumption DEF Init
<1>2. Boundaries = {}
  BY <1>1 DEF Boundaries
<1>3. NoWord \in Cells
  BY DEF NoWord, Cells, NoTarget
<1>4. TypeInv
  BY <1>1, <1>2, <1>3 DEF TypeInv
<1> QED
  BY <1>1, <1>2, <1>4
     DEF IInv, Chained, TargetsKept, AcceptedIsWhole, Accepted, BuiltFromCode, Built, Running

(* A decoded instruction continues the chain. *)
LEMMA DecodeIInv ==
    ASSUME IInv, NEW i \in Instructions(pc), Decode(i)
    PROVE  IInv'
<1> USE DEF IInv
<1>1. /\ size \in Nat /\ pc \in Nat /\ pc < size /\ pc \in Word
      /\ pc + Length(i.kind) <= size /\ phase = "decode" /\ phase' = "decode" /\ size' = size
      /\ pc' = pc + Length(i.kind) /\ code' = [code EXCEPT ![pc] = i]
  BY DEF Decode, Acceptable, TypeInv, Word
<1>2. i \in Cells /\ i.kind \in Kinds /\ i # NoWord
  BY <1>1 DEF Instructions, Cells, Kinds, NoWord, NoTarget
<1>3. Length(i.kind) \in {1, 2}
  BY DEF Length
<1>4. pc' \in 0 .. size' /\ pc' \in Nat /\ pc < pc'
  BY <1>1, <1>3
<1>5. Word' = Word /\ code' \in [Word -> Cells]
  BY <1>1, <1>2 DEF TypeInv, Word
<1>6. pc \notin Boundaries /\ \A p \in Boundaries : p \in Nat /\ p < pc
  <2>1. ASSUME NEW p \in Boundaries PROVE p \in Nat /\ p < pc
    BY <1>1, Ends DEF Chained
  <2> QED BY <1>1, <2>1
<1>7. Boundaries' = Boundaries \cup {pc}
  BY <1>1, <1>2, <1>5 DEF Boundaries, TypeInv
<1>8. code'[pc] = i /\ \A p \in Boundaries : code'[p] = code[p]
  BY <1>1, <1>6 DEF TypeInv, Boundaries
<1>9. /\ \A p : p = pc => EndOf(p)' = pc'
      /\ \A p \in Boundaries : EndOf(p)' = EndOf(p)
  BY <1>1, <1>8 DEF EndOf
<1>10. TypeInv'
  BY <1>1, <1>2, <1>4, <1>5, <1>7, <1>8 DEF TypeInv
<1>11. Chained'
  <2>1. ASSUME NEW p \in Boundaries'
        PROVE  EndOf(p)' <= pc' /\ EndOf(p)' \in Boundaries' \cup {pc'}
    <3>1. CASE p = pc
      BY <1>4, <1>9, <3>1
    <3>2. CASE p \in Boundaries
      <4>1. EndOf(p) \in Nat /\ EndOf(p) <= pc /\ EndOf(p) \in Boundaries \cup {pc}
        BY <3>2, Ends DEF Chained
      <4> QED BY <1>1, <1>4, <1>7, <1>9, <3>2, <4>1
    <3> QED BY <1>7, <3>1, <3>2
  <2>2. ASSUME NEW p \in Boundaries', NEW q \in Boundaries', p < q PROVE EndOf(p)' <= q
    <3>1. p \in Boundaries
      BY <1>1, <1>6, <1>7, <2>2
    <3>2. CASE q = pc
      BY <1>9, <3>1, <3>2 DEF Chained
    <3>3. CASE q \in Boundaries
      BY <1>9, <2>2, <3>1, <3>3 DEF Chained
    <3> QED BY <1>7, <3>2, <3>3
  <2>3. 0 \in Boundaries'
    BY <1>1, <1>7 DEF Chained
  <2> QED BY <2>1, <2>2, <2>3 DEF Chained
<1>12. TargetsKept'
  BY <1>7, <1>8 DEF TargetsKept, Decode
<1> QED
  BY <1>1, <1>10, <1>11, <1>12
     DEF AcceptedIsWhole, Accepted, BuiltFromCode, Built, Running

(* Once decoding is over the code stays as it is. *)
LEMMA CodeKept ==
    ASSUME TypeInv, Chained, TargetsKept, UNCHANGED <<size, code, pc, jumpTargets>>
    PROVE  /\ TypeInv' /\ Chained' /\ TargetsKept' /\ Boundaries' = Boundaries
           /\ Starts' = Starts
           /\ \A S, b : Successors(S, b)' = Successors(S, b)
<1>1. Word' = Word /\ Boundaries' = Boundaries /\ \A p : EndOf(p)' = EndOf(p)
  BY DEF Word, Boundaries, EndOf
<1>2. TypeInv' /\ Chained' /\ TargetsKept'
  BY <1>1 DEF TypeInv, Chained, TargetsKept
<1>3. Starts' = Starts
  BY <1>1 DEF Starts
<1>4. ASSUME NEW S, NEW b PROVE Successors(S, b)' = Successors(S, b)
  <2>1. Members(S, b)' = Members(S, b)
    BY <1>1 DEF Members
  <2>2. LastOf(S, b)' = LastOf(S, b)
    BY <2>1 DEF LastOf
  <2> QED BY <2>1, <2>2 DEF Successors
<1> QED BY <1>1, <1>2, <1>3, <1>4

(* Every step preserves the invariant. *)
LEMMA NextIInv == IInv /\ [Next]_vars => IInv'
<1> SUFFICES ASSUME IInv, [Next]_vars PROVE IInv'
  OBVIOUS
<1> USE DEF IInv
<1>1. CASE \E i \in Instructions(pc) : Decode(i)
  BY <1>1, DecodeIInv
<1>2. CASE UNCHANGED <<size, code, pc, jumpTargets>>
  <2>0. /\ TypeInv' /\ Chained' /\ TargetsKept' /\ Boundaries' = Boundaries
        /\ Starts' = Starts /\ \A S, b : Successors(S, b)' = Successors(S, b)
    BY <1>2, CodeKept
  <2>1. CASE Refuse
    BY <2>0, <2>1 DEF Refuse, AcceptedIsWhole, Accepted, BuiltFromCode, Built, Running
  <2>2. CASE CheckTargets
    <3>1. pc = size
      BY <2>2 DEF CheckTargets, TypeInv
    <3> QED
      BY <2>0, <2>2, <3>1
         DEF CheckTargets, AcceptedIsWhole, Accepted, BuiltFromCode, Built, Running
  <2>3. CASE Build
    <3>1. AcceptedIsWhole' /\ BuiltFromCode'
      BY <1>2, <2>0, <2>3 DEF Build, AcceptedIsWhole, Accepted, BuiltFromCode
    <3>2. Running' => ip' \in Boundaries'
      <4>1. SUFFICES ASSUME Boundaries # {} PROVE 0 \in Boundaries
        BY <2>0, <2>3 DEF Build, Running
      <4>2. PICK p \in Boundaries : TRUE
        BY <4>1
      <4>3. EndOf(p) <= pc /\ EndOf(p) \in {p + 1, p + 2} /\ p \in Nat
        BY <4>2, Ends DEF Chained
      <4> QED BY <4>3 DEF Chained, TypeInv
    <3> QED BY <2>0, <3>1, <3>2
  <2>4. CASE Built /\ Built' /\ UNCHANGED <<starts, succ>>
    <3>1. AcceptedIsWhole' /\ BuiltFromCode'
      BY <1>2, <2>0, <2>4 DEF AcceptedIsWhole, Accepted, Built, BuiltFromCode
    <3>2. Running' => ip' \in Boundaries'
      <4>1. SUFFICES ASSUME Running' PROVE ip' \in Boundaries
        BY <2>0
      <4>2. phase' = "run" /\ Boundaries # {}
        BY <2>0, <4>1 DEF Running
      <4>3. CASE phase = "run"
        BY <2>4, <4>2, <4>3, RunFollows DEF Cut, Running
      <4>4. CASE phase # "run"
        BY <2>4, <4>2, <4>4
           DEF Next, Decode, Refuse, CheckTargets, Build, RunInside, RunTransfer, RunReturn,
               RunStuck, Ended, Running, Built, vars
      <4> QED BY <4>3, <4>4
    <3> QED BY <2>0, <3>1, <3>2
  <2>5. CASE UNCHANGED vars
    BY <2>0, <2>5 DEF vars, AcceptedIsWhole, Accepted, BuiltFromCode, Built, Running
  <2> QED
    BY <1>1, <2>1, <2>2, <2>3, <2>4, <2>5
       DEF Next, RunInside, RunTransfer, RunReturn, RunStuck, Ended, Running, Built
<1> QED
  BY <1>1, <1>2
     DEF Next, Refuse, CheckTargets, Build, RunInside, RunTransfer, RunReturn, RunStuck, Ended, vars

LEMMA Invariance == Spec => []IInv
  BY InitIInv, NextIInv, PTL DEF Spec

-----------------------------------------------------------------------------
(* For code of any length, the graph that addFunction links has every step  *)
(* of the virtual machine and, but for a skip, no other.                    *)
THEOREM GraphTheorem == Spec => []GraphExact
<1>1. IInv => GraphExact
  BY CutIsExact DEF IInv, Cut, GraphExact
<1> QED BY <1>1, Invariance, PTL

(* The rendered dispatcher moves as the virtual machine does, and stops at  *)
(* an invalid pc only behind the last instruction.                          *)
THEOREM DispatcherTheorem == Spec => DispatcherFollows
<1>1. IInv /\ [Next]_vars => [Follows]_vars
  BY RunFollows DEF IInv, Cut, Running, Built, Follows
<1> QED BY <1>1, Invariance, PTL DEF Spec, DispatcherFollows, Follows

-----------------------------------------------------------------------------
(* The values of the rendered text. *)

OpenInSlots ==
    /\ open \in Reg \cup {None}
    /\ open # None => vmTop \in open .. open + MaxValues

TextIInv == /\ arguments \in Values
        /\ live \subseteq Reg
        /\ OpenInSlots
        /\ SameAsMachine

-----------------------------------------------------------------------------
(* The registers and the slots behind them. *)
LEMMA Slots ==
    /\ Registers \in Nat /\ MaxValues \in Nat /\ numparams \in Nat
    /\ Reg \subseteq Slot /\ Reg \subseteq Nat /\ None \notin Reg
    /\ \A r \in Reg : \A n \in r .. r + MaxValues - 1 : n \in Slot
  BY TextAssumption DEF Reg, Slot, None

(* A list of values has a length within the bound. *)
LEMMA ValuesLength ==
    ASSUME NEW list \in Values
    PROVE  list \in Seq(Value) /\ Len(list) \in 0 .. MaxValues
<1>1. PICK n \in 0 .. MaxValues : list \in [1 .. n -> Value]
  BY DEF Values
<1>2. n \in Nat
  BY Slots
<1> QED
  BY <1>1, <1>2

(* There are at most as many varargs as arguments. *)
LEMMA VarargsLength ==
    ASSUME arguments \in Values
    PROVE  Len(Varargs) \in 0 .. MaxValues
<1>1. arguments \in Seq(Value) /\ Len(arguments) \in 0 .. MaxValues
  BY ValuesLength
<1>2. Len(Varargs) = IF numparams + 1 <= Len(arguments) THEN Len(arguments) - numparams ELSE 0
  BY <1>1, Slots DEF Varargs
<1> QED
  BY <1>1, <1>2, Slots

(* An assignment of the same values makes registers agree, and leaves those *)
(* that agreed in agreement.                                                *)
LEMMA AgreeAfterUpdate ==
    ASSUME NEW f, NEW r \in Slot, r \in DOMAIN f \/ registers[r] = vmRegister[r]
    PROVE  Updated(registers, f)[r] = Updated(vmRegister, f)[r]
  BY DEF Updated

(* Ranges over registers that agree are equal, values and length. *)
LEMMA RangeAgrees ==
    ASSUME NEW first \in Int, NEW last \in Int,
           \A r \in first .. last : get(r) = vmRegister[r]
    PROVE  range(first, last) = VMRange(first, last)
<1>1. \A n \in 1 .. last - first + 1 : first + n - 1 \in first .. last
  OBVIOUS
<1> QED
  BY <1>1 DEF range, VMRange

(* An open range has the machine's end, and values that agree. *)
LEMMA OpenRangeAgrees ==
    ASSUME TextIInv, NEW first \in Int, Takes(first)
    PROVE  /\ top = vmTop - 1 /\ vmTop \in Int
           /\ range(first, top) = VMRange(first, vmTop - 1)
<1>1. /\ open \in Reg /\ first <= open /\ vmTop \in open .. open + MaxValues
      /\ top = vmTop - 1
      /\ \A r \in first .. open - 1 : r \in live
  BY DEF TextIInv, OpenInSlots, SameAsMachine, SameOpenEnd, Takes, Reads
<1>2. ASSUME NEW r \in first .. top PROVE get(r) = vmRegister[r]
  <2>1. CASE r < open
    BY <1>1, <1>2, <2>1, Slots DEF TextIInv, SameAsMachine, SameValues
  <2>2. CASE r >= open
    BY <1>1, <1>2, <2>2, Slots DEF TextIInv, SameAsMachine, SameOpenEnd
  <2> QED
    BY <1>1, <1>2, <2>1, <2>2, Slots
<1> QED
  BY <1>1, <1>2, Slots, RangeAgrees

(* A range of registers that are read has values that agree. *)
LEMMA ClosedRangeAgrees ==
    ASSUME TextIInv, NEW first \in Int, NEW last \in Int, first .. last \subseteq live
    PROVE  range(first, last) = VMRange(first, last)
  BY RangeAgrees DEF TextIInv, SameAsMachine, SameValues

-----------------------------------------------------------------------------
(* Both sides start with the parameters in the first registers. *)
LEMMA TextInitIInv == TextInit => TextIInv
<1> SUFFICES ASSUME TextInit PROVE TextIInv
  OBVIOUS
<1>1. arguments \in Values /\ OpenInSlots
  BY DEF TextInit, OpenInSlots
<1>2. live \subseteq Reg
  BY TextAssumption DEF TextInit, Reg
<1>3. SameAsMachine
  BY DEF TextInit, SameAsMachine, SameValues, SameOpenEnd, SameGiven, get
<1> QED
  BY <1>1, <1>2, <1>3 DEF TextIInv

(* The instructions that assign registers: either nothing is open after     *)
(* them, or they assign one register before the open results, so that top   *)
(* stays at their end.                                                      *)
LEMMA AssignIInv ==
    ASSUME TextIInv, NEW f, DOMAIN f \subseteq Reg,
           \/ open' = None
           \/ /\ \E a \in Reg : DOMAIN f = {a} /\ a < open
              /\ UNCHANGED <<open, vmTop>>,
           VMSet(f), set(f), given' = vmGiven',
           live' \subseteq live \cup DOMAIN f,
           arguments' = arguments
    PROVE  TextIInv'
<1>1. /\ vmRegister' = Updated(vmRegister, f)
      /\ registers' = Updated(registers, f)
      /\ top' = topAfterSet(f)
  BY DEF VMSet, set
<1>2. arguments' \in Values /\ live' \subseteq Reg /\ OpenInSlots'
  BY DEF TextIInv, OpenInSlots
<1>3. ASSUME NEW r \in live' PROVE registers'[r] = vmRegister'[r]
  BY <1>1, <1>2, <1>3, Slots, AgreeAfterUpdate DEF TextIInv, SameAsMachine, SameValues, get
<1>4. ASSUME open' # None
      PROVE  /\ open' = open /\ vmTop' = vmTop /\ top' = vmTop - 1
             /\ \A r \in open .. vmTop - 1 : registers'[r] = vmRegister'[r]
  <2>1. PICK a \in Reg : DOMAIN f = {a} /\ a < open
    BY <1>4
  <2>2. open \in Reg /\ vmTop \in open .. open + MaxValues /\ top = vmTop - 1
    BY <1>4 DEF TextIInv, OpenInSlots, SameAsMachine, SameOpenEnd
  <2>3. a \in Int /\ top \in Int /\ a <= top /\ open \in Int
    BY <2>1, <2>2, Slots
  <2>4. top' = Max({top, a})
    BY <1>1, <2>1 DEF topAfterSet
  <2>5. Max({top, a}) = top
    BY <2>3 DEF Max
  <2>6. ASSUME NEW r \in open .. vmTop - 1 PROVE registers'[r] = vmRegister'[r]
    <3>1. r \in Slot
      BY <2>2, <2>6, Slots
    <3>2. registers[r] = vmRegister[r]
      BY <1>4, <2>2, <2>6 DEF TextIInv, SameAsMachine, SameOpenEnd, get
    <3> QED
      BY <1>1, <3>1, <3>2, AgreeAfterUpdate
  <2> QED
    BY <1>4, <2>2, <2>4, <2>5, <2>6
<1>5. SameAsMachine'
  BY <1>3, <1>4 DEF SameAsMachine, SameValues, SameOpenEnd, SameGiven, get
<1> QED
  BY <1>2, <1>5 DEF TextIInv

(* A list of values spread from register a on, with an open end. *)
LEMMA OpenResultsIInv ==
    ASSUME TextIInv, NEW a \in Reg, NEW list, Len(list) \in 0 .. MaxValues,
           VMSet(Spread(list, a, Len(list))), vmTop' = a + Len(list), setOpen(list, a),
           given' = vmGiven',
           live' = {r \in live : r < a}, open' = a, arguments' = arguments
    PROVE  TextIInv'
<1> DEFINE f == Spread(list, a, Len(list))
<1>1. /\ vmRegister' = Updated(vmRegister, f)
      /\ registers' = Updated(registers, f)
      /\ top' = a + Len(list) - 1
  BY DEF VMSet, setOpen
<1>2. DOMAIN f = a .. a + Len(list) - 1
  BY DEF Spread
<1> HIDE DEF f
<1>3. arguments' \in Values /\ live' \subseteq Reg
  BY DEF TextIInv
<1>4. OpenInSlots'
  BY Slots DEF OpenInSlots
<1>5. ASSUME NEW r \in live' PROVE registers'[r] = vmRegister'[r]
  BY <1>1, <1>3, <1>5, Slots, AgreeAfterUpdate DEF TextIInv, SameAsMachine, SameValues, get
<1>6. ASSUME NEW r \in a .. a + Len(list) - 1 PROVE registers'[r] = vmRegister'[r]
  <2>1. r \in Slot
    BY <1>6, Slots
  <2> QED
    BY <1>1, <1>2, <1>6, <2>1, AgreeAfterUpdate
<1>7. SameAsMachine'
  <2>1. top' = vmTop' - 1
    BY <1>1, Slots
  <2> QED
    BY <1>1, <1>5, <1>6, <2>1 DEF SameAsMachine, SameValues, SameOpenEnd, SameGiven, get
<1> QED
  BY <1>3, <1>4, <1>7 DEF TextIInv

(* The instructions that only pass values on. *)
LEMMA PassIInv ==
    ASSUME TextIInv, given' = vmGiven', open' = None \/ UNCHANGED <<open, vmTop>>,
           UNCHANGED <<arguments, live, vmRegister, registers, top>>
    PROVE  TextIInv'
  BY DEF TextIInv, OpenInSlots, SameAsMachine, SameValues, SameOpenEnd, SameGiven, get

-----------------------------------------------------------------------------
(* A register before the open results, if there are any, may be assigned. *)
LEMMA OneRegisterIInv ==
    ASSUME TextIInv, NEW a \in Reg, NEW v, Before(a),
           VMSet([r \in {a} |-> v]), set([r \in {a} |-> v]),
           given' = vmGiven', live' \subseteq live \cup {a},
           UNCHANGED <<arguments, open, vmTop>>
    PROVE  TextIInv'
<1> DEFINE f == [r \in {a} |-> v]
<1>1. DOMAIN f = {a}
  OBVIOUS
<1>2. VMSet(f) /\ set(f)
  OBVIOUS
<1> HIDE DEF f
<1>3. \/ open' = None
      \/ /\ \E x \in Reg : DOMAIN f = {x} /\ x < open
         /\ UNCHANGED <<open, vmTop>>
  BY <1>1 DEF Before
<1> QED
  BY <1>1, <1>2, <1>3, AssignIInv

LEMMA LoadIInv ==
    ASSUME TextIInv, NEW a \in Reg, NEW v, Load(a, v)
    PROVE  TextIInv'
  BY OneRegisterIInv DEF Load, Silent, Writes, fixed

LEMMA OperateIInv ==
    ASSUME TextIInv, NEW a \in Reg, NEW b \in Reg, NEW c \in Reg, Operate(a, b, c)
    PROVE  TextIInv'
<1>1. get(b) = vmRegister[b] /\ get(c) = vmRegister[c]
  BY DEF Operate, Reads, TextIInv, SameAsMachine, SameValues
<1>2. /\ VMSet([r \in {a} |-> Result(vmRegister[b], vmRegister[c])])
      /\ set([r \in {a} |-> Result(vmRegister[b], vmRegister[c])])
  BY <1>1 DEF Operate
<1> QED
  BY <1>2, OneRegisterIInv DEF Operate, Silent, Writes, fixed

LEMMA ConcatIInv ==
    ASSUME TextIInv, NEW a \in Reg, NEW b \in Reg, NEW c \in Reg, Concat(a, b, c)
    PROVE  TextIInv'
<1>1. range(b, c) = VMRange(b, c)
  BY Slots, ClosedRangeAgrees DEF Concat, Reads
<1>2. /\ VMSet([r \in {a} |-> Joined(VMRange(b, c))])
      /\ set([r \in {a} |-> Joined(VMRange(b, c))])
  BY <1>1 DEF Concat
<1>3. Before(a)
  BY DEF Concat, Closed, Before
<1> QED
  BY <1>2, <1>3, OneRegisterIInv DEF Concat, Silent, fixed

LEMMA PutIInv ==
    ASSUME TextIInv, NEW a \in Reg, NEW b \in Reg, NEW c \in Reg, Put(a, b, c)
    PROVE  TextIInv'
<1>1. get(a) = vmRegister[a] /\ get(b) = vmRegister[b] /\ get(c) = vmRegister[c]
  BY DEF Put, Reads, TextIInv, SameAsMachine, SameValues
<1> QED
  BY <1>1, PassIInv DEF Put, fixed

(* When the object is not in register A, the order of the two assignments   *)
(* does not matter.                                                         *)
LEMMA NamecallIInv ==
    ASSUME TextIInv, ~ SelfInPlace, NEW a \in Reg, NEW b \in Reg, Namecall(a, b)
    PROVE  TextIInv'
<1> DEFINE f == [r \in {a, a+1} |-> IF r = a THEN Result(vmRegister[b], Nil) ELSE vmRegister[b]]
<1>1. get(b) = vmRegister[b] /\ a # b
  BY DEF Namecall, Reads, TextIInv, SameAsMachine, SameValues
<1>2. VMSet(f) /\ set(f)
  BY <1>1 DEF Namecall
<1>3. DOMAIN f = {a, a+1} /\ DOMAIN f \subseteq Reg
  BY DEF Namecall
<1> HIDE DEF f
<1>4. open' = None
  BY DEF Namecall, Closed
<1> QED
  BY <1>2, <1>3, <1>4, AssignIInv DEF Namecall, Silent, Writes, fixed

(* A call and its results. *)
LEMMA CallIInv ==
    ASSUME TextIInv, NEW a \in Reg, NEW b \in 0 .. Registers, NEW c \in 0 .. Registers,
           NEW results \in Values, Call(a, b, c, results)
    PROVE  TextIInv'
<1>1. a \in Int /\ b \in Int /\ c \in Int
  BY Slots
<1>2. given' = vmGiven'
  <2>1. CASE b = 0
    BY <1>1, <2>1, OpenRangeAgrees DEF Call, lastArgument
  <2>2. CASE b # 0
    <3>1. a + 1 .. a + b - 1 \subseteq live
      BY <1>1, <2>2 DEF Call, Reads
    <3> QED
      BY <1>1, <2>2, <3>1, ClosedRangeAgrees DEF Call, lastArgument
  <2> QED
    BY <2>1, <2>2
<1>3. Len(results) \in 0 .. MaxValues
  BY ValuesLength
<1>4. CASE c = 0
  BY <1>2, <1>3, <1>4, OpenResultsIInv DEF Call, fixed
<1>5. CASE c # 0
  <2> DEFINE f == Spread(results, a, c - 1)
  <2>1. VMSet(f) /\ set(f) /\ open' = None
    BY <1>5 DEF Call
  <2>2. DOMAIN f = a .. a + c - 2
    BY <1>1 DEF Spread
  <2>3. a + c - 2 < Registers
    BY <1>5 DEF Call
  <2>4. DOMAIN f \subseteq Reg
    BY <1>1, <2>2, <2>3, Slots DEF Reg
  <2>5. live' \subseteq live \cup DOMAIN f
    BY <1>5, <2>2 DEF Call
  <2> HIDE DEF f
  <2> QED
    BY <1>2, <2>1, <2>4, <2>5, AssignIInv DEF Call, fixed
<1> QED
  BY <1>4, <1>5

LEMMA GetVarargsIInv ==
    ASSUME TextIInv, NEW a \in Reg, NEW b \in 0 .. Registers, GetVarargs(a, b)
    PROVE  TextIInv'
<1>1. a \in Int /\ b \in Int
  BY Slots
<1>2. Len(Varargs) \in 0 .. MaxValues
  BY VarargsLength DEF TextIInv
<1>3. given' = vmGiven'
  BY DEF GetVarargs, Silent
<1>4. CASE b = 0
  BY <1>2, <1>3, <1>4, OpenResultsIInv DEF GetVarargs, fixed
<1>5. CASE b # 0
  <2> DEFINE f == Spread(Varargs, a, b - 1)
  <2>1. VMSet(f) /\ set(f) /\ open' = None
    BY <1>5 DEF GetVarargs, Closed
  <2>2. DOMAIN f = a .. a + b - 2
    BY <1>1 DEF Spread
  <2>3. a + b - 2 < Registers
    BY <1>5 DEF GetVarargs
  <2>4. DOMAIN f \subseteq Reg
    BY <1>1, <2>2, <2>3, Slots DEF Reg
  <2>5. live' \subseteq live \cup DOMAIN f
    BY <1>5, <2>2 DEF GetVarargs, Writes
  <2> HIDE DEF f
  <2> QED
    BY <1>3, <2>1, <2>4, <2>5, AssignIInv DEF GetVarargs, fixed
<1> QED
  BY <1>4, <1>5

LEMMA SetListIInv ==
    ASSUME TextIInv, NEW a \in Reg, NEW b \in Reg, NEW c \in 0 .. Registers, SetList(a, b, c)
    PROVE  TextIInv'
<1>1. b \in Int /\ c \in Int
  BY Slots
<1>2. given' = vmGiven'
  <2>1. CASE c = 0
    BY <1>1, <2>1, OpenRangeAgrees DEF SetList
  <2>2. CASE c # 0
    BY <1>1, <2>2, ClosedRangeAgrees DEF SetList, Reads
  <2> QED
    BY <2>1, <2>2
<1> QED
  BY <1>2, PassIInv DEF SetList, fixed

LEMMA ReturnIInv ==
    ASSUME TextIInv, NEW a \in Reg, NEW b \in 0 .. Registers, Return(a, b)
    PROVE  TextIInv'
<1>1. a \in Int /\ b \in Int
  BY Slots
<1>2. given' = vmGiven'
  <2>1. CASE b = 0
    BY <1>1, <2>1, OpenRangeAgrees DEF Return
  <2>2. CASE b # 0
    BY <1>1, <2>2, ClosedRangeAgrees DEF Return, Reads
  <2> QED
    BY <2>1, <2>2
<1> QED
  BY <1>2, PassIInv DEF Return, fixed

LEMMA ForNLoopIInv ==
    ASSUME TextIInv, NEW a \in Reg, ForNLoop(a)
    PROVE  TextIInv'
<1>1. a + 2 \in live /\ a + 1 \in live
  BY Slots DEF ForNLoop, Reads
<1>2. get(a+2) = vmRegister[a+2] /\ get(a+1) = vmRegister[a+1] /\ a + 2 \in Reg
  BY <1>1 DEF TextIInv, SameAsMachine, SameValues
<1>3. /\ VMSet([r \in {a+2} |-> Result(vmRegister[a+2], vmRegister[a+1])])
      /\ set([r \in {a+2} |-> Result(vmRegister[a+2], vmRegister[a+1])])
  BY <1>2 DEF ForNLoop
<1>4. Before(a+2)
  BY DEF ForNLoop, Closed, Before
<1> QED
  BY <1>2, <1>3, <1>4, OneRegisterIInv DEF ForNLoop, Silent, fixed

LEMMA ForGLoopIInv ==
    ASSUME TextIInv, NEW a \in Reg, NEW variables \in Reg, NEW results,
           ForGLoop(a, variables, results)
    PROVE  TextIInv'
<1> DEFINE f == [r \in a+2 .. a+2+variables |-> Nth(results, IF r = a+2 THEN 1 ELSE r - a - 2)]
<1>1. a \in Nat /\ variables \in Nat /\ a + 2 + variables \in Reg
  BY Slots DEF ForGLoop
<1>2. VMSet(f) /\ set(f)
  BY DEF ForGLoop
<1>3. DOMAIN f = a+2 .. a+2+variables
  OBVIOUS
<1> HIDE DEF f
<1>4. DOMAIN f \subseteq Reg
  BY <1>1, <1>3, Slots DEF Reg
<1>5. given' = vmGiven'
  <2>1. a + 1 .. a + 2 \subseteq live
    BY <1>1 DEF ForGLoop, Reads
  <2> QED
    BY <1>1, <2>1, ClosedRangeAgrees DEF ForGLoop
<1>6. live' \subseteq live \cup DOMAIN f /\ open' = None
  BY <1>1, <1>3 DEF ForGLoop, Closed
<1> QED
  BY <1>2, <1>4, <1>5, <1>6, AssignIInv DEF ForGLoop, fixed

-----------------------------------------------------------------------------
(* Every instruction, and the end of the activation, keeps the invariant. *)
LEMMA TextNextIInv ==
    ASSUME ~ SelfInPlace, TextIInv, [TextNext]_textVars
    PROVE  TextIInv'
<1>1. CASE UNCHANGED textVars
  BY <1>1 DEF textVars, TextIInv, OpenInSlots, SameAsMachine, SameValues, SameOpenEnd, SameGiven, get
<1>2. CASE TextNext
  BY <1>1, <1>2, LoadIInv, OperateIInv, ConcatIInv, PutIInv, NamecallIInv, CallIInv,
     GetVarargsIInv, ReturnIInv, SetListIInv, ForNLoopIInv, ForGLoopIInv
     DEF TextNext, TextEnded
<1> QED
  BY <1>1, <1>2

(* The text passes on what the machine passes on, and every register that   *)
(* is read again has the machine's value, unless a NAMECALL has its object  *)
(* in register A, where the text goes wrong (the run register_text_self).   *)
THEOREM SameAsMachineTheorem ==
    ASSUME ~ SelfInPlace
    PROVE  TextSpec => []SameAsMachine
<1>1. TextInit => TextIInv
  BY TextInitIInv
<1>2. TextIInv /\ [TextNext]_textVars => TextIInv'
  BY TextNextIInv
<1>3. TextIInv => SameAsMachine
  BY DEF TextIInv
<1> QED
  BY <1>1, <1>2, <1>3, PTL DEF TextSpec
=============================================================================
