----------------------------- MODULE CodeBlocks -----------------------------
(***************************************************************************)
(* From the code words of one function to its basic blocks.  validateOne of *)
(* IR.cpp decodes the words and refuses what later passes could not follow; *)
(* addFunction cuts the accepted code into blocks and links them; and the   *)
(* register renderer of RegisterDecompile.cpp turns the same blocks into a  *)
(* loop that dispatches on "pc".  The last part of the module runs that     *)
(* loop next to what the Luau virtual machine may do.                       *)
(*                                                                          *)
(* A word is revealed when it is decoded.  Opcodes are grouped by what they *)
(* do to the program counter; every check of an operand that leaves the     *)
(* program counter alone is one refusal.  A block is named by its start.    *)
(***************************************************************************)
EXTENDS Integers, FiniteSets

CONSTANTS
    MaxSize,          \* bound on the number of code words
    MaxInstructions   \* the limit on the number of instructions

ASSUME CodeAssumption == MaxSize \in Nat /\ MaxInstructions \in Nat

VARIABLES
    size,          \* sizecode, fixed
    code,          \* the instruction that starts at a word, once decoded
    phase,         \* "decode", "refused", "accepted", "run", "returned" or "stuck"
    pc,            \* the word to be decoded next
    total,         \* the instructions decoded
    jumpTargets,
    starts, succ,  \* the blocks, and the successors of each
    ip             \* the instruction that the dispatcher executes

vars == <<size, code, phase, pc, total, jumpTargets, starts, succ, ip>>

Word == 0 .. size-1
NoTarget == -1
NoWord == [kind |-> "none", target |-> NoTarget]

(* JUMP, JUMPBACK, JUMPX and the FORGPREPs always jump; a branch may; a     *)
(* skip is LOADB with C # 0; a fastcall jumps over its fallback or runs it. *)
(* The kinds that end in 2, and CMPPROTO, have an AUX word.                 *)
Length(kind) == IF kind \in {"plain2", "branch2", "cmpproto"} THEN 2 ELSE 1

(* The instructions that may stand at word p.  C is unsigned, so that a     *)
(* skip and a fastcall jump forwards; D has a sign.                         *)
Instructions(p) ==
    [kind : {"plain", "plain2", "return"}, target : {NoTarget}]
      \cup [kind : {"jump", "branch", "branch2", "cmpproto"}, target : -1 .. size]
      \cup [kind : {"skip", "fastcall"}, target : p + 2 .. size + 1]

isJump(i) == i.kind \in {"jump", "branch", "branch2", "cmpproto", "skip", "fastcall"}

(* isConditional lists LOADB among the conditional opcodes. *)
isConditional(i) == i.kind \in {"branch", "branch2", "cmpproto", "fastcall", "skip"}

Init ==
    /\ size \in 0 .. MaxSize
    /\ code = [p \in Word |-> NoWord]
    /\ phase = "decode"
    /\ pc = 0
    /\ total = 0
    /\ jumpTargets = {}
    /\ starts = {}
    /\ succ = << >>
    /\ ip = NoTarget

-----------------------------------------------------------------------------
(* validateOne. *)

Boundaries == {p \in Word : code[p] # NoWord}

Acceptable(i) ==
    /\ total < MaxInstructions
    /\ pc + Length(i.kind) <= size
    /\ isJump(i) => i.target \in Word

Decode(i) ==
    /\ phase = "decode"
    /\ pc < size
    /\ Acceptable(i)
    /\ code' = [code EXCEPT ![pc] = i]
    /\ pc' = pc + Length(i.kind)
    /\ total' = total + 1
    /\ jumpTargets' = IF isJump(i) THEN jumpTargets \cup {i.target} ELSE jumpTargets
    /\ UNCHANGED <<size, phase, starts, succ, ip>>

(* An unknown opcode, an operand out of range, or an instruction that is    *)
(* not acceptable.                                                          *)
Refuse ==
    /\ phase = "decode"
    /\ pc < size
    /\ phase' = "refused"
    /\ UNCHANGED <<size, code, pc, total, jumpTargets, starts, succ, ip>>

(* The whole code is decoded: no jump may lead into an AUX word. *)
CheckTargets ==
    /\ phase = "decode"
    /\ pc >= size
    /\ phase' = IF jumpTargets \subseteq Boundaries THEN "accepted" ELSE "refused"
    /\ UNCHANGED <<size, code, pc, total, jumpTargets, starts, succ, ip>>

-----------------------------------------------------------------------------
(* addFunction. *)

EndOf(p) == p + Length(code[p].kind)

(* Mutant: no block starts behind a jump. *)
StartsTargetsOnly ==
    {0} \cup {code[p].target : p \in {q \in Boundaries : isJump(code[q])}}

(* A block starts at the first word, at every jump target, and behind every *)
(* jump and return.                                                         *)
Starts ==
    {0} \cup {code[p].target : p \in {q \in Boundaries : isJump(code[q])}}
        \cup {EndOf(p) : p \in {q \in Boundaries :
                /\ isJump(code[q]) \/ code[q].kind = "return"
                /\ EndOf(q) < size}}

(* The start of the block behind b, if there is one. *)
Following(S, b) ==
    LET later == {s \in S : s > b}
    IN  IF later = {} THEN {} ELSE {CHOOSE s \in later : \A t \in later : s <= t}

(* The instructions of block b, and the last of them. *)
Members(S, b) ==
    {p \in Boundaries : p >= b /\ \A s \in Following(S, b) : p < s}

LastOf(S, b) == CHOOSE p \in Members(S, b) : \A q \in Members(S, b) : q <= p

Successors(S, b) ==
    IF Members(S, b) = {} THEN {}
    ELSE LET last == code[LastOf(S, b)] IN
         {s \in S : isJump(last) /\ s = last.target}
           \cup (IF isConditional(last) \/ (~ isJump(last) /\ last.kind # "return")
                 THEN Following(S, b) ELSE {})

Build ==
    /\ phase = "accepted"
    /\ phase' = "run"
    /\ starts' = Starts
    /\ succ' = [b \in Starts |-> Successors(Starts, b)]
    /\ ip' = 0
    /\ UNCHANGED <<size, code, pc, total, jumpTargets>>

-----------------------------------------------------------------------------
(* The rendered dispatcher.  Block after block it runs the instructions of  *)
(* a block; what the last one assigns to pc selects the next block.         *)

BlockOf(p) == CHOOSE b \in starts : b <= p /\ \A c \in starts : c <= p => c <= b

IsLast(p) == p = LastOf(starts, BlockOf(p))

(* The instructions that the renderer translates into an assignment to pc.  *)
(* CMPPROTO, which it does not know, is not one of them.                    *)
terminated(p) == isJump(code[p]) /\ code[p].kind # "cmpproto"

(* The values that the last instruction p of a block may give to pc: its    *)
(* target, and the start of the next block (-1 if there is none).           *)
Fallthrough(p) ==
    IF Following(starts, BlockOf(p)) = {} THEN {NoTarget} ELSE Following(starts, BlockOf(p))

(* Mutant: LOADB does not skip. *)
AssignedNoSkip(p) ==
    CASE code[p].kind = "jump" -> {code[p].target}
      [] code[p].kind \in {"branch", "branch2"} -> {code[p].target} \cup Fallthrough(p)
      [] OTHER -> Fallthrough(p)

Assigned(p) ==
    CASE code[p].kind \in {"jump", "skip"} -> {code[p].target}
      [] code[p].kind \in {"branch", "branch2"} -> {code[p].target} \cup Fallthrough(p)
      [] OTHER -> Fallthrough(p)

(* A function without code returns at once. *)
Running == phase = "run" /\ Boundaries # {}

RunInside ==
    /\ Running
    /\ ~ IsLast(ip)
    /\ ip' = EndOf(ip)
    /\ UNCHANGED <<size, code, phase, pc, total, jumpTargets, starts, succ>>

RunTransfer(n) ==
    /\ Running
    /\ IsLast(ip)
    /\ code[ip].kind # "return"
    /\ n \in Assigned(ip) \cap starts
    /\ ip' = n
    /\ UNCHANGED <<size, code, phase, pc, total, jumpTargets, starts, succ>>

(* "return": the instruction itself, or the end of a last block that is not *)
(* terminated by a jump.                                                    *)
RunReturn ==
    /\ phase = "run"
    /\ \/ Boundaries = {}
       \/ Running /\ IsLast(ip) /\ code[ip].kind = "return"
       \/ /\ Running /\ IsLast(ip) /\ ~ terminated(ip)
          /\ Fallthrough(ip) = {NoTarget}
    /\ phase' = "returned"
    /\ UNCHANGED <<size, code, pc, total, jumpTargets, starts, succ, ip>>

(* pc is no start of a block: "reconstruction reached invalid pc". *)
RunStuck ==
    /\ Running
    /\ IsLast(ip)
    /\ terminated(ip)
    /\ ~ (Assigned(ip) \subseteq starts)
    /\ phase' = "stuck"
    /\ UNCHANGED <<size, code, pc, total, jumpTargets, starts, succ, ip>>

Ended == phase \in {"refused", "returned", "stuck"} /\ UNCHANGED vars

Next == \/ \E i \in Instructions(pc) : Decode(i)
        \/ Refuse \/ CheckTargets \/ Build
        \/ RunInside \/ RunReturn \/ RunStuck \/ Ended
        \/ \E n \in Word : RunTransfer(n)

Spec == Init /\ [][Next]_vars

-----------------------------------------------------------------------------
(* Where the virtual machine may go from instruction p. *)
VMNext(p) ==
    CASE code[p].kind \in {"jump", "skip"} -> {code[p].target}
      [] code[p].kind \in {"branch", "branch2", "cmpproto", "fastcall"} ->
            {code[p].target, EndOf(p)}
      [] code[p].kind = "return" -> {}
      [] OTHER -> {EndOf(p)}

Built == phase \in {"run", "returned", "stuck"}

(* The control-flow graph misses nothing the virtual machine can do: each   *)
(* of its steps stays in a block and goes to the next instruction there, or *)
(* leaves from the last instruction of a block, along an edge of the graph, *)
(* to the first instruction of a block - never into an AUX word.  Nor does  *)
(* it invent anything: an edge of a block that does not end in a skip is a  *)
(* step of the virtual machine.                                             *)
GraphExact ==
    Built =>
        /\ \A p \in Boundaries : \A n \in VMNext(p) : n < size =>
              \/ n \in Boundaries /\ BlockOf(n) = BlockOf(p) /\ n = EndOf(p) /\ ~ IsLast(p)
              \/ IsLast(p) /\ n \in starts \cap Boundaries /\ n \in succ[BlockOf(p)]
        /\ \A b \in starts : Members(starts, b) # {} =>
              LET last == LastOf(starts, b) IN
              code[last].kind # "skip" => succ[b] \subseteq VMNext(last)

(* Every move of the dispatcher from one instruction to another is a move   *)
(* of the virtual machine, and it gets stuck at an invalid pc only where    *)
(* the virtual machine would run past the end of the code.                  *)
DispatcherFollows ==
    [][Running => /\ ip' # ip => ip' \in VMNext(ip)
                  /\ phase' = "stuck" => EndOf(ip) = size]_vars
=============================================================================
