------------------------------ MODULE Liveness ------------------------------
(***************************************************************************)
(* The register liveness of IR.cpp's addFunction: summarise each block by   *)
(* the registers it reads before writing them and those it writes, then     *)
(* propagate backwards, in place and from the last block to the first,      *)
(* until a whole pass changes nothing; last, the peak number of registers   *)
(* live at any point of a block.                                            *)
(***************************************************************************)
EXTENDS FunctionBody, FiniteSetsExt

VARIABLES
    phase,      \* "sweep" or "done"
    liveIn, liveOut,
    cursor,     \* the loop variable "block"
    changed,
    peak        \* blockLiveRegisterCount

vars == <<succ, body, phase, liveIn, liveOut, cursor, changed, peak>>

(* The registers a block reads before it writes them. *)
BlockUses(b) ==
    {r \in Reg : \E i \in DOMAIN body[b] :
                    /\ r \in body[b][i].uses
                    /\ \A j \in 1 .. i-1 : r \notin body[b][j].definitions}

BlockDefs(b) ==
    {r \in Reg : \E i \in DOMAIN body[b] : r \in body[b][i].definitions}

Start ==
    /\ phase = "sweep"
    /\ liveIn = [b \in Block |-> {}]
    /\ liveOut = [b \in Block |-> {}]
    /\ cursor = N - 1
    /\ changed = FALSE
    /\ peak = [b \in Block |-> 0]

Init == FunctionInit /\ Start

NextOut(b) == UNION {liveIn[s] : s \in succ[b]}

NextIn(b) == BlockUses(b) \cup (NextOut(b) \ BlockDefs(b))

(* Mutant: a visit that does not ask for another pass. *)
VisitOnce ==
    /\ phase = "sweep"
    /\ cursor \in Block
    /\ cursor' = cursor - 1
    /\ liveOut' = [liveOut EXCEPT ![cursor] = NextOut(cursor)]
    /\ liveIn' = [liveIn EXCEPT ![cursor] = NextIn(cursor)]
    /\ UNCHANGED <<succ, body, phase, changed, peak>>

Visit ==
    /\ phase = "sweep"
    /\ cursor \in Block
    /\ cursor' = cursor - 1
    /\ IF <<NextOut(cursor), NextIn(cursor)>> # <<liveOut[cursor], liveIn[cursor]>>
         THEN /\ liveOut' = [liveOut EXCEPT ![cursor] = NextOut(cursor)]
              /\ liveIn' = [liveIn EXCEPT ![cursor] = NextIn(cursor)]
              /\ changed' = TRUE
         ELSE UNCHANGED <<liveIn, liveOut, changed>>
    /\ UNCHANGED <<succ, body, phase, peak>>

(* Mutant: a pass that starts from empty sets again. *)
NextPassCleared ==
    /\ phase = "sweep"
    /\ cursor \notin Block
    /\ changed
    /\ cursor' = N - 1
    /\ changed' = FALSE
    /\ liveIn' = [b \in Block |-> {}]
    /\ liveOut' = [b \in Block |-> {}]
    /\ UNCHANGED <<succ, body, phase, peak>>

NextPass ==
    /\ phase = "sweep"
    /\ cursor \notin Block
    /\ changed
    /\ cursor' = N - 1
    /\ changed' = FALSE
    /\ UNCHANGED <<succ, body, phase, liveIn, liveOut, peak>>

(* Mutant: an instruction's uses are added before its definitions are       *)
(* taken away.                                                              *)
LiveAtSwapped(b) ==
    LET len == Len(body[b])
        live[k \in 0 .. len] ==
            IF k = 0 THEN liveOut[b]
            ELSE (live[k-1] \cup body[b][len - k + 1].uses)
                    \ body[b][len - k + 1].definitions
    IN  [i \in 0 .. len |-> live[len - i]]

(* The walk from the end of the block back to its start: LiveAt(b)[i] are  *)
(* the registers live after the first i instructions.                      *)
LiveAt(b) ==
    LET len == Len(body[b])
        live[k \in 0 .. len] ==   \* k instructions from the end
            IF k = 0 THEN liveOut[b]
            ELSE (live[k-1] \ body[b][len - k + 1].definitions)
                    \cup body[b][len - k + 1].uses
    IN  [i \in 0 .. len |-> live[len - i]]

Finish ==
    /\ phase = "sweep"
    /\ cursor \notin Block
    /\ ~ changed
    /\ phase' = "done"
    /\ peak' = [b \in Block |->
                  Max({Cardinality(LiveAt(b)[i]) : i \in 0 .. Len(body[b])})]
    /\ UNCHANGED <<succ, body, liveIn, liveOut, cursor, changed>>

(* The liveness facts are final; addFunction goes on. *)
Done == phase = "done" /\ UNCHANGED vars

Next == Visit \/ NextPass \/ Finish \/ Done

Spec == Init /\ [][Next]_vars

-----------------------------------------------------------------------------
TypeOK ==
    /\ succ \in Graph
    /\ body \in [Block -> Bodies]
    /\ phase \in {"sweep", "done"}
    /\ liveIn \in [Block -> SUBSET Reg]
    /\ liveOut \in [Block -> SUBSET Reg]
    /\ cursor \in -1 .. N-1
    /\ changed \in BOOLEAN

(* From the start of b some path reads r before any instruction writes it: *)
(* b lies in every set that holds the blocks exposing a read of r and,     *)
(* with a block, its predecessors that do not write r.                     *)
ReadLater(r, b) ==
    \A S \in SUBSET Block :
        /\ \A x \in Block : r \in BlockUses(x) => x \in S
        /\ \A x \in Block : r \notin BlockDefs(x) /\ succ[x] \cap S # {} => x \in S
        => b \in S

(* The same question at a point inside a block, answered instruction by    *)
(* instruction: r is live after the first i instructions of b.             *)
LiveAfter(r, b, i) ==
    LET len == Len(body[b]) IN
    \/ \E j \in i+1 .. len :
          /\ r \in body[b][j].uses
          /\ \A k \in i+1 .. j-1 : r \notin body[b][k].definitions
    \/ /\ \A k \in i+1 .. len : r \notin body[b][k].definitions
       /\ \E s \in succ[b] : ReadLater(r, s)

(* When the sweeps stop, live_in and live_out are exact on every graph: a   *)
(* register is live iff its current value may still be read, loops and      *)
(* unreachable blocks included.                                             *)
LivenessCorrect ==
    phase = "done" =>
        \A b \in Block, r \in Reg :
            /\ r \in liveIn[b] <=> ReadLater(r, b)
            /\ r \in liveOut[b] <=> \E s \in succ[b] : ReadLater(r, s)

(* During the sweeps no register is called live whose value is dead, even   *)
(* though a visit may use sets of the previous pass.                        *)
NoFalseLive == \A b \in Block : \A r \in liveIn[b] : ReadLater(r, b)

(* blockLiveRegisterCount is the largest number of registers whose values   *)
(* are needed at one point of the block: an instruction that both reads and *)
(* writes a register keeps it live before itself.                           *)
PeakCorrect ==
    phase = "done" =>
        \A b \in Block :
            peak[b] = Max({Cardinality({r \in Reg : LiveAfter(r, b, i)})
                              : i \in 0 .. Len(body[b])})

(* The fixpoint loop terminates on every graph. *)
Termination == <>(phase = "done")
=============================================================================
