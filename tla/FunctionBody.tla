---------------------------- MODULE FunctionBody ----------------------------
(***************************************************************************)
(* One function as the register analyses of IR.cpp's addFunction see it:    *)
(* its graph and, for each block, the registers that its instructions read  *)
(* and write.                                                               *)
(***************************************************************************)
EXTENDS FlowGraph, Sequences

CONSTANTS
    Registers,    \* the number of registers
    PerBlock,     \* the number of instructions in a block
    Bodies        \* the instruction sequences a block may have

Reg == 0 .. Registers-1

(* An instruction reads its uses, then writes its definitions. *)
Instruction == [uses : SUBSET Reg, definitions : SUBSET Reg]

ASSUME BodiesAssumption ==
    /\ Registers \in Nat \ {0}
    /\ PerBlock \in Nat \ {0}
    /\ Bodies \subseteq [1 .. PerBlock -> Instruction]

VARIABLES succ, body   \* the graph and the instructions of each block, fixed

FunctionInit ==
    /\ \E last \in [Block -> Terminator] : succ = GraphOf(last)
    /\ body \in [Block -> Bodies]
=============================================================================
