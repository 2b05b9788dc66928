---------------------------- MODULE MCRegisters ----------------------------
(* Two registers and two instructions per block: a block that touches       *)
(* neither, reads one, copies one into the other and updates it in place,   *)
(* updates one before it writes the other, and writes both at once.         *)
EXTENDS FunctionRegisters

Insn(u, d) == [uses |-> u, definitions |-> d]

MCBodies ==
    { << Insn({}, {}), Insn({}, {}) >>,
      << Insn({0}, {}), Insn({}, {}) >>,
      << Insn({0}, {1}), Insn({0, 1}, {0}) >>,
      << Insn({1}, {1}), Insn({}, {}) >>,
      << Insn({}, {0, 1}), Insn({}, {0}) >> }
=============================================================================
