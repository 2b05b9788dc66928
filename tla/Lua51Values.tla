---------------------------- MODULE Lua51Values ----------------------------
(***************************************************************************)
(* How the readable renderer of Lua51.cpp names the value of a register:    *)
(* renderedValueAt looks back in the text of the code for the instruction   *)
(* that set it and, where that loads a constant or copies another register, *)
(* writes the constant or the other register instead.  An assignment that   *)
(* only prepares an argument may then be left out.  Method calls (SELF) and *)
(* open argument lists are not part of the model.                           *)
(***************************************************************************)
EXTENDS Lua51Code

NilConstant == -1   \* the place of the constant nil

writesRegister(p, pc) ==
    LET i == p[pc]
        written ==
            CASE i.op \in {"MOVE", "LOADK", "LOADBOOL", "TESTSET", "CLOSURE", "FORPREP"} -> {i.a}
              [] i.op = "LOADNIL" -> i.a .. i.b
              [] i.op = "CALL" -> i.a .. i.a + i.c - 2
              [] i.op = "FORLOOP" -> {i.a, i.a + 3}
              [] i.op = "TFORLOOP" -> i.a + 3 .. i.a + 2 + i.c
              [] OTHER -> {}
    IN  IF Boundary(p, pc) THEN written ELSE {}

readsRegister(p, pc) ==
    LET i == p[pc]
    IN  CASE i.op = "MOVE" -> {i.b}
          [] i.op = "EQ" -> {i.b, i.c}
          [] i.op = "TEST" -> {i.a}
          [] i.op = "TESTSET" -> {i.a, i.b}
          [] i.op \in {"CALL", "TAILCALL"} -> i.a .. i.a + i.b - 1
          [] i.op = "RETURN" -> i.a .. i.a + i.b - 2
          [] i.op = "SETLIST" -> i.a .. i.a + i.b
          [] i.op \in {"FORLOOP", "FORPREP", "TFORLOOP"} -> i.a .. i.a + 2
          [] OTHER -> {}

hasControlEntryAt(p, t) ==
    \E pc \in DOMAIN p :
        \/ target(p, pc) = t
        \/ (isTest(p[pc].op) \/ p[pc].op = "TFORLOOP") /\ pc + 1 \in DOMAIN p
              /\ p[pc+1].op = "JMP" /\ target(p, pc+1) = t

(* An expression is a register, or the constant that the LOADK at "of"      *)
(* loads.                                                                   *)
Local(r) == [kind |-> "local", of |-> r]
Constant(n) == [kind |-> "constant", of |-> n]

renderedValueAt(p, register, use) ==
    LET value[place \in Register \X (0 .. use)] ==
            LET r == place[1]
                pc == place[2]
                definitions == {n \in 0 .. pc-1 : ~closureBinding(p, n) /\ p[n].a = r}
                n == Max(definitions)
                bypassed == \E e \in 0 .. n-1 : target(p, e) \in n+1 .. pc
            IN  IF definitions = {} \/ bypassed THEN Local(r)
                ELSE IF p[n].op = "LOADK" THEN Constant(n)
                ELSE IF p[n].op = "LOADNIL" THEN Constant(NilConstant)
                ELSE IF p[n].op = "MOVE" /\ \A m \in n+1 .. pc-1 : p[n].b \notin writesRegister(p, m)
                     THEN value[<<p[n].b, n>>]
                ELSE Local(r)
    IN  value[<<register, use>>]

-----------------------------------------------------------------------------
isSetup(op) == op \in {"MOVE", "LOADK", "LOADBOOL", "LOADNIL"}

safeArgumentSetup(p, pc, firstArgument, lastArgument) ==
    /\ isSetup(p[pc].op)
    /\ p[pc].op = "LOADBOOL" => p[pc].c = 0
    /\ writesRegister(p, pc) \subseteq firstArgument .. lastArgument

(* The register may be read after the call on some path that the text of    *)
(* the code does not rule out.                                              *)
registerMayBeReadAfterCall(p, call, r) ==
    \E pc \in call+1 .. Size(p)-1 :
        /\ \/ hasControlEntryAt(p, pc)
           \/ r \in readsRegister(p, pc)
           \/ target(p, pc) # NoTarget
        /\ \A q \in call+1 .. pc-1 :
              p[q].op \notin {"TAILCALL", "RETURN"} /\ r \notin writesRegister(p, q)

(* The call before end that a setup prepares: only setups, and not more     *)
(* than 32 of them, stand between the two.                                  *)
argumentCalls(p, setup, end) ==
    {call \in setup+1 .. Min({end, setup + 34})-1 :
        /\ p[call].op \in {"CALL", "TAILCALL"} /\ p[call].b > 0
        /\ \A pc \in setup .. call-1 : isSetup(p[pc].op)}

canOmitArgumentSetup(p, setup, end) ==
    \E call \in argumentCalls(p, setup, end) :
        LET arguments(pc) == safeArgumentSetup(p, pc, p[call].a + 1, p[call].a + p[call].b - 1)
        IN  /\ \A pc \in setup .. call : ~hasControlEntryAt(p, pc)
            /\ \A pc \in setup .. call-1 : arguments(pc)
            /\ \A r \in writesRegister(p, setup) :
                  /\ r \notin managedCapturedRegisters(p)
                  /\ ~registerMayBeReadAfterCall(p, call, r)
                  /\ renderedValueAt(p, r, call) # Local(r)
                  /\ \A pc \in setup+1 .. call-1 :
                        r \in readsRegister(p, pc)
                          => \E q \in setup+1 .. pc-1 : r \in writesRegister(p, q)

=============================================================================
