----------------------------- MODULE Lua51Code -----------------------------
(***************************************************************************)
(* The code of one Lua 5.1 function, and what Lua51.cpp works out from it   *)
(* before it renders it: the targets parseProto decodes, the records that   *)
(* belong to a CLOSURE or to a SETLIST, the registers kept in cells, the    *)
(* control-flow graph, and the blocks of the dispatcher.                    *)
(*                                                                          *)
(* p is a function from 0 .. size-1 to instructions [op, a, b, c, sbx].     *)
(* EQ stands for EQ, LT and LE.  C of a CLOSURE is the number of upvalues   *)
(* of the child, and each binding after it is a MOVE of an enclosing local. *)
(* A FORLOOP and a TFORLOOP at A keep their own state in A .. A+2 and set   *)
(* the variables of the loop from A+3 on.  Operands that are constants are  *)
(* left out.                                                                *)
(***************************************************************************)
EXTENDS Integers, FiniteSetsExt

CONSTANT MaxStack   \* maxstack, the number of registers

ASSUME Lua51Assumption == MaxStack \in Nat \ {0}

Register == 0 .. MaxStack-1
Size(p) == Cardinality(DOMAIN p)

(* Assignments to registers: to one of them, and those of f after those     *)
(* of g.                                                                    *)
Only(r, v) == [x \in {r} |-> v]
Over(f, g) == [x \in DOMAIN f \cup DOMAIN g |-> IF x \in DOMAIN f THEN f[x] ELSE g[x]]
NoTarget == -1

(* What parseProto delivers, whatever the bytes of the chunk are.  That a   *)
(* CLOSURE captures one register is a restriction of this model.            *)
Decoded(p) ==
    /\ IsFiniteSet(DOMAIN p) /\ DOMAIN p # {} /\ DOMAIN p = 0 .. Size(p)-1
    /\ \A pc \in DOMAIN p :
          /\ p[pc].a \in Nat /\ p[pc].b \in Nat /\ p[pc].c \in Nat /\ p[pc].sbx \in Int
          /\ p[pc].op = "CLOSURE" => p[pc].c = 1

isCondition(op) == op \in {"EQ", "TEST"}
isTest(op) == isCondition(op) \/ op = "TESTSET"

(* parseProto decodes the target of an instruction; that of a test is the   *)
(* instruction it falls through to.                                         *)
hasTarget(i) ==
    \/ i.op \in {"JMP", "FORLOOP", "FORPREP", "TFORLOOP"}
    \/ isTest(i.op)
    \/ i.op = "LOADBOOL" /\ i.c # 0

target(p, pc) ==
    LET i == p[pc]
    IN  CASE i.op \in {"JMP", "FORLOOP", "FORPREP"} -> pc + i.sbx + 1
          [] isTest(i.op) \/ i.op = "TFORLOOP" -> pc + 2
          [] i.op = "LOADBOOL" /\ i.c # 0 -> pc + 2
          [] OTHER -> NoTarget

extraWord(p, pc) == pc > 0 /\ p[pc-1].op = "SETLIST" /\ p[pc-1].c = 0

(* associateClosureCaptures: the records that a CLOSURE consumes, and the   *)
(* registers they capture.  A register that some CLOSE reaches is managed:  *)
(* it is rendered as a cell.                                                *)
closureBinding(p, pc) == \E q \in 0 .. pc-1 : p[q].op = "CLOSURE" /\ pc <= q + p[q].c

capturedRegisters(p) == {p[pc].b : pc \in {q \in DOMAIN p : closureBinding(p, q)}}

managedCapturedRegisters(p) ==
    {r \in capturedRegisters(p) : \E pc \in DOMAIN p : p[pc].op = "CLOSE" /\ r >= p[pc].a}

Boundary(p, pc) == pc \in DOMAIN p /\ ~extraWord(p, pc) /\ ~closureBinding(p, pc)

(* The registers that an instruction names are registers of the function,   *)
(* and a flag is 0 or 1.  CLOSE names the first register to close, and      *)
(* there may be none.                                                       *)
checkRegisters(i) ==
    /\ i.op \notin {"EQ", "CLOSE"} => i.a \in Register
    /\ i.op \in {"MOVE", "LOADNIL", "EQ", "TESTSET"} => i.b \in Register
    /\ i.op = "EQ" => i.c \in Register
    /\ i.op = "LOADNIL" => i.a <= i.b
    /\ i.op \in {"CALL", "TAILCALL"} => i.a + i.b <= MaxStack
    /\ i.op = "CALL" => i.a + i.c - 1 <= MaxStack
    /\ i.op = "RETURN" => i.a + i.b - 1 <= MaxStack
    /\ i.op = "SETLIST" => i.a + 1 + i.b <= MaxStack
    /\ i.op \in {"FORLOOP", "FORPREP"} => i.a + 4 <= MaxStack
    /\ i.op = "TFORLOOP" => i.c >= 1 /\ i.a + 3 + i.c <= MaxStack
    /\ i.op = "CLOSE" => i.a <= MaxStack
    /\ i.op = "EQ" => i.a <= 1
    /\ i.op = "LOADBOOL" => i.b <= 1
    /\ i.op \in {"TEST", "TESTSET"} => i.c <= 1

(* What validateProtoData and associateClosureCaptures accept. *)
validateProtoData(p) ==
    \A pc \in DOMAIN p :
        /\ (p[pc].op = "EXTRA") = extraWord(p, pc)
        /\ Boundary(p, pc) => checkRegisters(p[pc])
        /\ closureBinding(p, pc) => p[pc].op = "MOVE" /\ p[pc].b \in Register
        /\ p[pc].op = "CLOSURE" => pc + p[pc].c < Size(p)
        /\ Boundary(p, pc) /\ hasTarget(p[pc]) => Boundary(p, target(p, pc))

(* What the compiler of Lua 5.1 guarantees besides: a test and a TFORLOOP   *)
(* are followed by the JMP they may take, and a function ends in a RETURN.  *)
Compiled(p) ==
    /\ p[Size(p)-1].op = "RETURN"
    /\ \A pc \in DOMAIN p :
          isTest(p[pc].op) \/ p[pc].op = "TFORLOOP" => p[pc+1].op = "JMP"

-----------------------------------------------------------------------------
followingControlTarget(p, pc) ==
    IF pc + 1 >= Size(p) THEN pc + 2 ELSE pc + 1 + p[pc+1].sbx + 1

(* Mutant: a numeric loop that is not left. *)
controlSuccessorsForever(p, pc) ==
    IF p[pc].op = "FORLOOP" THEN {target(p, pc)}
    ELSE IF p[pc].op \in {"JMP", "FORPREP"} THEN {target(p, pc)}
    ELSE IF isTest(p[pc].op) \/ p[pc].op = "TFORLOOP" THEN {followingControlTarget(p, pc), pc + 2}
    ELSE pc + 1 .. pc + 2

controlSuccessors(p, pc) ==
    LET i == p[pc]
    IN  {t \in 0 .. Size(p) :
            t \in CASE ~Boundary(p, pc) \/ i.op \in {"TAILCALL", "RETURN"} -> {}
                    [] i.op \in {"JMP", "FORPREP"} -> {target(p, pc)}
                    [] isTest(i.op) ->
                         {IF p[pc+1].op = "JMP" THEN target(p, pc+1) ELSE pc + 2, pc + 2}
                    [] i.op = "FORLOOP" -> {target(p, pc), pc + 1}
                    [] i.op = "TFORLOOP" -> {followingControlTarget(p, pc), pc + 2}
                    [] i.op = "LOADBOOL" /\ i.c # 0 -> {pc + 2}
                    [] i.op = "SETLIST" /\ i.c = 0 -> {pc + 2}
                    [] i.op = "CLOSURE" -> {pc + 1 + i.c}
                    [] OTHER -> {pc + 1}}

isSingleEntryExitRegion(p, begin, end) ==
    LET inside  == begin .. end-1
        entries == {t \in inside : \E s \in DOMAIN p \ inside : t \in controlSuccessors(p, s)}
                     \cup (IF begin = 0 THEN {0} ELSE {})
        exits   == (UNION {controlSuccessors(p, s) : s \in inside}) \ inside
    IN  begin < end /\ entries = {begin} /\ exits = {end}

-----------------------------------------------------------------------------
(* Mutant: the target of the JMP after a test is forgotten. *)
addLeadersForgetful(p, pc) ==
    LET i == p[pc]
    IN  CASE i.op \in {"FORLOOP", "FORPREP"} -> {pc + 1, target(p, pc)}
          [] i.op \in {"JMP", "RETURN"} -> {pc + 1}
          [] target(p, pc) # NoTarget -> {pc + 1, pc + 2}
          [] i.op = "SETLIST" /\ i.c = 0 -> {pc + 2}
          [] i.op = "CLOSURE" -> {pc + 1 + i.c}
          [] OTHER -> {}

(* The leaders of emitPcDispatcherRange.  A block runs from a leader to the *)
(* next one.                                                                *)
addLeaders(p, pc) ==
    LET i == p[pc]
    IN  CASE i.op \in {"JMP", "FORLOOP", "FORPREP"} -> {pc + 1, target(p, pc)}
          [] isTest(i.op) \/ i.op = "TFORLOOP" ->
               {pc + 1, pc + 2, followingControlTarget(p, pc)}
          [] i.op = "LOADBOOL" /\ i.c # 0 -> {pc + 1, pc + 2}
          [] i.op = "RETURN" -> {pc + 1}
          [] i.op = "SETLIST" /\ i.c = 0 -> {pc + 2}
          [] i.op = "CLOSURE" -> {pc + 1 + i.c}
          [] OTHER -> {}

leaders(p, begin, end) ==
    {begin} \cup {t \in UNION {addLeaders(p, pc) : pc \in {q \in begin .. end-1 : Boundary(p, q)}} :
                     t \in begin .. end-1 /\ Boundary(p, t)}

blockEnd(p, begin, end, pc) == Min({s \in leaders(p, begin, end) : s > pc} \cup {end})

(* The nested comparisons of dispatch: the start of the block they lead to, *)
(* for a value of the pc variable between begin and end.                    *)
dispatch(p, begin, end, pc) ==
    LET starts == leaders(p, begin, end)
        start(n) == CHOOSE s \in starts : Cardinality({t \in starts : t < s}) = n
        count == Cardinality(starts)
        search[range \in (0 .. count) \X (0 .. count)] ==
            LET first == range[1]
                last == range[2]
                middle == first + (last - first) \div 2
            IN  IF last - first = 1 THEN start(first)
                ELSE IF pc < start(middle) THEN search[<<first, middle>>]
                ELSE search[<<middle, last>>]
    IN  search[<<0, count>>]
=============================================================================
