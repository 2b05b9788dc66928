------------------------------ MODULE Lua51Vm ------------------------------
(***************************************************************************)
(* The Lua 5.1 virtual machine, as far as Lua51.cpp relies on it: which     *)
(* instruction runs next, what the registers hold, and which variables      *)
(* closures share.  A closure holds an upvalue.  While the upvalue is open  *)
(* it is a register; CLOSE gives it a value of its own.                     *)
(*                                                                          *)
(* A loaded constant, a result and a value that a closure stores are told   *)
(* apart by the instruction they come from, an argument by its register.    *)
(* Nil also stands for false.                                               *)
(***************************************************************************)
EXTENDS Lua51Code, Sequences

VARIABLES
    code,   \* the code of the function, fixed
    pc,     \* the next instruction, or Returned
    regs,   \* the registers
    clo,    \* the upvalue of each closure created so far; an upvalue is
            \*   named by the first closure that has it
    uv,     \* the upvalues: [reg, open, val]
    seen    \* the values that the last call, SETLIST or RETURN was given

vmvars == <<code, pc, regs, clo, uv, seen>>

Nil == <<"nil">>
Returned == -1
LoadedBy(n) == <<"constant", n>>
ResultOf(n) == <<"result", n>>
StoredIn(n) == <<"stored", n>>
Argument(r) == <<"argument", r>>
Truth(v) == v # Nil

Init ==
    /\ pc \in DOMAIN code
    /\ clo = <<>>
    /\ uv = <<>>
    /\ seen = <<>>

I == code[pc]
At(op) == pc # Returned /\ I.op = op

Go(next) == pc' = next /\ UNCHANGED code
Set(f, next) == regs' = Over(f, regs) /\ Go(next) /\ UNCHANGED <<clo, uv, seen>>
Taken == pc + 1 + code[pc+1].sbx + 1

LoadK == At("LOADK") /\ Set(Only(I.a, LoadedBy(pc)), pc + 1)
LoadNil == At("LOADNIL") /\ Set([r \in I.a .. I.b |-> Nil], pc + 1)
Move == At("MOVE") /\ Set(Only(I.a, regs[I.b]), pc + 1)
LoadBool ==
    /\ At("LOADBOOL")
    /\ Set(Only(I.a, IF I.b = 1 THEN LoadedBy(pc) ELSE Nil), IF I.c # 0 THEN pc + 2 ELSE pc + 1)
Jmp == At("JMP") /\ Set(<<>>, pc + I.sbx + 1)

(* A test whose outcome is not the one asked for skips the JMP after it. *)
Eq == At("EQ") /\ Set(<<>>, IF (regs[I.b] = regs[I.c]) = (I.a = 1) THEN Taken ELSE pc + 2)
Test == At("TEST") /\ Set(<<>>, IF Truth(regs[I.a]) = (I.c = 1) THEN Taken ELSE pc + 2)
TestSet ==
    /\ At("TESTSET")
    /\ IF Truth(regs[I.b]) = (I.c = 1) THEN Set(Only(I.a, regs[I.b]), Taken)
                                       ELSE Set(<<>>, pc + 2)

(* A loop that goes on sets its variables and its state.  What A holds once *)
(* the loop has ended is left open: nothing reads it there.                 *)
ForPrep == At("FORPREP") /\ Set(Only(I.a, ResultOf(pc)), pc + I.sbx + 1)
ForLoop ==
    /\ At("FORLOOP")
    /\ \/ Set([r \in {I.a, I.a + 3} |-> ResultOf(pc)], pc + I.sbx + 1)
       \/ \E v \in {regs[I.a], ResultOf(pc)} : Set(Only(I.a, v), pc + 1)
TForLoop ==
    /\ At("TFORLOOP")
    /\ \/ Set([r \in I.a + 2 .. I.a + 2 + I.c |-> ResultOf(pc)], Taken)
       \/ Set([r \in I.a + 3 .. I.a + 2 + I.c |-> Nil], pc + 2)

SetList ==
    /\ At("SETLIST")
    /\ seen' = [k \in 1 .. I.b |-> regs[I.a + k]]
    /\ Go(IF I.c = 0 THEN pc + 2 ELSE pc + 1)
    /\ UNCHANGED <<regs, clo, uv>>

(* An open upvalue for the register is used again. *)
Closure ==
    /\ At("CLOSURE")
    /\ LET b == code[pc+1].b
           k == Len(clo) + 1
           found == {u \in DOMAIN uv : uv[u].open /\ uv[u].reg = b}
       IN  IF found = {}
           THEN clo' = Append(clo, k)
                  /\ uv' = Over(Only(k, [reg |-> b, open |-> TRUE, val |-> Nil]), uv)
           ELSE clo' = Append(clo, Min(found)) /\ UNCHANGED uv
    /\ regs' = [regs EXCEPT ![I.a] = LoadedBy(pc)]
    /\ Go(pc + 1 + I.c)
    /\ UNCHANGED seen

Close ==
    /\ At("CLOSE")
    /\ uv' = [u \in DOMAIN uv |->
                 IF uv[u].open /\ uv[u].reg >= I.a
                 THEN [reg |-> uv[u].reg, open |-> FALSE, val |-> regs[uv[u].reg]] ELSE uv[u]]
    /\ Go(pc + 1)
    /\ UNCHANGED <<regs, clo, seen>>

(* The function called may be one of the closures, which stores a value in  *)
(* its upvalue, or some other function (0).                                 *)
Call ==
    /\ At("CALL")
    /\ seen' = [k \in 1 .. I.b - 1 |-> regs[I.a + k]]
    /\ \E k \in 0 .. Len(clo) :
          LET stored == IF k # 0 /\ uv[clo[k]].open THEN Only(uv[clo[k]].reg, StoredIn(pc)) ELSE <<>>
          IN  /\ regs' = Over([r \in I.a .. I.a + I.c - 2 |-> ResultOf(pc)], Over(stored, regs))
              /\ IF k = 0 \/ uv[clo[k]].open THEN UNCHANGED uv
                 ELSE uv' = [uv EXCEPT ![clo[k]].val = StoredIn(pc)]
    /\ Go(pc + 1)
    /\ UNCHANGED clo

Leave(values) ==
    /\ seen' = values
    /\ Go(Returned)
    /\ UNCHANGED <<regs, clo, uv>>

TailCall == At("TAILCALL") /\ Leave([k \in 1 .. I.b - 1 |-> regs[I.a + k]])
Return == At("RETURN") /\ Leave([k \in 1 .. I.b - 1 |-> regs[I.a + k - 1]])

Next ==
    \/ LoadK \/ LoadNil \/ Move \/ LoadBool \/ Jmp \/ Eq \/ Test \/ TestSet
    \/ ForPrep \/ ForLoop \/ TForLoop \/ SetList \/ Closure \/ Close \/ Call
    \/ TailCall \/ Return

Spec == Init /\ [][Next]_vmvars
=============================================================================
