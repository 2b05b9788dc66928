----------------------------- MODULE Lua51Text -----------------------------
(***************************************************************************)
(* The Lua text that emitReadableBody of Lua51.cpp writes for a function,   *)
(* as it runs.  In mode "dispatcher" the whole function is a loop over the  *)
(* blocks of its code.  In mode "region" only a part with one entry and one *)
(* exit is such a loop.  The rest of the text, and all of it in mode        *)
(* "structured", has the control flow of the code: the structuring that     *)
(* emitRange does is not modelled, and what is asked about this text is     *)
(* what it writes for the values.                                           *)
(*                                                                          *)
(* A register is a local variable, or a one-slot cell that CLOSE replaces.  *)
(* A storage place is <<register, generation>>; a local variable keeps its  *)
(* generation 0.                                                            *)
(***************************************************************************)
EXTENDS Lua51Values, Sequences

CONSTANTS
    Programs,      \* for each mode, the codes looked at
    Parameters,    \* the number of parameters of the function
    MaxClosures    \* bound on the closures created in a run

ASSUME TextAssumption ==
    /\ MaxClosures \in Nat /\ Parameters \in Nat
    /\ \A m \in {"dispatcher", "region", "structured"} : \A p \in Programs[m] : Decoded(p)

VARIABLES
    code, mode, begin, end,   \* what is rendered and how, fixed
    at,      \* the instruction whose statements run next, or Returned
    cell,    \* the generation of each register's cell
    heap,    \* what the storage places hold
    held,    \* the storage place each closure created so far refers to
    seen,    \* the values of the last call, SETLIST or RETURN
    unset    \* the values that were meant for registers whose assignment
             \*   was left out

vars == <<code, mode, begin, end, at, cell, heap, held, seen, unset>>

Generation == 0 .. MaxClosures
NotUnset == <<"set">>

(* The refinement mapping: what the virtual machine would have.  An upvalue *)
(* is open while its storage place is still the one of its register.        *)
Read(r) == heap[<<r, cell[r]>>]
RegsBar == [r \in Register |-> IF unset[r] = NotUnset THEN Read(r) ELSE unset[r]]
CloBar == [k \in DOMAIN held |-> Min({j \in DOMAIN held : held[j] = held[k]})]
UvBar ==
    LET Open(u) == held[u] = <<held[u][1], cell[held[u][1]]>>
    IN  [u \in {CloBar[k] : k \in DOMAIN held} |->
            [reg |-> held[u][1], open |-> Open(u),
             val |-> IF Open(u) THEN <<"nil">> ELSE heap[held[u]]]]

Vm == INSTANCE Lua51Vm WITH pc <- at, regs <- RegsBar, clo <- CloBar, uv <- UvBar

Nil == Vm!Nil
Returned == Vm!Returned

(* The parameters hold values or nil, the other registers are declared      *)
(* without one.                                                             *)
Init ==
    /\ mode \in {"dispatcher", "region", "structured"}
    /\ code \in {p \in Programs[mode] : validateProtoData(p) /\ Compiled(p)}
    /\ begin \in 0 .. Size(code) /\ end \in 0 .. Size(code)
    /\ CASE mode = "dispatcher" -> begin = 0 /\ end = Size(code)
         [] mode = "structured" -> begin = Size(code) /\ end = Size(code)
         [] mode = "region" -> isSingleEntryExitRegion(code, begin, end)
    /\ at = 0
    /\ cell = [r \in Register |-> 0]
    /\ \E given \in BOOLEAN :
          heap = [s \in Register \X Generation |->
                     IF given /\ s[1] < Parameters THEN Vm!Argument(s[1]) ELSE Nil]
    /\ held = <<>>
    /\ seen = <<>>
    /\ unset = [r \in Register |-> NotUnset]

-----------------------------------------------------------------------------
I == code[at]
Region == begin .. end-1
InLoop == at \in Region

(* The code before a region is rendered by itself, and so is the code after *)
(* it.  For a branch past the region, and for one back from behind it,      *)
(* there is only a comment.                                                 *)
Strays ==
    /\ mode = "region" /\ ~InLoop
    /\ \E t \in controlSuccessors(code, at) : (at < begin) # (t < end)

Statement(op) == at \in DOMAIN code /\ I.op = op /\ ~Strays

(* Inside the loop the pc variable gets a value, and the loop selects a     *)
(* block, or ends and goes on with the code after it.  Code outside that    *)
(* leaves its part of the text comes to the loop, with the value begin.     *)
Assign(t) ==
    at' = CASE InLoop -> IF t \in Region THEN dispatch(code, begin, end, t) ELSE end
            [] ~InLoop /\ t \in Region -> begin
            [] OTHER -> t

(* The next statement of the block, or its last one, which sets the pc      *)
(* variable to the start of the next block.                                 *)
Continue(next) ==
    LET last == blockEnd(code, begin, end, at)
    IN  IF InLoop /\ next < last THEN at' = next
        ELSE Assign(IF InLoop THEN last ELSE next)

Fixed == UNCHANGED <<code, mode, begin, end>>

Stored(f, h) == [s \in DOMAIN h |-> IF s[1] \in DOMAIN f /\ s[2] = cell[s[1]] THEN f[s[1]] ELSE h[s]]

Store(f) ==
    /\ heap' = Stored(f, heap)
    /\ unset' = [r \in Register |-> IF r \in DOMAIN f THEN NotUnset ELSE unset[r]]
    /\ UNCHANGED <<cell, held, seen>>
    /\ Fixed

(* renderedValueAt, evaluated when the statement runs.  The dispatcher of a *)
(* whole function names the register.                                       *)
Value(r) ==
    LET e == renderedValueAt(code, r, at)
    IN  CASE mode = "dispatcher" -> Read(r)
          [] mode # "dispatcher" /\ e.kind = "local" -> Read(e.of)
          [] OTHER -> IF e.of = NilConstant THEN Nil ELSE Vm!LoadedBy(e.of)

(* The assignments of emitSimple. *)
Written ==
    CASE I.op = "LOADK" -> Only(I.a, Vm!LoadedBy(at))
      [] I.op = "LOADNIL" -> [r \in I.a .. I.b |-> Nil]
      [] I.op = "MOVE" -> Only(I.a, Read(I.b))
      [] I.op = "LOADBOOL" -> Only(I.a, IF I.b = 1 THEN Vm!LoadedBy(at) ELSE Nil)

(* Outside the loop, the assignment of an argument may be left out, and the *)
(* LOADK right before a RETURN of its register is.  emitRange renders every *)
(* arm by itself: the next place that is jumped to ends its range.  That it *)
(* moves the setup of a numeric loop into the loop's header belongs to the  *)
(* structuring.                                                             *)
Omitted ==
    LET limit == IF at < begin THEN begin ELSE Size(code)
        stop == Min({t \in at+1 .. limit : hasControlEntryAt(code, t)} \cup {limit})
        returnSetup == /\ I.op = "LOADK" /\ at + 1 < stop
                       /\ code[at+1].op \in {"RETURN", "TAILCALL"} /\ code[at+1].a = I.a
    IN  ~InLoop /\ (returnSetup \/ canOmitArgumentSetup(code, at, stop))

AssignSimple ==
    /\ Statement("LOADK") \/ Statement("LOADNIL") \/ Statement("MOVE") \/ Statement("LOADBOOL")
    /\ ~Omitted
    /\ Store(Written)
    /\ IF I.op = "LOADBOOL" /\ I.c # 0 THEN Assign(at + 2) ELSE Continue(at + 1)

OmitArgumentSetup ==
    /\ Statement("LOADK") \/ Statement("LOADNIL") \/ Statement("MOVE") \/ Statement("LOADBOOL")
    /\ Omitted
    /\ unset' = Over(IF I.op = "MOVE" THEN Only(I.a, RegsBar[I.b]) ELSE Written, unset)
    /\ Continue(at + 1)
    /\ UNCHANGED <<cell, heap, held, seen>>
    /\ Fixed

(* emitPcBlock ends a block with these. *)
EmitJmp == Statement("JMP") /\ Assign(target(code, at)) /\ Store(<<>>)

EmitCondition ==
    /\ Statement("EQ") \/ Statement("TEST")
    /\ LET holds == IF I.op = "EQ" THEN (Read(I.b) = Read(I.c)) = (I.a = 1)
                                   ELSE (Read(I.a) = Nil) # (I.c = 1)
       IN  Assign(IF holds THEN followingControlTarget(code, at) ELSE at + 2)
    /\ Store(<<>>)

EmitTestSet ==
    /\ Statement("TESTSET")
    /\ IF (Read(I.b) = Nil) # (I.c = 1)
       THEN Store(Only(I.a, Read(I.b))) /\ Assign(followingControlTarget(code, at))
       ELSE Store(<<>>) /\ Assign(at + 2)

EmitForPrep ==
    Statement("FORPREP") /\ Assign(target(code, at)) /\ Store(Only(I.a, Vm!ResultOf(at)))

(* Whether the loop goes on depends on numbers that are left out here, and  *)
(* on what the iterator function returns.                                   *)
EmitForLoop ==
    /\ Statement("FORLOOP")
    /\ \/ Store([r \in {I.a, I.a + 3} |-> Vm!ResultOf(at)]) /\ Assign(target(code, at))
       \/ Store(Only(I.a, Vm!ResultOf(at))) /\ Assign(at + 1)

EmitTForLoop ==
    /\ Statement("TFORLOOP")
    /\ \/ /\ Store([r \in I.a + 2 .. I.a + 2 + I.c |-> Vm!ResultOf(at)])
          /\ Assign(followingControlTarget(code, at))
       \/ /\ Store([r \in I.a + 3 .. I.a + 2 + I.c |-> Nil])
          /\ Assign(at + 2)

EmitSetList ==
    /\ Statement("SETLIST")
    /\ seen' = [k \in 1 .. I.b |-> Read(I.a + k)]
    /\ Continue(IF I.c = 0 THEN at + 2 ELSE at + 1)
    /\ UNCHANGED <<cell, heap, held, unset>>
    /\ Fixed

(* CLOSURE passes the cell of a managed register to the new function, which *)
(* keeps it; any other register it captures is the variable itself.         *)
EmitClosure ==
    /\ Statement("CLOSURE")
    /\ Len(held) < MaxClosures
    /\ held' = Append(held, <<code[at+1].b, cell[code[at+1].b]>>)
    /\ heap' = Stored(Only(I.a, Vm!LoadedBy(at)), heap)
    /\ unset' = [unset EXCEPT ![I.a] = NotUnset]
    /\ Continue(at + 1 + I.c)
    /\ UNCHANGED <<cell, seen>>
    /\ Fixed

(* emitCapturedCellClose: a new cell with the old value. *)
emitCapturedCellClose(first) ==
    LET closed == {r \in managedCapturedRegisters(code) : r >= first}
        unheld(r) == {g \in Generation : \A k \in DOMAIN held : held[k] # <<r, g>>}
    IN  /\ cell' = [r \in Register |-> IF r \in closed THEN Min(unheld(r)) ELSE cell[r]]
        /\ heap' = [s \in DOMAIN heap |->
                       IF s[1] \in closed /\ s[2] = Min(unheld(s[1])) THEN Read(s[1]) ELSE heap[s]]

EmitClose ==
    /\ Statement("CLOSE")
    /\ emitCapturedCellClose(I.a)
    /\ Continue(at + 1)
    /\ UNCHANGED <<held, seen, unset>>
    /\ Fixed

EmitCall ==
    /\ Statement("CALL")
    /\ seen' = [k \in 1 .. I.b - 1 |-> Value(I.a + k)]
    /\ \E k \in 0 .. Len(held) :
          heap' = Stored([r \in I.a .. I.a + I.c - 2 |-> Vm!ResultOf(at)],
                         IF k = 0 THEN heap ELSE [heap EXCEPT ![held[k]] = Vm!StoredIn(at)])
    /\ unset' = [r \in Register |-> IF r \in I.a .. I.a + I.c - 2 THEN NotUnset ELSE unset[r]]
    /\ Continue(at + 1)
    /\ UNCHANGED <<cell, held>>
    /\ Fixed

EmitReturn ==
    /\ Statement("TAILCALL") \/ Statement("RETURN")
    /\ seen' = [k \in 1 .. I.b - 1 |-> Value(IF I.op = "RETURN" THEN I.a + k - 1 ELSE I.a + k)]
    /\ at' = Returned
    /\ UNCHANGED <<cell, heap, held, unset>>
    /\ Fixed

(* The text has returned, the bound is reached, or the text has a comment   *)
(* instead of a branch: what it does then is not followed any further.      *)
Ended ==
    /\ \/ at = Returned
       \/ at # Returned /\ Strays
       \/ Statement("CLOSURE") /\ Len(held) = MaxClosures
    /\ UNCHANGED vars

Next ==
    \/ AssignSimple \/ OmitArgumentSetup \/ EmitJmp \/ EmitCondition \/ EmitTestSet
    \/ EmitForPrep \/ EmitForLoop \/ EmitTForLoop \/ EmitSetList \/ EmitClosure
    \/ EmitClose \/ EmitCall \/ EmitReturn \/ Ended

Spec == Init /\ [][Next]_vars
-----------------------------------------------------------------------------
(* The registers whose values a call or a RETURN renders. *)
ValuesOf(i) ==
    CASE i.op \in {"CALL", "TAILCALL"} -> i.a + 1 .. i.a + i.b - 1
      [] i.op = "RETURN" -> i.a .. i.a + i.b - 2
      [] OTHER -> {}

(* The expression that renderedValueAt writes for an argument or a returned *)
(* value has the value of the register when it is evaluated: neither a copy *)
(* that is newer than the MOVE nor a constant that some path has replaced.  *)
FoldedValueIsCurrent ==
    at \in DOMAIN code => \A r \in ValuesOf(I) : Value(r) = RegsBar[r]

(* No closure looks at a register while its assignment is left out. *)
OmittedIsUnseen ==
    \A k \in DOMAIN held : held[k][2] = cell[held[k][1]] => unset[held[k][1]] = NotUnset

(* The text does what the code does on the virtual machine: it runs the     *)
(* instructions in the same order, gives every call, SETLIST and RETURN the *)
(* same values, and its cells are shared between closures exactly as the    *)
(* machine's upvalues are.  A step is exempt where looking back in the text *)
(* of the code misleads it; the dispatcher, which does not look back, is    *)
(* never misled.                                                            *)
Misled == mode # "dispatcher" /\ ~(FoldedValueIsCurrent /\ OmittedIsUnseen)
KeepsVm == Vm!Init /\ [][Misled \/ Vm!Next]_(Vm!vmvars)

(* Every step follows an edge of buildControlFlowGraph, the graph that the  *)
(* search for a region with one entry and one exit relies on.               *)
FollowsGraph == [][at' \in controlSuccessors(code, at) \cup {Returned}]_at
=============================================================================
