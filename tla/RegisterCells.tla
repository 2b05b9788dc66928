--------------------------- MODULE RegisterCells ---------------------------
(***************************************************************************)
(* The closures of RegisterDecompile.cpp's reconstruction.  The rendered    *)
(* program keeps the registers of an activation in a table, moves a         *)
(* register into a heap cell when it is captured by reference, and passes   *)
(* the captured cells to a closure in a table captures[pc], one for each    *)
(* instruction that makes closures.  Luau's virtual machine, whose bytecode *)
(* is being rendered, gives each closure its own upvalues, which stay tied  *)
(* to a register until CLOSEUPVALS.  One activation runs on both, step by   *)
(* step; its instructions may be executed in loops, its registers be used   *)
(* again by later variables, and its closures be called at any time.        *)
(*                                                                          *)
(* The reconstruction is not exact: it never takes a cell away from a       *)
(* register, and a closure looks captures[pc] up when it is called.  What   *)
(* it keeps, and what the two sides share when, is stated with two history  *)
(* variables, home and mixed.                                               *)
(***************************************************************************)
EXTENDS Integers, Sequences

CONSTANTS
    Registers,    \* the number of registers
    Value,        \* the values a register may hold
    Site,         \* the NEWCLOSURE and DUPCLOSURE instructions, with the
                  \* CAPTURE that follows
    Capture,      \* the register a that a site assigns the closure to, and
                  \* the kind and operand b of its CAPTURE
    MaxClosures   \* bound on the closures made

Reg == 0 .. Registers-1

ASSUME CellsAssumption ==
    /\ Registers \in Nat \ {0}
    /\ Value # {}
    /\ Capture \in [Site -> [a : Reg, kind : {"VAL", "REF", "UPVAL"}, b : Reg]]
    /\ MaxClosures \in Nat

VARIABLES
    \* the virtual machine
    vmRegister,
    vmUpvalue,   \* a value, and the register it is tied to, if any
    \* the reconstruction
    registers, cells,  \* cells[r]: the cell of a captured register
    cell,              \* the value of each cell
    captures,          \* captures[pc]
    \* both
    closures,    \* where each was made, and its upvalue in the machine
    closed,      \* the registers that CLOSEUPVALS has taken out of scope
    \* history
    home,        \* the cell that each upvalue was given when it was made
    mixed        \* the cells that a register kept although a new variable
                 \* has moved in, and the copies made from them

vm == <<vmRegister, vmUpvalue>>
reconstruction == <<registers, cells, cell, captures>>
history == <<home, mixed>>
vars == <<vm, reconstruction, closures, closed, history>>

NoReg == -1
NoCell == 0

(* What is left in the register table when a register moves into a cell. *)
Nil == "nil"

(* The enclosing function's upvalue is number 1 on both sides. *)
Outer == 1

Init ==
    \E v \in Value, w \in Value :
        /\ vmRegister = [r \in Reg |-> v]
        /\ vmUpvalue = <<[value |-> w, tied |-> NoReg]>>
        /\ registers = [r \in Reg |-> v]
        /\ cells = [r \in Reg |-> NoCell]
        /\ cell = <<w>>
        /\ captures = [s \in Site |-> NoCell]
        /\ closures = << >>
        /\ closed = {}
        /\ home = <<Outer>>
        /\ mixed = {}

-----------------------------------------------------------------------------
(* The virtual machine. *)

UpvalueRead(u) ==
    IF vmUpvalue[u].tied = NoReg THEN vmUpvalue[u].value ELSE vmRegister[vmUpvalue[u].tied]

UpvalueWrite(u, v) ==
    IF vmUpvalue[u].tied = NoReg
    THEN vmUpvalue' = [vmUpvalue EXCEPT ![u].value = v] /\ UNCHANGED vmRegister
    ELSE vmRegister' = [vmRegister EXCEPT ![vmUpvalue[u].tied] = v] /\ UNCHANGED vmUpvalue

(* The open upvalues of register r: at most one. *)
Open(r) == {u \in DOMAIN vmUpvalue : vmUpvalue[u].tied = r}

(* The upvalue that a capture yields, after new ones have been appended. *)
UpvalueFor(c) ==
    CASE c.kind = "UPVAL" -> Outer
      [] c.kind = "REF" /\ Open(c.b) # {} -> CHOOSE u \in Open(c.b) : TRUE
      [] OTHER -> Len(vmUpvalue) + 1

(* The closure, which is v here, is in register a when the captures are     *)
(* taken.                                                                   *)
VMCapture(c, v) ==
    /\ vmRegister' = [vmRegister EXCEPT ![c.a] = v]
    /\ vmUpvalue' = IF UpvalueFor(c) <= Len(vmUpvalue) THEN vmUpvalue
                    ELSE Append(vmUpvalue, [value |-> vmRegister'[c.b],
                                            tied |-> IF c.kind = "REF" THEN c.b ELSE NoReg])

VMClose(a) ==
    /\ vmUpvalue' = [u \in DOMAIN vmUpvalue |->
                        IF vmUpvalue[u].tied >= a
                        THEN [value |-> UpvalueRead(u), tied |-> NoReg]
                        ELSE vmUpvalue[u]]
    /\ UNCHANGED vmRegister

-----------------------------------------------------------------------------
(* The reconstruction. *)

get(r) == IF cells[r] # NoCell THEN cell[cells[r]] ELSE registers[r]

(* Mutant: an assignment to a captured register does not reach its cell. *)
cellAfterSetStale(r, v) == cell

(* The cells and the register table after set(r, v). *)
cellAfterSet(r, v) ==
    IF cells[r] # NoCell THEN [cell EXCEPT ![cells[r]] = v] ELSE cell

registersAfterSet(r, v) ==
    IF cells[r] # NoCell THEN registers ELSE [registers EXCEPT ![r] = v]

(* Mutant: every capture by reference makes a cell of its own. *)
CellForFresh(c) == IF c.kind = "UPVAL" THEN Outer ELSE Len(cell) + 1

(* The cell that a capture puts into captures[pc]. *)
CellFor(c) ==
    CASE c.kind = "UPVAL" -> Outer
      [] c.kind = "REF" /\ cells[c.b] # NoCell -> cells[c.b]
      [] OTHER -> Len(cell) + 1

(* What a capture of register b reads after set(a, v). *)
getAfter(a, v, b) ==
    IF cells[b] # NoCell THEN cellAfterSet(a, v)[cells[b]] ELSE registersAfterSet(a, v)[b]

(* Mutant: a captured register keeps no link to its cell. *)
RenderedCaptureUnlinked(s, v) ==
    LET c == Capture[s] IN
    /\ cell' = IF CellFor(c) <= Len(cell) THEN cellAfterSet(c.a, v)
               ELSE Append(cellAfterSet(c.a, v), getAfter(c.a, v, c.b))
    /\ captures' = [captures EXCEPT ![s] = CellFor(c)]
    /\ registers' = registersAfterSet(c.a, v)
    /\ UNCHANGED cells

(* captures[pc] = {}, the assignment of the closure, and the capture. *)
RenderedCapture(s, v) ==
    LET c == Capture[s] IN
    /\ cell' = IF CellFor(c) <= Len(cell) THEN cellAfterSet(c.a, v)
               ELSE Append(cellAfterSet(c.a, v), getAfter(c.a, v, c.b))
    /\ cells' = IF c.kind = "REF" THEN [cells EXCEPT ![c.b] = CellFor(c)] ELSE cells
    /\ captures' = [captures EXCEPT ![s] = CellFor(c)]
    /\ registers' = IF c.kind = "REF" /\ cells[c.b] = NoCell
                    THEN [registersAfterSet(c.a, v) EXCEPT ![c.b] = Nil] ELSE registersAfterSet(c.a, v)

(* CLOSEUPVALS is rendered as a comment. *)
RenderedClose(a) == UNCHANGED reconstruction

(* A closure made at site s is "function(...) return                        *)
(* byteveil_functions[child](captures[pc], ...) end": captures[pc] is       *)
(* looked up when it is called.                                             *)
CellOf(k) == captures[closures[k].site]

(* History: the cells that are mixed after register r is assigned to.       *)
mixedAfterSet(r) ==
    IF r \in closed /\ cells[r] # NoCell THEN mixed \cup {cells[r]} ELSE mixed

(* History: a copy of a mixed cell is mixed. *)
mixedAfterCapture(c) ==
    IF c.kind = "VAL" /\ cells[c.b] \in mixedAfterSet(c.a)
    THEN mixedAfterSet(c.a) \cup {CellFor(c)} ELSE mixedAfterSet(c.a)

-----------------------------------------------------------------------------
Assign(r, v) ==
    /\ vmRegister' = [vmRegister EXCEPT ![r] = v]
    /\ UNCHANGED vmUpvalue
    /\ cell' = cellAfterSet(r, v)
    /\ registers' = registersAfterSet(r, v)
    /\ UNCHANGED <<cells, captures>>
    /\ closed' = closed \ {r}
    /\ mixed' = mixedAfterSet(r)
    /\ UNCHANGED <<closures, home>>

(* A register that is captured is in scope; the closure itself may be in it. *)
MakeClosure(s, v) ==
    /\ Len(closures) < MaxClosures
    /\ Capture[s].kind # "UPVAL" => Capture[s].b \notin closed \ {Capture[s].a}
    /\ VMCapture(Capture[s], v)
    /\ RenderedCapture(s, v)
    /\ closures' = Append(closures, [site |-> s, up |-> UpvalueFor(Capture[s])])
    /\ closed' = closed \ {Capture[s].a}
    /\ home' = IF UpvalueFor(Capture[s]) <= Len(vmUpvalue) THEN home
               ELSE Append(home, CellFor(Capture[s]))
    /\ mixed' = mixedAfterCapture(Capture[s])

CloseUpvals(a) ==
    /\ VMClose(a)
    /\ RenderedClose(a)
    /\ closed' = closed \cup {r \in Reg : r >= a}
    /\ UNCHANGED <<closures, history>>

(* Closure k is called and assigns v to its upvalue.  What was captured by  *)
(* value is no UpVal object, and SETUPVAL must not meet it.                 *)
SetUpval(k, v) ==
    /\ Capture[closures[k].site].kind # "VAL"
    /\ UpvalueWrite(closures[k].up, v)
    /\ cell' = [cell EXCEPT ![CellOf(k)] = v]
    /\ UNCHANGED <<registers, cells, captures, closures, closed, history>>

Next == \/ \E r \in Reg, v \in Value : Assign(r, v)
        \/ \E s \in Site, v \in Value : MakeClosure(s, v)
        \/ \E a \in Reg : CloseUpvals(a)
        \/ \E k \in DOMAIN closures, v \in Value : SetUpval(k, v)

Spec == Init /\ [][Next]_vars

-----------------------------------------------------------------------------
TypeOK ==
    /\ vmRegister \in [Reg -> Value]
    /\ \A u \in DOMAIN vmUpvalue : vmUpvalue[u] \in [value : Value, tied : Reg \cup {NoReg}]
    /\ registers \in [Reg -> Value \cup {Nil}]
    /\ cell \in Seq(Value)
    /\ cells \in [Reg -> {NoCell} \cup DOMAIN cell]
    /\ captures \in [Site -> {NoCell} \cup DOMAIN cell]
    /\ \A k \in DOMAIN closures : closures[k] \in [site : Site, up : DOMAIN vmUpvalue]
    /\ closed \subseteq Reg
    /\ home \in Seq(DOMAIN cell)
    /\ mixed \subseteq DOMAIN cell

(* captures[pc] was replaced when its site made another closure. *)
Replaced(k) == CellOf(k) # home[closures[k].up]

(* A register that is in scope has the same value on both sides, however    *)
(* often it was captured and written through closures, unless it still has  *)
(* the cell of a variable that CLOSEUPVALS had ended.                       *)
SameRegisters ==
    \A r \in Reg \ closed : cells[r] \notin mixed => get(r) = vmRegister[r]

(* A closure that is called sees the upvalue value it would see in the      *)
(* virtual machine, whatever loops made it, unless it was captured by value *)
(* at a site that has made another closure since, or its cell is mixed.     *)
SameUpvalues ==
    \A k \in DOMAIN closures :
        ~ Replaced(k) /\ CellOf(k) \notin mixed
            => cell[CellOf(k)] = UpvalueRead(closures[k].up)

(* Two closures that share a variable in the virtual machine share a cell,  *)
(* always.  Two that share a cell share the variable, unless captures[pc]   *)
(* of one of them was replaced, which happens to captures by value only, or *)
(* the cell is mixed.                                                       *)
SharingKept ==
    \A k, l \in DOMAIN closures :
        /\ closures[k].up = closures[l].up => CellOf(k) = CellOf(l)
        /\ CellOf(k) = CellOf(l) /\ CellOf(k) \notin mixed
              => closures[k].up = closures[l].up \/ Replaced(k) \/ Replaced(l)
        /\ Replaced(k) => Capture[closures[k].site].kind = "VAL"

(* What the README says of the register-state backend: by-value and         *)
(* by-reference captures are preserved, for every closure.                  *)
CapturesPreserved ==
    \A k \in DOMAIN closures : cell[CellOf(k)] = UpvalueRead(closures[k].up)
=============================================================================
