------------------------ MODULE RegisterCellsProof ------------------------
(***************************************************************************)
(* The closures of the reconstruction, for every program: registers used    *)
(* again, sites executed any number of times, and any number of registers,  *)
(* values, sites and closures.                                              *)
(*                                                                          *)
(* The invariant is about all upvalues and registers, not only those some   *)
(* closure can see: a register that is not yet captured must agree, or its  *)
(* first capture would already go wrong.  An open upvalue's cell is the one *)
(* its register has (OpenIsCell); a register in scope whose cell is not     *)
(* mixed has an open upvalue (CellIsOpen); and a cell that is not mixed     *)
(* belongs to one upvalue (OwnCell) and has its value (CellsAgree).         *)
(***************************************************************************)
EXTENDS RegisterCells, SequenceTheorems, TLAPS

Upvalue == [value : Value, tied : Reg \cup {NoReg}]

UpvaluesTyped ==
    /\ vmUpvalue \in Seq(Upvalue)
    /\ closures \in Seq([site : Site, up : Int])
    /\ Len(home) = Len(vmUpvalue)
    /\ Len(cell) >= Outer /\ Len(home) >= Outer /\ home[Outer] = Outer

OwnCell ==
    \A u, w \in DOMAIN vmUpvalue : home[u] = home[w] /\ home[u] \notin mixed => u = w

OpenIsCell ==
    \A u \in DOMAIN vmUpvalue :
        vmUpvalue[u].tied # NoReg =>
            /\ vmUpvalue[u].tied \notin closed
            /\ cells[vmUpvalue[u].tied] = home[u]
            /\ \A w \in DOMAIN vmUpvalue : vmUpvalue[w].tied = vmUpvalue[u].tied => w = u

CellIsOpen ==
    \A r \in Reg \ closed :
        cells[r] # NoCell /\ cells[r] \notin mixed => \E u \in DOMAIN vmUpvalue : vmUpvalue[u].tied = r

CellsAgree ==
    \A u \in DOMAIN vmUpvalue : home[u] \notin mixed => cell[home[u]] = UpvalueRead(u)

UncapturedAgree ==
    \A r \in Reg \ closed : cells[r] = NoCell => registers[r] = vmRegister[r]

(* The capture that closure k was made with. *)
CaptureOf(k) == Capture[closures[k].site]

Linked(k) ==
    /\ CellOf(k) \in DOMAIN cell
    /\ CaptureOf(k).kind = "UPVAL" => closures[k].up = Outer /\ CellOf(k) = Outer
    /\ CaptureOf(k).kind = "REF" =>
          CellOf(k) = home[closures[k].up] /\ CellOf(k) = cells[CaptureOf(k).b]
    /\ CaptureOf(k).kind = "VAL" =>
          /\ closures[k].up # Outer
          /\ vmUpvalue[closures[k].up].tied = NoReg
          /\ \A l \in DOMAIN closures : closures[l].up = closures[k].up => l = k

ClosuresLinked == \A k \in DOMAIN closures : Linked(k)

IInv == /\ TypeOK /\ UpvaluesTyped /\ OwnCell /\ OpenIsCell /\ CellIsOpen
        /\ CellsAgree /\ UncapturedAgree /\ ClosuresLinked

-----------------------------------------------------------------------------
(* At the start nothing is captured and both sides agree. *)
LEMMA InitIInv == Init => IInv
<1> SUFFICES ASSUME Init PROVE IInv
  OBVIOUS
<1> USE CellsAssumption DEF Reg, NoReg, NoCell, Outer, Nil
<1>1. PICK v \in Value, w \in Value :
        /\ vmRegister = [r \in Reg |-> v]
        /\ vmUpvalue = <<[value |-> w, tied |-> NoReg]>>
        /\ registers = [r \in Reg |-> v]
        /\ cells = [r \in Reg |-> NoCell]
        /\ cell = <<w>>
        /\ captures = [s \in Site |-> NoCell]
        /\ closures = << >>
        /\ closed = {}
        /\ home = <<Outer>>
        /\ mixed = {}
  BY DEF Init
<1>2. TypeOK
  BY <1>1 DEF TypeOK
<1>3. UpvaluesTyped
  BY <1>1 DEF UpvaluesTyped, Upvalue
<1>4. OwnCell /\ OpenIsCell /\ CellIsOpen
  BY <1>1 DEF OwnCell, OpenIsCell, CellIsOpen
<1>5. CellsAgree
  BY <1>1 DEF CellsAgree, UpvalueRead
<1>6. UncapturedAgree /\ ClosuresLinked
  BY <1>1 DEF UncapturedAgree, ClosuresLinked
<1> QED
  BY <1>2, <1>3, <1>4, <1>5, <1>6 DEF IInv

(* The domains of the upvalues, their homes and the cells, and the fields. *)
LEMMA UpvalueFields ==
    ASSUME IInv
    PROVE  /\ DOMAIN vmUpvalue = 1 .. Len(vmUpvalue) /\ DOMAIN cell = 1 .. Len(cell)
           /\ DOMAIN home = DOMAIN vmUpvalue
           /\ Len(vmUpvalue) \in Nat /\ Len(cell) \in Nat
           /\ Outer \in DOMAIN vmUpvalue /\ Outer \in DOMAIN cell
           /\ NoCell \notin DOMAIN cell
           /\ \A u \in DOMAIN vmUpvalue :
                 /\ home[u] \in DOMAIN cell
                 /\ vmUpvalue[u] \in Upvalue
                 /\ vmUpvalue[u].value \in Value
                 /\ vmUpvalue[u].tied \in Reg \cup {NoReg}
                 /\ UpvalueRead(u) \in Value
<1>1. /\ vmUpvalue \in Seq(Upvalue) /\ cell \in Seq(Value) /\ vmRegister \in [Reg -> Value]
      /\ home \in Seq(DOMAIN cell)
  BY DEF IInv, TypeOK, UpvaluesTyped
<1>2. /\ DOMAIN vmUpvalue = 1 .. Len(vmUpvalue) /\ DOMAIN cell = 1 .. Len(cell)
      /\ DOMAIN home = DOMAIN vmUpvalue
      /\ Len(vmUpvalue) \in Nat /\ Len(cell) \in Nat
      /\ Outer \in DOMAIN vmUpvalue /\ Outer \in DOMAIN cell
      /\ NoCell \notin DOMAIN cell
  BY <1>1 DEF IInv, UpvaluesTyped, Outer, NoCell
<1>3. \A u \in DOMAIN vmUpvalue : vmUpvalue[u] \in Upvalue /\ home[u] \in DOMAIN cell
  BY <1>1, <1>2, ElementOfSeq
<1>4. \A u \in DOMAIN vmUpvalue : vmUpvalue[u].value \in Value /\ vmUpvalue[u].tied \in Reg \cup {NoReg}
  BY <1>3 DEF Upvalue
<1>5. \A u \in DOMAIN vmUpvalue : UpvalueRead(u) \in Value
  BY <1>1, <1>4 DEF UpvalueRead
<1> QED
  BY <1>2, <1>3, <1>4, <1>5

-----------------------------------------------------------------------------
(* The machine's registers after v is assigned to register a, and the value *)
(* of upvalue w when the registers are R.                                   *)
vmAfterSet(a, v) == [vmRegister EXCEPT ![a] = v]

ReadWith(R, w) ==
    IF vmUpvalue[w].tied = NoReg THEN vmUpvalue[w].value ELSE R[vmUpvalue[w].tied]

AgreeAfterSet(a, v) ==
    /\ cellAfterSet(a, v) \in Seq(Value)
    /\ Len(cellAfterSet(a, v)) = Len(cell)
    /\ registersAfterSet(a, v) \in [Reg -> Value \cup {Nil}]
    /\ vmAfterSet(a, v) \in [Reg -> Value]
    /\ mixed \subseteq mixedAfterSet(a) /\ mixedAfterSet(a) \subseteq DOMAIN cell
    /\ \A w \in DOMAIN vmUpvalue :
          home[w] \notin mixedAfterSet(a)
              => cellAfterSet(a, v)[home[w]] = ReadWith(vmAfterSet(a, v), w)
    /\ \A r \in Reg \ (closed \ {a}) :
          /\ cells[r] = NoCell => registersAfterSet(a, v)[r] = vmAfterSet(a, v)[r]
          /\ cells[r] # NoCell /\ cells[r] \notin mixedAfterSet(a)
                => \E u \in DOMAIN vmUpvalue : vmUpvalue[u].tied = r
          /\ cells[r] \notin mixedAfterSet(a) => getAfter(a, v, r) = vmAfterSet(a, v)[r]
          /\ getAfter(a, v, r) \in Value

(* An assignment keeps the two sides in agreement, where it does not mix a  *)
(* cell, and a capture of a register in scope then reads the machine's      *)
(* value.                                                                   *)
LEMMA AfterSet ==
    ASSUME IInv, NEW a \in Reg, NEW v \in Value
    PROVE  AgreeAfterSet(a, v)
<1> DEFINE C == cellAfterSet(a, v)
           G == registersAfterSet(a, v)
           R == vmAfterSet(a, v)
           M == mixedAfterSet(a)
<1>1. /\ cells \in [Reg -> {NoCell} \cup DOMAIN cell] /\ registers \in [Reg -> Value \cup {Nil}]
      /\ vmRegister \in [Reg -> Value] /\ cell \in Seq(Value) /\ mixed \subseteq DOMAIN cell
  BY DEF IInv, TypeOK
<1>2. C \in Seq(Value) /\ Len(C) = Len(cell)
  BY <1>1 DEF cellAfterSet
<1>3. G \in [Reg -> Value \cup {Nil}] /\ R \in [Reg -> Value]
  BY <1>1 DEF registersAfterSet, vmAfterSet
<1>4. mixed \subseteq M /\ M \subseteq DOMAIN cell
  BY <1>1 DEF mixedAfterSet
<1>5. ASSUME NEW r \in Reg \ (closed \ {a}), cells[r] # NoCell, cells[r] \notin M
      PROVE  /\ r \notin closed /\ cells[r] \notin mixed
             /\ \E u \in DOMAIN vmUpvalue : vmUpvalue[u].tied = r
  <2>1. r \notin closed /\ cells[r] \notin mixed
    BY <1>4, <1>5 DEF mixedAfterSet
  <2> QED
    BY <1>5, <2>1 DEF IInv, CellIsOpen
<1>6. ASSUME NEW w \in DOMAIN vmUpvalue, home[w] \notin M
      PROVE  C[home[w]] = ReadWith(R, w)
  <2>1. /\ home[w] \in DOMAIN cell /\ home[w] # NoCell /\ home[w] \notin mixed
        /\ cell[home[w]] = UpvalueRead(w)
        /\ vmUpvalue[w].tied \in Reg \cup {NoReg}
    BY <1>4, <1>6, UpvalueFields DEF IInv, CellsAgree
  <2>2. vmUpvalue[w].tied = a => cells[a] = home[w]
    BY CellsAssumption DEF IInv, OpenIsCell, Reg, NoReg
  <2>3. ReadWith(R, w) = IF vmUpvalue[w].tied = a THEN v ELSE UpvalueRead(w)
    BY <1>1, <2>1, CellsAssumption DEF ReadWith, vmAfterSet, UpvalueRead, Reg, NoReg
  <2>4. CASE cells[a] = home[w]
    <3>1. C[home[w]] = v
      BY <1>1, <2>1, <2>4 DEF cellAfterSet
    <3>2. PICK u \in DOMAIN vmUpvalue : vmUpvalue[u].tied = a
      BY <1>5, <1>6, <2>1, <2>4
    <3>3. home[u] = home[w]
      BY <2>4, <3>2, CellsAssumption DEF IInv, OpenIsCell, Reg, NoReg
    <3>4. u = w
      BY <2>1, <3>3 DEF IInv, OwnCell
    <3> QED
      BY <2>3, <3>1, <3>2, <3>4
  <2>5. CASE cells[a] # home[w]
    <3>1. C[home[w]] = cell[home[w]]
      BY <1>1, <2>1, <2>5 DEF cellAfterSet
    <3> QED
      BY <2>1, <2>2, <2>3, <2>5, <3>1
  <2> QED
    BY <2>4, <2>5
<1>7. ASSUME NEW r \in Reg \ (closed \ {a}), cells[r] = NoCell
      PROVE  G[r] = R[r]
  BY <1>1, <1>7 DEF registersAfterSet, vmAfterSet, IInv, UncapturedAgree
<1>8. ASSUME NEW r \in Reg \ (closed \ {a}), cells[r] \notin M
      PROVE  getAfter(a, v, r) = R[r]
  <2>1. CASE cells[r] = NoCell
    BY <1>7, <2>1 DEF getAfter
  <2>2. CASE cells[r] # NoCell
    <3>1. PICK u \in DOMAIN vmUpvalue : vmUpvalue[u].tied = r
      BY <1>5, <1>8, <2>2
    <3>2. cells[r] = home[u] /\ ReadWith(R, u) = R[r]
      BY <3>1, CellsAssumption DEF IInv, OpenIsCell, ReadWith, Reg, NoReg
    <3> QED
      BY <1>6, <1>8, <2>2, <3>2 DEF getAfter
  <2> QED
    BY <2>1, <2>2
<1>9. ASSUME NEW r \in Reg \ (closed \ {a}) PROVE getAfter(a, v, r) \in Value
  <2>1. CASE cells[r] = NoCell
    BY <1>3, <1>7, <2>1 DEF getAfter
  <2>2. CASE cells[r] # NoCell
    <3>1. cells[r] \in 1 .. Len(C)
      BY <1>1, <1>2, <2>2, UpvalueFields
    <3> QED
      BY <1>2, <2>2, <3>1, ElementOfSeq DEF getAfter
  <2> QED
    BY <2>1, <2>2
<1> QED
  BY <1>2, <1>3, <1>4, <1>5, <1>6, <1>7, <1>8, <1>9 DEF AgreeAfterSet

(* An assignment reaches the register and, through the open upvalue on one  *)
(* side and the cell on the other, the same closures.                       *)
LEMMA AssignIInv ==
    ASSUME IInv, NEW r \in Reg, NEW v \in Value, Assign(r, v)
    PROVE  IInv'
<1>1. /\ vmRegister' = vmAfterSet(r, v) /\ cell' = cellAfterSet(r, v)
      /\ registers' = registersAfterSet(r, v) /\ mixed' = mixedAfterSet(r)
      /\ closed' = closed \ {r}
      /\ UNCHANGED <<vmUpvalue, cells, captures, closures, home>>
  BY DEF Assign, vmAfterSet
<1>2. AgreeAfterSet(r, v)
  BY AfterSet
<1>3. Len(cell') = Len(cell) /\ cell' \in Seq(Value) /\ DOMAIN cell' = DOMAIN cell
  BY <1>1, <1>2, UpvalueFields DEF AgreeAfterSet
<1>4. TypeOK'
  BY <1>1, <1>2, <1>3 DEF AgreeAfterSet, IInv, TypeOK
<1>5. UpvaluesTyped' /\ ClosuresLinked'
  BY <1>1, <1>3 DEF IInv, UpvaluesTyped, ClosuresLinked, Linked, CellOf, CaptureOf
<1>6. OwnCell' /\ OpenIsCell'
  BY <1>1, <1>2 DEF AgreeAfterSet, IInv, OwnCell, OpenIsCell
<1>7. CellIsOpen' /\ UncapturedAgree'
  BY <1>1, <1>2 DEF AgreeAfterSet, CellIsOpen, UncapturedAgree
<1>8. CellsAgree'
  BY <1>1, <1>2 DEF AgreeAfterSet, CellsAgree, UpvalueRead, ReadWith
<1> QED
  BY <1>4, <1>5, <1>6, <1>7, <1>8 DEF IInv

(* CLOSEUPVALS gives an upvalue the value that its cell already has. *)
LEMMA CloseIInv ==
    ASSUME IInv, NEW a \in Reg, CloseUpvals(a)
    PROVE  IInv'
<1> USE CellsAssumption DEF Reg, NoReg
<1>1. vmUpvalue' = [u \in DOMAIN vmUpvalue |->
                        IF vmUpvalue[u].tied >= a
                        THEN [value |-> UpvalueRead(u), tied |-> NoReg]
                        ELSE vmUpvalue[u]]
  BY DEF CloseUpvals, VMClose
<1>2. UNCHANGED <<vmRegister, registers, cells, cell, captures, closures, home, mixed>>
  BY DEF CloseUpvals, VMClose, RenderedClose, reconstruction, history
<1>3. closed' = closed \cup {r \in Reg : r >= a}
  BY DEF CloseUpvals
<1>4. /\ vmUpvalue' \in Seq(Upvalue)
      /\ Len(vmUpvalue') = Len(vmUpvalue)
      /\ DOMAIN vmUpvalue' = DOMAIN vmUpvalue
  <2>1. ASSUME NEW u \in DOMAIN vmUpvalue PROVE vmUpvalue'[u] \in Upvalue
    <3>1. [value |-> UpvalueRead(u), tied |-> NoReg] \in Upvalue
      BY UpvalueFields DEF Upvalue
    <3>2. vmUpvalue'[u] \in {[value |-> UpvalueRead(u), tied |-> NoReg], vmUpvalue[u]}
      BY <1>1
    <3> QED
      BY <3>1, <3>2, UpvalueFields
  <2>2. vmUpvalue' \in [1 .. Len(vmUpvalue) -> Upvalue]
    BY <1>1, <2>1, UpvalueFields
  <2>3. \A n \in Nat : vmUpvalue' \in [1 .. n -> Upvalue] =>
          vmUpvalue' \in Seq(Upvalue) /\ Len(vmUpvalue') = n /\ DOMAIN vmUpvalue' = 1 .. n
    OBVIOUS
  <2>4. Len(vmUpvalue) \in Nat /\ DOMAIN vmUpvalue = 1 .. Len(vmUpvalue)
    BY UpvalueFields
  <2> QED
    BY <2>2, <2>3, <2>4
<1>5. \A w \in DOMAIN vmUpvalue :
        vmUpvalue'[w].tied = IF vmUpvalue[w].tied >= a THEN NoReg ELSE vmUpvalue[w].tied
  <2> SUFFICES ASSUME NEW w \in DOMAIN vmUpvalue
               PROVE  vmUpvalue'[w].tied = IF vmUpvalue[w].tied >= a THEN NoReg ELSE vmUpvalue[w].tied
    OBVIOUS
  <2> QED
    BY <1>1
<1>6. TypeOK' /\ UpvaluesTyped'
  <2>1. \A u \in DOMAIN vmUpvalue' : vmUpvalue'[u] \in Upvalue
    BY <1>4, ElementOfSeq
  <2> QED
    BY <1>2, <1>3, <1>4, <2>1 DEF IInv, TypeOK, Upvalue, UpvaluesTyped
<1>7. OwnCell'
  BY <1>2, <1>4 DEF IInv, OwnCell
<1>8. OpenIsCell'
  <2> SUFFICES ASSUME NEW u \in DOMAIN vmUpvalue, vmUpvalue'[u].tied # NoReg
               PROVE  /\ vmUpvalue'[u].tied \notin closed'
                      /\ cells[vmUpvalue'[u].tied] = home[u]
                      /\ \A w \in DOMAIN vmUpvalue : vmUpvalue'[w].tied = vmUpvalue'[u].tied => w = u
    BY <1>2, <1>4 DEF OpenIsCell
  <2>1. vmUpvalue'[u].tied = vmUpvalue[u].tied /\ ~ (vmUpvalue[u].tied >= a) /\ vmUpvalue[u].tied # NoReg
    BY <1>5
  <2>2. /\ vmUpvalue[u].tied \notin closed /\ cells[vmUpvalue[u].tied] = home[u]
        /\ \A w \in DOMAIN vmUpvalue : vmUpvalue[w].tied = vmUpvalue[u].tied => w = u
    BY <2>1 DEF IInv, OpenIsCell
  <2>3. ASSUME NEW w \in DOMAIN vmUpvalue, vmUpvalue'[w].tied = vmUpvalue'[u].tied PROVE w = u
    <3>1. vmUpvalue'[w].tied = vmUpvalue[w].tied
      BY <1>5, <2>1, <2>3
    <3> QED
      BY <2>1, <2>2, <2>3, <3>1
  <2> QED
    BY <1>3, <2>1, <2>2, <2>3
<1>9. CellIsOpen'
  <2> SUFFICES ASSUME NEW r \in Reg \ closed', cells[r] # NoCell, cells[r] \notin mixed
               PROVE  \E u \in DOMAIN vmUpvalue : vmUpvalue'[u].tied = r
    BY <1>2, <1>4 DEF CellIsOpen
  <2>1. PICK u \in DOMAIN vmUpvalue : vmUpvalue[u].tied = r
    BY <1>3 DEF IInv, CellIsOpen
  <2> QED
    BY <1>3, <1>5, <2>1
<1>10. CellsAgree'
  BY <1>1, <1>2, <1>4, UpvalueFields DEF IInv, CellsAgree, UpvalueRead
<1>11. UncapturedAgree'
  BY <1>2, <1>3 DEF IInv, UncapturedAgree
<1>12. ClosuresLinked'
  BY <1>2, <1>4, <1>5 DEF IInv, TypeOK, ClosuresLinked, Linked, CellOf, CaptureOf
<1> QED
  BY <1>6, <1>7, <1>8, <1>9, <1>10, <1>11, <1>12 DEF IInv

(* A call that assigns an upvalue assigns the upvalue's cell. *)
LEMMA SetUpvalIInv ==
    ASSUME IInv, NEW k \in DOMAIN closures, NEW v \in Value, SetUpval(k, v)
    PROVE  IInv'
<1> USE CellsAssumption DEF Reg, NoReg
<1> DEFINE u == closures[k].up
           c == home[u]
<1>1. u \in DOMAIN vmUpvalue /\ c \in DOMAIN cell /\ CellOf(k) = c
  <2>1. /\ closures[k] \in [site : Site, up : DOMAIN vmUpvalue] /\ Linked(k)
        /\ home[Outer] = Outer
    BY DEF IInv, TypeOK, ClosuresLinked, UpvaluesTyped
  <2>2. CaptureOf(k).kind \in {"REF", "UPVAL"}
    BY <2>1 DEF SetUpval, CaptureOf
  <2> QED
    BY <2>1, <2>2, UpvalueFields DEF Linked
<1>2. UNCHANGED <<registers, cells, captures, closures, closed, home, mixed>>
  BY DEF SetUpval, history
<1>3. cell' = [cell EXCEPT ![c] = v]
  BY <1>1 DEF SetUpval
<1>4. cell' \in Seq(Value) /\ Len(cell') = Len(cell) /\ DOMAIN cell' = DOMAIN cell
  BY <1>1, <1>3 DEF IInv, TypeOK
<1>5. \A w \in DOMAIN vmUpvalue : cell'[home[w]] = IF home[w] = c THEN v ELSE cell[home[w]]
  BY <1>1, <1>3, UpvalueFields
<1>6. CASE vmUpvalue[u].tied = NoReg
  <2>1. vmUpvalue' = [vmUpvalue EXCEPT ![u].value = v] /\ UNCHANGED vmRegister
    BY <1>6 DEF SetUpval, UpvalueWrite
  <2>2. /\ vmUpvalue' \in Seq(Upvalue)
        /\ Len(vmUpvalue') = Len(vmUpvalue)
        /\ DOMAIN vmUpvalue' = DOMAIN vmUpvalue
    <3>1. [vmUpvalue[u] EXCEPT !.value = v] \in Upvalue
      BY <1>1, UpvalueFields DEF Upvalue
    <3>2. vmUpvalue \in Seq(Upvalue) /\ u \in 1 .. Len(vmUpvalue)
      BY <1>1, UpvalueFields DEF IInv, UpvaluesTyped
    <3>3. vmUpvalue' = [vmUpvalue EXCEPT ![u] = [vmUpvalue[u] EXCEPT !.value = v]]
      BY <2>1
    <3> HIDE DEF u
    <3> QED
      BY <3>1, <3>2, <3>3, ExceptSeq
  <2>3. \A w \in DOMAIN vmUpvalue : vmUpvalue'[w].tied = vmUpvalue[w].tied
    BY <1>1, <2>1, UpvalueFields DEF Upvalue
  <2>4. TypeOK' /\ UpvaluesTyped'
    <3>1. \A w \in DOMAIN vmUpvalue' : vmUpvalue'[w] \in Upvalue
      BY <2>2, ElementOfSeq
    <3> QED
      BY <1>2, <1>4, <2>1, <2>2, <3>1 DEF IInv, TypeOK, Upvalue, UpvaluesTyped
  <2>5. OwnCell' /\ OpenIsCell' /\ CellIsOpen'
    <3>1. OwnCell'
      BY <1>2, <2>2 DEF IInv, OwnCell
    <3>2. OpenIsCell'
      BY <1>2, <2>2, <2>3 DEF IInv, OpenIsCell
    <3>3. CellIsOpen'
      BY <1>2, <2>2, <2>3 DEF IInv, CellIsOpen
    <3> QED
      BY <3>1, <3>2, <3>3
  <2>6. CellsAgree'
    <3>1. ASSUME NEW w \in DOMAIN vmUpvalue, home[w] \notin mixed
          PROVE  cell'[home[w]] = UpvalueRead(w)'
      <4>1. home[w] = c <=> w = u
        BY <1>1, <3>1 DEF IInv, OwnCell
      <4>2. UpvalueRead(w)' = IF w = u THEN v ELSE UpvalueRead(w)
        BY <1>1, <1>6, <2>1, <2>2, UpvalueFields DEF UpvalueRead, Upvalue
      <4> QED
        BY <1>5, <3>1, <4>1, <4>2 DEF IInv, CellsAgree
    <3> QED
      BY <1>2, <2>2, <3>1 DEF CellsAgree
  <2>7. UncapturedAgree' /\ ClosuresLinked'
    BY <1>2, <1>4, <2>1, <2>3 DEF IInv, TypeOK, UncapturedAgree, ClosuresLinked, Linked, CellOf, CaptureOf
  <2> QED
    BY <2>4, <2>5, <2>6, <2>7 DEF IInv
<1>7. CASE vmUpvalue[u].tied # NoReg
  <2> DEFINE r == vmUpvalue[u].tied
  <2>1. vmRegister' = [vmRegister EXCEPT ![r] = v] /\ UNCHANGED vmUpvalue
    BY <1>7 DEF SetUpval, UpvalueWrite
  <2>2. /\ r \in Reg \ closed /\ cells[r] = c
        /\ \A w \in DOMAIN vmUpvalue : vmUpvalue[w].tied = r <=> w = u
    BY <1>1, <1>7, UpvalueFields DEF IInv, OpenIsCell
  <2>3. TypeOK' /\ UpvaluesTyped'
    BY <1>2, <1>4, <2>1, <2>2 DEF IInv, TypeOK, UpvaluesTyped
  <2>4. OwnCell' /\ OpenIsCell' /\ CellIsOpen' /\ ClosuresLinked'
    BY <1>2, <1>4, <2>1 DEF IInv, OwnCell, OpenIsCell, CellIsOpen, ClosuresLinked, Linked, CellOf, CaptureOf
  <2>5. CellsAgree'
    <3>1. ASSUME NEW w \in DOMAIN vmUpvalue, home[w] \notin mixed
          PROVE  cell'[home[w]] = UpvalueRead(w)'
      <4>1. home[w] = c <=> w = u
        BY <1>1, <3>1 DEF IInv, OwnCell
      <4>2. UpvalueRead(w)' = IF vmUpvalue[w].tied = r THEN v ELSE UpvalueRead(w)
        BY <1>7, <2>1, <2>2, UpvalueFields DEF UpvalueRead, IInv, TypeOK
      <4> QED
        BY <1>5, <2>2, <3>1, <4>1, <4>2 DEF IInv, CellsAgree
    <3> QED
      BY <1>2, <2>1, <3>1 DEF CellsAgree
  <2>6. UncapturedAgree'
    <3>1. cells[r] # NoCell
      BY <1>1, <2>2, UpvalueFields
    <3> QED
      BY <1>2, <2>1, <3>1 DEF IInv, TypeOK, UncapturedAgree
  <2> QED
    BY <2>3, <2>4, <2>5, <2>6 DEF IInv
<1> QED
  BY <1>6, <1>7

-----------------------------------------------------------------------------
(* What is captured: an upvalue that is there already, with its own cell,   *)
(* or a new one, with a new cell or with the cell that the register still   *)
(* has from an earlier variable.                                            *)
Stays(c, v) ==
    /\ c.kind # "VAL"
    /\ c.kind = "UPVAL" => UpvalueFor(c) = Outer
    /\ c.kind = "REF" => vmUpvalue[UpvalueFor(c)].tied = c.b /\ cells[c.b] = CellFor(c)
    /\ UpvalueFor(c) \in DOMAIN vmUpvalue /\ CellFor(c) = home[UpvalueFor(c)]
    /\ UNCHANGED <<vmUpvalue, home, cells>>
    /\ cell' = cellAfterSet(c.a, v) /\ registers' = registersAfterSet(c.a, v)
    /\ mixed' = mixedAfterSet(c.a)

Grows(c, v) ==
    /\ c.kind # "UPVAL" /\ UpvalueFor(c) = Len(vmUpvalue) + 1
    /\ c.kind = "REF" => \A u \in DOMAIN vmUpvalue : vmUpvalue[u].tied # c.b
    /\ vmUpvalue' = Append(vmUpvalue, [value |-> vmAfterSet(c.a, v)[c.b],
                                       tied |-> IF c.kind = "REF" THEN c.b ELSE NoReg])
    /\ home' = Append(home, CellFor(c))
    /\ mixed' = mixedAfterCapture(c)

FreshCell(c, v) ==
    /\ CellFor(c) = Len(cell) + 1
    /\ c.kind = "REF" => cells[c.b] = NoCell
    /\ cell' = Append(cellAfterSet(c.a, v), getAfter(c.a, v, c.b))
    /\ cells' = IF c.kind = "REF" THEN [cells EXCEPT ![c.b] = CellFor(c)] ELSE cells
    /\ registers' = IF c.kind = "REF" THEN [registersAfterSet(c.a, v) EXCEPT ![c.b] = Nil]
                    ELSE registersAfterSet(c.a, v)

OldCell(c, v) ==
    /\ c.kind = "REF" /\ cells[c.b] # NoCell /\ CellFor(c) = cells[c.b]
    /\ UNCHANGED cells
    /\ cell' = cellAfterSet(c.a, v) /\ registers' = registersAfterSet(c.a, v)

LEMMA CaptureShape ==
    ASSUME IInv, NEW s \in Site, NEW v \in Value, MakeClosure(s, v)
    PROVE  /\ Capture[s].a \in Reg /\ Capture[s].b \in Reg
           /\ Capture[s].kind \in {"VAL", "REF", "UPVAL"}
           /\ Capture[s].kind # "UPVAL" => Capture[s].b \notin closed'
           /\ closed' = closed \ {Capture[s].a}
           /\ vmRegister' = vmAfterSet(Capture[s].a, v)
           /\ captures' = [captures EXCEPT ![s] = CellFor(Capture[s])]
           /\ closures' = Append(closures, [site |-> s, up |-> UpvalueFor(Capture[s])])
           /\ \/ Stays(Capture[s], v)
              \/ Grows(Capture[s], v) /\ (FreshCell(Capture[s], v) \/ OldCell(Capture[s], v))
<1> DEFINE c == Capture[s]
<1>1. c.a \in Reg /\ c.b \in Reg /\ c.kind \in {"VAL", "REF", "UPVAL"}
  BY CellsAssumption
<1>2. VMCapture(c, v) /\ RenderedCapture(s, v)
  BY DEF MakeClosure
<1>3. /\ vmRegister' = vmAfterSet(c.a, v)
      /\ captures' = [captures EXCEPT ![s] = CellFor(c)]
      /\ closures' = Append(closures, [site |-> s, up |-> UpvalueFor(c)])
      /\ closed' = closed \ {c.a}
      /\ c.kind # "UPVAL" => c.b \notin closed'
  BY <1>2 DEF VMCapture, RenderedCapture, MakeClosure, vmAfterSet
<1>4. /\ vmUpvalue' = IF UpvalueFor(c) <= Len(vmUpvalue) THEN vmUpvalue
                      ELSE Append(vmUpvalue, [value |-> vmAfterSet(c.a, v)[c.b],
                                              tied |-> IF c.kind = "REF" THEN c.b ELSE NoReg])
      /\ home' = IF UpvalueFor(c) <= Len(vmUpvalue) THEN home ELSE Append(home, CellFor(c))
      /\ mixed' = mixedAfterCapture(c)
  BY <1>2, <1>3 DEF VMCapture, MakeClosure
<1>5. /\ cell' = IF CellFor(c) <= Len(cell) THEN cellAfterSet(c.a, v)
                 ELSE Append(cellAfterSet(c.a, v), getAfter(c.a, v, c.b))
      /\ cells' = IF c.kind = "REF" THEN [cells EXCEPT ![c.b] = CellFor(c)] ELSE cells
      /\ registers' = IF c.kind = "REF" /\ cells[c.b] = NoCell
                      THEN [registersAfterSet(c.a, v) EXCEPT ![c.b] = Nil]
                      ELSE registersAfterSet(c.a, v)
  BY <1>2 DEF RenderedCapture
<1>6. /\ cells \in [Reg -> {NoCell} \cup DOMAIN cell]
      /\ Len(cell) \in Nat /\ Len(vmUpvalue) \in Nat /\ DOMAIN cell = 1 .. Len(cell)
      /\ DOMAIN vmUpvalue = 1 .. Len(vmUpvalue) /\ NoCell \notin DOMAIN cell
      /\ Outer \in DOMAIN cell /\ Outer \in DOMAIN vmUpvalue /\ home[Outer] = Outer
  BY UpvalueFields DEF IInv, TypeOK, UpvaluesTyped
<1> HIDE DEF c
<1>7. cells[c.b] # NoCell => [cells EXCEPT ![c.b] = cells[c.b]] = cells /\ cells[c.b] \in DOMAIN cell
  BY <1>1, <1>6
<1>8. CASE c.kind = "UPVAL"
  <2>1. UpvalueFor(c) = Outer /\ CellFor(c) = Outer
    BY <1>8 DEF UpvalueFor, CellFor
  <2>2. Stays(c, v)
    BY <1>4, <1>5, <1>6, <1>8, <2>1 DEF Stays, mixedAfterCapture
  <2> QED
    BY <1>1, <1>3, <2>2 DEF c
<1>9. CASE c.kind = "VAL"
  <2>1. UpvalueFor(c) = Len(vmUpvalue) + 1 /\ CellFor(c) = Len(cell) + 1
    BY <1>9 DEF UpvalueFor, CellFor
  <2>2. ~ (UpvalueFor(c) <= Len(vmUpvalue)) /\ ~ (CellFor(c) <= Len(cell))
    BY <1>6, <2>1
  <2>3. Grows(c, v) /\ FreshCell(c, v)
    BY <1>4, <1>5, <1>9, <2>1, <2>2 DEF Grows, FreshCell
  <2> QED
    BY <1>1, <1>3, <2>3 DEF c
<1>10. CASE c.kind = "REF" /\ Open(c.b) # {}
  <2>1. UpvalueFor(c) \in Open(c.b)
    BY <1>10 DEF UpvalueFor
  <2>2. UpvalueFor(c) \in DOMAIN vmUpvalue /\ vmUpvalue[UpvalueFor(c)].tied = c.b
    BY <2>1 DEF Open
  <2>3. cells[c.b] = home[UpvalueFor(c)]
    BY <1>1, <2>2, CellsAssumption DEF IInv, OpenIsCell, Reg, NoReg
  <2>4. cells[c.b] # NoCell
    BY <2>2, <2>3, UpvalueFields
  <2>5. CellFor(c) = cells[c.b]
    BY <1>10, <2>4 DEF CellFor
  <2>6. UpvalueFor(c) <= Len(vmUpvalue) /\ CellFor(c) <= Len(cell)
    BY <1>6, <1>7, <2>2, <2>4, <2>5
  <2>7. Stays(c, v)
    BY <1>4, <1>5, <1>7, <1>10, <2>2, <2>3, <2>4, <2>5, <2>6 DEF Stays, mixedAfterCapture
  <2> QED
    BY <1>1, <1>3, <2>7 DEF c
<1>11. CASE c.kind = "REF" /\ Open(c.b) = {}
  <2>1. UpvalueFor(c) = Len(vmUpvalue) + 1 /\ \A u \in DOMAIN vmUpvalue : vmUpvalue[u].tied # c.b
    BY <1>11 DEF UpvalueFor, Open
  <2>2. Grows(c, v)
    BY <1>4, <1>6, <1>11, <2>1 DEF Grows
  <2>3. CASE cells[c.b] = NoCell
    <3>1. CellFor(c) = Len(cell) + 1
      BY <1>11, <2>3 DEF CellFor
    <3>2. FreshCell(c, v)
      BY <1>5, <1>6, <1>11, <2>3, <3>1 DEF FreshCell
    <3> QED
      BY <1>1, <1>3, <2>2, <3>2 DEF c
  <2>4. CASE cells[c.b] # NoCell
    <3>1. CellFor(c) = cells[c.b]
      BY <1>11, <2>4 DEF CellFor
    <3>2. OldCell(c, v)
      BY <1>5, <1>6, <1>7, <1>11, <2>4, <3>1 DEF OldCell
    <3> QED
      BY <1>1, <1>3, <2>2, <3>2 DEF c
  <2> QED
    BY <2>3, <2>4
<1> QED
  BY <1>1, <1>8, <1>9, <1>10, <1>11

(* The closures after MakeClosure: the old ones, and the new one. *)
LEMMA ClosuresAppended ==
    ASSUME IInv, NEW s \in Site, NEW u \in Int,
           closures' = Append(closures, [site |-> s, up |-> u])
    PROVE  /\ closures' \in Seq([site : Site, up : Int])
           /\ \E n \in Nat : /\ n \notin DOMAIN closures
                             /\ DOMAIN closures' = DOMAIN closures \cup {n}
                             /\ closures'[n] = [site |-> s, up |-> u]
           /\ \A k \in DOMAIN closures : closures'[k] = closures[k]
           /\ \A k \in DOMAIN closures : closures[k].site \in Site /\ closures[k].up \in DOMAIN vmUpvalue
<1>1. closures \in Seq([site : Site, up : Int])
  BY DEF IInv, UpvaluesTyped
<1>2. \A k \in DOMAIN closures : closures[k] \in [site : Site, up : DOMAIN vmUpvalue]
  BY DEF IInv, TypeOK
<1>3. /\ closures' \in Seq([site : Site, up : Int])
      /\ Len(closures') = Len(closures) + 1
      /\ \A k \in 1 .. Len(closures) : closures'[k] = closures[k]
      /\ closures'[Len(closures) + 1] = [site |-> s, up |-> u]
  BY <1>1, AppendProperties
<1>4. DOMAIN closures = 1 .. Len(closures) /\ DOMAIN closures' = 1 .. Len(closures')
      /\ Len(closures) \in Nat
  BY <1>1, <1>3, LenProperties
<1>5. /\ Len(closures) + 1 \in Nat /\ Len(closures) + 1 \notin DOMAIN closures
      /\ DOMAIN closures' = DOMAIN closures \cup {Len(closures) + 1}
  BY <1>3, <1>4
<1> QED
  BY <1>2, <1>3, <1>4, <1>5

(* A new closure on an upvalue that is there already. *)
LEMMA StaysIInv ==
    ASSUME IInv, NEW s \in Site, NEW v \in Value, MakeClosure(s, v), Stays(Capture[s], v)
    PROVE  IInv'
<1> DEFINE c == Capture[s]
           u == UpvalueFor(c)
<1>1. /\ c.a \in Reg /\ c.b \in Reg /\ c.kind \in {"VAL", "REF", "UPVAL"}
      /\ closed' = closed \ {c.a}
      /\ vmRegister' = vmAfterSet(c.a, v)
      /\ captures' = [captures EXCEPT ![s] = CellFor(c)]
      /\ closures' = Append(closures, [site |-> s, up |-> u])
  BY CaptureShape
<1>2. /\ c.kind # "VAL" /\ (c.kind = "UPVAL" => u = Outer)
      /\ c.kind = "REF" => vmUpvalue[u].tied = c.b /\ cells[c.b] = CellFor(c)
      /\ u \in DOMAIN vmUpvalue /\ CellFor(c) = home[u]
      /\ UNCHANGED <<vmUpvalue, home, cells>>
      /\ cell' = cellAfterSet(c.a, v) /\ registers' = registersAfterSet(c.a, v)
      /\ mixed' = mixedAfterSet(c.a)
  BY DEF Stays
<1>3. AgreeAfterSet(c.a, v)
  BY <1>1, AfterSet
<1> HIDE DEF c, u
<1>4. Len(cell') = Len(cell) /\ cell' \in Seq(Value) /\ DOMAIN cell' = DOMAIN cell
  BY <1>2, <1>3, UpvalueFields DEF AgreeAfterSet
<1>5. u \in Int /\ home[u] \in DOMAIN cell
  BY <1>2, UpvalueFields
<1>6. PICK n \in Nat :
        /\ closures' \in Seq([site : Site, up : Int])
        /\ n \notin DOMAIN closures
        /\ DOMAIN closures' = DOMAIN closures \cup {n}
        /\ \A k \in DOMAIN closures : closures'[k] = closures[k]
        /\ closures'[n] = [site |-> s, up |-> u]
        /\ \A k \in DOMAIN closures : closures[k].site \in Site /\ closures[k].up \in DOMAIN vmUpvalue
  BY <1>1, <1>5, ClosuresAppended
<1>7. UpvaluesTyped'
  BY <1>2, <1>4, <1>6 DEF IInv, UpvaluesTyped
<1>8. TypeOK'
  <2>1. \A k \in DOMAIN closures' : closures'[k] \in [site : Site, up : DOMAIN vmUpvalue]
    BY <1>2, <1>6 DEF IInv, TypeOK
  <2>2. captures' \in [Site -> {NoCell} \cup DOMAIN cell']
    BY <1>1, <1>2, <1>4, <1>5 DEF IInv, TypeOK
  <2> QED
    BY <1>1, <1>2, <1>3, <1>4, <2>1, <2>2 DEF AgreeAfterSet, IInv, TypeOK
<1>9. OwnCell' /\ OpenIsCell'
  BY <1>1, <1>2, <1>3 DEF AgreeAfterSet, IInv, OwnCell, OpenIsCell
<1>10. CellIsOpen' /\ UncapturedAgree'
  BY <1>1, <1>2, <1>3 DEF AgreeAfterSet, CellIsOpen, UncapturedAgree
<1>11. CellsAgree'
  BY <1>1, <1>2, <1>3 DEF AgreeAfterSet, CellsAgree, UpvalueRead, ReadWith
<1>12. ClosuresLinked'
  <2>1. ASSUME NEW k \in DOMAIN closures
        PROVE  /\ closures'[k] = closures[k] /\ CaptureOf(k)' = CaptureOf(k)
               /\ CellOf(k)' = CellOf(k)
    <3>1. CaptureOf(k)' = CaptureOf(k) /\ closures[k].site \in Site /\ Linked(k)
      BY <1>6 DEF CaptureOf, IInv, ClosuresLinked
    <3>2. CASE closures[k].site # s
      BY <1>1, <1>6, <3>1, <3>2 DEF CellOf, IInv, TypeOK
    <3>3. CASE closures[k].site = s
      <4>1. CellOf(k) = CellFor(c)
        BY <1>1, <1>2, <3>1, <3>3 DEF Linked, CaptureOf, CellFor, c
      <4>2. CellOf(k)' = CellFor(c)
        BY <1>1, <1>6, <3>3 DEF CellOf, IInv, TypeOK
      <4> QED
        BY <1>6, <3>1, <4>1, <4>2
    <3> QED
      BY <3>2, <3>3
  <2>2. CaptureOf(n)' = c /\ CellOf(n)' = home[u] /\ closures'[n].up = u
    BY <1>1, <1>2, <1>6 DEF CaptureOf, CellOf, IInv, TypeOK, c
  <2>3. Linked(n)'
    <3>1. c.kind = "UPVAL" => u = Outer /\ home[u] = Outer
      BY <1>2 DEF IInv, UpvaluesTyped
    <3> QED
      BY <1>2, <1>4, <1>5, <2>2, <3>1 DEF Linked
  <2>4. ASSUME NEW k \in DOMAIN closures PROVE Linked(k)'
    <3>1. Linked(k) /\ closures'[k] = closures[k] /\ CaptureOf(k)' = CaptureOf(k) /\ CellOf(k)' = CellOf(k)
      BY <2>1 DEF IInv, ClosuresLinked
    <3>2. CaptureOf(k).kind = "VAL" => closures[k].up # u
      BY <1>1, <1>2, <3>1, CellsAssumption DEF Linked, NoReg, Reg
    <3> QED
      BY <1>2, <1>4, <1>6, <2>2, <3>1, <3>2 DEF Linked
  <2> QED
    BY <1>6, <2>3, <2>4 DEF ClosuresLinked
<1> QED
  BY <1>7, <1>8, <1>9, <1>10, <1>11, <1>12 DEF IInv

(* What a fresh or an old cell for the new upvalue does to the others. *)
CellsExtended(c, v) ==
    /\ cell' \in Seq(Value) /\ DOMAIN cell \subseteq DOMAIN cell' /\ DOMAIN cell' = 1 .. Len(cell')
    /\ Len(cell') \in Nat
    /\ CellFor(c) \in DOMAIN cell'
    /\ \A x \in DOMAIN cell : cell'[x] = cellAfterSet(c.a, v)[x]
    /\ cells' \in [Reg -> {NoCell} \cup DOMAIN cell']
    /\ registers' \in [Reg -> Value \cup {Nil}]
    /\ \A r \in Reg : cells[r] # NoCell => cells'[r] = cells[r]
    /\ \A r \in Reg : cells'[r] # cells[r] => c.kind = "REF" /\ r = c.b
    /\ c.kind = "REF" => cells'[c.b] = CellFor(c)
    /\ \A r \in Reg : cells'[r] = NoCell => registers'[r] = registersAfterSet(c.a, v)[r]
    /\ mixedAfterSet(c.a) \subseteq mixed' /\ mixed' \subseteq DOMAIN cell'
    /\ \A x \in DOMAIN cell : x \in mixed' => x \in mixedAfterSet(c.a)
    /\ CellFor(c) \in DOMAIN cell => CellFor(c) \in mixed'
    /\ CellFor(c) \notin mixed' => cell'[CellFor(c)] = vmAfterSet(c.a, v)[c.b]

LEMMA FreshExtends ==
    ASSUME IInv, NEW c \in [a : Reg, kind : {"VAL", "REF", "UPVAL"}, b : Reg], NEW v \in Value,
           c.b \notin closed \ {c.a}, Grows(c, v), FreshCell(c, v)
    PROVE  CellsExtended(c, v)
<1>1. c.a \in Reg /\ c.b \in Reg \ (closed \ {c.a}) /\ c.kind \in {"VAL", "REF"}
  BY DEF Grows
<1>2. AgreeAfterSet(c.a, v)
  BY <1>1, AfterSet
<1> DEFINE m == Len(cell)
           C == cellAfterSet(c.a, v)
           x == getAfter(c.a, v, c.b)
<1>3. /\ C \in Seq(Value) /\ Len(C) = m /\ m \in Nat /\ x \in Value /\ DOMAIN cell = 1 .. m
      /\ mixedAfterSet(c.a) \subseteq DOMAIN cell /\ NoCell \notin DOMAIN cell
      /\ cells \in [Reg -> {NoCell} \cup DOMAIN cell]
  BY <1>1, <1>2, UpvalueFields DEF AgreeAfterSet, IInv, TypeOK
<1>4. /\ CellFor(c) = m + 1 /\ cell' = Append(C, x)
      /\ c.kind = "REF" => cells[c.b] = NoCell
      /\ cells' = IF c.kind = "REF" THEN [cells EXCEPT ![c.b] = CellFor(c)] ELSE cells
      /\ registers' = IF c.kind = "REF" THEN [registersAfterSet(c.a, v) EXCEPT ![c.b] = Nil]
                      ELSE registersAfterSet(c.a, v)
  BY DEF FreshCell
<1> HIDE DEF C, x
<1>5. /\ cell' \in Seq(Value) /\ Len(cell') = m + 1
      /\ \A y \in 1 .. m : cell'[y] = C[y]
      /\ cell'[m + 1] = x
  BY <1>3, <1>4, AppendProperties
<1>6. DOMAIN cell' = 1 .. m + 1
  BY <1>5, LenProperties
<1>7. /\ DOMAIN cell \subseteq DOMAIN cell' /\ DOMAIN cell' = 1 .. Len(cell') /\ Len(cell') \in Nat
      /\ CellFor(c) \in DOMAIN cell' /\ CellFor(c) \notin DOMAIN cell
      /\ \A y \in DOMAIN cell : cell'[y] = C[y]
  BY <1>3, <1>4, <1>5, <1>6
<1> HIDE DEF m
<1>8. /\ cells' \in [Reg -> {NoCell} \cup DOMAIN cell']
      /\ \A r \in Reg : cells[r] # NoCell => cells'[r] = cells[r]
      /\ \A r \in Reg : cells'[r] # cells[r] => c.kind = "REF" /\ r = c.b
      /\ c.kind = "REF" => cells'[c.b] = CellFor(c)
  BY <1>1, <1>3, <1>4, <1>7
<1>9. registers' \in [Reg -> Value \cup {Nil}]
  BY <1>1, <1>2, <1>4 DEF AgreeAfterSet
<1>10. ASSUME NEW r \in Reg, cells'[r] = NoCell
       PROVE  registers'[r] = registersAfterSet(c.a, v)[r]
  <2>1. CASE c.kind = "REF"
    <3>1. r # c.b
      BY <1>3, <1>4, <1>7, <1>8, <1>10, <2>1, UpvalueFields DEF NoCell
    <3> QED
      BY <1>1, <1>2, <1>4, <2>1, <3>1 DEF AgreeAfterSet
  <2>2. CASE c.kind # "REF"
    BY <1>4, <2>2
  <2> QED
    BY <2>1, <2>2
<1>11. /\ mixedAfterSet(c.a) \subseteq mixed' /\ mixed' \subseteq DOMAIN cell'
       /\ \A y \in DOMAIN cell : y \in mixed' => y \in mixedAfterSet(c.a)
  BY <1>3, <1>7 DEF Grows, mixedAfterCapture
<1>12. ASSUME CellFor(c) \notin mixed' PROVE x = vmAfterSet(c.a, v)[c.b]
  <2>1. cells[c.b] \notin mixedAfterSet(c.a)
    <3>1. CASE c.kind = "VAL"
      BY <1>12, <3>1 DEF Grows, mixedAfterCapture
    <3>2. CASE c.kind = "REF"
      BY <1>3, <1>4, <3>2
    <3> QED
      BY <1>1, <3>1, <3>2
  <2> QED
    BY <1>1, <1>2, <2>1 DEF AgreeAfterSet, x
<1>13. cell'[CellFor(c)] = x
  BY <1>4, <1>5
<1> QED
  BY <1>5, <1>7, <1>8, <1>9, <1>10, <1>11, <1>12, <1>13 DEF CellsExtended, C

LEMMA OldExtends ==
    ASSUME IInv, NEW c \in [a : Reg, kind : {"VAL", "REF", "UPVAL"}, b : Reg], NEW v \in Value,
           c.b \notin closed \ {c.a}, Grows(c, v), OldCell(c, v)
    PROVE  CellsExtended(c, v)
<1>1. c.a \in Reg /\ c.b \in Reg \ (closed \ {c.a}) /\ c.kind = "REF"
  BY DEF OldCell
<1>2. AgreeAfterSet(c.a, v)
  BY <1>1, AfterSet
<1>3. /\ cells[c.b] # NoCell /\ CellFor(c) = cells[c.b] /\ UNCHANGED cells
      /\ cell' = cellAfterSet(c.a, v) /\ registers' = registersAfterSet(c.a, v)
      /\ mixed' = mixedAfterSet(c.a)
  BY <1>1 DEF OldCell, Grows, mixedAfterCapture
<1>4. CellFor(c) \in mixed'
  BY <1>1, <1>2, <1>3 DEF AgreeAfterSet, Grows
<1>5. /\ cell' \in Seq(Value) /\ Len(cell') = Len(cell) /\ DOMAIN cell = 1 .. Len(cell)
      /\ Len(cell) \in Nat
  BY <1>2, <1>3, UpvalueFields DEF AgreeAfterSet
<1>6. DOMAIN cell' = 1 .. Len(cell') /\ DOMAIN cell' = DOMAIN cell
  BY <1>5
<1>7. cells \in [Reg -> {NoCell} \cup DOMAIN cell]
  BY DEF IInv, TypeOK
<1> QED
  BY <1>1, <1>2, <1>3, <1>4, <1>5, <1>6, <1>7 DEF CellsExtended, AgreeAfterSet

(* A new closure on a new upvalue. *)
LEMMA GrowsIInv ==
    ASSUME IInv, NEW s \in Site, NEW v \in Value, MakeClosure(s, v), Grows(Capture[s], v),
           FreshCell(Capture[s], v) \/ OldCell(Capture[s], v)
    PROVE  IInv'
<1> DEFINE c == Capture[s]
           h == CellFor(c)
           R == vmAfterSet(c.a, v)
           t == IF c.kind = "REF" THEN c.b ELSE NoReg
<1>1. /\ c \in [a : Reg, kind : {"VAL", "REF", "UPVAL"}, b : Reg]
      /\ c.a \in Reg /\ c.b \in Reg /\ c.kind \in {"VAL", "REF"}
      /\ closed' = closed \ {c.a} /\ c.b \notin closed'
      /\ vmRegister' = R
      /\ captures' = [captures EXCEPT ![s] = h]
      /\ closures' = Append(closures, [site |-> s, up |-> UpvalueFor(c)])
  BY CaptureShape, CellsAssumption DEF Grows
<1>2. CellsExtended(c, v)
  BY <1>1, FreshExtends, OldExtends
<1>3. AgreeAfterSet(c.a, v)
  BY <1>1, AfterSet
<1>4. PICK N \in Nat : N = Len(vmUpvalue) + 1
  BY UpvalueFields
<1>5. /\ UpvalueFor(c) = N /\ home' = Append(home, h)
      /\ vmUpvalue' = Append(vmUpvalue, [value |-> R[c.b], tied |-> t])
      /\ c.kind = "REF" => \A w \in DOMAIN vmUpvalue : vmUpvalue[w].tied # c.b
  BY <1>4 DEF Grows
<1> HIDE DEF c, h, R, t
<1>6. /\ R \in [Reg -> Value] /\ R[c.b] \in Value /\ [value |-> R[c.b], tied |-> t] \in Upvalue
      /\ h \in DOMAIN cell' /\ DOMAIN cell \subseteq DOMAIN cell'
      /\ t = IF c.kind = "REF" THEN c.b ELSE NoReg
  BY <1>1, <1>2, <1>3 DEF AgreeAfterSet, CellsExtended, Upvalue, R, h, t
<1>7. /\ vmUpvalue' \in Seq(Upvalue) /\ Len(vmUpvalue') = N /\ N - 1 = Len(vmUpvalue)
      /\ N \notin DOMAIN vmUpvalue /\ DOMAIN vmUpvalue' = DOMAIN vmUpvalue \cup {N}
      /\ \A w \in DOMAIN vmUpvalue : vmUpvalue'[w] = vmUpvalue[w]
      /\ vmUpvalue'[N] = [value |-> R[c.b], tied |-> t]
      /\ vmUpvalue'[N].tied = t /\ vmUpvalue'[N].value = R[c.b]
  <2>1. /\ vmUpvalue' \in Seq(Upvalue) /\ Len(vmUpvalue') = Len(vmUpvalue) + 1
        /\ \A w \in 1 .. Len(vmUpvalue) : vmUpvalue'[w] = vmUpvalue[w]
        /\ vmUpvalue'[Len(vmUpvalue) + 1] = [value |-> R[c.b], tied |-> t]
    BY <1>5, <1>6, AppendProperties DEF IInv, UpvaluesTyped
  <2>2. DOMAIN vmUpvalue' = 1 .. N /\ DOMAIN vmUpvalue = 1 .. Len(vmUpvalue) /\ Len(vmUpvalue) \in Nat
    BY <1>4, <2>1, UpvalueFields, LenProperties
  <2> QED
    BY <1>4, <2>1, <2>2
<1>8. /\ home' \in Seq(DOMAIN cell') /\ Len(home') = N
      /\ \A w \in DOMAIN vmUpvalue : home'[w] = home[w] /\ home[w] \in DOMAIN cell
      /\ home'[N] = h
  <2>1. home \in Seq(DOMAIN cell) /\ Len(home) = Len(vmUpvalue) /\ DOMAIN vmUpvalue = 1 .. Len(vmUpvalue)
    BY UpvalueFields DEF IInv, TypeOK, UpvaluesTyped
  <2>2. home \in Seq(DOMAIN cell')
    BY <1>6, <2>1
  <2>3. /\ home' \in Seq(DOMAIN cell') /\ Len(home') = Len(home) + 1
        /\ \A w \in 1 .. Len(home) : home'[w] = home[w]
        /\ home'[Len(home) + 1] = h
    BY <1>5, <1>6, <2>2, AppendProperties
  <2> QED
    BY <1>4, <2>1, <2>3, UpvalueFields
<1>9. PICK n \in Nat :
        /\ closures' \in Seq([site : Site, up : Int])
        /\ n \notin DOMAIN closures
        /\ DOMAIN closures' = DOMAIN closures \cup {n}
        /\ \A k \in DOMAIN closures : closures'[k] = closures[k]
        /\ closures'[n] = [site |-> s, up |-> N]
        /\ \A k \in DOMAIN closures : closures[k].site \in Site /\ closures[k].up \in DOMAIN vmUpvalue
  <2>1. N \in Int
    OBVIOUS
  <2> QED
    BY <1>1, <1>5, <2>1, ClosuresAppended
<1>10. UpvaluesTyped'
  <2>1. Outer \in DOMAIN vmUpvalue /\ home[Outer] = Outer /\ Outer <= Len(cell) /\ Outer <= Len(vmUpvalue)
    BY UpvalueFields DEF IInv, UpvaluesTyped, Outer
  <2>2. Outer \in DOMAIN cell' /\ DOMAIN cell' = 1 .. Len(cell') /\ Len(cell') \in Nat
    BY <1>2, <1>6, UpvalueFields DEF CellsExtended
  <2>3. home'[Outer] = Outer /\ Len(home') = Len(vmUpvalue')
    BY <1>7, <1>8, <2>1
  <2>4. Len(home') >= Outer /\ Len(cell') >= Outer
    <3>1. Len(home') = N /\ N - 1 = Len(vmUpvalue)
      BY <1>7, <1>8
    <3> QED
      BY <2>1, <2>2, <3>1, UpvalueFields DEF Outer
  <2> QED
    BY <1>7, <1>9, <2>3, <2>4 DEF UpvaluesTyped
<1>11. TypeOK'
  <2>1. \A w \in DOMAIN vmUpvalue' : vmUpvalue'[w] \in Upvalue
    BY <1>6, <1>7, UpvalueFields
  <2>2. \A k \in DOMAIN closures' : closures'[k] \in [site : Site, up : DOMAIN vmUpvalue']
    BY <1>7, <1>9 DEF IInv, TypeOK
  <2>3. captures' \in [Site -> {NoCell} \cup DOMAIN cell']
    BY <1>1, <1>6 DEF IInv, TypeOK
  <2>4. closed' \subseteq Reg
    BY <1>1 DEF IInv, TypeOK
  <2> QED
    BY <1>1, <1>2, <1>6, <1>8, <2>1, <2>2, <2>3, <2>4 DEF TypeOK, Upvalue, CellsExtended
<1>12. OwnCell'
  <2>1. ASSUME NEW u \in DOMAIN vmUpvalue, home[u] \notin mixed' PROVE home[u] \notin mixed /\ home[u] # h
    BY <1>2, <1>3, <1>8, <2>1 DEF CellsExtended, AgreeAfterSet, h
  <2> QED
    BY <1>7, <1>8, <2>1 DEF IInv, OwnCell
<1>13. OpenIsCell'
  <2>1. ASSUME NEW u \in DOMAIN vmUpvalue, vmUpvalue[u].tied # NoReg
        PROVE  /\ vmUpvalue[u].tied \notin closed'
               /\ cells'[vmUpvalue[u].tied] = home[u]
               /\ \A w \in DOMAIN vmUpvalue' : vmUpvalue'[w].tied = vmUpvalue[u].tied => w = u
    <3>1. /\ vmUpvalue[u].tied \in Reg \ closed /\ cells[vmUpvalue[u].tied] = home[u]
          /\ \A w \in DOMAIN vmUpvalue : vmUpvalue[w].tied = vmUpvalue[u].tied => w = u
      BY <2>1, UpvalueFields DEF IInv, OpenIsCell
    <3>2. cells[vmUpvalue[u].tied] # NoCell
      BY <3>1, UpvalueFields
    <3>3. t # vmUpvalue[u].tied
      BY <1>5, <1>6, <2>1
    <3> QED
      BY <1>1, <1>2, <1>7, <3>1, <3>2, <3>3 DEF CellsExtended
  <2>2. ASSUME t # NoReg
        PROVE  /\ t \notin closed' /\ cells'[t] = h
               /\ \A w \in DOMAIN vmUpvalue' : vmUpvalue'[w].tied = t => w = N
    BY <1>1, <1>2, <1>5, <1>6, <1>7, <2>2 DEF CellsExtended, h
  <2> QED
    BY <1>7, <1>8, <2>1, <2>2 DEF OpenIsCell
<1>14. CellIsOpen'
  <2> SUFFICES ASSUME NEW r \in Reg \ closed', cells'[r] # NoCell, cells'[r] \notin mixed'
               PROVE  \E u \in DOMAIN vmUpvalue' : vmUpvalue'[u].tied = r
    BY DEF CellIsOpen
  <2>1. CASE cells'[r] = cells[r]
    <3>1. PICK u \in DOMAIN vmUpvalue : vmUpvalue[u].tied = r
      BY <1>1, <1>2, <1>3, <2>1 DEF AgreeAfterSet, CellsExtended
    <3> QED
      BY <1>7, <3>1
  <2>2. CASE cells'[r] # cells[r]
    <3>1. t = r
      BY <1>2, <1>6, <2>2 DEF CellsExtended
    <3> QED
      BY <1>7, <3>1
  <2> QED
    BY <2>1, <2>2
<1>15. CellsAgree'
  <2>1. ASSUME NEW w \in DOMAIN vmUpvalue, home[w] \notin mixed'
        PROVE  cell'[home[w]] = UpvalueRead(w)'
    <3>1. cell'[home[w]] = cellAfterSet(c.a, v)[home[w]] /\ home[w] \notin mixedAfterSet(c.a)
      BY <1>2, <1>8, <2>1 DEF CellsExtended
    <3>2. cellAfterSet(c.a, v)[home[w]] = ReadWith(R, w)
      BY <1>3, <3>1 DEF AgreeAfterSet, R
    <3>3. UpvalueRead(w)' = ReadWith(R, w)
      BY <1>1, <1>7 DEF UpvalueRead, ReadWith
    <3> QED
      BY <3>1, <3>2, <3>3
  <2>2. ASSUME h \notin mixed' PROVE cell'[h] = UpvalueRead(N)'
    <3>1. cell'[h] = R[c.b]
      BY <1>2, <2>2 DEF CellsExtended, h, R
    <3>2. UpvalueRead(N)' = IF t = NoReg THEN R[c.b] ELSE R[t]
      BY <1>1, <1>7 DEF UpvalueRead
    <3> QED
      BY <1>6, <3>1, <3>2
  <2> QED
    BY <1>7, <1>8, <2>1, <2>2 DEF CellsAgree
<1>16. UncapturedAgree'
  <2> SUFFICES ASSUME NEW r \in Reg \ closed', cells'[r] = NoCell
               PROVE  registers'[r] = vmRegister'[r]
    BY DEF UncapturedAgree
  <2>1. cells[r] = NoCell /\ registers'[r] = registersAfterSet(c.a, v)[r]
    BY <1>2 DEF CellsExtended
  <2> QED
    BY <1>1, <1>3, <2>1 DEF AgreeAfterSet, R
<1>17. ClosuresLinked'
  <2>1. CaptureOf(n)' = c /\ CellOf(n)' = h /\ closures'[n].up = N
    BY <1>1, <1>9 DEF CaptureOf, CellOf, IInv, TypeOK, c
  <2>2. N # Outer
    BY <1>7, UpvalueFields
  <2>3. Linked(n)'
    <3>1. \A l \in DOMAIN closures' : closures'[l].up = N => l = n
      BY <1>7, <1>9
    <3>2. c.kind = "VAL" => vmUpvalue'[N].tied = NoReg
      BY <1>6, <1>7
    <3>3. c.kind = "REF" => h = cells'[c.b]
      BY <1>2 DEF CellsExtended, h
    <3> QED
      BY <1>1, <1>6, <1>8, <2>1, <2>2, <3>1, <3>2, <3>3 DEF Linked
  <2>4. ASSUME NEW k \in DOMAIN closures PROVE Linked(k)'
    <3>1. /\ Linked(k) /\ closures'[k] = closures[k] /\ CaptureOf(k)' = CaptureOf(k)
          /\ closures[k].site \in Site /\ closures[k].up \in DOMAIN vmUpvalue
          /\ CaptureOf(k) \in [a : Reg, kind : {"VAL", "REF", "UPVAL"}, b : Reg]
      BY <1>9, CellsAssumption DEF CaptureOf, IInv, ClosuresLinked
    <3>2. closures[k].up # N /\ home'[closures[k].up] = home[closures[k].up]
          /\ vmUpvalue'[closures[k].up] = vmUpvalue[closures[k].up]
      BY <1>7, <1>8, <3>1
    <3>3. CellOf(k)' = IF closures[k].site = s THEN h ELSE CellOf(k)
      BY <1>1, <3>1 DEF CellOf, IInv, TypeOK
    <3>4. CellOf(k)' \in DOMAIN cell'
      BY <1>6, <3>1, <3>3 DEF Linked
    <3>5. CASE CaptureOf(k).kind = "UPVAL"
      <4>1. closures[k].site # s
        BY <1>1, <3>5 DEF CaptureOf, c
      <4> QED
        BY <3>1, <3>2, <3>3, <3>4, <3>5, <4>1 DEF Linked
    <3>6. CASE CaptureOf(k).kind = "REF"
      <4>1. CellOf(k) = cells[CaptureOf(k).b] /\ CellOf(k) # NoCell
        BY <3>1, <3>6, UpvalueFields DEF Linked
      <4>2. cells'[CaptureOf(k).b] = cells[CaptureOf(k).b]
        BY <1>2, <3>1, <4>1 DEF CellsExtended
      <4>3. CellOf(k)' = CellOf(k)
        <5>1. CASE closures[k].site = s
          <6>1. CaptureOf(k) = c
            BY <5>1 DEF CaptureOf, c
          <6>2. h = cells'[c.b]
            BY <1>2, <3>6, <6>1 DEF CellsExtended, h
          <6> QED
            BY <3>3, <4>1, <4>2, <5>1, <6>1, <6>2
        <5> QED
          BY <3>3, <5>1
      <4> QED
        BY <3>1, <3>2, <3>4, <3>6, <4>1, <4>2, <4>3 DEF Linked
    <3>7. CASE CaptureOf(k).kind = "VAL"
      <4>1. \A l \in DOMAIN closures' : closures'[l].up = closures[k].up => l = k
        BY <1>9, <2>1, <3>1, <3>2, <3>7 DEF Linked
      <4> QED
        BY <3>1, <3>2, <3>4, <3>7, <4>1 DEF Linked
    <3> QED
      BY <3>1, <3>5, <3>6, <3>7
  <2> QED
    BY <1>9, <2>3, <2>4 DEF ClosuresLinked
<1> QED
  BY <1>10, <1>11, <1>12, <1>13, <1>14, <1>15, <1>16, <1>17 DEF IInv

-----------------------------------------------------------------------------
(* Every step keeps the invariant, stuttering included. *)
LEMMA NextIInv == IInv /\ [Next]_vars => IInv'
<1> SUFFICES ASSUME IInv, [Next]_vars PROVE IInv'
  OBVIOUS
<1>1. ASSUME NEW r \in Reg, NEW v \in Value, Assign(r, v) PROVE IInv'
  BY <1>1, AssignIInv
<1>2. ASSUME NEW s \in Site, NEW v \in Value, MakeClosure(s, v) PROVE IInv'
  BY <1>2, CaptureShape, StaysIInv, GrowsIInv
<1>3. ASSUME NEW a \in Reg, CloseUpvals(a) PROVE IInv'
  BY <1>3, CloseIInv
<1>4. ASSUME NEW k \in DOMAIN closures, NEW v \in Value, SetUpval(k, v) PROVE IInv'
  BY <1>4, SetUpvalIInv
<1>5. CASE UNCHANGED vars
  <2>1. UNCHANGED <<vmRegister, vmUpvalue, registers, cells, cell, captures, closures, closed, home, mixed>>
    BY <1>5 DEF vars, vm, reconstruction, history
  <2>2. TypeOK' /\ UpvaluesTyped' /\ OwnCell' /\ OpenIsCell' /\ CellIsOpen'
    BY <2>1 DEF IInv, TypeOK, UpvaluesTyped, OwnCell, OpenIsCell, CellIsOpen
  <2>3. CellsAgree' /\ UncapturedAgree' /\ ClosuresLinked'
    BY <2>1 DEF IInv, CellsAgree, UncapturedAgree, ClosuresLinked, UpvalueRead, Linked, CellOf, CaptureOf
  <2> QED
    BY <2>2, <2>3 DEF IInv
<1> QED
  BY <1>1, <1>2, <1>3, <1>4, <1>5 DEF Next

(* The invariant of one activation run on both sides. *)
LEMMA Invariance == Spec => []IInv
  BY InitIInv, NextIInv, PTL DEF Spec

(* A closure whose captures[pc] was replaced was captured by value. *)
LEMMA KeptCell ==
    ASSUME IInv, NEW k \in DOMAIN closures
    PROVE  /\ closures[k].up \in DOMAIN vmUpvalue
           /\ CaptureOf(k).kind # "VAL" => CellOf(k) = home[closures[k].up]
           /\ CaptureOf(k).kind = "VAL" =>
                 \A l \in DOMAIN closures : closures[l].up = closures[k].up => l = k
<1>1. closures[k] \in [site : Site, up : DOMAIN vmUpvalue] /\ Linked(k) /\ home[Outer] = Outer
  BY DEF IInv, TypeOK, ClosuresLinked, UpvaluesTyped
<1>2. CaptureOf(k).kind \in {"VAL", "REF", "UPVAL"}
  BY <1>1, CellsAssumption DEF CaptureOf
<1> QED
  BY <1>1, <1>2 DEF Linked

(* For every program, and any number of registers, values, sites and        *)
(* closures: a called closure sees the value its upvalue has in the virtual *)
(* machine, unless its site captures by value and has made another closure  *)
(* since, or its cell is one that a register kept after CLOSEUPVALS.        *)
THEOREM UpvaluesTheorem == Spec => []SameUpvalues
<1>1. IInv => SameUpvalues
  <2> SUFFICES ASSUME IInv, NEW k \in DOMAIN closures, ~ Replaced(k), CellOf(k) \notin mixed
               PROVE  cell[CellOf(k)] = UpvalueRead(closures[k].up)
    BY DEF SameUpvalues
  <2> QED
    BY KeptCell DEF Replaced, IInv, CellsAgree
<1> QED
  BY <1>1, Invariance, PTL

(* For every program get(r) returns, for a register in scope whose cell is  *)
(* not left over from an earlier variable, the value that the virtual       *)
(* machine has in it, whoever wrote it last.                                *)
THEOREM RegistersTheorem == Spec => []SameRegisters
<1>1. IInv => SameRegisters
  <2> SUFFICES ASSUME IInv, NEW r \in Reg \ closed, cells[r] \notin mixed
               PROVE  get(r) = vmRegister[r]
    BY DEF SameRegisters
  <2>1. CASE cells[r] = NoCell
    BY <2>1 DEF get, IInv, UncapturedAgree
  <2>2. CASE cells[r] # NoCell
    <3>1. PICK u \in DOMAIN vmUpvalue : vmUpvalue[u].tied = r
      BY <2>2 DEF IInv, CellIsOpen
    <3>2. r # NoReg
      BY CellsAssumption DEF Reg, NoReg
    <3>3. cells[r] = home[u] /\ UpvalueRead(u) = vmRegister[r]
      BY <3>1, <3>2 DEF IInv, OpenIsCell, UpvalueRead
    <3> QED
      BY <2>2, <3>3 DEF get, IInv, CellsAgree
  <2> QED
    BY <2>1, <2>2
<1> QED
  BY <1>1, Invariance, PTL

(* For every program closures that share a variable in the virtual machine  *)
(* share a cell, and conversely where no captures[pc] was replaced and the  *)
(* cell is not left over; only captures by value are ever replaced.         *)
THEOREM SharingTheorem == Spec => []SharingKept
<1>1. IInv => SharingKept
  <2> SUFFICES ASSUME IInv, NEW k \in DOMAIN closures, NEW l \in DOMAIN closures
               PROVE  /\ closures[k].up = closures[l].up => CellOf(k) = CellOf(l)
                      /\ CellOf(k) = CellOf(l) /\ CellOf(k) \notin mixed
                            => closures[k].up = closures[l].up \/ Replaced(k) \/ Replaced(l)
                      /\ Replaced(k) => Capture[closures[k].site].kind = "VAL"
    BY DEF SharingKept
  <2>1. closures[k].up = closures[l].up => CellOf(k) = CellOf(l)
    BY KeptCell
  <2>2. CellOf(k) = CellOf(l) /\ CellOf(k) \notin mixed
          => closures[k].up = closures[l].up \/ Replaced(k) \/ Replaced(l)
    BY KeptCell DEF Replaced, IInv, OwnCell
  <2>3. Replaced(k) => Capture[closures[k].site].kind = "VAL"
    BY KeptCell DEF Replaced, CaptureOf
  <2> QED
    BY <2>1, <2>2, <2>3
<1> QED
  BY <1>1, Invariance, PTL

(* The types are kept; this needs the whole invariant, since the value a    *)
(* capture copies must be one the machine's register has.                   *)
THEOREM CellsTypeTheorem == Spec => []TypeOK
<1>1. IInv => TypeOK
  BY DEF IInv
<1> QED
  BY <1>1, Invariance, PTL
============================================================================
