---------------------------- MODULE RegisterText ----------------------------
(***************************************************************************)
(* What the text of RegisterDecompile.cpp does with the values of one       *)
(* activation, next to what the Luau virtual machine does: the registers,   *)
(* and the ranges of an open length, which the machine ends at its stack    *)
(* top and the text at its variable top.  The instructions are executed in  *)
(* any order that compiled code could have; where they jump to is the       *)
(* subject of CodeBlocks, and captured registers that of RegisterCells.     *)
(***************************************************************************)
EXTENDS Integers, Sequences, FiniteSetsExt, SequencesExt

CONSTANTS
    Registers,      \* maxstacksize
    numparams,
    Value,          \* the values; one of them is Nil
    Nil,
    Result(_, _),   \* what an operation computes from its two operands
    MaxValues,      \* bound on arguments, and on the results of a call
    SelfInPlace     \* whether a NAMECALL has its object in register A

Reg == 0 .. Registers-1

(* An open range may go beyond the registers of the function. *)
Slot == 0 .. Registers + MaxValues - 1

ASSUME TextAssumption ==
    /\ Registers \in Nat \ {0}
    /\ numparams \in 0 .. Registers
    /\ Nil \in Value
    /\ \A v, w \in Value : Result(v, w) \in Value
    /\ MaxValues \in Nat
    /\ SelfInPlace \in BOOLEAN

VARIABLES
    arguments,    \* "...", fixed
    live,         \* the registers that the code may read
    open,         \* where the open results begin, or None
    returned,
    vmRegister, vmTop, vmGiven,    \* the machine
    registers, top, given          \* the text
        \* Given: what the last instruction passed on, to a call, a table,
        \*   a global or the caller

fixed == <<arguments, returned>>
textVars == <<arguments, live, open, returned, vmRegister, vmTop, vmGiven, registers, top, given>>

None == -1
Values == UNION {[1 .. n -> Value] : n \in 0 .. MaxValues}

(* The n-th of a list of values, as in "select" and in a packed table. *)
Nth(list, n) == IF n \in DOMAIN list THEN list[n] ELSE Nil

(* The first count values, in the slots from a on. *)
Spread(list, a, count) == [r \in a .. a + count - 1 |-> Nth(list, r - a + 1)]

Varargs == SubSeq(arguments, numparams + 1, Len(arguments))

(* The slots of f get the values of f. *)
Updated(old, f) == [r \in Slot |-> IF r \in DOMAIN f THEN f[r] ELSE old[r]]

-----------------------------------------------------------------------------
(* The text. *)

get(r) == registers[r]

range(first, last) == [n \in 1 .. last - first + 1 |-> get(first + n - 1)]

(* Mutant: top follows every assignment. *)
topAfterSetLast(f) == IF DOMAIN f = {} THEN top ELSE Max(DOMAIN f)

(* top after set(r, f[r]) for the registers of f. *)
topAfterSet(f) == Max({top} \cup DOMAIN f)

set(f) == registers' = Updated(registers, f) /\ top' = topAfterSet(f)

(* All the results of a call, or all varargs, go to the registers from a    *)
(* on; then top is set to the last of them.                                 *)
setOpen(list, a) ==
    /\ registers' = Updated(registers, Spread(list, a, Len(list)))
    /\ top' = a + Len(list) - 1

(* CONCAT puts its operands between "..", which associates to the right. *)
Joined(list) == FoldRight(LAMBDA v, rest : Result(v, rest), Front(list), Last(list))

-----------------------------------------------------------------------------
(* The machine. *)

VMSet(f) == vmRegister' = Updated(vmRegister, f)

(* The values from first to the stack top, or count of them. *)
VMRange(first, last) == [n \in 1 .. last - first + 1 |-> vmRegister[first + n - 1]]

-----------------------------------------------------------------------------
TextInit ==
    /\ arguments \in Values
    /\ live = 0 .. numparams-1
    /\ open = None
    /\ returned = FALSE
    /\ vmRegister = Updated([r \in Slot |-> Nil], Spread(arguments, 0, numparams))
    /\ registers = Updated([r \in Slot |-> Nil], Spread(arguments, 0, numparams))
    /\ vmTop = None
    /\ top = numparams - 1
    /\ vmGiven = << >> /\ given = << >>

(* Compiled code reads registers that it has written; between the           *)
(* instruction with open results and the one that takes them there is at    *)
(* most the fallback of a FASTCALL, which loads the function into a         *)
(* register before them.                                                    *)
Reads(rs) == ~ returned /\ rs \subseteq live
Closed == open = None
Before(a) == open # None => a < open
Takes(first) == open # None /\ first <= open /\ Reads(first .. open-1)

Silent == vmGiven' = << >> /\ given' = << >>
Writes(rs) == live' = live \cup rs

(* LOADNIL, LOADB, LOADN, LOADK, LOADKX, GETGLOBAL, GETUPVAL, GETIMPORT,    *)
(* NEWTABLE, DUPTABLE, NEWCLOSURE and DUPCLOSURE.                           *)
Load(a, v) ==
    /\ Reads({}) /\ Before(a)
    /\ VMSet([r \in {a} |-> v])
    /\ set([r \in {a} |-> v])
    /\ Silent /\ Writes({a})
    /\ UNCHANGED <<fixed, open, vmTop>>

(* MOVE, table reads, arithmetic, and, or, not, minus, length. *)
Operate(a, b, c) ==
    /\ Reads({b, c}) /\ Before(a)
    /\ VMSet([r \in {a} |-> Result(vmRegister[b], vmRegister[c])])
    /\ set([r \in {a} |-> Result(get(b), get(c))])
    /\ Silent /\ Writes({a})
    /\ UNCHANGED <<fixed, open, vmTop>>

(* The machine uses the operands' registers for its intermediate results. *)
Concat(a, b, c) ==
    /\ b < c /\ Reads(b .. c) /\ Closed
    /\ VMSet([r \in {a} |-> Joined(VMRange(b, c))])
    /\ set([r \in {a} |-> Joined(range(b, c))])
    /\ live' = (live \ (b .. c)) \cup {a}
    /\ Silent
    /\ UNCHANGED <<fixed, open, vmTop>>

(* SETGLOBAL, SETUPVAL, SETTABLE, SETTABLEKS, SETTABLEN and the others. *)
Put(a, b, c) ==
    /\ Reads({a, b, c}) /\ Closed
    /\ vmGiven' = <<vmRegister[b], vmRegister[c], vmRegister[a]>>
    /\ given' = <<get(b), get(c), get(a)>>
    /\ UNCHANGED <<fixed, live, open, vmRegister, vmTop, registers, top>>

(* The machine copies the object before it overwrites A with the method;    *)
(* the text assigns the method first.                                       *)
Namecall(a, b) ==
    /\ a + 1 \in Reg /\ Reads({b}) /\ Closed
    /\ SelfInPlace \/ a # b
    /\ VMSet([r \in {a, a+1} |-> IF r = a THEN Result(vmRegister[b], Nil) ELSE vmRegister[b]])
    /\ LET method == Result(get(b), Nil)
       IN  set([r \in {a, a+1} |-> IF r = a \/ a = b THEN method ELSE get(b)])
    /\ Silent /\ Writes({a, a+1})
    /\ UNCHANGED <<fixed, open, vmTop>>

(* emitCall: the arguments, up to register a+b-1 or open. *)
lastArgument(a, b) == IF b = 0 THEN top ELSE a + b - 1

(* Results for c - 1 registers, or open.  The called function has used the  *)
(* registers from a on.                                                     *)
Call(a, b, c, results) ==
    /\ Reads({a})
    /\ IF b = 0 THEN Takes(a + 1) ELSE Closed /\ a + b - 1 \in Reg /\ Reads(a .. a + b - 1)
    /\ vmGiven' = VMRange(a + 1, IF b = 0 THEN vmTop - 1 ELSE a + b - 1)
    /\ given' = range(a + 1, lastArgument(a, b))
    /\ IF c = 0
         THEN /\ VMSet(Spread(results, a, Len(results))) /\ vmTop' = a + Len(results)
              /\ setOpen(results, a)
              /\ live' = {r \in live : r < a}
              /\ open' = a
         ELSE /\ a + c - 2 < Registers
              /\ VMSet(Spread(results, a, c - 1)) /\ vmTop' = None
              /\ set(Spread(results, a, c - 1))
              /\ live' = {r \in live : r < a} \cup (a .. a + c - 2)
              /\ open' = None
    /\ UNCHANGED fixed

GetVarargs(a, b) ==
    /\ Reads({}) /\ Closed
    /\ IF b = 0
         THEN /\ VMSet(Spread(Varargs, a, Len(Varargs))) /\ vmTop' = a + Len(Varargs)
              /\ setOpen(Varargs, a)
              /\ live' = {r \in live : r < a}
              /\ open' = a
         ELSE /\ a + b - 2 < Registers
              /\ VMSet(Spread(Varargs, a, b - 1)) /\ UNCHANGED <<open, vmTop>>
              /\ set(Spread(Varargs, a, b - 1))
              /\ Writes(a .. a + b - 2)
    /\ Silent
    /\ UNCHANGED fixed

(* SETLIST: c - 1 values from register b on, or open. *)
SetList(a, b, c) ==
    /\ Reads({a})
    /\ IF c = 0 THEN Takes(b) ELSE Closed /\ b + c - 2 < Registers /\ Reads(b .. b + c - 2)
    /\ vmGiven' = VMRange(b, IF c = 0 THEN vmTop - 1 ELSE b + c - 2)
    /\ given' = range(b, IF c = 0 THEN top ELSE b + c - 2)
    /\ open' = None /\ vmTop' = None
    /\ UNCHANGED <<fixed, live, vmRegister, registers, top>>

Return(a, b) ==
    /\ IF b = 0 THEN Takes(a) ELSE Closed /\ a + b - 2 < Registers /\ Reads(a .. a + b - 2)
    /\ vmGiven' = VMRange(a, IF b = 0 THEN vmTop - 1 ELSE a + b - 2)
    /\ given' = range(a, IF b = 0 THEN top ELSE a + b - 2)
    /\ returned' = TRUE
    /\ open' = None /\ vmTop' = None
    /\ UNCHANGED <<arguments, live, vmRegister, registers, top>>

(* The index of a numeric loop goes one step on. *)
ForNLoop(a) ==
    /\ Reads(a .. a+2) /\ Closed
    /\ VMSet([r \in {a+2} |-> Result(vmRegister[a+2], vmRegister[a+1])])
    /\ set([r \in {a+2} |-> Result(get(a+2), get(a+1))])
    /\ Silent
    /\ UNCHANGED <<fixed, live, open, vmTop>>

(* An iterator function is called; its first result is also the new         *)
(* control variable.                                                        *)
ForGLoop(a, variables, results) ==
    /\ Reads(a .. a+2) /\ Closed
    /\ variables > 0 /\ a + 2 + variables \in Reg
    /\ vmGiven' = VMRange(a + 1, a + 2)
    /\ given' = range(a + 1, a + 2)
    /\ LET f == [r \in a+2 .. a+2+variables |-> Nth(results, IF r = a+2 THEN 1 ELSE r - a - 2)]
       IN  VMSet(f) /\ set(f)
    /\ live' = {r \in live : r < a+3} \cup (a+3 .. a+2+variables)
    /\ UNCHANGED <<fixed, open, vmTop>>

TextEnded == returned /\ UNCHANGED textVars

TextNext ==
    \/ \E a \in Reg, v \in Value : Load(a, v)
    \/ \E a, b, c \in Reg : Operate(a, b, c) \/ Concat(a, b, c) \/ Put(a, b, c)
    \/ \E a, b \in Reg : Namecall(a, b)
    \/ \E a \in Reg, b, c \in 0 .. Registers, results \in Values : Call(a, b, c, results)
    \/ \E a \in Reg, b \in 0 .. Registers : GetVarargs(a, b) \/ Return(a, b)
    \/ \E a, b \in Reg, c \in 0 .. Registers : SetList(a, b, c)
    \/ \E a \in Reg : ForNLoop(a)
    \/ \E a, variables \in Reg, results \in Values : ForGLoop(a, variables, results)
    \/ TextEnded

TextSpec == TextInit /\ [][TextNext]_textVars

-----------------------------------------------------------------------------
SameValues == \A r \in live : get(r) = vmRegister[r]

SameOpenEnd ==
    open # None => /\ top = vmTop - 1
                   /\ \A r \in open .. top : get(r) = vmRegister[r]

SameGiven == given = vmGiven

(* Over any sequence of instructions the text has the machine's values in   *)
(* every register that is read again, an open range has the machine's       *)
(* length although every assignment may have raised top in between, and     *)
(* calls, tables and the caller are given the machine's values.             *)
SameAsMachine == SameValues /\ SameOpenEnd /\ SameGiven
=============================================================================
