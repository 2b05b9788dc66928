--------------------------- MODULE MoonSecReaders ---------------------------
(***************************************************************************)
(* The two readers of a MoonSec payload.  SerializedReader tries a layout   *)
(* (the order of the four parts of a function, and the meaning of the       *)
(* constant tags) and counts; VirtualTreeReader builds the tree of          *)
(* functions in the layout that probe has chosen, from the same bytes.      *)
(***************************************************************************)
EXTENDS Reading

CONSTANTS
    MaxFunctions, MaxInstructions, MaxConstants,   \* kMaxFunctions, ...
    MaxMoonSecDepth                                \* kMaxPrototypeDepth

Parts == {"constants", "instructions", "functions", "parameters"}

(* A frame is an activation of parseFunction: the index of its part in the  *)
(* order, and the children it still has to read in the part "functions".    *)
MoonSecStart(size, order, tags) ==
    [at |-> "call", left |-> size, n |-> 0, b |-> 0, size |-> size, order |-> order, tags |-> tags,
     frames |-> << >>, functions |-> 0, instructions |-> 0, constants |-> 0]

MoonSecBytes == {"tag", "boolean", "descriptor", "parameters"}
MoonSecWords == {"constants", "length", "instructions", "functions"}   \* four bytes each
MoonSecBlocks == {"number", "string", "operands"}
MoonSecSilent == {"call", "return"}    \* a call or a return, which reads nothing

ConstantPart == {"constants", "tag", "boolean", "number", "length", "string"}
InstructionPart == {"instructions", "descriptor", "operands"}

Frame(s) == s.frames[Len(s.frames)]

(* The next part of the function, or its end. *)
PartDone(s) ==
    IF Frame(s).part = Len(s.order) THEN Go(s, "return")
    ELSE LET t == [s EXCEPT !.frames[Len(s.frames)].part = @ + 1]
         IN Go(t, s.order[Frame(t).part])

(* parseFunction begins: depth is the number of activations before it. *)
enterFunction(s) ==
    Require(Len(s.frames) <= MaxMoonSecDepth /\ s.functions < MaxFunctions,
            [s EXCEPT !.functions = @ + 1, !.at = s.order[1],
                      !.frames = Append(@, [part |-> 1, rest |-> 0])])

functionsPart(s, count) ==
    Require(count <= MaxFunctions - s.functions /\ count <= s.size \div 5,
            IF count = 0 THEN PartDone(s)
            ELSE [s EXCEPT !.at = "call", !.frames[Len(s.frames)].rest = count])

(* A function is complete: the next child of its parent, or the parent's    *)
(* next part; done is the end of the outermost function.                    *)
leaveFunction(s, done) ==
    LET t == [s EXCEPT !.frames = SubSeq(@, 1, Len(@) - 1)] IN
    IF t.frames = << >> THEN done
    ELSE LET u == [t EXCEPT !.frames[Len(t.frames)].rest = @ - 1]
         IN IF Frame(u).rest = 0 THEN PartDone(u) ELSE Go(u, "call")

-----------------------------------------------------------------------------
(* SerializedReader. *)

serializedKind(s, tag) == IF tag < Len(s.tags) THEN s.tags[tag + 1] ELSE "unknown"

serializedConstant(s, kind) ==
    CASE kind = "unknown" -> Again(s, "tag", PartDone(s))
      [] kind = "boolean" -> Go(s, "boolean")
      [] kind = "number" -> Block(s, 8, "number")
      [] kind = "string" -> Go(s, "length")

serializedConstants(s, v) ==
    CASE s.at = "constants" ->
            LET t == [s EXCEPT !.constants = @ + v] IN
            Require(v <= MaxConstants - s.constants /\ v <= s.left, Times(t, v, "tag", PartDone(t)))
      [] s.at = "tag" -> serializedConstant(s, serializedKind(s, v))
      [] s.at = "length" -> Require(v <= s.left, Block(s, v, "string"))
      [] s.at \in {"boolean", "number", "string"} -> Again(s, "tag", PartDone(s))

(* A discarded instruction has no operands and is not counted; the others   *)
(* have an opcode and A of two bytes each, and operands by their shape.     *)
serializedInstructions(s, v) ==
    CASE s.at = "instructions" ->
            Require(v <= MaxInstructions - s.instructions /\ v <= s.left,
                    Times(s, v, "descriptor", PartDone(s)))
      [] s.at = "descriptor" -> IF v.discarded THEN Again(s, "descriptor", PartDone(s))
                                ELSE Block(s, IF v.shape = 3 THEN 10 ELSE 8, "operands")
      [] s.at = "operands" -> LET t == [s EXCEPT !.instructions = @ + 1] IN
                              Again(t, "descriptor", PartDone(t))

SerializedReader(s, v) ==
    CASE s.at = "call" -> enterFunction(s)
      [] s.at \in ConstantPart -> serializedConstants(s, v)
      [] s.at \in InstructionPart -> serializedInstructions(s, v)
      [] s.at = "functions" -> functionsPart(s, v)
      [] s.at = "parameters" -> PartDone(s)
      [] s.at = "return" -> leaveFunction(s, Require(s.left = 0 /\ s.instructions # 0, Accepted(s)))

-----------------------------------------------------------------------------
(* VirtualTreeReader. *)

(* Mutant: a tag is folded into the four known ones. *)
treeKindFolded(s, tag) == s.tags[(tag % Len(s.tags)) + 1]

treeKind(s, tag) == IF tag < Len(s.tags) THEN s.tags[tag + 1] ELSE "unknown"

treeConstant(s, kind) ==
    CASE kind = "unknown" -> Again(s, "tag", PartDone(s))
      [] kind = "boolean" -> Go(s, "boolean")
      [] kind = "number" -> Block(s, 8, "number")
      [] kind = "string" -> Go(s, "length")

treeConstants(s, v) ==
    CASE s.at = "constants" ->
            LET t == [s EXCEPT !.constants = @ + v] IN
            Require(v <= MaxConstants - s.constants /\ v <= s.left, Times(t, v, "tag", PartDone(t)))
      [] s.at = "tag" -> treeConstant(s, treeKind(s, v))
      [] s.at = "length" -> Require(v <= s.left, Block(s, v, "string"))
      [] s.at \in {"boolean", "number", "string"} -> Again(s, "tag", PartDone(s))

treeInstructions(s, v) ==
    CASE s.at = "instructions" ->
            Require(v <= MaxInstructions - s.instructions /\ v <= s.left,
                    Times(s, v, "descriptor", PartDone(s)))
      [] s.at = "descriptor" -> IF v.discarded THEN Again(s, "descriptor", PartDone(s))
                                ELSE Block(s, IF v.shape = 3 THEN 10 ELSE 8, "operands")
      [] s.at = "operands" -> LET t == [s EXCEPT !.instructions = @ + 1] IN
                              Again(t, "descriptor", PartDone(t))

VirtualTreeReader(s, v) ==
    CASE s.at = "call" -> enterFunction(s)
      [] s.at \in ConstantPart -> treeConstants(s, v)
      [] s.at \in InstructionPart -> treeInstructions(s, v)
      [] s.at = "functions" -> functionsPart(s, v)
      [] s.at = "parameters" -> PartDone(s)
      [] s.at = "return" -> leaveFunction(s, Require(s.left = 0, Accepted(s)))
=============================================================================
