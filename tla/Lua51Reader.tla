----------------------------- MODULE Lua51Reader -----------------------------
(***************************************************************************)
(* The reader of Lua 5.1 chunks in Lua51.cpp.  Prototypes nest: parseProto  *)
(* calls itself for each child, between the constants and the debug         *)
(* information of the parent.  The limits on instructions, constants, debug *)
(* entries and prototypes are for the chunk as a whole; all counts come     *)
(* from the input.                                                          *)
(***************************************************************************)
EXTENDS Reading

CONSTANTS
    MaxEntries,      \* the limit on instructions, on constants and on debug entries
    MaxPrototypes,   \* the limit on prototypes, and on the children of one
    MaxNesting,      \* the limit on the depth of prototypes
    MaxString        \* maxString

(* A frame is an activation of parseProto: the children still to read, and  *)
(* the counts that are compared at its end.  sizeT is the width of a size.  *)
Lua51Start(size) ==
    [at |-> "header", left |-> size, n |-> 0, b |-> 12, sizeT |-> 0, frames |-> << >>,
     totalInstructions |-> 0, totalConstants |-> 0, totalDebugEntries |-> 0, totalPrototypes |-> 0]

Lua51Bytes == {"tag", "boolean"}
Lua51Words == {"code", "constants", "children", "lines", "locals", "upvalues"}   \* four bytes each
Lua51Sizes == {"source", "string", "varname", "upname"}     \* a size_t; the text follows
Lua51Blocks == {"header", "sourceText", "proto", "words", "number", "stringText",
                "lineEntries", "varnameText", "range", "upnameText"}
Lua51Silent == {"call", "validate"}

Proto(s) == s.frames[Len(s.frames)]
SetProto(s, proto) == [s EXCEPT !.frames[Len(s.frames)] = proto]

luaString(s, size, text) == Require(size <= MaxString, Block(s, size, text))

NextChild(s) == Go(s, IF Proto(s).children = 0 THEN "lines" ELSE "call")

(* parseProto begins; depth is the number of activations before it. *)
enterProto(s) ==
    Require(Len(s.frames) <= MaxNesting /\ s.totalPrototypes < MaxPrototypes,
            [s EXCEPT !.totalPrototypes = @ + 1, !.at = "source",
                      !.frames = Append(@, [children |-> 0, code |-> 0, nups |-> 0, lines |-> 0, ups |-> 0])])

(* associateClosureCaptures and validateProtoData, whose verdict on the     *)
(* operands and the local ranges is v; then parseProto returns, to the loop *)
(* over the parent's children or to parse.                                  *)
leaveProto(s, v) ==
    LET t == [s EXCEPT !.frames = SubSeq(@, 1, Len(@) - 1)] IN
    Require(v /\ Proto(s).lines \in {0, Proto(s).code} /\ Proto(s).ups <= Proto(s).nups,
            IF t.frames = << >> THEN Require(t.left = 0, Accepted(t))
            ELSE NextChild([t EXCEPT !.frames[Len(t.frames)].children = @ - 1]))

constant(s, tag) ==
    CASE tag = 0 -> Again(s, "tag", Go(s, "children"))
      [] tag = 1 -> Go(s, "boolean")
      [] tag = 3 -> Block(s, 8, "number")
      [] tag = 4 -> Go(s, "string")
      [] OTHER -> Refused

(* The code, the constants and the children. *)
readBody(s, v) ==
    CASE s.at = "source" -> luaString(s, v, "sourceText")
      [] s.at = "sourceText" -> Block(s, 12, "proto")
      [] s.at = "proto" ->
            Require(v.maxstack # 0, Go(SetProto(s, [Proto(s) EXCEPT !.nups = v.nups]), "code"))
      [] s.at = "code" ->
            LET t == [s EXCEPT !.totalInstructions = @ + v] IN
            Require(v <= MaxEntries - s.totalInstructions,
                    Block(SetProto(t, [Proto(t) EXCEPT !.code = v]), 4 * v, "words"))
      [] s.at = "words" -> Require(v, Go(s, "constants"))   \* a last SETLIST has its extra word
      [] s.at = "constants" ->
            LET t == [s EXCEPT !.totalConstants = @ + v] IN
            Require(v <= MaxEntries - s.totalConstants, Times(t, v, "tag", Go(t, "children")))
      [] s.at = "tag" -> constant(s, v)
      [] s.at = "string" -> luaString(s, v, "stringText")
      [] s.at \in {"boolean", "number", "stringText"} -> Again(s, "tag", Go(s, "children"))
      [] s.at = "children" ->
            Require(v <= MaxPrototypes, NextChild(SetProto(s, [Proto(s) EXCEPT !.children = v])))

(* Mutant: each kind of debug entry has the limit for itself. *)
DebugEntriesEach(s, v, rest) == Require(v <= MaxEntries, rest)

DebugEntries(s, v, rest) == Require(v <= MaxEntries - s.totalDebugEntries, rest)

(* The line numbers, the local variables and the names of the upvalues. *)
readDebug(s, v) ==
    CASE s.at = "lines" ->
            LET t == [s EXCEPT !.totalDebugEntries = @ + v] IN
            DebugEntries(s, v, Block(SetProto(t, [Proto(t) EXCEPT !.lines = v]), 4 * v, "lineEntries"))
      [] s.at = "lineEntries" -> Go(s, "locals")
      [] s.at = "locals" ->
            LET t == [s EXCEPT !.totalDebugEntries = @ + v] IN
            DebugEntries(s, v, Times(t, v, "varname", Go(t, "upvalues")))
      [] s.at = "varname" -> luaString(s, v, "varnameText")
      [] s.at = "varnameText" -> Block(s, 8, "range")
      [] s.at = "range" -> Again(s, "varname", Go(s, "upvalues"))
      [] s.at = "upvalues" ->
            LET t == [s EXCEPT !.totalDebugEntries = @ + v] IN
            DebugEntries(s, v, LET u == SetProto(t, [Proto(t) EXCEPT !.ups = v])
                               IN Times(u, v, "upname", Go(u, "validate")))
      [] s.at = "upname" -> luaString(s, v, "upnameText")
      [] s.at = "upnameText" -> Again(s, "upname", Go(s, "validate"))

DebugFields == {"lines", "lineEntries", "locals", "varname", "varnameText", "range", "upvalues",
                "upname", "upnameText"}

Lua51(s, v) ==
    CASE s.at = "header" -> Require(v \in {4, 8}, [s EXCEPT !.sizeT = v, !.at = "call"])
      [] s.at = "call" -> enterProto(s)
      [] s.at = "validate" -> leaveProto(s, v)
      [] s.at \in DebugFields -> readDebug(s, v)
      [] OTHER -> readBody(s, v)
=============================================================================
