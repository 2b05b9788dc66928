---------------------------- MODULE LuauReaders ----------------------------
(***************************************************************************)
(* The two readers of Luau bytecode.  parse of RobloxBytecode.cpp checks a  *)
(* chunk; only what it has accepted is given to luau_load of Luau's virtual *)
(* machine, whose loadsafe reads the same bytes again and, but for the two  *)
(* versions, checks none of its reads, counts and indices.  What loadsafe   *)
(* looks up in passing, without a field of its own, parse does not look at  *)
(* at all: it is the last part of this module.                              *)
(***************************************************************************)
EXTENDS Reading

CONSTANTS
    MaxObjects,         \* kMaxObjects
    MaxUserdataTypes    \* the 255 entries of the userdata type map

(* The gates of the versions that both readers know. *)
VersionMin == 3
VersionMax == 14
VersionClasses == 100   \* an experiment that only luau_load knows

(* The kinds of constants, numbered as in Bytecode.h. *)
Kind == [null |-> 0, boolean |-> 1, number |-> 2, string |-> 3, import |-> 4, table |-> 5,
         closure |-> 6, vector |-> 7, tableWithConstants |-> 8, integer |-> 9,
         classShape |-> 10, vectorD |-> 11]

LuauStart(size) ==
    [at |-> "version", left |-> size, n |-> 0, b |-> 0, version |-> 0, types |-> 0,
     strings |-> 0, protos |-> 0, i |-> 0,       \* i: the prototypes that are complete
     end |-> 0,                                  \* left, at the end of the prototype
     stack |-> 0, inlinable |-> FALSE, words |-> 0,
     k |-> 0, c |-> 0,                           \* the constants, and those still to read
     totalCodeWords |-> 0, totalConstants |-> 0,
     inside |-> TRUE]                            \* every field's index was inside its table

LuauBytes == {"version", "types", "index", "kind", "sign", "flags", "lineinfo", "linegap",
              "debuginfo", "reg", "slot"}
LuauBlocks == {"string", "typeinfo", "code", "payload", "lines", "rest"}
LuauWords == {"metadata", "value"}   \* four bytes each
LuauVar64 == {"magnitude", "cost"}   \* up to ten bytes

(* The block of line information: a byte for each word of code, and a       *)
(* 32-bit line for each interval of 2^gap words.                            *)
Intervals(words, gap) == (words - 1) \div 2^gap + 1

-----------------------------------------------------------------------------
(* RobloxBytecode.cpp. *)

NextProto(s) ==
    IF s.i = s.protos THEN Go(s, "main")
    ELSE Go(s, IF s.version >= 12 THEN "protoSize" ELSE "metadata")

(* The prototype's own variables are gone when it is complete. *)
ProtoDone(s) ==
    NextProto([s EXCEPT !.i = @ + 1, !.end = 0, !.stack = 0, !.inlinable = FALSE,
                        !.words = 0, !.k = 0, !.b = 0])

NextConstant(s) ==
    IF s.c = 0 THEN Go(s, "children") ELSE [s EXCEPT !.at = "kind", !.c = @ - 1]

AfterStrings(s) == Go(s, IF s.types = 3 THEN "index" ELSE "protos")

parseEnd(s) ==
    IF s.version < 12 THEN ProtoDone(s)
    ELSE Require(s.left >= s.end, Block(s, s.left - s.end, "rest"))

parseAfterDebug(s) == IF s.version >= 11 THEN Go(s, "feedback") ELSE parseEnd(s)

parseAfterFeedback(s) ==
    IF s.version >= 12 /\ s.inlinable THEN Go(s, "cost") ELSE parseEnd(s)

(* The switch over the kind of a constant. *)
parseConstant(s, kind) ==
    CASE kind = Kind.null -> NextConstant(s)
      [] kind = Kind.boolean -> Block(s, 1, "payload")
      [] kind = Kind.number -> Block(s, 8, "payload")
      [] kind = Kind.string -> Go(s, "name")
      [] kind = Kind.import -> Block(s, 4, "payload")
      [] kind = Kind.table -> Go(s, "keys")
      [] kind = Kind.closure -> Go(s, "closure")
      [] kind = Kind.vector -> Require(s.version >= 5, Block(s, 16, "payload"))
      [] kind = Kind.tableWithConstants -> Require(s.version >= 7, Go(s, "pairs"))
      [] kind = Kind.integer -> Require(s.version >= 8, Go(s, "sign"))
      [] kind = Kind.classShape -> Require(s.version >= 10, Go(s, "class"))
      [] kind = Kind.vectorD -> Require(s.version >= 13, Block(s, 32, "payload"))
      [] OTHER -> Refused

Count(v, rest) == Require(v <= MaxObjects, rest)
StringId(v, s, rest) == Require(v <= s.strings, rest)

(* Mutant: an index one past the last constant is accepted. *)
ConstantIdLoose(v, s, rest) == Require(v <= s.k, rest)

ConstantId(v, s, rest) == Require(v < s.k, rest)

(* Up to the prototypes. *)
parseHeader(s, v) ==
    CASE s.at = "version" ->
            Require(v \in VersionMin .. VersionMax,
                    [s EXCEPT !.version = v, !.at = IF v >= 4 THEN "types" ELSE "strings"])
      [] s.at = "types" -> Require(v \in 1 .. 3, [s EXCEPT !.types = v, !.at = "strings"])
      [] s.at = "strings" -> LET t == [s EXCEPT !.strings = v] IN
                             Count(v, Times(t, v, "length", AfterStrings(t)))
      [] s.at = "length" -> Block(s, v, "string")
      [] s.at = "string" -> Again(s, "length", AfterStrings(s))
      [] s.at = "index" -> IF v = 0 THEN [s EXCEPT !.at = "protos", !.n = 0]
                           ELSE Require(s.n < MaxUserdataTypes, Go(s, "typename"))
      [] s.at = "typename" -> StringId(v, s, [s EXCEPT !.at = "index", !.n = @ + 1])
      [] s.at = "protos" -> Require(v \in 1 .. MaxObjects, NextProto([s EXCEPT !.protos = v]))
      [] s.at = "main" -> Require(v < s.protos /\ s.left \in {0, 24}, Accepted(s))

(* A prototype up to its constants. *)
parseProto(s, v) ==
    CASE s.at = "protoSize" -> Require(v \in 1 .. s.left,
                                       [s EXCEPT !.end = s.left - v, !.at = "metadata"])
      [] s.at = "metadata" -> Require(v.valid, [s EXCEPT !.stack = v.stack,
                                         !.at = IF s.version >= 4 THEN "flags" ELSE "words"])
      [] s.at = "flags" -> [s EXCEPT !.inlinable = (v = 1), !.at = "typesize"]
      [] s.at = "typesize" -> Block(s, v, "typeinfo")
      [] s.at = "typeinfo" -> Go(s, "words")
      [] s.at = "words" ->
            Count(s.totalCodeWords + v,
                  Block([s EXCEPT !.words = v, !.totalCodeWords = @ + v], 4 * v, "code"))
      [] s.at = "code" -> Go(s, "constants")
      [] s.at = "constants" ->
            Count(s.totalConstants + v,
                  NextConstant([s EXCEPT !.k = v, !.c = v, !.totalConstants = @ + v]))

(* The constants. *)
parseConstants(s, v) ==
    CASE s.at = "kind" -> parseConstant(s, v)
      [] s.at \in {"payload", "magnitude"} -> NextConstant(s)
      [] s.at = "name" -> StringId(v, s, NextConstant(s))
      [] s.at = "keys" -> Count(v, Times(s, v, "key", NextConstant(s)))
      [] s.at = "key" -> ConstantId(v, s, Again(s, "key", NextConstant(s)))
      [] s.at = "closure" -> Require(v < s.protos, NextConstant(s))
      [] s.at = "pairs" -> Count(v, Times(s, v, "pairKey", NextConstant(s)))
      [] s.at = "pairKey" -> ConstantId(v, s, Go(s, "value"))
      [] s.at = "value" -> ConstantId(v, s, Again(s, "pairKey", NextConstant(s)))   \* or negative
      [] s.at = "sign" -> Go(s, "magnitude")
      [] s.at = "class" -> ConstantId(v, s, Go(s, "properties"))
      [] s.at = "properties" -> [s EXCEPT !.n = v, !.at = "methods"]
      [] s.at = "methods" -> Count(s.n + v, Times(s, s.n + v, "member", NextConstant([s EXCEPT !.n = 0])))
      [] s.at = "member" -> ConstantId(v, s, Again(s, "member", NextConstant(s)))

parseLines(s, v) ==
    Require(v < 32, Block(s, s.words + 4 * (IF s.words = 0 THEN 0 ELSE Intervals(s.words, v)), "lines"))

(* The rest of a prototype. *)
parseRest(s, v) ==
    CASE s.at = "children" -> Count(v, Times(s, v, "child", Go(s, "linedefined")))
      [] s.at = "child" -> Require(v < s.protos, Again(s, "child", Go(s, "linedefined")))
      [] s.at = "linedefined" -> Go(s, "debugname")
      [] s.at = "debugname" -> StringId(v, s, Go(s, "lineinfo"))
      [] s.at = "lineinfo" -> Require(v <= 1, Go(s, IF v = 1 THEN "linegap" ELSE "debuginfo"))
      [] s.at = "linegap" -> parseLines(s, v)
      [] s.at = "lines" -> Go(s, "debuginfo")
      [] s.at = "debuginfo" -> Require(v <= 1, IF v = 1 THEN Go(s, "locals") ELSE parseAfterDebug(s))
      [] s.at = "locals" -> Count(v, Times(s, v, "varname", Go(s, "upvalues")))
      [] s.at = "varname" -> StringId(v, s, Go(s, "startpc"))
      [] s.at = "startpc" -> Go(s, "endpc")
      [] s.at = "endpc" -> Go(s, "reg")
      [] s.at = "reg" -> Require(v < s.stack, Again(s, "varname", Go(s, "upvalues")))
      [] s.at = "upvalues" -> Count(v, Times(s, v, "upname", parseAfterDebug(s)))
      [] s.at = "upname" -> StringId(v, s, Again(s, "upname", parseAfterDebug(s)))
      [] s.at = "feedback" -> Count(v, Times(s, v, "slot", parseAfterFeedback(s)))
      [] s.at = "slot" -> Require(v = 0, Go(s, "slotpc"))
      [] s.at = "slotpc" -> Again(s, "slot", parseAfterFeedback(s))
      [] s.at = "cost" -> parseEnd(s)
      [] s.at = "rest" -> ProtoDone(s)

HeaderFields == {"version", "types", "strings", "length", "string", "index", "typename",
                 "protos", "main"}
ProtoFields == {"protoSize", "metadata", "flags", "typesize", "typeinfo", "words", "code",
                "constants"}
ConstantFields == {"kind", "payload", "name", "keys", "key", "closure", "pairs", "pairKey",
                   "value", "sign", "magnitude", "class", "properties", "methods", "member"}

parse(s, v) ==
    CASE s.at \in HeaderFields -> parseHeader(s, v)
      [] s.at \in ProtoFields -> parseProto(s, v)
      [] s.at \in ConstantFields -> parseConstants(s, v)
      [] OTHER -> parseRest(s, v)

-----------------------------------------------------------------------------
(* lvmload.cpp. *)

(* An element of a table of size elements is looked at. *)
Index(s, v, size) == [s EXCEPT !.inside = @ /\ v < size]

(* strings[id - 1], for an id that is not 0 *)
readString(s, id) == IF id = 0 THEN s ELSE Index(s, id - 1, s.strings)

(* loadsafe goes to the declared end, wherever it is. *)
loadEnd(s) ==
    IF s.version < 12 THEN ProtoDone(s) ELSE Block(s, s.left - s.end, "rest")

loadAfterDebug(s) == IF s.version >= 11 THEN Go(s, "feedback") ELSE loadEnd(s)

loadAfterFeedback(s) ==
    IF s.version >= 12 /\ s.inlinable THEN Go(s, "cost") ELSE loadEnd(s)

(* Every kind is read in every version; an unknown kind has no payload. *)
loadConstant(s, kind) ==
    CASE kind = Kind.boolean -> Block(s, 1, "payload")
      [] kind = Kind.number -> Block(s, 8, "payload")
      [] kind = Kind.vector -> Block(s, 16, "payload")
      [] kind = Kind.vectorD -> Block(s, 32, "payload")
      [] kind = Kind.string -> Go(s, "name")
      [] kind = Kind.import -> Block(s, 4, "payload")
      [] kind = Kind.table -> Go(s, "keys")
      [] kind = Kind.tableWithConstants -> Go(s, "pairs")
      [] kind = Kind.closure -> Go(s, "closure")
      [] kind = Kind.classShape -> Go(s, "class")
      [] kind = Kind.integer -> Go(s, "sign")
      [] OTHER -> NextConstant(s)

loadHeader(s, v) ==
    CASE s.at = "version" ->
            Require(v \in VersionMin .. VersionMax \/ v = VersionClasses,
                    [s EXCEPT !.version = v, !.at = IF v >= 4 THEN "types" ELSE "strings"])
      [] s.at = "types" -> Require(v \in 1 .. 3, [s EXCEPT !.types = v, !.at = "strings"])
      [] s.at = "strings" -> LET t == [s EXCEPT !.strings = v] IN Times(t, v, "length", AfterStrings(t))
      [] s.at = "length" -> Block(s, v, "string")
      [] s.at = "string" -> Again(s, "length", AfterStrings(s))
      [] s.at = "index" -> Go(s, IF v # 0 THEN "typename" ELSE "protos")
      [] s.at = "typename" -> Go(readString(s, v), "index")
      [] s.at = "protos" -> NextProto([s EXCEPT !.protos = v])
      [] s.at = "main" -> Accepted(Index(s, v, s.protos))

loadProto(s, v) ==
    CASE s.at = "protoSize" -> [s EXCEPT !.end = s.left - v, !.at = "metadata"]
      [] s.at = "metadata" -> [s EXCEPT !.stack = v.stack, !.at = IF s.version >= 4 THEN "flags" ELSE "words"]
      [] s.at = "flags" -> [s EXCEPT !.inlinable = (v = 1), !.at = "typesize"]
      [] s.at = "typesize" -> Block(s, v, "typeinfo")
      [] s.at = "typeinfo" -> Go(s, "words")
      [] s.at = "words" -> Block([s EXCEPT !.words = v, !.totalCodeWords = @ + v], 4 * v, "code")
      [] s.at = "code" -> Go(s, "constants")
      [] s.at = "constants" -> NextConstant([s EXCEPT !.k = v, !.c = v, !.totalConstants = @ + v])

loadConstants(s, v) ==
    CASE s.at = "kind" -> loadConstant(s, v)
      [] s.at \in {"payload", "magnitude"} -> NextConstant(s)
      [] s.at = "name" -> NextConstant(readString(s, v))
      [] s.at = "keys" -> Times(s, v, "key", NextConstant(s))
      [] s.at = "key" -> LET t == Index(s, v, s.k) IN Again(t, "key", NextConstant(t))
      [] s.at = "closure" -> NextConstant(Index(s, v, s.protos))
      [] s.at = "pairs" -> Times(s, v, "pairKey", NextConstant(s))
      [] s.at = "pairKey" -> Go(Index(s, v, s.k), "value")
      [] s.at = "value" -> LET t == Index(s, v, s.k) IN Again(t, "pairKey", NextConstant(t))
      [] s.at = "sign" -> Go(s, "magnitude")
      [] s.at = "class" -> Go(Index(s, v, s.k), "properties")
      [] s.at = "properties" -> [s EXCEPT !.n = v, !.at = "methods"]
      [] s.at = "methods" -> Times(s, s.n + v, "member", NextConstant([s EXCEPT !.n = 0]))
      [] s.at = "member" -> LET t == Index(s, v, s.k) IN Again(t, "member", NextConstant(t))

loadRest(s, v) ==
    CASE s.at = "children" -> Times(s, v, "child", Go(s, "linedefined"))
      [] s.at = "child" -> LET t == Index(s, v, s.protos) IN Again(t, "child", Go(t, "linedefined"))
      [] s.at = "linedefined" -> Go(s, "debugname")
      [] s.at = "debugname" -> Go(readString(s, v), "lineinfo")
      [] s.at = "lineinfo" -> Go(s, IF v # 0 THEN "linegap" ELSE "debuginfo")
      [] s.at = "linegap" -> Block(s, s.words + 4 * Intervals(s.words, v), "lines")
      [] s.at = "lines" -> Go(s, "debuginfo")
      [] s.at = "debuginfo" -> IF v # 0 THEN Go(s, "locals") ELSE loadAfterDebug(s)
      [] s.at = "locals" -> Times(s, v, "varname", Go(s, "upvalues"))
      [] s.at = "varname" -> Go(readString(s, v), "startpc")
      [] s.at = "startpc" -> Go(s, "endpc")
      [] s.at = "endpc" -> Go(s, "reg")
      [] s.at = "reg" -> Again(s, "varname", Go(s, "upvalues"))
      [] s.at = "upvalues" -> Times(s, v, "upname", loadAfterDebug(s))
      [] s.at = "upname" -> LET t == readString(s, v) IN Again(t, "upname", loadAfterDebug(t))
      [] s.at = "feedback" -> Times(s, v, "slot", loadAfterFeedback(s))
      [] s.at = "slot" -> Go(s, "slotpc")
      [] s.at = "slotpc" -> Again(s, "slot", loadAfterFeedback(s))
      [] s.at = "cost" -> loadEnd(s)
      [] s.at = "rest" -> ProtoDone(s)

loadsafe(s, v) ==
    CASE s.at \in HeaderFields -> loadHeader(s, v)
      [] s.at \in ProtoFields -> loadProto(s, v)
      [] s.at \in ConstantFields -> loadConstants(s, v)
      [] OTHER -> loadRest(s, v)

(* What loadsafe looks up while it reads a field that parse has only passed *)
(* over, or found small enough, and finds in the wrong place: type          *)
(* information whose inner counts do not add up (1), a constant that an     *)
(* import names (v is its largest index), a prototype of the table that has *)
(* not been read yet.                                                       *)
remapUserdataTypes(s, v) == s.at = "typeinfo" /\ s.types = 3 /\ s.b > 0 /\ v = 1
getimport(s, v) == s.at = "payload" /\ s.b = 4 /\ v >= s.k
UnreadProto(s, v) == s.at \in {"closure", "child"} /\ v >= s.i

(* Behind the constants loadsafe walks the code and looks up the constant   *)
(* that the word behind GETTABLEKS, SETTABLEKS or NAMECALL names.           *)
Walk(s, aux) == s.at = "children" /\ aux >= s.k
=============================================================================
