---------------------------- MODULE ReadersProof ----------------------------
(***************************************************************************)
(* The readers of binary input, for inputs of every size and all limits.    *)
(*                                                                          *)
(* Luau: as long as parse has not refused, the state of luau_load's reader  *)
(* is that of parse's, but for the number of userdata types, which only     *)
(* parse counts (Mirror).  This is shown field by field: an operation       *)
(* either is the same in both readers, or parse refuses, or its check makes *)
(* what luau_load does without one come to the same (IndexInside,           *)
(* StringInside, LinesAgree).                                               *)
(*                                                                          *)
(* MoonSec: the two readers are in the same state.  The limits need that    *)
(* the instructions still to read fit, whether they will be kept or not     *)
(* (MoonSecInside), and Lua 5.1's that each prototype in progress has a     *)
(* frame.                                                                   *)
(***************************************************************************)
EXTENDS Readers, SequenceTheorems, TLAPS

(* A reader is a record with these fields. *)
Rec(s, names) == s = [x \in names |-> s[x]]

-----------------------------------------------------------------------------
(* Luau chunks. *)

LuauNames ==
    {"at", "left", "n", "b", "version", "types", "strings", "protos", "i", "end", "stack",
     "inlinable", "words", "k", "c", "totalCodeWords", "totalConstants", "inside"}

RestFields ==
    {"children", "child", "linedefined", "debugname", "lineinfo", "linegap", "lines", "debuginfo",
     "locals", "varname", "startpc", "endpc", "reg", "upvalues", "upname", "feedback", "slot",
     "slotpc", "cost", "rest"}

(* The fields at which parse counts the userdata types and luau_load does   *)
(* not, the fields before them, and the others.                             *)
Counted == {"index", "typename"}
Early == {"version", "types", "strings"}
Late == {"length", "string", "protos", "main", "accepted"} \cup ProtoFields \cup ConstantFields
            \cup RestFields

LuauGood(s) ==
    /\ Rec(s, LuauNames)
    /\ s.inside = TRUE
    /\ s.strings \in Nat /\ s.words \in Nat
    /\ s.totalCodeWords <= MaxObjects /\ s.totalConstants <= MaxObjects

Later(s) == LuauGood(s) /\ s.at \in Late

LuauOK(s) ==
    /\ LuauGood(s)
    /\ s.at \in Early \cup Counted \cup Late
    /\ s.at \in Early => s.n = 0

(* What luau_load's reader is while parse's reader is s. *)
Mirror(s) == IF s.at \in Counted THEN [s EXCEPT !.n = 0] ELSE s

(* parse goes to p and luau_load to l, which is the same unless parse has    *)
(* refused.                                                                 *)
Agreed(p, l) == p = Refused \/ (Later(p) /\ l = p)

-----------------------------------------------------------------------------
(* What the operations on readers keep. *)
LEMMA GoLater ==
    ASSUME NEW s, LuauGood(s), NEW f \in Late
    PROVE  Later(Go(s, f))
  BY DEF Later, LuauGood, Rec, LuauNames, Go

(* A block to skip keeps what a reader must have. *)
LEMMA BlockLater ==
    ASSUME NEW s, LuauGood(s), NEW f \in Late, NEW size
    PROVE  Later(Block(s, size, f))
  BY DEF Later, LuauGood, Rec, LuauNames, Block

(* A refusal in a loop is a refusal. *)
LEMMA RefusedAgain == [Refused EXCEPT !.n = 0] = Refused
  BY DEF Refused

(* The counter of a loop is free. *)
LEMMA CountLater ==
    ASSUME NEW s, Later(s), NEW m
    PROVE  Later([s EXCEPT !.n = m])
  BY DEF Later, LuauGood, Rec, LuauNames

(* Loops of both readers, with the states after them. *)
LEMMA TimesAgree ==
    ASSUME NEW s, LuauGood(s), NEW f \in Late, NEW m, NEW p, NEW l, Agreed(p, l)
    PROVE  Agreed(Times(s, m, f, p), Times(s, m, f, l))
<1>1. Later([s EXCEPT !.at = f, !.n = m])
  BY DEF Later, LuauGood, Rec, LuauNames
<1> QED BY <1>1 DEF Times, Agreed

(* The end of a round of a loop. *)
LEMMA AgainAgree ==
    ASSUME NEW s, LuauGood(s), NEW f \in Late, NEW p, NEW l, Agreed(p, l)
    PROVE  Agreed(Again(s, f, p), Again(s, f, l))
<1>1. Agreed([p EXCEPT !.n = 0], [l EXCEPT !.n = 0])
  BY RefusedAgain, CountLater DEF Agreed
<1> QED BY <1>1, TimesAgree DEF Again

(* A check that only parse makes. *)
LEMMA RequireAgree ==
    ASSUME NEW c, NEW p, NEW l, c => Agreed(p, l)
    PROVE  Agreed(Require(c, p), l)
  BY DEF Agreed, Require

(* The next constant of a prototype, or its children. *)
LEMMA NextConstantLater ==
    ASSUME NEW s, LuauGood(s)
    PROVE  Later(NextConstant(s))
<1>1. Later([s EXCEPT !.at = "kind", !.c = @ - 1])
  BY DEF Later, LuauGood, Rec, LuauNames, Late, ConstantFields
<1>2. Later(Go(s, "children"))
  BY GoLater DEF Late, RestFields
<1> QED BY <1>1, <1>2 DEF NextConstant

(* The next prototype, or the index of the main one. *)
LEMMA NextProtoLater ==
    ASSUME NEW s, LuauGood(s)
    PROVE  Later(NextProto(s))
<1>1. \A f \in {"main", "protoSize", "metadata"} : Later(Go(s, f))
  BY GoLater DEF Late, ProtoFields
<1> QED BY <1>1 DEF NextProto

(* A prototype is complete. *)
LEMMA ProtoDoneLater ==
    ASSUME NEW s, LuauGood(s)
    PROVE  Later(ProtoDone(s))
<1> DEFINE t == [s EXCEPT !.i = @ + 1, !.end = 0, !.stack = 0, !.inlinable = FALSE,
                          !.words = 0, !.k = 0, !.b = 0]
<1>1. LuauGood(t)
  BY DEF LuauGood, Rec, LuauNames
<1>2. ProtoDone(s) = NextProto(t)
  BY DEF ProtoDone
<1> HIDE DEF t
<1> QED BY <1>1, <1>2, NextProtoLater

(* The end of a prototype: parse refuses an end that has been passed. *)
LEMMA EndLater ==
    ASSUME NEW s, LuauGood(s)
    PROVE  /\ Agreed(parseEnd(s), loadEnd(s))
           /\ Agreed(parseAfterDebug(s), loadAfterDebug(s))
           /\ Agreed(parseAfterFeedback(s), loadAfterFeedback(s))
<1>1. Later(ProtoDone(s)) /\ Later(Block(s, s.left - s.end, "rest"))
      /\ Later(Go(s, "feedback")) /\ Later(Go(s, "cost"))
  BY ProtoDoneLater, BlockLater, GoLater DEF Late, RestFields
<1>2. Agreed(parseEnd(s), loadEnd(s))
  <2>1. CASE s.version < 12
    BY <1>1, <2>1 DEF parseEnd, loadEnd, Agreed
  <2>2. CASE ~ (s.version < 12) /\ s.left >= s.end
    BY <1>1, <2>2 DEF parseEnd, loadEnd, Agreed, Require
  <2>3. CASE ~ (s.version < 12) /\ ~ (s.left >= s.end)
    BY <2>3 DEF parseEnd, loadEnd, Agreed, Require
  <2> QED BY <2>1, <2>2, <2>3
<1>3. Agreed(parseAfterDebug(s), loadAfterDebug(s))
  BY <1>1, <1>2 DEF parseAfterDebug, loadAfterDebug, Agreed
<1>4. Agreed(parseAfterFeedback(s), loadAfterFeedback(s))
  BY <1>1, <1>2 DEF parseAfterFeedback, loadAfterFeedback, Agreed
<1> QED BY <1>2, <1>3, <1>4

(* An index that parse has found to be in range is inside luau_load's table. *)
LEMMA IndexInside ==
    ASSUME NEW s, LuauGood(s), NEW v, NEW size, v < size
    PROVE  Index(s, v, size) = s
  BY DEF Index, LuauGood, Rec, LuauNames

(* The same for the index of a string, which is one more. *)
LEMMA StringInside ==
    ASSUME NEW s, LuauGood(s), NEW v \in Nat, v <= s.strings
    PROVE  readString(s, v) = s
<1>1. v # 0 => v - 1 < s.strings
  BY DEF LuauGood
<1> QED BY <1>1, IndexInside DEF readString

-----------------------------------------------------------------------------
(* The two readers field by field. *)
LEMMA ProtoAgree ==
    ASSUME NEW s, LuauGood(s), s.at \in ProtoFields, NEW v,
           s.at = "words" => v \in Nat
    PROVE  Agreed(parseProto(s, v), loadProto(s, v))
<1>1. \A f \in ProtoFields \cup {"kind", "children"} : f \in Late
  BY DEF Late, ConstantFields, RestFields
<1>2. CASE s.at = "protoSize"
  <2> DEFINE t == [s EXCEPT !.end = s.left - v, !.at = "metadata"]
  <2>1. Later(t)
    BY DEF Later, LuauGood, Rec, LuauNames, Late, ProtoFields
  <2>2. parseProto(s, v) = Require(v \in 1 .. s.left, t) /\ loadProto(s, v) = t
    BY <1>2 DEF parseProto, loadProto
  <2> QED BY <2>1, <2>2 DEF Agreed, Require
<1>3. CASE s.at = "metadata"
  <2> DEFINE t == [s EXCEPT !.stack = v.stack, !.at = IF s.version >= 4 THEN "flags" ELSE "words"]
  <2>1. Later(t)
    BY DEF Later, LuauGood, Rec, LuauNames, Late, ProtoFields
  <2>2. parseProto(s, v) = Require(v.valid, t) /\ loadProto(s, v) = t
    BY <1>3 DEF parseProto, loadProto
  <2> QED BY <2>1, <2>2 DEF Agreed, Require
<1>4. CASE s.at = "flags"
  <2> DEFINE t == [s EXCEPT !.inlinable = (v = 1), !.at = "typesize"]
  <2>1. Later(t)
    BY DEF Later, LuauGood, Rec, LuauNames, Late, ProtoFields
  <2>2. parseProto(s, v) = t /\ loadProto(s, v) = t
    BY <1>4 DEF parseProto, loadProto
  <2> QED BY <2>1, <2>2 DEF Agreed
<1>5. CASE s.at \in {"typesize", "typeinfo", "code"}
  <2>1. loadProto(s, v) = parseProto(s, v)
        /\ parseProto(s, v) \in {Block(s, v, "typeinfo"), Go(s, "words"), Go(s, "constants")}
    BY <1>5 DEF parseProto, loadProto
  <2>2. Later(Block(s, v, "typeinfo")) /\ Later(Go(s, "words")) /\ Later(Go(s, "constants"))
    BY <1>1, BlockLater, GoLater DEF ProtoFields
  <2> QED BY <2>1, <2>2 DEF Agreed
<1>6. CASE s.at = "words"
  <2> DEFINE t == [s EXCEPT !.words = v, !.totalCodeWords = @ + v]
  <2>1. parseProto(s, v) = Count(s.totalCodeWords + v, Block(t, 4 * v, "code"))
        /\ loadProto(s, v) = Block(t, 4 * v, "code")
    BY <1>6 DEF parseProto, loadProto
  <2>2. s.totalCodeWords + v <= MaxObjects => LuauGood(t)
    BY <1>6 DEF LuauGood, Rec, LuauNames
  <2> HIDE DEF t
  <2>3. s.totalCodeWords + v <= MaxObjects => Later(Block(t, 4 * v, "code"))
    BY <2>2, <1>1, BlockLater DEF ProtoFields
  <2> QED BY <2>1, <2>3 DEF Agreed, Require, Count
<1>7. CASE s.at = "constants"
  <2> DEFINE t == [s EXCEPT !.k = v, !.c = v, !.totalConstants = @ + v]
  <2>1. parseProto(s, v) = Count(s.totalConstants + v, NextConstant(t))
        /\ loadProto(s, v) = NextConstant(t)
    BY <1>7 DEF parseProto, loadProto
  <2>2. s.totalConstants + v <= MaxObjects => LuauGood(t)
    BY DEF LuauGood, Rec, LuauNames
  <2> HIDE DEF t
  <2> QED BY <2>1, <2>2, NextConstantLater DEF Agreed, Require, Count
<1> QED BY <1>2, <1>3, <1>4, <1>5, <1>6, <1>7 DEF ProtoFields

(* The kinds that a version does not have are refused by parse only. *)
LEMMA ConstantAgree ==
    ASSUME NEW s, LuauGood(s), NEW v
    PROVE  Agreed(parseConstant(s, v), loadConstant(s, v))
<1>1. Later(NextConstant(s))
  BY NextConstantLater
<1>2. \A size : Later(Block(s, size, "payload"))
  BY BlockLater DEF Late, ConstantFields
<1>3. \A f \in {"name", "keys", "closure", "pairs", "sign", "class"} : Later(Go(s, f))
  BY GoLater DEF Late, ConstantFields
<1>4. /\ Kind.null = 0 /\ Kind.boolean = 1 /\ Kind.number = 2 /\ Kind.string = 3 /\ Kind.import = 4
      /\ Kind.table = 5 /\ Kind.closure = 6 /\ Kind.vector = 7 /\ Kind.tableWithConstants = 8
      /\ Kind.integer = 9 /\ Kind.classShape = 10 /\ Kind.vectorD = 11
  BY DEF Kind
<1>5. CASE v \in {0, 1, 2, 3, 4, 5, 6}
  BY <1>1, <1>2, <1>3, <1>4, <1>5 DEF parseConstant, loadConstant, Agreed
<1>6. CASE v = 7
  BY <1>2, <1>4, <1>6 DEF parseConstant, loadConstant, Agreed, Require
<1>7. CASE v = 8
  BY <1>3, <1>4, <1>7 DEF parseConstant, loadConstant, Agreed, Require
<1>8. CASE v = 9
  BY <1>3, <1>4, <1>8 DEF parseConstant, loadConstant, Agreed, Require
<1>9. CASE v = 10
  BY <1>3, <1>4, <1>9 DEF parseConstant, loadConstant, Agreed, Require
<1>10. CASE v = 11
  BY <1>2, <1>4, <1>10 DEF parseConstant, loadConstant, Agreed, Require
<1>11. CASE v \notin {0, 1, 2, 3, 4, 5, 6, 7, 8, 9, 10, 11}
  BY <1>4, <1>11 DEF parseConstant, Agreed
<1> QED BY <1>5, <1>6, <1>7, <1>8, <1>9, <1>10, <1>11

(* The constants of a prototype. *)
LEMMA ConstantsAgree ==
    ASSUME NEW s, LuauGood(s), s.at \in ConstantFields, NEW v,
           s.at = "name" => v \in Nat
    PROVE  Agreed(parseConstants(s, v), loadConstants(s, v))
<1>1. ConstantFields \subseteq Late
  BY DEF Late
<1>2. Later(NextConstant(s)) /\ Agreed(NextConstant(s), NextConstant(s))
  BY NextConstantLater DEF Agreed
<1>3. CASE s.at = "kind"
  BY <1>3, ConstantAgree DEF parseConstants, loadConstants
<1>4. CASE s.at \in {"payload", "magnitude"}
  BY <1>2, <1>4 DEF parseConstants, loadConstants
<1>5. CASE s.at = "name"
  <2>1. parseConstants(s, v) = StringId(v, s, NextConstant(s))
        /\ loadConstants(s, v) = NextConstant(readString(s, v))
    BY <1>5 DEF parseConstants, loadConstants
  <2> QED BY <1>2, <1>5, <2>1, StringInside DEF StringId, Require, Agreed
<1>6. CASE s.at \in {"keys", "pairs"}
  <2> DEFINE f == IF s.at = "keys" THEN "key" ELSE "pairKey"
  <2>1. f \in Late
    BY <1>1 DEF ConstantFields
  <2>2. parseConstants(s, v) = Count(v, Times(s, v, f, NextConstant(s)))
        /\ loadConstants(s, v) = Times(s, v, f, NextConstant(s))
    BY <1>6 DEF parseConstants, loadConstants
  <2> HIDE DEF f
  <2>3. Agreed(Times(s, v, f, NextConstant(s)), Times(s, v, f, NextConstant(s)))
    BY <1>2, <2>1, TimesAgree
  <2> QED BY <2>2, <2>3, RequireAgree DEF Count
<1>7. CASE s.at \in {"key", "value", "member"}
  <2> DEFINE f == IF s.at = "key" THEN "key" ELSE IF s.at = "value" THEN "pairKey" ELSE "member"
             t == Index(s, v, s.k)
  <2>1. f \in Late
    BY <1>1 DEF ConstantFields
  <2>2. parseConstants(s, v) = ConstantId(v, s, Again(s, f, NextConstant(s)))
        /\ loadConstants(s, v) = Again(t, f, NextConstant(t))
    BY <1>7 DEF parseConstants, loadConstants
  <2>3. v < s.k => t = s
    BY IndexInside
  <2> HIDE DEF f, t
  <2>4. Agreed(Again(s, f, NextConstant(s)), Again(s, f, NextConstant(s)))
    BY <1>2, <2>1, AgainAgree
  <2>5. v < s.k => Agreed(Again(s, f, NextConstant(s)), Again(t, f, NextConstant(t)))
    BY <2>3, <2>4
  <2>6. Agreed(Require(v < s.k, Again(s, f, NextConstant(s))), Again(t, f, NextConstant(t)))
    BY <2>5, RequireAgree
  <2> QED BY <2>2, <2>6 DEF ConstantId
<1>8. CASE s.at = "closure"
  <2>1. parseConstants(s, v) = Require(v < s.protos, NextConstant(s))
        /\ loadConstants(s, v) = NextConstant(Index(s, v, s.protos))
    BY <1>8 DEF parseConstants, loadConstants
  <2> QED BY <1>2, <2>1, IndexInside DEF Require, Agreed
<1>9. CASE s.at \in {"pairKey", "class"}
  <2> DEFINE f == IF s.at = "class" THEN "properties" ELSE "value"
  <2>1. Later(Go(s, f))
    BY <1>1, GoLater DEF ConstantFields
  <2>2. parseConstants(s, v) = ConstantId(v, s, Go(s, f))
        /\ loadConstants(s, v) = Go(Index(s, v, s.k), f)
    BY <1>9 DEF parseConstants, loadConstants
  <2> QED BY <2>1, <2>2, IndexInside DEF ConstantId, Require, Agreed
<1>10. CASE s.at = "sign"
  BY <1>1, <1>10, GoLater DEF parseConstants, loadConstants, Agreed, ConstantFields
<1>11. CASE s.at = "properties"
  <2> DEFINE t == [s EXCEPT !.n = v, !.at = "methods"]
  <2>1. Later(t)
    BY DEF Later, LuauGood, Rec, LuauNames, Late, ConstantFields
  <2>2. parseConstants(s, v) = t /\ loadConstants(s, v) = t
    BY <1>11 DEF parseConstants, loadConstants
  <2> QED BY <2>1, <2>2 DEF Agreed
<1>12. CASE s.at = "methods"
  <2> DEFINE t == [s EXCEPT !.n = 0]
             p == Times(s, s.n + v, "member", NextConstant(t))
  <2>1. LuauGood(t)
    BY DEF LuauGood, Rec, LuauNames
  <2>2. parseConstants(s, v) = Count(s.n + v, p) /\ loadConstants(s, v) = p
    BY <1>12 DEF parseConstants, loadConstants
  <2> HIDE DEF t
  <2>3. Agreed(NextConstant(t), NextConstant(t))
    BY <2>1, NextConstantLater DEF Agreed
  <2>4. Agreed(p, p)
    BY <1>1, <2>3, TimesAgree DEF ConstantFields
  <2> HIDE DEF p
  <2> QED BY <2>2, <2>4, RequireAgree DEF Count
<1> QED BY <1>3, <1>4, <1>5, <1>6, <1>7, <1>8, <1>9, <1>10, <1>11, <1>12 DEF ConstantFields

(* Without code there is no line information, as luau_load's arithmetic     *)
(* has it too.                                                              *)
LEMMA LinesAgree ==
    ASSUME NEW s, LuauGood(s), NEW v \in {0, 1, 32}
    PROVE  Agreed(parseLines(s, v), Block(s, s.words + 4 * Intervals(s.words, v), "lines"))
<1>1. 2^0 = 1 /\ 2^1 = 2
  OBVIOUS
<1>2. v < 32 /\ s.words = 0 => Intervals(s.words, v) = 0
  <2>1. \A m \in Nat : m >= 1 => (0 - 1) \div m + 1 = 0
    OBVIOUS
  <2>2. v < 32 => 2^v \in Nat /\ 2^v >= 1
    <3>1. v < 32 => v = 0 \/ v = 1
      OBVIOUS
    <3>2. v = 0 => 2^v = 1
      BY <1>1
    <3>3. v = 1 => 2^v = 2
      BY <1>1
    <3> QED BY <3>1, <3>2, <3>3
  <2>3. Intervals(0, v) = (0 - 1) \div 2^v + 1
    BY DEF Intervals
  <2> DEFINE m == 2^v
  <2> HIDE DEF m
  <2>4. v < 32 => (0 - 1) \div m + 1 = 0
    BY <2>1, <2>2 DEF m
  <2> QED BY <2>3, <2>4 DEF m
<1>3. Later(Block(s, s.words + 4 * Intervals(s.words, v), "lines"))
  BY BlockLater DEF Late, RestFields
<1>4. parseLines(s, v) = Require(v < 32, Block(s, s.words + 4 * Intervals(s.words, v), "lines"))
  BY <1>2 DEF parseLines, Require, LuauGood
<1> QED BY <1>3, <1>4 DEF Require, Agreed

(* The children, the line and debug information, the feedback and the end. *)
LEMMA RestAgree ==
    ASSUME NEW s, LuauGood(s), s.at \in RestFields, NEW v,
           s.at \in {"debugname", "varname", "upname", "lineinfo", "debuginfo"} => v \in Nat,
           s.at = "linegap" => v \in {0, 1, 32}
    PROVE  Agreed(parseRest(s, v), loadRest(s, v))
<1>1. RestFields \subseteq Late
  BY DEF Late
<1>2. /\ Agreed(parseEnd(s), loadEnd(s))
      /\ Agreed(parseAfterDebug(s), loadAfterDebug(s))
      /\ Agreed(parseAfterFeedback(s), loadAfterFeedback(s))
  BY EndLater
<1>3. \A f \in RestFields : Later(Go(s, f)) /\ Agreed(Go(s, f), Go(s, f))
  BY <1>1, GoLater DEF Agreed
<1>4. CASE s.at = "children"
  <2>1. parseRest(s, v) = Count(v, Times(s, v, "child", Go(s, "linedefined")))
        /\ loadRest(s, v) = Times(s, v, "child", Go(s, "linedefined"))
    BY <1>4 DEF parseRest, loadRest
  <2>2. Agreed(Times(s, v, "child", Go(s, "linedefined")), Times(s, v, "child", Go(s, "linedefined")))
    BY <1>1, <1>3, TimesAgree DEF RestFields
  <2> QED BY <2>1, <2>2, RequireAgree DEF Count
<1>5. CASE s.at = "child"
  <2> DEFINE t == Index(s, v, s.protos)
  <2>1. parseRest(s, v) = Require(v < s.protos, Again(s, "child", Go(s, "linedefined")))
        /\ loadRest(s, v) = Again(t, "child", Go(t, "linedefined"))
    BY <1>5 DEF parseRest, loadRest
  <2>2. v < s.protos => t = s
    BY IndexInside
  <2> HIDE DEF t
  <2>3. Agreed(Again(s, "child", Go(s, "linedefined")), Again(s, "child", Go(s, "linedefined")))
    BY <1>1, <1>3, AgainAgree DEF RestFields
  <2> QED BY <2>1, <2>2, <2>3 DEF Require, Agreed
<1>6. CASE s.at \in {"linedefined", "lines", "startpc", "endpc"}
  <2>1. loadRest(s, v) = parseRest(s, v)
        /\ \E f \in RestFields : parseRest(s, v) = Go(s, f)
    BY <1>6 DEF parseRest, loadRest, RestFields
  <2> QED BY <1>3, <2>1 DEF Agreed
<1>7. CASE s.at \in {"debugname", "varname"}
  <2> DEFINE f == IF s.at = "debugname" THEN "lineinfo" ELSE "startpc"
  <2>1. parseRest(s, v) = Require(v <= s.strings, Go(s, f))
        /\ loadRest(s, v) = Go(readString(s, v), f)
    BY <1>7 DEF parseRest, loadRest, StringId
  <2>2. Later(Go(s, f))
    BY <1>3 DEF RestFields
  <2>3. v <= s.strings => readString(s, v) = s
    BY <1>7, StringInside
  <2> QED BY <2>1, <2>2, <2>3 DEF Require, Agreed
<1>8. CASE s.at = "lineinfo"
  <2>1. v <= 1 => (v = 1 <=> v # 0)
    BY <1>8
  <2>2. Later(Go(s, "linegap")) /\ Later(Go(s, "debuginfo"))
    BY <1>3 DEF RestFields
  <2>3. parseRest(s, v) = Require(v <= 1, Go(s, IF v = 1 THEN "linegap" ELSE "debuginfo"))
        /\ loadRest(s, v) = Go(s, IF v # 0 THEN "linegap" ELSE "debuginfo")
    BY <1>8 DEF parseRest, loadRest
  <2> QED BY <2>1, <2>2, <2>3 DEF Require, Agreed
<1>9. CASE s.at = "linegap"
  <2>1. parseRest(s, v) = parseLines(s, v)
        /\ loadRest(s, v) = Block(s, s.words + 4 * Intervals(s.words, v), "lines")
    BY <1>9 DEF parseRest, loadRest
  <2> QED BY <1>9, <2>1, LinesAgree
<1>10. CASE s.at = "debuginfo"
  <2>1. v <= 1 => (v = 1 <=> v # 0)
    BY <1>10
  <2>2. Later(Go(s, "locals"))
    BY <1>3 DEF RestFields
  <2>3. parseRest(s, v) = Require(v <= 1, IF v = 1 THEN Go(s, "locals") ELSE parseAfterDebug(s))
        /\ loadRest(s, v) = IF v # 0 THEN Go(s, "locals") ELSE loadAfterDebug(s)
    BY <1>10 DEF parseRest, loadRest
  <2> QED BY <1>2, <2>1, <2>2, <2>3 DEF Require, Agreed
<1>11. CASE s.at = "locals"
  <2> DEFINE p == Times(s, v, "varname", Go(s, "upvalues"))
  <2>1. parseRest(s, v) = Count(v, p) /\ loadRest(s, v) = p
    BY <1>11 DEF parseRest, loadRest
  <2>2. Agreed(p, p)
    BY <1>1, <1>3, TimesAgree DEF RestFields
  <2> HIDE DEF p
  <2> QED BY <2>1, <2>2, RequireAgree DEF Count
<1>12. CASE s.at = "reg"
  <2> DEFINE p == Again(s, "varname", Go(s, "upvalues"))
  <2>1. parseRest(s, v) = Require(v < s.stack, p) /\ loadRest(s, v) = p
    BY <1>12 DEF parseRest, loadRest
  <2>2. Agreed(p, p)
    BY <1>1, <1>3, AgainAgree DEF RestFields
  <2> HIDE DEF p
  <2> QED BY <2>1, <2>2, RequireAgree
<1>13. CASE s.at = "upvalues"
  <2> DEFINE p == Times(s, v, "upname", parseAfterDebug(s))
             l == Times(s, v, "upname", loadAfterDebug(s))
  <2>1. parseRest(s, v) = Count(v, p) /\ loadRest(s, v) = l
    BY <1>13 DEF parseRest, loadRest
  <2>2. Agreed(p, l)
    BY <1>1, <1>2, TimesAgree DEF RestFields
  <2> HIDE DEF p, l
  <2> QED BY <2>1, <2>2, RequireAgree DEF Count
<1>14. CASE s.at = "upname"
  <2> DEFINE p == Again(s, "upname", parseAfterDebug(s))
             l(t) == Again(t, "upname", loadAfterDebug(t))
  <2>1. parseRest(s, v) = StringId(v, s, p) /\ loadRest(s, v) = l(readString(s, v))
    BY <1>14 DEF parseRest, loadRest
  <2>2. Agreed(p, l(s))
    BY <1>1, <1>2, AgainAgree DEF RestFields
  <2>3. v <= s.strings => readString(s, v) = s
    BY <1>14, StringInside
  <2>4. v <= s.strings => l(readString(s, v)) = l(s)
    BY <2>3
  <2> HIDE DEF p, l
  <2> QED BY <2>1, <2>2, <2>4 DEF StringId, Require, Agreed
<1>15. CASE s.at = "feedback"
  <2> DEFINE p == Times(s, v, "slot", parseAfterFeedback(s))
             l == Times(s, v, "slot", loadAfterFeedback(s))
  <2>1. parseRest(s, v) = Count(v, p) /\ loadRest(s, v) = l
    BY <1>15 DEF parseRest, loadRest
  <2>2. Agreed(p, l)
    BY <1>1, <1>2, TimesAgree DEF RestFields
  <2> HIDE DEF p, l
  <2> QED BY <2>1, <2>2, RequireAgree DEF Count
<1>16. CASE s.at = "slot"
  <2>1. parseRest(s, v) = Require(v = 0, Go(s, "slotpc")) /\ loadRest(s, v) = Go(s, "slotpc")
    BY <1>16 DEF parseRest, loadRest
  <2> QED BY <1>3, <2>1, RequireAgree DEF RestFields
<1>17. CASE s.at = "slotpc"
  <2>1. Agreed(Again(s, "slot", parseAfterFeedback(s)), Again(s, "slot", loadAfterFeedback(s)))
    BY <1>1, <1>2, AgainAgree DEF RestFields
  <2> QED BY <1>17, <2>1 DEF parseRest, loadRest
<1>18. CASE s.at \in {"cost", "rest"}
  BY <1>2, <1>18, ProtoDoneLater DEF parseRest, loadRest, Agreed
<1> QED BY <1>4, <1>5, <1>6, <1>7, <1>8, <1>9, <1>10, <1>11, <1>12, <1>13, <1>14, <1>15,
           <1>16, <1>17, <1>18 DEF RestFields

(* The header: luau_load follows, though it does not count the types. *)
LEMMA HeaderAgree ==
    ASSUME NEW s, LuauOK(s), s.at \in HeaderFields, NEW v,
           s.at \in {"strings", "typename"} => v \in Nat
    PROVE  \/ parseHeader(s, v) = Refused
           \/ LuauOK(parseHeader(s, v)) /\ loadHeader(Mirror(s), v) = Mirror(parseHeader(s, v))
<1> DEFINE p == parseHeader(s, v)
           l == loadHeader(Mirror(s), v)
<1>1. SUFFICES p = Refused \/ (LuauOK(p) /\ l = Mirror(p))
  OBVIOUS
<1>2. LuauGood(s)
  BY DEF LuauOK
<1>3. \A t : Later(t) => LuauOK(t) /\ Mirror(t) = t
  BY DEF LuauOK, Later, Mirror, Counted, Early, Late, ProtoFields, ConstantFields, RestFields
<1>4. s.at \notin Counted => Mirror(s) = s
  BY DEF Mirror
<1>5. CASE s.at = "version"
  <2> DEFINE t == [s EXCEPT !.version = v, !.at = IF v >= 4 THEN "types" ELSE "strings"]
  <2>1. LuauOK(t) /\ Mirror(t) = t
    BY <1>5 DEF LuauOK, LuauGood, Rec, LuauNames, Early, Mirror, Counted
  <2>2. p = Require(v \in VersionMin .. VersionMax, t)
        /\ l = Require(v \in VersionMin .. VersionMax \/ v = VersionClasses, t)
    BY <1>4, <1>5 DEF parseHeader, loadHeader, Counted
  <2> HIDE DEF p, l, t
  <2> QED BY <2>1, <2>2 DEF Require
<1>6. CASE s.at = "types"
  <2> DEFINE t == [s EXCEPT !.types = v, !.at = "strings"]
  <2>1. LuauOK(t) /\ Mirror(t) = t
    BY <1>6 DEF LuauOK, LuauGood, Rec, LuauNames, Early, Mirror, Counted
  <2>2. p = Require(v \in 1 .. 3, t) /\ l = Require(v \in 1 .. 3, t)
    BY <1>4, <1>6 DEF parseHeader, loadHeader, Counted
  <2> HIDE DEF p, l, t
  <2> QED BY <2>1, <2>2 DEF Require
<1>7. \A t : LuauGood(t) /\ t.n = 0 => LuauOK(AfterStrings(t)) /\ Mirror(AfterStrings(t)) = AfterStrings(t)
  <2> TAKE t
  <2> HAVE LuauGood(t) /\ t.n = 0
  <2>1. /\ LuauOK(Go(t, "index")) /\ Mirror(Go(t, "index")) = Go(t, "index")
        /\ LuauOK(Go(t, "protos")) /\ Mirror(Go(t, "protos")) = Go(t, "protos")
    BY DEF LuauOK, LuauGood, Rec, LuauNames, Go, Mirror, Counted, Early, Late
  <2> QED BY <2>1 DEF AfterStrings
<1>8. CASE s.at = "strings"
  <2> DEFINE t == [s EXCEPT !.strings = v]
             u == [t EXCEPT !.at = "length", !.n = v]
  <2>1. LuauGood(t) /\ t.n = 0
    BY <1>8 DEF LuauOK, LuauGood, Rec, LuauNames, Early
  <2>2. p = Require(v <= MaxObjects, IF v = 0 THEN AfterStrings(t) ELSE u)
        /\ l = IF v = 0 THEN AfterStrings(t) ELSE u
    BY <1>4, <1>8 DEF parseHeader, loadHeader, Counted, Times, Count
  <2> HIDE DEF t
  <2>3. Later(u)
    BY <2>1 DEF Later, LuauGood, Rec, LuauNames, Late
  <2> HIDE DEF p, l, u
  <2> QED BY <1>3, <1>7, <2>1, <2>2, <2>3 DEF Require
<1>9. CASE s.at = "length"
  <2>1. Later(Block(s, v, "string"))
    BY <1>2, BlockLater DEF Late
  <2>2. p = Block(s, v, "string") /\ l = Block(s, v, "string")
    BY <1>4, <1>9 DEF parseHeader, loadHeader, Counted
  <2> QED BY <1>3, <2>1, <2>2
<1>10. CASE s.at = "string"
  <2> DEFINE t == [AfterStrings(s) EXCEPT !.n = 0]
             u == [s EXCEPT !.at = "length", !.n = s.n - 1]
  <2>1. LuauOK(t) /\ Mirror(t) = t
    BY <1>2 DEF LuauOK, LuauGood, Rec, LuauNames, AfterStrings, Go, Mirror, Counted, Early, Late
  <2>2. Later(u)
    BY <1>2 DEF Later, LuauGood, Rec, LuauNames, Late
  <2>3. p = (IF s.n - 1 = 0 THEN t ELSE u) /\ l = p
    BY <1>4, <1>10 DEF parseHeader, loadHeader, Counted, Again, Times
  <2> HIDE DEF p, l, t, u
  <2> QED BY <1>3, <2>1, <2>2, <2>3
<1>11. CASE s.at = "index"
  <2> DEFINE t == [s EXCEPT !.n = 0]
             u == [s EXCEPT !.at = "protos", !.n = 0]
  <2>1. Mirror(s) = t /\ t.at = "index"
    BY <1>2, <1>11 DEF Mirror, Counted, LuauGood, Rec, LuauNames
  <2>2. Later(u) /\ u = Go(t, "protos")
    BY <1>2 DEF Later, LuauGood, Rec, LuauNames, Late, Go
  <2>3. LuauOK(Go(s, "typename")) /\ Mirror(Go(s, "typename")) = Go(t, "typename")
    BY <1>2 DEF LuauOK, LuauGood, Rec, LuauNames, Go, Mirror, Counted, Early
  <2>4. p = (IF v = 0 THEN u ELSE Require(s.n < MaxUserdataTypes, Go(s, "typename")))
    BY <1>11 DEF parseHeader
  <2>5. l = Go(t, IF v # 0 THEN "typename" ELSE "protos")
    BY <2>1 DEF loadHeader
  <2> HIDE DEF p, l, t, u
  <2> QED BY <1>3, <2>2, <2>3, <2>4, <2>5 DEF Require
<1>12. CASE s.at = "typename"
  <2> DEFINE t == [s EXCEPT !.n = 0]
             u == [s EXCEPT !.at = "index", !.n = @ + 1]
  <2>1. Mirror(s) = t /\ t.at = "typename" /\ LuauGood(t) /\ t.strings = s.strings
    BY <1>2, <1>12 DEF Mirror, Counted, LuauGood, Rec, LuauNames
  <2>2. LuauOK(u) /\ Mirror(u) = Go(t, "index")
    BY <1>2 DEF LuauOK, LuauGood, Rec, LuauNames, Go, Mirror, Counted, Early
  <2>3. p = Require(v <= s.strings, u)
    BY <1>12 DEF parseHeader, StringId
  <2>4. l = Go(readString(t, v), "index")
    BY <2>1 DEF loadHeader
  <2> HIDE DEF p, l, t, u
  <2>5. v <= s.strings => readString(t, v) = t
    BY <1>12, <2>1, StringInside
  <2> QED BY <2>2, <2>3, <2>4, <2>5 DEF Require
<1>13. CASE s.at = "protos"
  <2> DEFINE t == [s EXCEPT !.protos = v]
  <2>1. LuauGood(t)
    BY <1>2 DEF LuauGood, Rec, LuauNames
  <2>2. p = Require(v \in 1 .. MaxObjects, NextProto(t)) /\ l = NextProto(t)
    BY <1>4, <1>13 DEF parseHeader, loadHeader, Counted
  <2> HIDE DEF p, l, t
  <2> QED BY <1>3, <2>1, <2>2, NextProtoLater DEF Require
<1>14. CASE s.at = "main"
  <2>1. Later(Accepted(s))
    BY <1>2 DEF Accepted, Later, LuauGood, Rec, LuauNames, Late
  <2>2. p = Require(v < s.protos /\ s.left \in {0, 24}, Accepted(s))
        /\ l = Accepted(Index(s, v, s.protos))
    BY <1>4, <1>14 DEF parseHeader, loadHeader, Counted
  <2>3. v < s.protos => Index(s, v, s.protos) = s
    BY <1>2, IndexInside
  <2> HIDE DEF p, l
  <2> QED BY <1>3, <2>1, <2>2, <2>3 DEF Require
<1> QED BY <1>5, <1>6, <1>8, <1>9, <1>10, <1>11, <1>12, <1>13, <1>14 DEF HeaderFields

(* A field of a Luau chunk. *)
LEMMA LuauStep ==
    ASSUME NEW s, LuauOK(s), s.at # "accepted", NEW v,
           s.at \in {"strings", "typename", "words", "name", "debugname", "varname", "upname",
                     "lineinfo", "debuginfo"} => v \in Nat,
           s.at = "linegap" => v \in {0, 1, 32}
    PROVE  \/ parse(s, v) = Refused
           \/ LuauOK(parse(s, v)) /\ loadsafe(Mirror(s), v) = Mirror(parse(s, v))
<1>1. LuauGood(s) /\ s.at \in HeaderFields \cup ProtoFields \cup ConstantFields \cup RestFields
  BY DEF LuauOK, Early, Counted, Late, HeaderFields
<1>2. Mirror(s).at = s.at
  BY DEF LuauOK, LuauGood, Rec, LuauNames, Mirror
<1>3. \A t : Later(t) => LuauOK(t) /\ Mirror(t) = t
  BY DEF LuauOK, Later, Mirror, Counted, Early, Late, ProtoFields, ConstantFields, RestFields
<1>4. CASE s.at \in HeaderFields
  <2>0. s.at \notin ProtoFields \cup ConstantFields
    BY <1>4 DEF HeaderFields, ProtoFields, ConstantFields
  <2>1. parse(s, v) = parseHeader(s, v) /\ loadsafe(Mirror(s), v) = loadHeader(Mirror(s), v)
    BY <1>2, <1>4, <2>0 DEF parse, loadsafe
  <2> QED BY <1>4, <2>1, HeaderAgree
<1>5. CASE s.at \in ProtoFields
  <2>1. Mirror(s) = s /\ s.at \notin HeaderFields \cup ConstantFields
    BY <1>5 DEF Mirror, Counted, ProtoFields, HeaderFields, ConstantFields
  <2>2. parse(s, v) = parseProto(s, v) /\ loadsafe(s, v) = loadProto(s, v)
    BY <1>5, <2>1 DEF parse, loadsafe
  <2>3. Agreed(parseProto(s, v), loadProto(s, v))
    BY <1>1, <1>5, ProtoAgree
  <2> QED BY <1>3, <2>1, <2>2, <2>3 DEF Agreed
<1>6. CASE s.at \in ConstantFields
  <2>1. Mirror(s) = s /\ s.at \notin HeaderFields \cup ProtoFields
    BY <1>6 DEF Mirror, Counted, ProtoFields, HeaderFields, ConstantFields
  <2>2. parse(s, v) = parseConstants(s, v) /\ loadsafe(s, v) = loadConstants(s, v)
    BY <1>6, <2>1 DEF parse, loadsafe
  <2>3. Agreed(parseConstants(s, v), loadConstants(s, v))
    BY <1>1, <1>6, ConstantsAgree
  <2> QED BY <1>3, <2>1, <2>2, <2>3 DEF Agreed
<1>7. CASE s.at \in RestFields
  <2>1. Mirror(s) = s /\ s.at \notin HeaderFields \cup ProtoFields \cup ConstantFields
    BY <1>7 DEF Mirror, Counted, ProtoFields, HeaderFields, ConstantFields, RestFields
  <2>2. parse(s, v) = parseRest(s, v) /\ loadsafe(s, v) = loadRest(s, v)
    BY <1>7, <2>1 DEF parse, loadsafe
  <2>3. Agreed(parseRest(s, v), loadRest(s, v))
    BY <1>1, <1>7, RestAgree
  <2> QED BY <1>3, <2>1, <2>2, <2>3 DEF Agreed
<1> QED BY <1>1, <1>4, <1>5, <1>6, <1>7

(* The position moves alike in both readers. *)
LEMMA LuauMoved ==
    ASSUME NEW s, LuauOK(s), NEW w
    PROVE  /\ LuauOK(Moved(s, w)) /\ Moved(s, w).at = s.at
           /\ Moved(Mirror(s), w) = Mirror(Moved(s, w))
           /\ LuauWidths(Mirror(s)) = LuauWidths(s)
<1>1. LuauOK(Moved(s, w)) /\ Moved(s, w).at = s.at
  BY DEF LuauOK, LuauGood, Rec, LuauNames, Moved
<1>2. Moved(Mirror(s), w) = Mirror(Moved(s, w))
  BY <1>1 DEF LuauOK, LuauGood, Rec, LuauNames, Moved, Mirror
<1>3. Mirror(s).at = s.at /\ Mirror(s).b = s.b /\ Mirror(s).left = s.left
  BY DEF LuauOK, LuauGood, Rec, LuauNames, Mirror
<1> QED BY <1>1, <1>2, <1>3 DEF LuauWidths, Longest

(* What the input may hold is as the checks of a field need it. *)
LEMMA LuauField ==
    ASSUME NEW s, NEW v \in LuauValues(s)
    PROVE  /\ s.at \in {"strings", "typename", "words", "name", "debugname", "varname", "upname",
                        "lineinfo", "debuginfo"} => v \in Nat
           /\ s.at = "linegap" => v \in {0, 1, 32}
<1>1. Counts \subseteq Nat
  BY ReadersAssumption DEF Counts
<1>2. s.at = "linegap" => LuauValues(s) = {0, 1, 32}
  BY DEF LuauValues, LuauBlocks
<1>3. s.at = "strings" => LuauValues(s) = {0, 1}
  BY DEF LuauValues, LuauBlocks
<1>4. s.at \in {"typename", "words", "name", "debugname", "varname", "upname", "lineinfo", "debuginfo"}
         => LuauValues(s) = Counts
  BY DEF LuauValues, LuauBlocks
<1>5. s.at = "strings" => v \in Nat
  BY <1>3
<1>6. s.at \in {"typename", "words", "name", "debugname", "varname", "upname", "lineinfo", "debuginfo"}
         => v \in Nat
  BY <1>1, <1>4
<1> QED BY <1>2, <1>5, <1>6

-----------------------------------------------------------------------------
(* The limits are numbers. *)
LEMMA Limits ==
    /\ MaxObjects \in Nat /\ MaxFunctions \in Nat /\ MaxInstructions \in Nat
    /\ MaxConstants \in Nat /\ MaxMoonSecDepth \in Nat /\ MaxEntries \in Nat
    /\ MaxPrototypes \in Nat /\ MaxNesting \in Nat /\ Counts \subseteq Nat
  BY ReadersAssumption DEF Counts

(* Stacks of frames: the last one is replaced. *)
LEMMA SetTop ==
    ASSUME NEW S, NEW f \in Seq(S), f # << >>, NEW g \in S
    PROVE  LET h == [f EXCEPT ![Len(f)] = g]
           IN  /\ h \in Seq(S) /\ Len(h) = Len(f) /\ h # << >> /\ h[Len(f)] = g
               /\ \A i \in 1 .. Len(f) - 1 : h[i] = f[i]
               /\ Len(f) \in Nat /\ Len(f) >= 1
<1>1. Len(f) \in Nat /\ Len(f) >= 1 /\ DOMAIN f = 1 .. Len(f)
  BY EmptySeq
<1> DEFINE h == [f EXCEPT ![Len(f)] = g]
<1>2. h \in [1 .. Len(f) -> S]
  BY <1>1
<1>3. h \in Seq(S) /\ Len(h) = Len(f)
  BY <1>1, <1>2
<1>4. h # << >>
  BY <1>1, <1>3, EmptySeq
<1>5. h[Len(f)] = g /\ \A i \in 1 .. Len(f) - 1 : h[i] = f[i]
  <2> DEFINE m == Len(f)
  <2>1. m \in Nat /\ m >= 1 /\ DOMAIN f = 1 .. m
    BY <1>1
  <2> HIDE DEF m
  <2>2. [f EXCEPT ![m] = g][m] = g /\ \A i \in 1 .. m - 1 : [f EXCEPT ![m] = g][i] = f[i]
    BY <2>1
  <2> QED BY <2>2 DEF m
<1> QED BY <1>1, <1>3, <1>4, <1>5, Zenon

(* The last frame is removed. *)
LEMMA PopTop ==
    ASSUME NEW S, NEW f \in Seq(S), f # << >>
    PROVE  LET h == SubSeq(f, 1, Len(f) - 1)
           IN  /\ h \in Seq(S) /\ Len(h) = Len(f) - 1
               /\ \A i \in 1 .. Len(h) : h[i] = f[i]
               /\ Len(f) \in Nat /\ Len(f) >= 1
<1>1. Len(f) \in Nat /\ Len(f) >= 1 /\ DOMAIN f = 1 .. Len(f)
  BY EmptySeq
<1> QED BY <1>1, SubSeqProperties

(* A frame is added. *)
LEMMA PushTop ==
    ASSUME NEW S, NEW f \in Seq(S), NEW g \in S
    PROVE  LET h == Append(f, g)
           IN  /\ h \in Seq(S) /\ Len(h) = Len(f) + 1 /\ h # << >> /\ h[Len(h)] = g
               /\ \A i \in 1 .. Len(f) : h[i] = f[i]
               /\ Len(f) \in Nat
<1>1. Append(f, g) \in Seq(S) /\ Len(Append(f, g)) = Len(f) + 1 /\ Len(f) \in Nat
      /\ \A i \in 1 .. Len(f) : Append(f, g)[i] = f[i]
      /\ Append(f, g)[Len(f) + 1] = g
  BY AppendProperties
<1>2. Append(f, g) # << >>
  BY <1>1, EmptySeq
<1> QED BY <1>1, <1>2

-----------------------------------------------------------------------------
(* Lua 5.1 chunks. *)

Lua51Names ==
    {"at", "left", "n", "b", "sizeT", "frames", "totalInstructions", "totalConstants",
     "totalDebugEntries", "totalPrototypes"}

BodyFields == {"source", "sourceText", "proto", "code", "words", "constants", "tag", "string", "boolean",
               "number", "stringText", "children"}

Lua51Frame == [children : Int, code : Int, nups : Int, lines : Int, ups : Int]

Lua51Good(s) ==
    /\ Rec(s, Lua51Names)
    /\ s.frames \in Seq(Lua51Frame)
    /\ Len(s.frames) <= MaxNesting + 1
    /\ s.totalInstructions \in 0 .. MaxEntries /\ s.totalConstants \in 0 .. MaxEntries
    /\ s.totalDebugEntries \in 0 .. MaxEntries /\ s.totalPrototypes \in 0 .. MaxPrototypes

(* In the middle of a prototype. *)
InsideFields == BodyFields \cup DebugFields \cup {"call", "validate"}

Lua51Inside(s) == Lua51Good(s) /\ s.frames # << >> /\ s.at \in InsideFields

Lua51OK(s) == Lua51Inside(s) \/ (Lua51Good(s) /\ s.at \in {"header", "call", "accepted"})

Lua51Kept(t) == t = Refused \/ Lua51OK(t)

(* Fields and blocks inside a prototype. *)
LEMMA Lua51Go ==
    ASSUME NEW s, Lua51Good(s), s.frames # << >>, NEW f \in InsideFields
    PROVE  Lua51Inside(Go(s, f)) /\ \A size : Lua51Inside(Block(s, size, f))
  BY DEF Lua51Inside, Lua51Good, Rec, Lua51Names, Go, Block, InsideFields

(* Loops inside a prototype. *)
LEMMA Lua51Times ==
    ASSUME NEW s, Lua51Good(s), s.frames # << >>, NEW f \in InsideFields, NEW m,
           NEW rest, Lua51Inside(rest)
    PROVE  Lua51Inside(Times(s, m, f, rest)) /\ Lua51Inside(Again(s, f, rest))
<1>1. \A c : Lua51Inside([s EXCEPT !.at = f, !.n = c])
  BY DEF Lua51Inside, Lua51Good, Rec, Lua51Names, InsideFields
<1>2. Lua51Inside([rest EXCEPT !.n = 0])
  BY DEF Lua51Inside, Lua51Good, Rec, Lua51Names
<1> QED BY <1>1, <1>2 DEF Times, Again

(* The prototype in progress has a frame. *)
LEMMA Lua51Top ==
    ASSUME NEW s, Lua51Good(s), s.frames # << >>
    PROVE  Proto(s) \in Lua51Frame
<1>1. s.frames \in Seq(Lua51Frame) /\ Len(s.frames) \in Nat /\ Len(s.frames) >= 1
  BY EmptySeq DEF Lua51Good
<1> QED BY <1>1 DEF Proto

(* The frame of the prototype in progress changes. *)
LEMMA Lua51Set ==
    ASSUME NEW s, Lua51Good(s), s.frames # << >>, NEW g \in Lua51Frame
    PROVE  Lua51Good(SetProto(s, g)) /\ SetProto(s, g).frames # << >>
<1>1. s.frames \in Seq(Lua51Frame)
  BY DEF Lua51Good
<1> DEFINE f == s.frames
           h == [f EXCEPT ![Len(f)] = g]
<1>2. h \in Seq(Lua51Frame) /\ Len(h) = Len(f) /\ h # << >> /\ Len(f) \in Nat /\ Len(f) >= 1
  BY <1>1, SetTop
<1>3. SetProto(s, g) = [s EXCEPT !.frames = h]
  BY DEF SetProto
<1> HIDE DEF h
<1> QED BY <1>2, <1>3 DEF Lua51Good, Rec, Lua51Names

(* parseProto begins and ends. *)
LEMMA Lua51Enter ==
    ASSUME NEW s, Lua51Good(s)
    PROVE  Lua51Kept(enterProto(s))
<1> DEFINE g == [children |-> 0, code |-> 0, nups |-> 0, lines |-> 0, ups |-> 0]
           h == Append(s.frames, g)
           t == [s EXCEPT !.totalPrototypes = @ + 1, !.at = "source", !.frames = h]
<1>1. g \in Lua51Frame
  BY DEF Lua51Frame
<1>2. s.frames \in Seq(Lua51Frame)
  BY DEF Lua51Good
<1> HIDE DEF g
<1>3. h \in Seq(Lua51Frame) /\ Len(h) = Len(s.frames) + 1 /\ h # << >> /\ Len(s.frames) \in Nat
  BY <1>1, <1>2, PushTop
<1>4. enterProto(s) = Require(Len(s.frames) <= MaxNesting /\ s.totalPrototypes < MaxPrototypes, t)
  BY DEF enterProto, g
<1> HIDE DEF h
<1>5. Len(s.frames) <= MaxNesting /\ s.totalPrototypes < MaxPrototypes => Lua51Inside(t)
  <2>1. /\ Rec(t, Lua51Names) /\ t.frames = h /\ t.at = "source"
        /\ t.totalInstructions = s.totalInstructions /\ t.totalConstants = s.totalConstants
        /\ t.totalDebugEntries = s.totalDebugEntries /\ t.totalPrototypes = s.totalPrototypes + 1
    BY DEF Lua51Good, Rec, Lua51Names
  <2>2. Len(s.frames) <= MaxNesting => Len(h) <= MaxNesting + 1
    BY <1>3, Limits
  <2>3. s.totalPrototypes < MaxPrototypes => s.totalPrototypes + 1 \in 0 .. MaxPrototypes
    BY Limits DEF Lua51Good
  <2> HIDE DEF t
  <2> QED BY <1>3, <2>1, <2>2, <2>3 DEF Lua51Inside, Lua51Good, InsideFields, BodyFields
<1> QED BY <1>4, <1>5 DEF Require, Lua51Kept, Lua51OK

(* The loop over the children. *)
LEMMA Lua51NextChild ==
    ASSUME NEW s, Lua51Good(s), s.frames # << >>
    PROVE  Lua51Inside(NextChild(s))
<1>1. Lua51Inside(Go(s, "lines")) /\ Lua51Inside(Go(s, "call"))
  BY Lua51Go DEF InsideFields, DebugFields
<1> QED BY <1>1 DEF NextChild

(* validateProtoData, and the return to the parent or to parse. *)
LEMMA Lua51Leave ==
    ASSUME NEW s, Lua51Good(s), s.frames # << >>, NEW v
    PROVE  Lua51Kept(leaveProto(s, v))
<1> DEFINE h == SubSeq(s.frames, 1, Len(s.frames) - 1)
           t == [s EXCEPT !.frames = h]
           u == [t EXCEPT !.frames[Len(t.frames)].children = @ - 1]
<1>1. s.frames \in Seq(Lua51Frame)
  BY DEF Lua51Good
<1>2. h \in Seq(Lua51Frame) /\ Len(h) = Len(s.frames) - 1 /\ Len(s.frames) \in Nat
  BY <1>1, PopTop
<1>3. \/ leaveProto(s, v) \in {Refused, Accepted(t)}
      \/ t.frames # << >> /\ leaveProto(s, v) = NextChild(u)
  <2> DEFINE q == v /\ Proto(s).lines \in {0, Proto(s).code} /\ Proto(s).ups <= Proto(s).nups
  <2>1. leaveProto(s, v) = Require(q, IF t.frames = << >> THEN Require(t.left = 0, Accepted(t))
                                      ELSE NextChild(u))
    BY DEF leaveProto
  <2> HIDE DEF q, t, u
  <2> QED BY <2>1 DEF Require
<1> HIDE DEF h
<1>4. Lua51Good(t) /\ t.frames = h
  <2>1. /\ Rec(t, Lua51Names) /\ t.frames = h
        /\ t.totalInstructions = s.totalInstructions /\ t.totalConstants = s.totalConstants
        /\ t.totalDebugEntries = s.totalDebugEntries /\ t.totalPrototypes = s.totalPrototypes
    BY DEF Lua51Good, Rec, Lua51Names
  <2>2. Len(h) <= MaxNesting + 1
    BY <1>2, Limits DEF Lua51Good
  <2> HIDE DEF t
  <2> QED BY <1>2, <2>1, <2>2 DEF Lua51Good
<1>5. Lua51OK(Accepted(t))
  <2> HIDE DEF t
  <2> QED BY <1>4 DEF Lua51OK, Lua51Good, Rec, Lua51Names, Accepted
<1>6. t.frames # << >> => Lua51Inside(NextChild(u))
  <2> HAVE t.frames # << >>
  <2> HIDE DEF t
  <2>1. Proto(t) \in Lua51Frame
    BY <1>4, Lua51Top
  <2>2. [Proto(t) EXCEPT !.children = @ - 1] \in Lua51Frame
    BY <2>1 DEF Lua51Frame
  <2>3. u = SetProto(t, [Proto(t) EXCEPT !.children = @ - 1])
    BY DEF SetProto, Proto
  <2> HIDE DEF u
  <2> QED BY <1>4, <2>2, <2>3, Lua51Set, Lua51NextChild
<1> HIDE DEF t, u
<1> QED BY <1>3, <1>5, <1>6 DEF Lua51Kept, Lua51OK

(* The totals of instructions and constants stay within their limits. *)
LEMMA Lua51Body ==
    ASSUME NEW s, Lua51Good(s), s.frames # << >>, s.at \in BodyFields, NEW v,
           s.at \in {"code", "constants", "children"} => v \in Nat,
           s.at = "proto" => v.nups \in Int
    PROVE  readBody(s, v) = Refused \/ Lua51Inside(readBody(s, v))
<1>1. \A f \in InsideFields : Lua51Inside(Go(s, f)) /\ \A size : Lua51Inside(Block(s, size, f))
  BY Lua51Go
<1>2. Lua51Inside(Go(s, "children")) /\ Lua51Inside(Again(s, "tag", Go(s, "children")))
  BY <1>1, Lua51Times DEF InsideFields, BodyFields
<1>3. Proto(s) \in Lua51Frame
  BY Lua51Top
<1>4. CASE s.at \in {"source", "sourceText", "string"}
  BY <1>1, <1>4 DEF readBody, luaString, Require, InsideFields, BodyFields
<1>5. CASE s.at = "proto"
  <2> DEFINE g == [Proto(s) EXCEPT !.nups = v.nups]
  <2>1. g \in Lua51Frame
    BY <1>3, <1>5 DEF Lua51Frame
  <2>2. readBody(s, v) = Require(v.maxstack # 0, Go(SetProto(s, g), "code"))
    BY <1>5 DEF readBody
  <2> HIDE DEF g
  <2>3. Lua51Inside(Go(SetProto(s, g), "code"))
    BY <2>1, Lua51Set, Lua51Go DEF InsideFields, BodyFields
  <2> QED BY <2>2, <2>3 DEF Require
<1>6. CASE s.at = "code"
  <2> DEFINE t == [s EXCEPT !.totalInstructions = @ + v]
             g == [Proto(t) EXCEPT !.code = v]
  <2>1. v <= MaxEntries - s.totalInstructions =>
            Lua51Good(t) /\ t.frames # << >> /\ Proto(t) \in Lua51Frame
    <3>1. /\ Rec(t, Lua51Names) /\ t.frames = s.frames
          /\ t.totalInstructions = s.totalInstructions + v /\ t.totalConstants = s.totalConstants
          /\ t.totalDebugEntries = s.totalDebugEntries /\ t.totalPrototypes = s.totalPrototypes
      BY DEF Lua51Good, Rec, Lua51Names
    <3>2. v <= MaxEntries - s.totalInstructions => s.totalInstructions + v \in 0 .. MaxEntries
      BY <1>6, Limits DEF Lua51Good
    <3> HIDE DEF t
    <3> QED BY <1>3, <3>1, <3>2 DEF Lua51Good, Proto
  <2>2. readBody(s, v) = Require(v <= MaxEntries - s.totalInstructions,
                                 Block(SetProto(t, g), 4 * v, "words"))
    BY <1>6 DEF readBody
  <2> HIDE DEF t
  <2>3. Proto(t) \in Lua51Frame => g \in Lua51Frame
    BY <1>6 DEF Lua51Frame
  <2> HIDE DEF g
  <2>4. v <= MaxEntries - s.totalInstructions => Lua51Inside(Block(SetProto(t, g), 4 * v, "words"))
    <3> HAVE v <= MaxEntries - s.totalInstructions
    <3>1. Lua51Good(SetProto(t, g)) /\ SetProto(t, g).frames # << >>
      BY <2>1, <2>3, Lua51Set
    <3> QED BY <3>1, Lua51Go DEF InsideFields, BodyFields
  <2> QED BY <2>2, <2>4 DEF Require
<1>7. CASE s.at = "words"
  BY <1>1, <1>7 DEF readBody, Require, InsideFields, BodyFields
<1>8. CASE s.at = "constants"
  <2> DEFINE t == [s EXCEPT !.totalConstants = @ + v]
  <2>1. v <= MaxEntries - s.totalConstants => Lua51Good(t) /\ t.frames # << >>
    <3>1. /\ Rec(t, Lua51Names) /\ t.frames = s.frames
          /\ t.totalInstructions = s.totalInstructions /\ t.totalConstants = s.totalConstants + v
          /\ t.totalDebugEntries = s.totalDebugEntries /\ t.totalPrototypes = s.totalPrototypes
      BY DEF Lua51Good, Rec, Lua51Names
    <3>2. v <= MaxEntries - s.totalConstants => s.totalConstants + v \in 0 .. MaxEntries
      BY <1>8, Limits DEF Lua51Good
    <3> HIDE DEF t
    <3> QED BY <3>1, <3>2 DEF Lua51Good
  <2>2. readBody(s, v) = Require(v <= MaxEntries - s.totalConstants,
                                 Times(t, v, "tag", Go(t, "children")))
    BY <1>8 DEF readBody
  <2> HIDE DEF t
  <2>3. v <= MaxEntries - s.totalConstants => Lua51Inside(Times(t, v, "tag", Go(t, "children")))
    BY <2>1, Lua51Go, Lua51Times DEF InsideFields, BodyFields
  <2> QED BY <2>2, <2>3 DEF Require
<1>9. CASE s.at = "tag"
  <2>1. readBody(s, v) = constant(s, v)
    BY <1>9 DEF readBody
  <2>2. Lua51Inside(Go(s, "boolean")) /\ Lua51Inside(Block(s, 8, "number")) /\ Lua51Inside(Go(s, "string"))
    BY <1>1 DEF InsideFields, BodyFields
  <2> QED BY <1>2, <2>1, <2>2 DEF constant
<1>10. CASE s.at \in {"boolean", "number", "stringText"}
  BY <1>2, <1>10 DEF readBody
<1>11. CASE s.at = "children"
  <2> DEFINE g == [Proto(s) EXCEPT !.children = v]
  <2>1. g \in Lua51Frame
    BY <1>3, <1>11 DEF Lua51Frame
  <2>2. readBody(s, v) = Require(v <= MaxPrototypes, NextChild(SetProto(s, g)))
    BY <1>11 DEF readBody
  <2> HIDE DEF g
  <2>3. Lua51Inside(NextChild(SetProto(s, g)))
    BY <2>1, Lua51Set, Lua51NextChild
  <2> QED BY <2>2, <2>3 DEF Require
<1> QED BY <1>4, <1>5, <1>6, <1>7, <1>8, <1>9, <1>10, <1>11 DEF BodyFields

(* The total of debug entries stays within its limit. *)
LEMMA Lua51Debug ==
    ASSUME NEW s, Lua51Good(s), s.frames # << >>, s.at \in DebugFields, NEW v,
           s.at \in {"lines", "locals", "upvalues"} => v \in Nat
    PROVE  readDebug(s, v) = Refused \/ Lua51Inside(readDebug(s, v))
<1>1. \A f \in InsideFields : Lua51Inside(Go(s, f)) /\ \A size : Lua51Inside(Block(s, size, f))
  BY Lua51Go
<1>2. Lua51Inside(Again(s, "varname", Go(s, "upvalues")))
      /\ Lua51Inside(Again(s, "upname", Go(s, "validate")))
  BY <1>1, Lua51Times DEF InsideFields, DebugFields
<1>3. Proto(s) \in Lua51Frame
  BY Lua51Top
<1> DEFINE t == [s EXCEPT !.totalDebugEntries = @ + v]
           fits == v <= MaxEntries - s.totalDebugEntries
<1>4. s.at \in {"lines", "locals", "upvalues"} /\ fits =>
          Lua51Good(t) /\ t.frames # << >> /\ Proto(t) \in Lua51Frame
  <2>1. /\ Rec(t, Lua51Names) /\ t.frames = s.frames
        /\ t.totalInstructions = s.totalInstructions /\ t.totalConstants = s.totalConstants
        /\ t.totalDebugEntries = s.totalDebugEntries + v /\ t.totalPrototypes = s.totalPrototypes
    BY DEF Lua51Good, Rec, Lua51Names
  <2>2. v \in Nat /\ fits => s.totalDebugEntries + v \in 0 .. MaxEntries
    BY Limits DEF Lua51Good
  <2> HIDE DEF t, fits
  <2> QED BY <1>3, <2>1, <2>2 DEF Lua51Good, Proto
<1>5. CASE s.at = "lines"
  <2> DEFINE g == [Proto(t) EXCEPT !.lines = v]
  <2>1. readDebug(s, v) = Require(fits, Block(SetProto(t, g), 4 * v, "lineEntries"))
    BY <1>5 DEF readDebug, DebugEntries
  <2> HIDE DEF t, fits
  <2>2. Proto(t) \in Lua51Frame => g \in Lua51Frame
    BY <1>5 DEF Lua51Frame
  <2> HIDE DEF g
  <2>3. fits => Lua51Good(SetProto(t, g)) /\ SetProto(t, g).frames # << >>
    BY <1>4, <1>5, <2>2, Lua51Set
  <2>4. fits => Lua51Inside(Block(SetProto(t, g), 4 * v, "lineEntries"))
    BY <2>3, Lua51Go DEF InsideFields, DebugFields
  <2> QED BY <2>1, <2>4 DEF Require
<1>6. CASE s.at = "locals"
  <2>1. readDebug(s, v) = Require(fits, Times(t, v, "varname", Go(t, "upvalues")))
    BY <1>6 DEF readDebug, DebugEntries
  <2> HIDE DEF t, fits
  <2>2. fits => Lua51Inside(Times(t, v, "varname", Go(t, "upvalues")))
    BY <1>4, <1>6, Lua51Go, Lua51Times DEF InsideFields, DebugFields
  <2> QED BY <2>1, <2>2 DEF Require
<1>7. CASE s.at = "upvalues"
  <2> DEFINE g == [Proto(t) EXCEPT !.ups = v]
             u == SetProto(t, g)
  <2>1. readDebug(s, v) = Require(fits, Times(u, v, "upname", Go(u, "validate")))
    BY <1>7 DEF readDebug, DebugEntries
  <2> HIDE DEF t, fits
  <2>2. Proto(t) \in Lua51Frame => g \in Lua51Frame
    BY <1>7 DEF Lua51Frame
  <2> HIDE DEF g
  <2>3. fits => Lua51Good(u) /\ u.frames # << >>
    BY <1>4, <1>7, <2>2, Lua51Set
  <2> HIDE DEF u
  <2>4. fits => Lua51Inside(Times(u, v, "upname", Go(u, "validate")))
    BY <2>3, Lua51Go, Lua51Times DEF InsideFields, DebugFields
  <2> QED BY <2>1, <2>4 DEF Require
<1>8. CASE s.at \in {"lineEntries", "varname", "varnameText", "upname"}
  BY <1>1, <1>8 DEF readDebug, luaString, Require, InsideFields, DebugFields
<1>9. CASE s.at \in {"range", "upnameText"}
  BY <1>2, <1>9 DEF readDebug
<1> QED BY <1>5, <1>6, <1>7, <1>8, <1>9 DEF DebugFields

(* A field of a Lua 5.1 chunk. *)
LEMMA Lua51Step ==
    ASSUME NEW s, Lua51OK(s), s.at # "accepted", NEW v \in Lua51Values(s), NEW w
    PROVE  Lua51Kept(Lua51(Moved(s, w), v))
<1> DEFINE t == Moved(s, w)
<1>1. t.at = s.at /\ Lua51Good(t) /\ t.frames = s.frames /\ Lua51OK(t)
  BY DEF Moved, Lua51OK, Lua51Inside, Lua51Good, Rec, Lua51Names
<1> HIDE DEF t
<1>2. CASE s.at = "header"
  <2>1. Lua51(t, v) = Require(v \in {4, 8}, [t EXCEPT !.sizeT = v, !.at = "call"])
    BY <1>1, <1>2 DEF Lua51, DebugFields
  <2>2. Lua51OK([t EXCEPT !.sizeT = v, !.at = "call"])
    BY <1>1 DEF Lua51OK, Lua51Good, Rec, Lua51Names
  <2> QED BY <2>1, <2>2 DEF Require, Lua51Kept, t
<1>3. CASE s.at = "call"
  BY <1>1, <1>3, Lua51Enter DEF Lua51, DebugFields, t
<1>4. CASE s.at = "validate"
  <2>1. Lua51(t, v) = leaveProto(t, v)
    BY <1>1, <1>4 DEF Lua51, DebugFields
  <2>2. s.frames # << >>
    BY <1>4 DEF Lua51OK, Lua51Inside
  <2> QED BY <1>1, <2>1, <2>2, Lua51Leave DEF t
<1>5. CASE s.at \in DebugFields
  <2>1. Lua51(t, v) = readDebug(t, v)
    BY <1>1, <1>5 DEF Lua51, DebugFields
  <2>2. s.frames # << >>
    BY <1>5 DEF Lua51OK, Lua51Inside, DebugFields
  <2>3. s.at \in {"lines", "locals", "upvalues"} => v \in Nat
    <3>1. s.at \in {"lines", "locals", "upvalues"} => Lua51Values(s) = Counts
      BY DEF Lua51Values, Lua51Words, Lua51Sizes
    <3> QED BY <3>1, Limits
  <2> QED BY <1>1, <1>5, <2>1, <2>2, <2>3, Lua51Debug DEF t, Lua51Kept, Lua51OK
<1>6. CASE s.at \in BodyFields
  <2>1. Lua51(t, v) = readBody(t, v)
    BY <1>1, <1>6 DEF Lua51, DebugFields, BodyFields
  <2>2. s.frames # << >>
    BY <1>6 DEF Lua51OK, Lua51Inside, BodyFields
  <2>3. s.at \in {"code", "constants", "children"} => v \in Nat
    <3>1. s.at \in {"code", "constants", "children"} => Lua51Values(s) = Counts
      BY DEF Lua51Values, Lua51Words, Lua51Sizes
    <3> QED BY <3>1, Limits
  <2>4. s.at = "proto" => v.nups \in Int
    <3>1. s.at = "proto" => Lua51Values(s) = [maxstack : {0, 1}, nups : {0, 1}]
      BY DEF Lua51Values, Lua51Words, Lua51Sizes
    <3>2. s.at = "proto" => v \in [maxstack : {0, 1}, nups : {0, 1}]
      BY <3>1
    <3> QED BY <3>2
  <2> QED BY <1>1, <1>6, <2>1, <2>2, <2>3, <2>4, Lua51Body DEF t, Lua51Kept, Lua51OK
<1> QED BY <1>2, <1>3, <1>4, <1>5, <1>6 DEF Lua51OK, Lua51Inside, InsideFields

-----------------------------------------------------------------------------
(* MoonSec payloads. *)

(* The reader that builds the tree follows the one that counts. *)
LEMMA MoonSecAgree ==
    ASSUME NEW s, NEW v
    PROVE  SerializedReader(s, v) = Refused \/ VirtualTreeReader(s, v) = SerializedReader(s, v)
<1>1. serializedKind(s, v) = treeKind(s, v)
  BY DEF serializedKind, treeKind
<1>2. \A kind : serializedConstant(s, kind) = treeConstant(s, kind)
  BY DEF serializedConstant, treeConstant
<1>3. serializedConstants(s, v) = treeConstants(s, v)
  BY <1>1, <1>2 DEF serializedConstants, treeConstants
<1>4. serializedInstructions(s, v) = treeInstructions(s, v)
  BY DEF serializedInstructions, treeInstructions
<1>5. CASE s.at # "return"
  BY <1>3, <1>4, <1>5 DEF SerializedReader, VirtualTreeReader
<1>6. CASE s.at = "return"
  <2> DEFINE x == Require(s.left = 0 /\ s.instructions # 0, Accepted(s))
             y == Require(s.left = 0, Accepted(s))
  <2>1. SerializedReader(s, v) = leaveFunction(s, x) /\ VirtualTreeReader(s, v) = leaveFunction(s, y)
    BY <1>6 DEF SerializedReader, VirtualTreeReader, ConstantPart, InstructionPart
  <2>2. x = Refused \/ x = y
    BY DEF Require
  <2> HIDE DEF x, y
  <2>3. leaveFunction(s, x) = x \/ leaveFunction(s, x) = leaveFunction(s, y)
    <3> DEFINE t == [s EXCEPT !.frames = SubSeq(@, 1, Len(@) - 1)]
               u == [t EXCEPT !.frames[Len(t.frames)].rest = @ - 1]
               z == IF Frame(u).rest = 0 THEN PartDone(u) ELSE Go(u, "call")
    <3>1. leaveFunction(s, x) = (IF t.frames = << >> THEN x ELSE z)
          /\ leaveFunction(s, y) = (IF t.frames = << >> THEN y ELSE z)
      BY DEF leaveFunction
    <3> HIDE DEF t, z
    <3> QED BY <3>1
  <2> QED BY <2>1, <2>2, <2>3
<1> QED BY <1>5, <1>6

MoonSecNames ==
    {"at", "left", "n", "b", "size", "order", "tags", "frames", "functions", "instructions",
     "constants"}

MoonSecFrame == [part : Nat, rest : Int]

MoonSecGood(s) ==
    /\ Rec(s, MoonSecNames)
    /\ s.order \in Seq(Parts) /\ s.order # << >>
    /\ s.tags \in Seq({"unknown", "boolean", "number", "string"})
    /\ s.n \in Int
    /\ s.frames \in Seq(MoonSecFrame)
    /\ \A i \in 1 .. Len(s.frames) : s.frames[i].part \in 1 .. Len(s.order)
    /\ Len(s.frames) <= MaxMoonSecDepth + 1
    /\ s.functions \in 0 .. MaxFunctions /\ s.instructions \in 0 .. MaxInstructions
    /\ s.constants \in 0 .. MaxConstants

(* In the middle of a function.  The instructions that are still to be      *)
(* read fit: only the ones that are kept are counted.                       *)
CountingFields == {"descriptor", "operands"}
PlainFields == Parts \cup {"tag", "boolean", "number", "length", "string", "call", "return"}

MoonSecInside(s) ==
    /\ MoonSecGood(s)
    /\ s.frames # << >>
    /\ \/ s.at \in PlainFields
       \/ s.at \in CountingFields /\ s.n >= 1 /\ s.n <= MaxInstructions - s.instructions

MoonSecOK(s) == MoonSecInside(s) \/ (MoonSecGood(s) /\ s.at \in {"call", "accepted"})
MoonSecKept(t) == t = Refused \/ MoonSecOK(t)

(* Fields and blocks inside a function. *)
LEMMA MoonSecGo ==
    ASSUME NEW s, MoonSecGood(s), s.frames # << >>, NEW f \in PlainFields
    PROVE  MoonSecInside(Go(s, f)) /\ \A size : MoonSecInside(Block(s, size, f))
  BY DEF MoonSecInside, MoonSecGood, Rec, MoonSecNames, Go, Block

(* The counter of a loop is free. *)
LEMMA MoonSecCount ==
    ASSUME NEW s, MoonSecGood(s), NEW m \in Int
    PROVE  LET t == [s EXCEPT !.n = m]
           IN  MoonSecGood(t) /\ t.frames = s.frames /\ t.at = s.at
  BY DEF MoonSecGood, Rec, MoonSecNames

(* Loops over constants. *)
LEMMA MoonSecTimes ==
    ASSUME NEW s, MoonSecGood(s), s.frames # << >>, NEW f \in PlainFields,
           NEW rest, MoonSecInside(rest), rest.at \in PlainFields
    PROVE  /\ \A m \in Int : MoonSecInside(Times(s, m, f, rest))
           /\ MoonSecInside(Again(s, f, rest))
<1>1. \A c \in Int : MoonSecInside([s EXCEPT !.at = f, !.n = c])
  BY DEF MoonSecInside, MoonSecGood, Rec, MoonSecNames
<1>2. MoonSecInside([rest EXCEPT !.n = 0])
  <2> DEFINE t == [rest EXCEPT !.n = 0]
  <2>1. MoonSecGood(t) /\ t.frames = rest.frames /\ t.at = rest.at
    BY MoonSecCount DEF MoonSecInside
  <2> HIDE DEF t
  <2>2. MoonSecInside(t)
    BY <2>1 DEF MoonSecInside
  <2> QED BY <2>2 DEF t
<1>3. s.n - 1 \in Int
  BY DEF MoonSecGood
<1> QED BY <1>1, <1>2, <1>3 DEF Times, Again

(* The function in progress has a frame, at one of its parts. *)
LEMMA MoonSecTop ==
    ASSUME NEW s, MoonSecGood(s), s.frames # << >>
    PROVE  /\ Frame(s) \in MoonSecFrame /\ Frame(s).part \in 1 .. Len(s.order)
           /\ Len(s.frames) \in Nat /\ Len(s.frames) >= 1 /\ Len(s.order) \in Nat
<1>1. s.frames \in Seq(MoonSecFrame) /\ Len(s.frames) \in Nat /\ Len(s.frames) >= 1
  BY EmptySeq DEF MoonSecGood
<1>2. Len(s.order) \in Nat
  BY DEF MoonSecGood
<1> QED BY <1>1, <1>2 DEF Frame, MoonSecGood

(* The innermost function changes its part or the children it expects. *)
LEMMA MoonSecSet ==
    ASSUME NEW s, MoonSecGood(s), s.frames # << >>, NEW g \in MoonSecFrame,
           g.part \in 1 .. Len(s.order)
    PROVE  LET t == [s EXCEPT !.frames[Len(s.frames)] = g]
           IN  /\ MoonSecGood(t) /\ t.frames # << >> /\ Frame(t) = g /\ t.order = s.order
               /\ t.at = s.at
<1>1. s.frames \in Seq(MoonSecFrame)
  BY DEF MoonSecGood
<1> DEFINE f == s.frames
           h == [f EXCEPT ![Len(f)] = g]
           t == [s EXCEPT !.frames = h]
<1>2. /\ h \in Seq(MoonSecFrame) /\ Len(h) = Len(f) /\ h # << >> /\ Len(f) \in Nat /\ Len(f) >= 1
      /\ h[Len(f)] = g /\ \A i \in 1 .. Len(f) - 1 : h[i] = f[i]
  BY <1>1, SetTop
<1>3. \A i \in 1 .. Len(h) : h[i].part \in 1 .. Len(s.order)
  <2> SUFFICES ASSUME NEW i \in 1 .. Len(f) PROVE h[i].part \in 1 .. Len(s.order)
    BY <1>2
  <2> HIDE DEF h
  <2>1. CASE i = Len(f)
    BY <1>2, <2>1
  <2>2. CASE i # Len(f)
    <3>1. i \in 1 .. Len(f) - 1
      BY <1>2, <2>2
    <3> QED BY <1>2, <3>1 DEF MoonSecGood
  <2> QED BY <2>1, <2>2
<1> HIDE DEF h
<1>4. /\ Rec(t, MoonSecNames) /\ t.frames = h /\ t.order = s.order /\ t.at = s.at /\ t.n = s.n
      /\ t.functions = s.functions /\ t.instructions = s.instructions /\ t.constants = s.constants
      /\ t.tags = s.tags
  BY DEF MoonSecGood, Rec, MoonSecNames
<1>5. [s EXCEPT !.frames[Len(s.frames)] = g] = t
  BY DEF h
<1> HIDE DEF t
<1>6. MoonSecGood(t) /\ t.frames # << >> /\ Frame(t) = g
  BY <1>2, <1>3, <1>4 DEF MoonSecGood, Frame
<1> QED BY <1>4, <1>5, <1>6

(* A function goes on with its next part, or ends. *)
LEMMA MoonSecPartDone ==
    ASSUME NEW s, MoonSecGood(s), s.frames # << >>
    PROVE  /\ MoonSecInside(PartDone(s)) /\ PartDone(s).at \in PlainFields
           /\ PartDone(s).n = s.n
<1>1. /\ Frame(s) \in MoonSecFrame /\ Frame(s).part \in 1 .. Len(s.order)
      /\ Len(s.frames) \in Nat /\ Len(s.frames) >= 1 /\ Len(s.order) \in Nat
  BY MoonSecTop
<1>2. \A t, f : MoonSecGood(t) => Go(t, f).at = f /\ Go(t, f).n = t.n
  BY DEF MoonSecGood, Rec, MoonSecNames, Go
<1>3. CASE Frame(s).part = Len(s.order)
  <2>1. PartDone(s) = Go(s, "return")
    BY <1>3 DEF PartDone
  <2>2. "return" \in PlainFields
    BY DEF PlainFields
  <2> QED BY <1>2, <2>1, <2>2, MoonSecGo
<1>4. CASE Frame(s).part # Len(s.order)
  <2> DEFINE g == [Frame(s) EXCEPT !.part = @ + 1]
             t == [s EXCEPT !.frames[Len(s.frames)] = g]
  <2>1. g \in MoonSecFrame /\ g.part = Frame(s).part + 1
    BY <1>1 DEF MoonSecFrame
  <2>2. g.part \in 1 .. Len(s.order)
    BY <1>1, <1>4, <2>1
  <2>3. PartDone(s) = Go(t, s.order[Frame(t).part])
    BY <1>4 DEF PartDone, Frame
  <2> HIDE DEF g
  <2>4. MoonSecGood(t) /\ t.frames # << >> /\ Frame(t) = g
    BY <2>1, <2>2, MoonSecSet
  <2>5. t.n = s.n
    BY DEF MoonSecGood, Rec, MoonSecNames
  <2> HIDE DEF t
  <2>6. s.order[g.part] \in PlainFields
    <3>1. s.order \in Seq(Parts)
      BY DEF MoonSecGood
    <3> QED BY <2>2, <3>1 DEF PlainFields
  <2> QED BY <1>2, <2>3, <2>4, <2>5, <2>6, MoonSecGo
<1> QED BY <1>3, <1>4

(* parseFunction begins: depth and number of functions are checked. *)
LEMMA MoonSecEnter ==
    ASSUME NEW s, MoonSecGood(s)
    PROVE  MoonSecKept(enterFunction(s))
<1> DEFINE g == [part |-> 1, rest |-> 0]
           h == Append(s.frames, g)
           t == [s EXCEPT !.functions = @ + 1, !.at = s.order[1], !.frames = h]
<1>1. g \in MoonSecFrame /\ g.part = 1
  BY DEF MoonSecFrame
<1>2. s.frames \in Seq(MoonSecFrame) /\ s.order \in Seq(Parts) /\ Len(s.order) \in Nat
      /\ Len(s.order) >= 1
  BY EmptySeq DEF MoonSecGood
<1> HIDE DEF g
<1>3. /\ h \in Seq(MoonSecFrame) /\ Len(h) = Len(s.frames) + 1 /\ h # << >> /\ h[Len(h)] = g
      /\ Len(s.frames) \in Nat /\ \A i \in 1 .. Len(s.frames) : h[i] = s.frames[i]
  BY <1>1, <1>2, PushTop
<1>4. enterFunction(s) = Require(Len(s.frames) <= MaxMoonSecDepth /\ s.functions < MaxFunctions, t)
  BY DEF enterFunction, g
<1> HIDE DEF h
<1>5. \A i \in 1 .. Len(h) : h[i].part \in 1 .. Len(s.order)
  <2> SUFFICES ASSUME NEW i \in 1 .. Len(h) PROVE h[i].part \in 1 .. Len(s.order)
    OBVIOUS
  <2>1. CASE i = Len(h)
    BY <1>1, <1>2, <1>3, <2>1
  <2>2. CASE i # Len(h)
    <3>1. i \in 1 .. Len(s.frames)
      BY <1>3, <2>2
    <3> QED BY <1>3, <3>1 DEF MoonSecGood
  <2> QED BY <2>1, <2>2
<1>6. Len(s.frames) <= MaxMoonSecDepth /\ s.functions < MaxFunctions => MoonSecInside(t)
  <2>1. /\ Rec(t, MoonSecNames) /\ t.frames = h /\ t.order = s.order /\ t.at = s.order[1] /\ t.n = s.n
        /\ t.functions = s.functions + 1 /\ t.instructions = s.instructions
        /\ t.constants = s.constants /\ t.tags = s.tags
    BY DEF MoonSecGood, Rec, MoonSecNames
  <2>2. Len(s.frames) <= MaxMoonSecDepth => Len(h) <= MaxMoonSecDepth + 1
    BY <1>3, Limits
  <2>3. s.functions < MaxFunctions => s.functions + 1 \in 0 .. MaxFunctions
    BY Limits DEF MoonSecGood
  <2>4. s.order[1] \in PlainFields
    BY <1>2 DEF PlainFields
  <2> HIDE DEF t
  <2> QED BY <1>3, <1>5, <2>1, <2>2, <2>3, <2>4 DEF MoonSecInside, MoonSecGood
<1> HIDE DEF t
<1> QED BY <1>4, <1>6 DEF Require, MoonSecKept, MoonSecOK

(* parseFunction returns to the parent, or the payload is complete. *)
LEMMA MoonSecLeave ==
    ASSUME NEW s, MoonSecGood(s), s.frames # << >>, NEW done, MoonSecKept(done)
    PROVE  MoonSecKept(leaveFunction(s, done))
<1> DEFINE h == SubSeq(s.frames, 1, Len(s.frames) - 1)
           t == [s EXCEPT !.frames = h]
           u == [t EXCEPT !.frames[Len(t.frames)].rest = @ - 1]
<1>1. s.frames \in Seq(MoonSecFrame)
  BY DEF MoonSecGood
<1>2. /\ h \in Seq(MoonSecFrame) /\ Len(h) = Len(s.frames) - 1 /\ Len(s.frames) \in Nat
      /\ \A i \in 1 .. Len(h) : h[i] = s.frames[i]
  BY <1>1, PopTop
<1>3. leaveFunction(s, done) = IF t.frames = << >> THEN done
                               ELSE IF Frame(u).rest = 0 THEN PartDone(u) ELSE Go(u, "call")
  BY DEF leaveFunction
<1> HIDE DEF h
<1>4. MoonSecGood(t)
  <2>1. /\ Rec(t, MoonSecNames) /\ t.frames = h /\ t.order = s.order /\ t.n = s.n
        /\ t.functions = s.functions /\ t.instructions = s.instructions
        /\ t.constants = s.constants /\ t.tags = s.tags
    BY DEF MoonSecGood, Rec, MoonSecNames
  <2>2. Len(h) <= MaxMoonSecDepth + 1 /\ \A i \in 1 .. Len(h) : i \in 1 .. Len(s.frames)
    BY <1>2, Limits DEF MoonSecGood
  <2>3. \A i \in 1 .. Len(h) : h[i].part \in 1 .. Len(s.order)
    BY <1>2, <2>2 DEF MoonSecGood
  <2> HIDE DEF t
  <2> QED BY <1>2, <2>1, <2>2, <2>3 DEF MoonSecGood
<1> HIDE DEF t
<1>5. CASE t.frames # << >>
  <2> DEFINE g == [Frame(t) EXCEPT !.rest = @ - 1]
  <2>1. Frame(t) \in MoonSecFrame /\ Frame(t).part \in 1 .. Len(t.order)
    BY <1>4, <1>5, MoonSecTop
  <2>2. g \in MoonSecFrame /\ g.part = Frame(t).part
    BY <2>1 DEF MoonSecFrame
  <2>3. u = [t EXCEPT !.frames[Len(t.frames)] = g]
    BY DEF Frame
  <2> HIDE DEF g, u
  <2>4. MoonSecGood(u) /\ u.frames # << >>
    BY <1>4, <1>5, <2>1, <2>2, <2>3, MoonSecSet
  <2>5. MoonSecInside(PartDone(u)) /\ MoonSecInside(Go(u, "call"))
    BY <2>4, MoonSecPartDone, MoonSecGo DEF PlainFields
  <2> QED BY <1>3, <1>5, <2>5 DEF MoonSecKept, MoonSecOK
<1> HIDE DEF u
<1> QED BY <1>3, <1>5

(* The total of constants stays within its limit. *)
LEMMA MoonSecConstants ==
    ASSUME NEW s, MoonSecGood(s), s.frames # << >>, s.at \in ConstantPart, NEW v \in Nat
    PROVE  serializedConstants(s, v) = Refused \/ MoonSecInside(serializedConstants(s, v))
<1>1. \A f \in PlainFields : MoonSecInside(Go(s, f)) /\ \A size : MoonSecInside(Block(s, size, f))
  BY MoonSecGo
<1>2. MoonSecInside(PartDone(s)) /\ PartDone(s).at \in PlainFields
  BY MoonSecPartDone
<1>3. MoonSecInside(Again(s, "tag", PartDone(s)))
  BY <1>2, MoonSecTimes DEF PlainFields
<1>4. CASE s.at = "constants"
  <2> DEFINE t == [s EXCEPT !.constants = @ + v]
             fits == v <= MaxConstants - s.constants /\ v <= s.left
  <2>1. serializedConstants(s, v) = Require(fits, Times(t, v, "tag", PartDone(t)))
    BY <1>4 DEF serializedConstants
  <2>2. fits => MoonSecGood(t) /\ t.frames # << >>
    <3>1. /\ Rec(t, MoonSecNames) /\ t.frames = s.frames /\ t.order = s.order /\ t.n = s.n
          /\ t.functions = s.functions /\ t.instructions = s.instructions
          /\ t.constants = s.constants + v /\ t.tags = s.tags
      BY DEF MoonSecGood, Rec, MoonSecNames
    <3>2. fits => s.constants + v \in 0 .. MaxConstants
      <4>1. s.constants \in 0 .. MaxConstants /\ MaxConstants \in Nat
        BY Limits DEF MoonSecGood
      <4> QED BY <4>1
    <3> HIDE DEF t, fits
    <3> QED BY <3>1, <3>2 DEF MoonSecGood
  <2> HIDE DEF t, fits
  <2>3. fits => MoonSecInside(Times(t, v, "tag", PartDone(t)))
    <3> HAVE fits
    <3>1. MoonSecInside(PartDone(t)) /\ PartDone(t).at \in PlainFields
      BY <2>2, MoonSecPartDone
    <3>2. v \in Int /\ "tag" \in PlainFields
      BY DEF PlainFields
    <3> QED BY <2>2, <3>1, <3>2, MoonSecTimes
  <2> QED BY <2>1, <2>3 DEF Require
<1>5. CASE s.at = "tag"
  <2>1. serializedConstants(s, v) = serializedConstant(s, serializedKind(s, v))
    BY <1>5 DEF serializedConstants
  <2>2. serializedKind(s, v) \in {"unknown", "boolean", "number", "string"}
    <3>1. s.tags \in Seq({"unknown", "boolean", "number", "string"}) /\ Len(s.tags) \in Nat
      BY DEF MoonSecGood
    <3>2. v < Len(s.tags) => v + 1 \in 1 .. Len(s.tags)
      BY <3>1
    <3> QED BY <3>1, <3>2 DEF serializedKind
  <2>3. MoonSecInside(Go(s, "boolean")) /\ MoonSecInside(Block(s, 8, "number"))
        /\ MoonSecInside(Go(s, "length"))
    BY <1>1 DEF PlainFields
  <2> QED BY <1>3, <2>1, <2>2, <2>3 DEF serializedConstant
<1>6. CASE s.at = "length"
  BY <1>1, <1>6 DEF serializedConstants, Require, PlainFields
<1>7. CASE s.at \in {"boolean", "number", "string"}
  BY <1>3, <1>7 DEF serializedConstants
<1> QED BY <1>4, <1>5, <1>6, <1>7 DEF ConstantPart

(* A loop over instructions: those left fit, whether they are kept or not. *)
LEMMA MoonSecInstructionsLeft ==
    ASSUME NEW s, MoonSecGood(s), s.frames # << >>, NEW m \in Int, m >= 0,
           m <= MaxInstructions - s.instructions
    PROVE  /\ m # 0 => MoonSecInside([s EXCEPT !.at = "descriptor", !.n = m])
           /\ MoonSecInside([PartDone(s) EXCEPT !.n = 0])
<1>1. m # 0 => MoonSecInside([s EXCEPT !.at = "descriptor", !.n = m])
  <2> DEFINE t == [s EXCEPT !.at = "descriptor", !.n = m]
  <2>1. MoonSecGood(t) /\ t.frames = s.frames /\ t.at = "descriptor" /\ t.n = m
        /\ t.instructions = s.instructions
    BY DEF MoonSecGood, Rec, MoonSecNames
  <2> HIDE DEF t
  <2> QED BY <2>1 DEF MoonSecInside, CountingFields, t
<1>2. MoonSecInside([PartDone(s) EXCEPT !.n = 0])
  <2>1. MoonSecInside(PartDone(s)) /\ PartDone(s).at \in PlainFields
    BY MoonSecPartDone
  <2> DEFINE r == PartDone(s)
             t == [r EXCEPT !.n = 0]
  <2>2. MoonSecGood(r) /\ r.frames # << >> /\ r.at \in PlainFields
    BY <2>1 DEF MoonSecInside
  <2> HIDE DEF r
  <2>3. MoonSecGood(t) /\ t.frames = r.frames /\ t.at = r.at
    <3>1. 0 \in Int
      OBVIOUS
    <3> QED BY <2>2, <3>1, MoonSecCount, Zenon
  <2> HIDE DEF t
  <2>4. MoonSecInside(t)
    BY <2>2, <2>3 DEF MoonSecInside
  <2> QED BY <2>4 DEF r, t
<1> QED BY <1>1, <1>2

(* The total of instructions stays within its limit. *)
LEMMA MoonSecInstructions ==
    ASSUME NEW s, MoonSecInside(s), s.at \in InstructionPart, NEW v,
           s.at = "instructions" => v \in Nat
    PROVE  serializedInstructions(s, v) = Refused \/ MoonSecInside(serializedInstructions(s, v))
<1>0. MoonSecGood(s) /\ s.frames # << >> /\ s.instructions \in Nat /\ s.n \in Int
  BY Limits DEF MoonSecInside, MoonSecGood
<1>1. CASE s.at = "instructions"
  <2> DEFINE fits == v <= MaxInstructions - s.instructions /\ v <= s.left
             t == [s EXCEPT !.at = "descriptor", !.n = v]
  <2>1. serializedInstructions(s, v) = Require(fits, IF v = 0 THEN PartDone(s) ELSE t)
    BY <1>1 DEF serializedInstructions, Times
  <2>2. fits /\ v # 0 => MoonSecInside(t)
    <3>1. v \in Int /\ v >= 0
      BY <1>1
    <3> QED BY <1>0, <3>1, MoonSecInstructionsLeft
  <2>3. MoonSecInside(PartDone(s))
    BY <1>0, MoonSecPartDone
  <2> HIDE DEF t, fits
  <2> QED BY <2>1, <2>2, <2>3 DEF Require
<1>2. CASE s.at \in CountingFields
  <2>1. s.n >= 1 /\ s.n <= MaxInstructions - s.instructions
    BY <1>2 DEF MoonSecInside, CountingFields, PlainFields, Parts
  <2>2. CASE s.at = "descriptor"
    <3> DEFINE rest == [PartDone(s) EXCEPT !.n = 0]
               more == [s EXCEPT !.at = "descriptor", !.n = s.n - 1]
    <3>1. serializedInstructions(s, v)
            = IF v.discarded THEN IF s.n - 1 = 0 THEN rest ELSE more
              ELSE Block(s, IF v.shape = 3 THEN 10 ELSE 8, "operands")
      BY <2>2 DEF serializedInstructions, Again, Times
    <3>2. MoonSecInside(rest) /\ (s.n - 1 # 0 => MoonSecInside(more))
      <4>1. s.n - 1 \in Int /\ s.n - 1 >= 0 /\ s.n - 1 <= MaxInstructions - s.instructions
        BY <1>0, <2>1, Limits
      <4> QED BY <1>0, <4>1, MoonSecInstructionsLeft
    <3>3. \A size : MoonSecInside(Block(s, size, "operands"))
      <4> TAKE size
      <4> DEFINE t == Block(s, size, "operands")
      <4>1. MoonSecGood(t) /\ t.frames = s.frames /\ t.at = "operands" /\ t.n = s.n
            /\ t.instructions = s.instructions
        BY <1>0 DEF MoonSecGood, Rec, MoonSecNames, Block
      <4> HIDE DEF t
      <4> QED BY <1>0, <2>1, <4>1 DEF MoonSecInside, CountingFields, t
    <3> HIDE DEF rest, more
    <3> QED BY <3>1, <3>2, <3>3
  <2>3. CASE s.at = "operands"
    <3> DEFINE t == [s EXCEPT !.instructions = @ + 1]
               rest == [PartDone(t) EXCEPT !.n = 0]
               more == [t EXCEPT !.at = "descriptor", !.n = t.n - 1]
    <3>1. serializedInstructions(s, v) = IF t.n - 1 = 0 THEN rest ELSE more
      BY <2>3 DEF serializedInstructions, Again, Times
    <3>2. MoonSecGood(t) /\ t.frames = s.frames /\ t.n = s.n /\ t.instructions = s.instructions + 1
      <4>1. /\ Rec(t, MoonSecNames) /\ t.frames = s.frames /\ t.order = s.order /\ t.n = s.n
            /\ t.functions = s.functions /\ t.instructions = s.instructions + 1
            /\ t.constants = s.constants /\ t.tags = s.tags
        BY <1>0 DEF MoonSecGood, Rec, MoonSecNames
      <4>2. s.instructions + 1 \in 0 .. MaxInstructions
        BY <1>0, <2>1, Limits
      <4> HIDE DEF t
      <4> QED BY <1>0, <4>1, <4>2 DEF MoonSecGood
    <3> HIDE DEF t
    <3>3. t.n - 1 \in Int /\ t.n - 1 >= 0 /\ t.n - 1 <= MaxInstructions - t.instructions
      BY <1>0, <2>1, <3>2, Limits
    <3>4. MoonSecInside(rest) /\ (t.n - 1 # 0 => MoonSecInside(more))
      BY <1>0, <3>2, <3>3, MoonSecInstructionsLeft
    <3> HIDE DEF rest, more
    <3> QED BY <3>1, <3>4
  <2> QED BY <1>2, <2>2, <2>3 DEF CountingFields
<1> QED BY <1>1, <1>2 DEF InstructionPart, CountingFields

(* The number of children is checked before the first one is read. *)
LEMMA MoonSecFunctions ==
    ASSUME NEW s, MoonSecGood(s), s.frames # << >>, NEW v \in Nat
    PROVE  functionsPart(s, v) = Refused \/ MoonSecInside(functionsPart(s, v))
<1> DEFINE g == [Frame(s) EXCEPT !.rest = v]
           t == [s EXCEPT !.frames[Len(s.frames)] = g]
           fits == v <= MaxFunctions - s.functions /\ v <= s.size \div 5
<1>1. functionsPart(s, v) = Require(fits, IF v = 0 THEN PartDone(s) ELSE Go(t, "call"))
  <2>1. Go(t, "call") = [s EXCEPT !.at = "call", !.frames[Len(s.frames)].rest = v]
    BY DEF Go, Frame, MoonSecGood, Rec, MoonSecNames
  <2> QED BY <2>1 DEF functionsPart
<1>2. Frame(s) \in MoonSecFrame /\ Frame(s).part \in 1 .. Len(s.order)
  BY MoonSecTop
<1>3. g \in MoonSecFrame /\ g.part = Frame(s).part
  BY <1>2 DEF MoonSecFrame
<1> HIDE DEF g
<1>4. MoonSecGood(t) /\ t.frames # << >>
  BY <1>2, <1>3, MoonSecSet
<1> HIDE DEF t, fits
<1>5. MoonSecInside(PartDone(s)) /\ MoonSecInside(Go(t, "call"))
  BY <1>4, MoonSecPartDone, MoonSecGo DEF PlainFields
<1> QED BY <1>1, <1>5 DEF Require

(* A field of a MoonSec payload. *)
LEMMA MoonSecStep ==
    ASSUME NEW s, MoonSecOK(s), s.at # "accepted", NEW v \in MoonSecValues(s), NEW w
    PROVE  MoonSecKept(SerializedReader(Moved(s, w), v))
<1> DEFINE t == Moved(s, w)
<1>1. t.at = s.at /\ MoonSecGood(t) /\ t.frames = s.frames /\ t.n = s.n /\ t.instructions = s.instructions
  BY DEF Moved, MoonSecOK, MoonSecInside, MoonSecGood, Rec, MoonSecNames
<1> HIDE DEF t
<1>2. MoonSecInside(s) => MoonSecInside(t)
  BY <1>1 DEF MoonSecInside
<1>3. s.at # "call" => MoonSecInside(s)
  BY DEF MoonSecOK
<1>4. CASE s.at = "call"
  BY <1>1, <1>4, MoonSecEnter DEF SerializedReader, ConstantPart, InstructionPart, t
<1>5. CASE s.at \in ConstantPart
  <2>1. SerializedReader(t, v) = serializedConstants(t, v)
    BY <1>1, <1>5 DEF SerializedReader, ConstantPart, InstructionPart
  <2>2. v \in Nat
    <3>1. MoonSecValues(s) \in {0 .. 4, Counts, {0}}
      BY <1>5 DEF MoonSecValues, ConstantPart, MoonSecWords
    <3>2. v \in 0 .. 4 \/ v \in Counts \/ v = 0
      BY <3>1
    <3>3. Counts \subseteq Nat
      BY Limits
    <3>4. 0 .. 4 \subseteq Nat /\ 0 \in Nat
      OBVIOUS
    <3> QED BY <3>2, <3>3, <3>4, Zenon
  <2>3. t.frames # << >>
    BY <1>1, <1>3, <1>5 DEF MoonSecInside, ConstantPart
  <2> QED BY <1>1, <1>5, <2>1, <2>2, <2>3, MoonSecConstants DEF t, MoonSecKept, MoonSecOK
<1>6. CASE s.at \in InstructionPart
  <2>1. SerializedReader(t, v) = serializedInstructions(t, v)
    BY <1>1, <1>6 DEF SerializedReader, ConstantPart, InstructionPart
  <2>2. s.at = "instructions" => v \in Nat
    <3>1. s.at = "instructions" => MoonSecValues(s) = Counts
      BY DEF MoonSecValues, MoonSecWords
    <3> QED BY <3>1, Limits
  <2>3. MoonSecInside(t)
    BY <1>2, <1>3, <1>6 DEF InstructionPart
  <2> QED BY <1>1, <1>6, <2>1, <2>2, <2>3, MoonSecInstructions DEF t, MoonSecKept, MoonSecOK
<1>7. CASE s.at = "functions"
  <2>1. SerializedReader(t, v) = functionsPart(t, v)
    BY <1>1, <1>7 DEF SerializedReader, ConstantPart, InstructionPart
  <2>2. v \in Nat
    <3>1. MoonSecValues(s) = Counts
      BY <1>7 DEF MoonSecValues, MoonSecWords
    <3> QED BY <3>1, Limits
  <2>3. t.frames # << >>
    BY <1>1, <1>3, <1>7 DEF MoonSecInside
  <2> QED BY <1>1, <2>1, <2>2, <2>3, MoonSecFunctions DEF t, MoonSecKept, MoonSecOK
<1>8. CASE s.at = "parameters"
  <2>1. SerializedReader(t, v) = PartDone(t)
    BY <1>1, <1>8 DEF SerializedReader, ConstantPart, InstructionPart
  <2>2. t.frames # << >>
    BY <1>1, <1>3, <1>8 DEF MoonSecInside
  <2> QED BY <1>1, <2>1, <2>2, MoonSecPartDone DEF t, MoonSecKept, MoonSecOK
<1>9. CASE s.at = "return"
  <2> DEFINE done == Require(t.left = 0 /\ t.instructions # 0, Accepted(t))
  <2>1. SerializedReader(t, v) = leaveFunction(t, done)
    BY <1>1, <1>9 DEF SerializedReader, ConstantPart, InstructionPart
  <2>2. MoonSecOK(Accepted(t))
    BY <1>1 DEF MoonSecOK, MoonSecGood, Rec, MoonSecNames, Accepted
  <2>3. MoonSecKept(done)
    BY <2>2 DEF MoonSecKept, Require
  <2>4. t.frames # << >>
    BY <1>1, <1>3, <1>9 DEF MoonSecInside
  <2> HIDE DEF done
  <2> QED BY <1>1, <2>1, <2>3, <2>4, MoonSecLeave DEF t
<1>10. s.at \in {"call", "functions", "parameters", "return"} \cup ConstantPart \cup InstructionPart
  BY DEF MoonSecOK, MoonSecInside, PlainFields, CountingFields, Parts, ConstantPart, InstructionPart
<1> QED BY <1>4, <1>5, <1>6, <1>7, <1>8, <1>9, <1>10

-----------------------------------------------------------------------------
(* The readers at work. *)

InStep ==
    \/ first = Refused /\ second = Refused
    \/ format = "luau" /\ LuauOK(first) /\ second = Mirror(first)
    \/ format = "moonsec" /\ MoonSecOK(first) /\ second = first
    \/ format = "lua51" /\ Lua51OK(first) /\ second = first

IInv == format \in Formats /\ together = TRUE /\ InStep

(* A reader that is at work has not refused. *)
LEMMA Going ==
    ASSUME NEW s
    PROVE  LuauOK(s) \/ MoonSecOK(s) \/ Lua51OK(s) => s.at # "refused"
<1>1. LuauOK(s) => s.at # "refused"
  BY DEF LuauOK, Early, Counted, Late, ProtoFields, ConstantFields, RestFields
<1>2. MoonSecOK(s) => s.at # "refused"
  BY DEF MoonSecOK, MoonSecInside, PlainFields, CountingFields, Parts
<1>3. Lua51OK(s) => s.at # "refused"
  BY DEF Lua51OK, Lua51Inside, InsideFields, BodyFields, DebugFields
<1> QED BY <1>1, <1>2, <1>3

(* Each reader starts in good order. *)
LEMMA InitIInv == Init => IInv
<1> SUFFICES ASSUME Init PROVE IInv
  OBVIOUS
<1>1. format \in Formats /\ second = first /\ together = TRUE
  BY DEF Init, Formats
<1>2. CASE format = "luau"
  <2>1. PICK size : first = LuauStart(size)
    BY <1>2 DEF Init
  <2>2. LuauOK(first) /\ first.at = "version"
    <3>1. Rec(LuauStart(size), LuauNames)
      BY DEF Rec, LuauStart, LuauNames
    <3>2. /\ first.inside = TRUE /\ first.strings = 0 /\ first.words = 0 /\ first.n = 0
          /\ first.totalCodeWords = 0 /\ first.totalConstants = 0 /\ first.at = "version"
      BY <2>1 DEF LuauStart
    <3> QED BY <2>1, <3>1, <3>2, Limits DEF LuauOK, LuauGood, Early
  <2> QED BY <1>1, <1>2, <2>2 DEF IInv, InStep, Mirror, Counted
<1>3. CASE format = "lua51"
  <2>1. PICK size : first = Lua51Start(size)
    BY <1>3 DEF Init
  <2>2. /\ Rec(Lua51Start(size), Lua51Names)
        /\ first.frames = << >> /\ first.at = "header" /\ first.totalInstructions = 0
        /\ first.totalConstants = 0 /\ first.totalDebugEntries = 0 /\ first.totalPrototypes = 0
    BY <2>1 DEF Rec, Lua51Start, Lua51Names
  <2>3. Lua51OK(first)
    BY <2>1, <2>2, Limits, EmptySeq DEF Lua51OK, Lua51Good
  <2> QED BY <1>1, <1>3, <2>3 DEF IInv, InStep
<1>4. CASE format = "moonsec"
  <2>1. PICK size \in Sizes[format], order \in Orders, tags \in Tags : first = MoonSecStart(size, order, tags)
    BY <1>4 DEF Init
  <2>2. /\ Rec(MoonSecStart(size, order, tags), MoonSecNames)
        /\ first.frames = << >> /\ first.at = "call" /\ first.n = 0 /\ first.functions = 0
        /\ first.instructions = 0 /\ first.constants = 0 /\ first.order = order
        /\ first.tags = tags
    BY <2>1 DEF Rec, MoonSecStart, MoonSecNames
  <2>3. order \in Seq(Parts) /\ order # << >> /\ tags \in Seq({"unknown", "boolean", "number", "string"})
    BY ReadersAssumption
  <2>4. MoonSecOK(first)
    BY <2>1, <2>2, <2>3, Limits, EmptySeq DEF MoonSecOK, MoonSecGood
  <2> QED BY <1>1, <1>4, <2>4 DEF IInv, InStep
<1> QED BY <1>1, <1>2, <1>3, <1>4 DEF Formats

(* Reading a field keeps the readers together. *)
LEMMA ReadIInv ==
    ASSUME IInv, Read
    PROVE  IInv'
<1>1. PICK width \in Widths(first), v \in Values(first) :
        /\ first' = Checked(width, v)
        /\ together' = (together /\ second.at = first.at /\ width \in Widths(second))
        /\ second' = CASE first'.at = "refused" -> Refused
                       [] first'.at # "refused" /\ together' -> SecondReader(Moved(second, width), v)
                       [] OTHER -> second
  BY DEF Read
<1>2. format' = format /\ format \in Formats /\ together = TRUE /\ first # Refused
      /\ first.at # "accepted"
  BY DEF Read, IInv, Busy, Refused
<1>3. Refused.at = "refused"
  BY DEF Refused
<1>4. first' = Refused \/ first' = FirstReader(Moved(first, width), v)
  BY <1>1 DEF Checked
<1>5. CASE format = "luau"
  <2> DEFINE s == Moved(first, width)
  <2>1. LuauOK(first) /\ second = Mirror(first)
    BY <1>2, <1>5 DEF IInv, InStep
  <2>2. /\ LuauOK(s) /\ s.at = first.at /\ Moved(second, width) = Mirror(s)
        /\ LuauWidths(second) = LuauWidths(first)
    BY <2>1, LuauMoved
  <2>3. second.at = first.at
    BY <2>1 DEF Mirror, LuauOK, LuauGood, Rec, LuauNames
  <2>4. together' = TRUE
    BY <1>1, <1>2, <1>5, <2>2, <2>3 DEF Widths
  <2>5. /\ FirstReader(s, v) = parse(s, v)
        /\ SecondReader(Mirror(s), v) = loadsafe(Mirror(s), v)
    BY <1>5 DEF FirstReader, SecondReader
  <2>6. v \in LuauValues(first)
    BY <1>5 DEF Values
  <2> HIDE DEF s
  <2>7. \/ parse(s, v) = Refused
        \/ LuauOK(parse(s, v)) /\ loadsafe(Mirror(s), v) = Mirror(parse(s, v))
    BY <1>2, <2>2, <2>6, LuauField, LuauStep
  <2>8. CASE first' = Refused
    BY <1>1, <1>2, <1>3, <2>4, <2>8 DEF IInv, InStep
  <2>9. CASE first' # Refused
    <3>1. first' = parse(s, v) /\ LuauOK(first') /\ loadsafe(Mirror(s), v) = Mirror(first')
      BY <1>4, <2>5, <2>7, <2>9 DEF s
    <3>2. first'.at # "refused"
      BY <3>1, Going
    <3>3. second' = Mirror(first')
      BY <1>1, <2>2, <2>4, <2>5, <3>1, <3>2
    <3> QED BY <1>2, <1>5, <2>4, <3>1, <3>3 DEF IInv, InStep
  <2> QED BY <2>8, <2>9
<1>6. CASE format = "moonsec"
  <2> DEFINE s == Moved(first, width)
  <2>1. MoonSecOK(first) /\ second = first
    BY <1>2, <1>6 DEF IInv, InStep
  <2>2. together' = TRUE
    BY <1>1, <1>2, <2>1
  <2>3. FirstReader(s, v) = SerializedReader(s, v) /\ SecondReader(s, v) = VirtualTreeReader(s, v)
    BY <1>6 DEF FirstReader, SecondReader
  <2>4. v \in MoonSecValues(first)
    BY <1>6 DEF Values
  <2>5. MoonSecKept(SerializedReader(s, v))
    BY <1>2, <2>1, <2>4, MoonSecStep
  <2> HIDE DEF s
  <2>6. CASE first' = Refused
    BY <1>1, <1>2, <1>3, <2>2, <2>6 DEF IInv, InStep
  <2>7. CASE first' # Refused
    <3>1. first' = SerializedReader(s, v) /\ MoonSecOK(first') /\ VirtualTreeReader(s, v) = first'
      BY <1>4, <2>3, <2>5, <2>7, MoonSecAgree DEF s, MoonSecKept
    <3>2. first'.at # "refused"
      BY <3>1, Going
    <3>3. second' = first'
      BY <1>1, <2>1, <2>2, <2>3, <3>1, <3>2 DEF s
    <3> QED BY <1>2, <1>6, <2>2, <3>1, <3>3 DEF IInv, InStep
  <2> QED BY <2>6, <2>7
<1>7. CASE format = "lua51"
  <2> DEFINE s == Moved(first, width)
  <2>1. Lua51OK(first) /\ second = first
    BY <1>2, <1>7 DEF IInv, InStep
  <2>2. together' = TRUE
    BY <1>1, <1>2, <2>1
  <2>3. FirstReader(s, v) = Lua51(s, v) /\ SecondReader(s, v) = Lua51(s, v)
    BY <1>7 DEF FirstReader, SecondReader
  <2>4. v \in Lua51Values(first)
    BY <1>7 DEF Values
  <2>5. Lua51Kept(Lua51(s, v))
    BY <1>2, <2>1, <2>4, Lua51Step
  <2> HIDE DEF s
  <2>6. CASE first' = Refused
    BY <1>1, <1>2, <1>3, <2>2, <2>6 DEF IInv, InStep
  <2>7. CASE first' # Refused
    <3>1. first' = Lua51(s, v) /\ Lua51OK(first')
      BY <1>4, <2>3, <2>5, <2>7 DEF s, Lua51Kept
    <3>2. first'.at # "refused"
      BY <3>1, Going
    <3>3. second' = first'
      BY <1>1, <2>1, <2>2, <2>3, <3>1, <3>2 DEF s
    <3> QED BY <1>2, <1>7, <2>2, <3>1, <3>3 DEF IInv, InStep
  <2> QED BY <2>6, <2>7
<1> QED BY <1>2, <1>5, <1>6, <1>7 DEF Formats

(* The invariant holds in every run of the readers. *)
LEMMA Invariance == Spec => []IInv
<1>1. IInv /\ [Next]_vars => IInv'
  <2>1. ASSUME IInv, UNCHANGED vars PROVE IInv'
    BY <2>1 DEF IInv, InStep, vars
  <2> QED BY <2>1, ReadIInv DEF Next, Ended
<1> QED BY <1>1, InitIInv, PTL DEF Spec

(* luau_load and VirtualTreeReader read what parse and SerializedReader     *)
(* have read, field by field and at the same places, for inputs of every    *)
(* size, all limits, orders and tags.                                       *)
THEOREM LayoutTheorem == Spec => []SameLayout
<1>1. IInv => SameLayout
  <2> SUFFICES ASSUME IInv PROVE SameLayout
    OBVIOUS
  <2>1. LuauOK(first) => Mirror(first).at = first.at /\ Mirror(first).left = first.left
    BY DEF Mirror, LuauOK, LuauGood, Rec, LuauNames
  <2> QED BY <2>1 DEF IInv, InStep, SameLayout
<1> QED BY <1>1, Invariance, PTL

(* The strings, constants and prototypes that luau_load looks up by the     *)
(* index in a field, without a check, are inside its tables.                *)
THEOREM InsideTheorem == Spec => []IndicesInside
<1>1. IInv => IndicesInside
  <2> SUFFICES ASSUME IInv, format = "luau", second.at # "refused" PROVE second.inside
    BY DEF IndicesInside
  <2>1. Refused.at = "refused"
    BY DEF Refused
  <2>2. LuauOK(first) /\ second = Mirror(first)
    BY <2>1 DEF IInv, InStep
  <2> QED BY <2>2 DEF Mirror, LuauOK, LuauGood, Rec, LuauNames
<1> QED BY <1>1, Invariance, PTL

(* The totals of all three formats stay within their limits, however the    *)
(* counts are spread over prototypes.                                       *)
THEOREM LimitsTheorem == Spec => []WithinLimits
<1>1. IInv => WithinLimits
  <2> SUFFICES ASSUME IInv, first.at # "refused" PROVE WithinLimits
    BY DEF WithinLimits
  <2>0. first # Refused
    BY DEF Refused
  <2>1. CASE format = "luau"
    <3>1. LuauOK(first) /\ second = Mirror(first)
      BY <2>0, <2>1 DEF IInv, InStep
    <3>2. second.totalCodeWords <= MaxObjects /\ second.totalConstants <= MaxObjects
      BY <3>1 DEF Mirror, LuauOK, LuauGood, Rec, LuauNames
    <3> QED BY <2>1, <3>2 DEF WithinLimits
  <2>2. CASE format = "moonsec"
    <3>1. MoonSecGood(first)
      BY <2>0, <2>2 DEF IInv, InStep, MoonSecOK, MoonSecInside
    <3> QED BY <2>2, <3>1, Limits DEF WithinLimits, MoonSecGood
  <2>3. CASE format = "lua51"
    <3>1. Lua51Good(first)
      BY <2>0, <2>3 DEF IInv, InStep, Lua51OK, Lua51Inside
    <3> QED BY <2>3, <3>1, Limits DEF WithinLimits, Lua51Good
  <2> QED BY <2>1, <2>2, <2>3 DEF IInv, Formats
<1> QED BY <1>1, Invariance, PTL
=============================================================================
