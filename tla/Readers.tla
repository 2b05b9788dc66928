------------------------------- MODULE Readers -------------------------------
(***************************************************************************)
(* The readers of the three binary formats at work.  The input's bytes are  *)
(* chosen when they are first read: every reader goes over them once, from  *)
(* the front.  Luau chunks and MoonSec payloads are read twice, the second  *)
(* time only if the first reader has accepted them; the second reader is    *)
(* shown in step with the first, field by field, as long as the two agree   *)
(* on what the next field is.                                               *)
(***************************************************************************)
EXTENDS LuauReaders, MoonSecReaders, Lua51Reader

CONSTANTS
    Sizes,       \* the sizes of the input, for each format
    Versions,    \* the first byte of a Luau chunk
    MaxCount,    \* bound on the counts and indices in the input
    Orders, Tags \* the layouts of a MoonSec payload that are tried

Formats == {"luau", "moonsec", "lua51"}

ASSUME ReadersAssumption ==
    /\ Sizes \in [Formats -> SUBSET Nat]
    /\ {MaxObjects, MaxUserdataTypes, MaxFunctions, MaxInstructions, MaxConstants,
        MaxMoonSecDepth, MaxEntries, MaxPrototypes, MaxNesting, MaxString, MaxCount} \subseteq Nat
    /\ Orders \subseteq Seq(Parts) \ {<< >>}
    /\ Tags \subseteq Seq({"unknown", "boolean", "number", "string"})

VARIABLES
    format,
    first,      \* the reader that checks
    second,     \* the reader that relies on it
    together,   \* whether they have agreed on every field so far
    astray      \* what luau_load has just looked up in the wrong place, unseen by parse

vars == <<format, first, second, together, astray>>

Init ==
    /\ \/ format = "luau" /\ \E size \in Sizes[format] : first = LuauStart(size)
       \/ format = "lua51" /\ \E size \in Sizes[format] : first = Lua51Start(size)
       \/ format = "moonsec" /\ \E size \in Sizes[format], order \in Orders, tags \in Tags :
                                    first = MoonSecStart(size, order, tags)
    /\ second = first
    /\ together = TRUE
    /\ astray = {}

-----------------------------------------------------------------------------
Counts == 0 .. MaxCount

(* A variable-length integer of more than five bytes, or ten if it is a     *)
(* 64-bit one, is refused.                                                  *)
Longest(s) == IF s.at \in LuauVar64 THEN 10 ELSE 5

(* The number of bytes that a field may have. *)
LuauWidths(s) ==
    CASE s.at \in LuauBytes -> {1}
      [] s.at \in LuauWords -> {4}
      [] s.at \in LuauBlocks -> {s.b}
      [] s.at \in LuauVar64 -> {1, Longest(s), Longest(s) + 1}
      [] OTHER -> {1, Longest(s) + 1}

MoonSecWidth(s) ==
    CASE s.at \in MoonSecBytes -> 1
      [] s.at \in MoonSecWords -> 4
      [] s.at \in MoonSecBlocks -> s.b
      [] s.at \in MoonSecSilent -> 0

Lua51Width(s) ==
    CASE s.at \in Lua51Bytes -> 1
      [] s.at \in Lua51Words -> 4
      [] s.at \in Lua51Sizes -> s.sizeT
      [] s.at \in Lua51Blocks -> s.b
      [] s.at \in Lua51Silent -> 0

Widths(s) ==
    CASE format = "luau" -> LuauWidths(s)
      [] format = "moonsec" -> {MoonSecWidth(s)}
      [] format = "lua51" -> {Lua51Width(s)}

(* The values that a field may have, as far as they matter: for each check  *)
(* that a reader makes, one that passes and one that does not.              *)
LuauValues(s) ==
    CASE s.at = "version" -> Versions
      [] s.at = "types" -> {0, 2, 3}
      [] s.at = "payload" /\ s.b = 4 -> Counts
      [] s.at = "typeinfo" /\ s.types = 3 -> {0, 1}
      [] s.at \in LuauBlocks \cup {"sign", "magnitude", "linedefined", "startpc", "endpc", "slotpc", "cost"} -> {0}
      [] s.at = "kind" -> 0 .. 12
      [] s.at = "metadata" -> [valid : BOOLEAN, stack : {0, 1}]
      [] s.at = "protoSize" -> {0, 1, 15, s.left - 1, s.left, s.left + 1}
      [] s.at = "linegap" -> {0, 1, 32}
      [] s.at = "value" -> -1 .. MaxCount
      [] s.at \in {"index", "flags", "slot", "length", "typesize", "strings", "keys", "pairs", "properties",
                    "methods", "children", "locals", "upvalues", "feedback"} -> {0, 1}
      [] OTHER -> Counts

MoonSecValues(s) ==
    CASE s.at = "tag" -> 0 .. 4
      [] s.at = "descriptor" -> [discarded : BOOLEAN, shape : 0 .. 3]
      [] s.at \in MoonSecWords -> Counts
      [] OTHER -> {0}

Lua51Values(s) ==
    CASE s.at = "header" -> {4, 8, 0}
      [] s.at = "proto" -> [maxstack : {0, 1}, nups : {0, 1}]
      [] s.at = "tag" -> 0 .. 4
      [] s.at \in {"words", "validate"} -> BOOLEAN
      [] s.at \in Lua51Words -> Counts
      [] s.at \in Lua51Sizes -> {0, MaxString, MaxString + 1}
      [] OTHER -> {0}

Values(s) ==
    CASE format = "luau" -> LuauValues(s)
      [] format = "moonsec" -> MoonSecValues(s)
      [] format = "lua51" -> Lua51Values(s)

-----------------------------------------------------------------------------
Moved(s, width) == [s EXCEPT !.left = @ - width]

FirstReader(s, v) ==
    CASE format = "luau" -> parse(s, v)
      [] format = "moonsec" -> SerializedReader(s, v)
      [] format = "lua51" -> Lua51(s, v)

(* A Lua 5.1 chunk is read once. *)
SecondReader(s, v) ==
    CASE format = "luau" -> loadsafe(s, v)
      [] format = "moonsec" -> VirtualTreeReader(s, v)
      [] format = "lua51" -> Lua51(s, v)

Busy(s) == s.at \notin {"accepted", "refused"}

(* need, u8, u32, var, var64 and skip. *)
Checked(width, v) ==
    IF width > first.left \/ (format = "luau" /\ width > Longest(first) /\ first.at \notin LuauBlocks)
    THEN Refused ELSE FirstReader(Moved(first, width), v)

(* The words of the code are looked at, and so chosen, in the walk. *)
Lookups(v) ==
    IF format # "luau" \/ second'.at = "refused" \/ ~ together' THEN {{}}
    ELSE {{l \in {"types", "import", "prototype", "constant"} :
                \/ l = "types" /\ remapUserdataTypes(second, v)
                \/ l = "import" /\ getimport(second, v)
                \/ l = "prototype" /\ UnreadProto(second, v)
                \/ l = "constant" /\ Walk(second', aux)} : aux \in Counts}

Read ==
    /\ Busy(first)
    /\ \E width \in Widths(first), v \in Values(first) :
        /\ first' = Checked(width, v)
        /\ together' = (together /\ second.at = first.at /\ width \in Widths(second))
        /\ second' = CASE first'.at = "refused" -> Refused
                       [] first'.at # "refused" /\ together' -> SecondReader(Moved(second, width), v)
                       [] OTHER -> second
        /\ astray' \in Lookups(v)
    /\ UNCHANGED format

Ended == ~ Busy(first) /\ UNCHANGED vars

Next == Read \/ Ended

Spec == Init /\ [][Next]_vars

-----------------------------------------------------------------------------
TypeOK == /\ format \in Formats
          /\ {first.left, second.left, first.n, second.n} \subseteq Nat
          /\ together \in BOOLEAN

(* The reader that relies on an earlier validation reads the same fields at *)
(* the same places: all its reads are inside the input, and it accepts what *)
(* was accepted.                                                            *)
SameLayout == together /\ second.at = first.at /\ second.left = first.left

(* The indices of strings, constants and prototypes that luau_load reads as *)
(* fields, and does not check, are inside the tables that it has allocated. *)
(* (What it looks up besides is not: see astray.)                           *)
IndicesInside == format = "luau" /\ second.at # "refused" => second.inside

(* The totals that limits are subtracted from or compared with stay within  *)
(* them over all prototypes, however the counts are spread: the unsigned    *)
(* differences in the checks do not wrap around.                            *)
WithinLimits ==
    first.at # "refused" =>
    CASE format = "luau" -> /\ second.totalCodeWords <= MaxObjects
                            /\ second.totalConstants <= MaxObjects
      [] format = "moonsec" -> /\ first.functions <= MaxFunctions
                               /\ first.instructions <= MaxInstructions
                               /\ first.constants <= MaxConstants
                               /\ Len(first.frames) <= MaxMoonSecDepth + 1
      [] format = "lua51" -> /\ first.totalInstructions <= MaxEntries
                             /\ first.totalConstants <= MaxEntries
                             /\ first.totalDebugEntries <= MaxEntries
                             /\ first.totalPrototypes <= MaxPrototypes
                             /\ Len(first.frames) <= MaxNesting + 1

=============================================================================
