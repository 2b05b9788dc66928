------------------------------- MODULE Loader -------------------------------
(***************************************************************************)
(* From a Luau chunk to an answer: opcodeVariants of RobloxBytecode.cpp     *)
(* proposes decodings of the opcodes, loadBytecode of IR.cpp loads them one *)
(* after the other until one passes the validation, and decompile of        *)
(* Decompile.cpp or inspectBytecode of IR.cpp renders it.  The prototype    *)
(* that they work on is owned by the Lua state: it lives only as long as    *)
(* its closure is on the Lua stack, which each of them also uses.           *)
(*                                                                          *)
(* What the parts find out about a chunk is chosen at the start.            *)
(***************************************************************************)
EXTENDS Integers, Sequences, TLC

VARIABLES
    chunk,              \* what is true of the input, fixed
    phase,
    variants,           \* the decodings still to be tried, by multiplier
    stack,              \* the Lua stack
    stackTop,           \* the height to go back to
    root,               \* the prototype, named by its multiplier
    lastError, error,   \* who reported the last error, and what the caller sees
    erased,             \* what the lifter has overwritten in the prototype
    source,             \* the renderer whose source is being validated
    result

vars == <<chunk, phase, variants, stack, stackTop, root, lastError, error, erased, source, result>>

Multiplier == {1, 203}
NoRoot == 0
None == "none"

(* What luau_load and the validation say of a decoding; what the two        *)
(* renderers produce, and what the Luau front end says of it.               *)
Loading == {"unloadable", "no prototype", "invalid", "valid"}
Rendering == {"nothing", "unparsable", "unloadable", "valid"}

(* The most telling opcode of the prototype: an unconditional JUMP or       *)
(* JUMPBACK, another one that the syntax-tree renderer cannot be trusted    *)
(* with (a conditional jump, an upvalue, a fast call...), or neither.       *)
Opcodes == {"jump", "other", "plain"}

(* misread: the lifter's own table of lengths gives NEWCLASS and            *)
(* NEWCLASSMEMBER one word instead of two, and a word that it then takes    *)
(* for an instruction looks like a JUMP or JUMPBACK.                        *)
Chunk == [task : {"decompile", "inspect", "unknown mode"}, parses : BOOLEAN,
          decodes : [Multiplier -> BOOLEAN], same : BOOLEAN,
          loading : [Multiplier -> Loading],
          children : BOOLEAN, ops : Opcodes, misread : BOOLEAN,
          ast : Rendering \cup {"corrupt"}, register : Rendering]

Init ==
    /\ chunk \in {c \in Chunk : c.same => /\ c.decodes[1] /\ c.decodes[203]
                                          /\ c.loading[1] = c.loading[203]}
    /\ phase = "variants"
    /\ variants = << >>
    /\ stack = <<"base">>
    /\ stackTop = 1
    /\ root = NoRoot
    /\ lastError = None /\ error = None
    /\ erased = {}
    /\ source = None
    /\ result = None

settop(n) == SubSeq(stack, 1, n)

-----------------------------------------------------------------------------
(* RobloxBytecode::opcodeVariants. *)

(* applyOpcodeTransform gives up at an unknown opcode or a cut instruction. *)
Decoded(m) == IF chunk.decodes[m] THEN <<m>> ELSE << >>

(* Mutant: only the decoding of the dumps is tried. *)
DecodingsRoblox == Decoded(203)

(* The identity first; equal decodings are tried once. *)
Decodings == Decoded(1) \o (IF chunk.same THEN << >> ELSE Decoded(203))

opcodeVariants ==
    /\ phase = "variants"
    /\ IF chunk.parses /\ Decodings # << >>
         THEN variants' = Decodings /\ phase' = "load"
         ELSE UNCHANGED variants /\ phase' = "failed"
    /\ error' = CASE ~ chunk.parses -> "parse"
                  [] ~ chunk.decodes[203] -> "decode"
                  [] OTHER -> error
    /\ stackTop' = Len(stack)
    /\ UNCHANGED <<chunk, stack, root, lastError, source, result, erased>>

-----------------------------------------------------------------------------
(* loadBytecode. *)

(* luau_load leaves the closure, or the error message, on the stack. *)
LoadVariant ==
    /\ phase = "load"
    /\ variants # << >>
    /\ stack' = Append(stack, IF chunk.loading[Head(variants)] = "unloadable" THEN "message"
                              ELSE ToString(Head(variants)))
    /\ phase' = "examine"
    /\ UNCHANGED <<chunk, variants, stackTop, root, lastError, error, source, result, erased>>

RejectVariant ==
    /\ phase = "examine"
    /\ chunk.loading[Head(variants)] # "valid"
    /\ stack' = settop(stackTop)
    /\ lastError' = chunk.loading[Head(variants)]
    /\ variants' = Tail(variants)
    /\ phase' = "load"
    /\ UNCHANGED <<chunk, stackTop, root, error, source, result, erased>>

(* The closure stays on the stack. *)
AcceptVariant ==
    /\ phase = "examine"
    /\ chunk.loading[Head(variants)] = "valid"
    /\ root' = Head(variants)
    /\ phase' = IF chunk.task = "decompile" THEN "decompile" ELSE "inspect"
    /\ UNCHANGED <<chunk, variants, stack, stackTop, lastError, error, source, result, erased>>

NoVariantLeft ==
    /\ phase = "load"
    /\ variants = << >>
    /\ stack' = settop(stackTop)
    /\ error' = lastError
    /\ phase' = "failed"
    /\ UNCHANGED <<chunk, variants, stackTop, root, lastError, source, result, erased>>

(* Both callers report the error. *)
ReportFailure ==
    /\ phase = "failed"
    /\ result' = "error"
    /\ phase' = "done"
    /\ UNCHANGED <<chunk, variants, stack, stackTop, root, lastError, error, source, erased>>

(* inspectBytecode builds the module of the accepted prototype once more,   *)
(* and lists it in the mode that was asked for, if there is such a mode.    *)
Inspect ==
    /\ phase = "inspect"
    /\ IF chunk.task = "inspect" THEN result' = "listing" /\ UNCHANGED error
                                 ELSE result' = "error" /\ error' = "unknown mode"
    /\ phase' = "done"
    /\ UNCHANGED <<chunk, variants, stack, stackTop, root, lastError, source, erased>>

-----------------------------------------------------------------------------
(* decompile. *)

(* Mutant: jumps are left to the syntax-tree renderer. *)
treeNeedsRegisterRendererNoJumps == chunk.children \/ chunk.ops = "other"

(* RegisterDecompile::shouldPrefer.  With children the register renderer is *)
(* taken before any opcode is looked at.                                    *)
treeNeedsRegisterRenderer == chunk.children \/ chunk.ops \in {"jump", "other"}

(* Lifter::liftBodyInfo turns what it takes for JUMP and JUMPBACK into NOP  *)
(* in the prototype itself, when the BlockGen is constructed.               *)
liftBodyInfo ==
    erased' = {w \in {"jump", "aux word"} : IF w = "jump" THEN chunk.ops = "jump" ELSE chunk.misread}

(* Mutant: text of the syntax-tree renderer is trusted. *)
RenderAstTrusting ==
    /\ phase = "decompile"
    /\ ~ treeNeedsRegisterRenderer
    /\ liftBodyInfo
    /\ IF chunk.ast \in {"nothing", "corrupt"}
         THEN phase' = "register" /\ UNCHANGED <<source, result>>
         ELSE phase' = "done" /\ source' = "ast" /\ result' = "ast"
    /\ UNCHANGED <<chunk, variants, stack, stackTop, root, lastError, error>>

(* Text with a known corrupt shape is not even validated. *)
RenderAst ==
    /\ phase = "decompile"
    /\ ~ treeNeedsRegisterRenderer
    /\ liftBodyInfo
    /\ IF chunk.ast \in {"nothing", "corrupt"}
         THEN phase' = "register" /\ UNCHANGED source
         ELSE phase' = "validate" /\ source' = "ast"
    /\ UNCHANGED <<chunk, variants, stack, stackTop, root, lastError, error, result>>

Prefer ==
    /\ phase = "decompile"
    /\ treeNeedsRegisterRenderer
    /\ phase' = "register"
    /\ UNCHANGED <<chunk, variants, stack, stackTop, root, lastError, error, source, result, erased>>

registerFallback ==
    /\ phase = "register"
    /\ source' = "register"
    /\ IF chunk.register = "nothing"
         THEN phase' = "done" /\ result' = "error"
         ELSE phase' = "validate" /\ UNCHANGED result
    /\ UNCHANGED <<chunk, variants, stack, stackTop, root, lastError, error, erased>>

Rendered == IF source = "ast" THEN chunk.ast ELSE chunk.register

(* The syntax-tree renderer's source falls back to the other renderer. *)
Reject ==
    IF source = "ast" THEN phase' = "register" /\ UNCHANGED result
                      ELSE phase' = "done" /\ result' = "error"

validSourceParse ==
    /\ phase = "validate"
    /\ IF Rendered = "unparsable"
         THEN Reject /\ UNCHANGED <<stack, stackTop>>
         ELSE /\ stackTop' = Len(stack)
              /\ stack' = Append(stack, IF Rendered = "valid" THEN "reconstruction" ELSE "message")
              /\ phase' = "restore"
              /\ UNCHANGED result
    /\ UNCHANGED <<chunk, variants, root, lastError, error, source, erased>>

(* Mutants: the stack is not restored, or is cleared. *)
validSourceLeaks ==
    /\ phase = "restore"
    /\ IF Rendered = "valid" THEN phase' = "done" /\ result' = source ELSE Reject
    /\ UNCHANGED <<chunk, variants, stack, stackTop, root, lastError, error, source, erased>>

validSourceClears ==
    /\ phase = "restore"
    /\ stack' = << >>
    /\ IF Rendered = "valid" THEN phase' = "done" /\ result' = source ELSE Reject
    /\ UNCHANGED <<chunk, variants, stackTop, root, lastError, error, source, erased>>

validSourceEnd ==
    /\ phase = "restore"
    /\ stack' = settop(stackTop)
    /\ IF Rendered = "valid" THEN phase' = "done" /\ result' = source ELSE Reject
    /\ UNCHANGED <<chunk, variants, stackTop, root, lastError, error, source, erased>>

Done == phase = "done" /\ UNCHANGED vars

Next == \/ opcodeVariants
        \/ LoadVariant \/ RejectVariant \/ AcceptVariant \/ NoVariantLeft \/ ReportFailure
        \/ Inspect \/ Prefer \/ RenderAst \/ registerFallback
        \/ validSourceParse \/ validSourceEnd \/ Done

Spec == Init /\ [][Next]_vars

-----------------------------------------------------------------------------
(* As long as a prototype is used its closure is on the Lua stack, so that  *)
(* no collection started by a later luau_load can free it - also in the     *)
(* register renderer that runs after a rejected reconstruction.             *)
RootAnchored ==
    phase \in {"decompile", "inspect", "register", "validate", "restore"} =>
        \E i \in DOMAIN stack : stack[i] = ToString(root)

(* Nothing but the prototype's closure is left on the stack at the end, and *)
(* not even that when no decoding was accepted.                             *)
StackRestored ==
    phase = "done" => stack = IF root = NoRoot THEN <<"base">> ELSE <<"base", ToString(root)>>

Acceptable(m) == chunk.parses /\ chunk.decodes[m] /\ chunk.loading[m] = "valid"

(* The identity is taken if it can be, else the other decoding; no decoding *)
(* that would have passed is given up because an earlier one did not.       *)
FirstAcceptable ==
    phase = "done" =>
        root = IF Acceptable(1) THEN 1 ELSE IF Acceptable(203) THEN 203 ELSE NoRoot

(* The register renderer finds the jumps of the prototype as it was loaded: *)
(* a tree whose jumps the lifter overwrites never comes back to it when the *)
(* syntax-tree reconstruction is given up.  This is about instructions: a   *)
(* word behind NEWCLASS that the lifter takes for a jump is lost to it.     *)
FallbackSeesJumps == phase = "register" \/ source = "register" => "jump" \notin erased

(* A decompilation returns source only if it parses, compiles and loads,    *)
(* and returns an error only if the register renderer failed as well.       *)
AnswerIsValid ==
    phase = "done" /\ root # NoRoot /\ chunk.task = "decompile" =>
        result = IF ~ treeNeedsRegisterRenderer /\ chunk.ast = "valid" THEN "ast"
                 ELSE IF chunk.register = "valid" THEN "register"
                 ELSE "error"
=============================================================================
