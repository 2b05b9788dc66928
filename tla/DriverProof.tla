----------------------------- MODULE DriverProof -----------------------------
(***************************************************************************)
(* The loader and the decompiler driver, for every chunk: the prototype     *)
(* stays anchored while it is used, the stack is restored, the decoding is  *)
(* the first acceptable one, and the answer is what the renderers deserve.  *)
(*                                                                          *)
(* The invariant gives the shape of the Lua stack in each phase (Stacked),  *)
(* says that the decodings still to be tried include one that would be      *)
(* accepted, if there is one, and the identity before the other (Pending),  *)
(* and keeps the history of the two renderers in "source" (Attempts).       *)
(*                                                                          *)
(* The command line, for command lines of any length, and the watchdog in  *)
(* it, for every time limit and any number of spurious wake-ups: what main  *)
(* has put into the output files and on standard output at each point, and  *)
(* what it knew when it chose a decoder (Routing, Delivered); who holds the *)
(* mutex when (MutexOwner); that everything main does after stop() happens  *)
(* with the flag set and the worker gone (MainControl), and that the worker *)
(* decides to kill only while it holds the mutex and the flag is clear.     *)
(* Together they implement the safety part of BoundedRun.                   *)
(***************************************************************************)
EXTENDS Loader, Watchdog, SequenceTheorems, TLAPS

Using == {"decompile", "inspect", "register", "validate"}

TypeInv ==
    /\ chunk \in Chunk
    /\ chunk.same => chunk.decodes[1] /\ chunk.decodes[203] /\ chunk.loading[1] = chunk.loading[203]
    /\ phase \in {"variants", "load", "examine", "failed", "restore", "done"} \cup Using
    /\ variants \in {<< >>, <<1>>, <<203>>, <<1, 203>>}

(* What is on the Lua stack. *)
Stacked ==
    /\ phase \in {"variants", "load", "failed"} => stack = <<"base">>
    /\ phase \in {"load", "examine"} => stackTop = 1
    /\ phase = "examine" => \E x : stack = <<"base", x>>
                                   /\ (chunk.loading[Head(variants)] = "valid" => x = ToString(Head(variants)))
    /\ phase \in Using => stack = <<"base", ToString(root)>>
    /\ phase = "restore" => stackTop = 2 /\ \E x : stack = <<"base", ToString(root), x>>
    /\ StackRestored

Best == IF Acceptable(1) THEN 1 ELSE IF Acceptable(203) THEN 203 ELSE NoRoot

(* The decodings that were given up are not acceptable, and no better one   *)
(* is left behind the next one.                                             *)
Pending ==
    /\ phase \in {"variants", "load", "examine"} => root = NoRoot
    /\ phase \in {"load", "examine"} => chunk.parses
    /\ phase \in {"load", "examine"} =>
         \/ variants = << >> /\ Best = NoRoot
         \/ variants = <<1>> /\ chunk.decodes[1] /\ (Acceptable(203) => Acceptable(1))
         \/ variants = <<203>> /\ chunk.decodes[203] /\ ~ Acceptable(1)
         \/ variants = <<1, 203>> /\ chunk.decodes[1] /\ chunk.decodes[203]
    /\ phase = "examine" => variants # << >>
    /\ phase \notin {"variants", "load", "examine"} => root = Best
    /\ phase = "failed" => Best = NoRoot
    /\ phase \in Using \cup {"restore"} => root # NoRoot

(* What has become of the renderers so far. *)
Tree == ~ treeNeedsRegisterRenderer

Attempts ==
    /\ phase \in {"variants", "load", "examine", "decompile"} => source = None /\ erased = {}
    /\ phase \in {"failed", "inspect"} => source = None /\ erased = {}
    /\ "jump" \notin erased
    /\ phase \in {"decompile", "register", "validate", "restore"} => chunk.task = "decompile"
    /\ phase = "inspect" => chunk.task # "decompile"
    /\ (phase = "register" \/ source = "register") /\ Tree => chunk.ast # "valid"
    /\ phase \in {"validate", "restore"} => source \in {"ast", "register"}
    /\ phase \in {"validate", "restore"} /\ source = "ast" => Tree /\ chunk.ast \notin {"nothing", "corrupt"}
    /\ phase \in {"validate", "restore"} /\ source = "register" => chunk.register # "nothing"
    /\ phase = "restore" => Rendered # "unparsable"
    /\ AnswerIsValid

IInv == TypeInv /\ Stacked /\ Pending /\ Attempts

-----------------------------------------------------------------------------
(* What the sequence operations do to the few sequences there are. *)
LEMMA OneElement ==
    \A x : /\ <<x>> \o << >> = <<x>> /\ << >> \o <<x>> = <<x>>
           /\ Head(<<x>>) = x /\ Tail(<<x>>) = << >> /\ Len(<<x>>) = 1
  OBVIOUS

LEMMA TwoElements ==
    \A x, y : /\ <<x>> \o <<y>> = <<x, y>> /\ Append(<<x>>, y) = <<x, y>>
              /\ SubSeq(<<x>>, 1, 1) = <<x>> /\ SubSeq(<<x, y>>, 1, 1) = <<x>>
              /\ Head(<<x, y>>) = x /\ Tail(<<x, y>>) = <<y>> /\ Len(<<x, y>>) = 2
<1> TAKE x, y
<1> DEFINE S == {x, y}
<1>1. <<x>> \in Seq(S) /\ <<y>> \in Seq(S) /\ <<x, y>> \in Seq(S)
  OBVIOUS
<1>2. <<x>> \o <<y>> = <<x, y>>
  <2>1. /\ <<x>> \o <<y>> \in Seq(S) /\ Len(<<x>> \o <<y>>) = 2
        /\ \A i \in 1 .. 2 : (<<x>> \o <<y>>)[i] = <<x, y>>[i]
    BY <1>1
  <2> QED BY <1>1, <2>1, SeqEqual
<1>3. Append(<<x>>, y) = <<x, y>>
  <2>1. /\ Append(<<x>>, y) \in Seq(S) /\ Len(Append(<<x>>, y)) = 2
        /\ \A i \in 1 .. 2 : Append(<<x>>, y)[i] = <<x, y>>[i]
    BY <1>1
  <2> QED BY <1>1, <2>1, SeqEqual
<1>4. SubSeq(<<x>>, 1, 1) = <<x>>
  BY <1>1, SubSeqFull, Len(<<x>>) = 1
<1>5. SubSeq(<<x, y>>, 1, 1) = <<x>>
  <2>1. /\ SubSeq(<<x, y>>, 1, 1) \in Seq(S) /\ Len(SubSeq(<<x, y>>, 1, 1)) = 1
        /\ \A i \in 1 .. 1 : SubSeq(<<x, y>>, 1, 1)[i] = <<x>>[i]
    BY <1>1
  <2> QED BY <1>1, <2>1, SeqEqual
<1>6. Head(<<x, y>>) = x /\ Tail(<<x, y>>) = <<y>> /\ Len(<<x, y>>) = 2
  OBVIOUS
<1> QED BY <1>2, <1>3, <1>4, <1>5, <1>6

LEMMA ThreeElements ==
    \A x, y, z : SubSeq(<<x, y, z>>, 1, 2) = <<x, y>> /\ Append(<<x, y>>, z) = <<x, y, z>>
<1> TAKE x, y, z
<1> DEFINE S == {x, y, z}
<1>1. <<x, y>> \in Seq(S) /\ <<x, y, z>> \in Seq(S)
  OBVIOUS
<1>2. Append(<<x, y>>, z) = <<x, y, z>>
  <2>1. /\ Append(<<x, y>>, z) \in Seq(S) /\ Len(Append(<<x, y>>, z)) = 3
        /\ \A i \in 1 .. 3 : Append(<<x, y>>, z)[i] = <<x, y, z>>[i]
    BY <1>1
  <2> QED BY <1>1, <2>1, SeqEqual
<1>3. SubSeq(<<x, y, z>>, 1, 2) = <<x, y>>
  <2>1. /\ SubSeq(<<x, y, z>>, 1, 2) \in Seq(S) /\ Len(SubSeq(<<x, y, z>>, 1, 2)) = 2
        /\ \A i \in 1 .. 2 : SubSeq(<<x, y, z>>, 1, 2)[i] = <<x, y>>[i]
    BY <1>1
  <2> QED BY <1>1, <2>1, SeqEqual
<1> QED BY <1>2, <1>3

(* The invariant holds at the start. *)
LEMMA InitIInv == Init => IInv
<1> SUFFICES ASSUME Init PROVE IInv
  OBVIOUS
<1>1. TypeInv
  BY DEF Init, TypeInv
<1>2. Stacked
  BY DEF Init, Stacked, Using, StackRestored
<1>3. Pending
  BY DEF Init, Pending, Using
<1>4. Attempts
  BY DEF Init, Attempts, AnswerIsValid, None
<1> QED BY <1>1, <1>2, <1>3, <1>4 DEF IInv

(* What depends on the chunk only. *)
LEMMA ChunkFixed ==
    ASSUME chunk' = chunk
    PROVE  /\ Best' = Best /\ (Tree' <=> Tree)
           /\ \A m : Acceptable(m)' <=> Acceptable(m)
  BY DEF Best, Tree, Acceptable, treeNeedsRegisterRenderer

(* opcodeVariants proposes what can be decoded, the identity first. *)
LEMMA DecodingsCases ==
    ASSUME TypeInv
    PROVE  \/ Decodings = << >> /\ ~ chunk.decodes[1] /\ ~ chunk.decodes[203]
           \/ Decodings = <<1>> /\ chunk.decodes[1] /\ (Acceptable(203) => Acceptable(1))
           \/ Decodings = <<203>> /\ chunk.decodes[203] /\ ~ chunk.decodes[1]
           \/ Decodings = <<1, 203>> /\ chunk.decodes[1] /\ chunk.decodes[203]
<1>1. CASE chunk.same
  BY <1>1, OneElement DEF TypeInv, Decodings, Decoded, Acceptable
<1>2. CASE ~ chunk.same
  <2>1. Decodings = Decoded(1) \o Decoded(203)
    BY <1>2 DEF Decodings
  <2>2. CASE chunk.decodes[1] /\ chunk.decodes[203]
    <3>1. Decodings = <<1>> \o <<203>>
      BY <2>1, <2>2 DEF Decoded
    <3>2. Decodings = <<1, 203>>
      BY <3>1, TwoElements, ZenonT(40)
    <3> QED BY <2>2, <3>2
  <2>3. CASE chunk.decodes[1] /\ ~ chunk.decodes[203]
    BY <2>1, <2>3, OneElement DEF Decoded, Acceptable
  <2>4. CASE ~ chunk.decodes[1] /\ chunk.decodes[203]
    BY <2>1, <2>4, OneElement DEF Decoded
  <2>5. CASE ~ chunk.decodes[1] /\ ~ chunk.decodes[203]
    BY <2>1, <2>5, OneElement DEF Decoded
  <2> QED BY <2>2, <2>3, <2>4, <2>5
<1> QED BY <1>1, <1>2

(* Loading the decodings keeps the invariant. *)
LEMMA LoadingIInv ==
    ASSUME IInv, opcodeVariants \/ LoadVariant \/ RejectVariant \/ AcceptVariant \/ NoVariantLeft
    PROVE  IInv'
<1> USE DEF IInv
<1>0. chunk' = chunk /\ erased' = erased /\ source' = source /\ result' = result
  BY DEF opcodeVariants, LoadVariant, RejectVariant, AcceptVariant, NoVariantLeft
<1>1. CASE opcodeVariants
  <2>1. TypeInv'
    BY <1>1, DecodingsCases DEF opcodeVariants, TypeInv, Using
  <2>2. Stacked'
    BY <1>1 DEF opcodeVariants, Stacked, Using, StackRestored
  <2>3. Pending'
    <3>1. CASE chunk.parses /\ Decodings # << >>
      <4>1. variants' = Decodings /\ phase' = "load" /\ root' = NoRoot /\ chunk.parses
        BY <1>1, <3>1 DEF opcodeVariants, Pending
      <4>2. \/ Decodings = <<1>> /\ chunk.decodes[1] /\ (Acceptable(203) => Acceptable(1))
            \/ Decodings = <<203>> /\ chunk.decodes[203] /\ ~ Acceptable(1)
            \/ Decodings = <<1, 203>> /\ chunk.decodes[1] /\ chunk.decodes[203]
        BY <3>1, DecodingsCases DEF Acceptable
      <4> QED BY <1>0, <4>1, <4>2, ChunkFixed DEF Pending, Using
    <3>2. CASE ~ (chunk.parses /\ Decodings # << >>)
      <4>1. ~ Acceptable(1) /\ ~ Acceptable(203)
        BY <3>2, DecodingsCases DEF Acceptable
      <4>2. phase' = "failed" /\ root' = NoRoot
        BY <1>1, <3>2 DEF opcodeVariants, Pending
      <4> QED BY <1>0, <4>1, <4>2, ChunkFixed DEF Pending, Using, Best
    <3> QED BY <3>1, <3>2
  <2>4. Attempts'
    BY <1>1, ChunkFixed DEF opcodeVariants, Attempts, AnswerIsValid, None
  <2> QED BY <2>1, <2>2, <2>3, <2>4
<1>2. CASE LoadVariant
  <2>1. TypeInv'
    BY <1>2 DEF LoadVariant, TypeInv, Using
  <2> DEFINE x == IF chunk.loading[Head(variants)] = "unloadable" THEN "message"
                  ELSE ToString(Head(variants))
  <2>2. Stacked'
    <3>1. stack' = <<"base", x>>
      <4>1. stack = <<"base">> /\ stack' = Append(stack, x)
        BY <1>2 DEF LoadVariant, Stacked
      <4> HIDE DEF x
      <4> QED BY <4>1, TwoElements, Zenon
    <3>2. chunk.loading[Head(variants)] = "valid" => x = ToString(Head(variants))
      OBVIOUS
    <3> HIDE DEF x
    <3> QED BY <1>2, <3>1, <3>2 DEF LoadVariant, Stacked, Using, StackRestored
  <2>3. Pending'
    BY <1>2, ChunkFixed DEF LoadVariant, Pending, Using
  <2>4. Attempts'
    BY <1>2, ChunkFixed DEF LoadVariant, Attempts, AnswerIsValid, None
  <2> QED BY <2>1, <2>2, <2>3, <2>4
<1>3. CASE RejectVariant
  <2>0. \/ variants = <<1>> /\ variants' = << >> /\ chunk.loading[1] # "valid"
        \/ variants = <<203>> /\ variants' = << >> /\ chunk.loading[203] # "valid"
        \/ variants = <<1, 203>> /\ variants' = <<203>> /\ chunk.loading[1] # "valid"
    <3>1. \/ variants = <<1>> \/ variants = <<203>> \/ variants = <<1, 203>>
      BY <1>3 DEF RejectVariant, TypeInv, Pending
    <3>2. variants' = Tail(variants) /\ chunk.loading[Head(variants)] # "valid"
      BY <1>3 DEF RejectVariant
    <3>3. /\ Tail(<<1>>) = << >> /\ Tail(<<203>>) = << >> /\ Tail(<<1, 203>>) = <<203>>
          /\ Head(<<1>>) = 1 /\ Head(<<203>>) = 203 /\ Head(<<1, 203>>) = 1
      OBVIOUS
    <3>4. CASE variants = <<1>>
      BY <3>2, <3>3, <3>4, Zenon
    <3>5. CASE variants = <<203>>
      BY <3>2, <3>3, <3>5, Zenon
    <3>6. CASE variants = <<1, 203>>
      BY <3>2, <3>3, <3>6, Zenon
    <3> QED BY <3>1, <3>4, <3>5, <3>6, Zenon
  <2>1. TypeInv'
    BY <1>3, <2>0 DEF RejectVariant, TypeInv
  <2>2. Stacked'
    <3>1. PICK y : stack = <<"base", y>>
      BY <1>3 DEF RejectVariant, Stacked
    <3>2. stack' = SubSeq(stack, 1, 1) /\ phase' = "load" /\ stackTop' = 1
      BY <1>3 DEF RejectVariant, Stacked, settop
    <3>3. stack' = <<"base">>
      BY <3>1, <3>2, TwoElements, Zenon
    <3> QED BY <3>2, <3>3 DEF Stacked, Using, StackRestored
  <2>3. Pending'
    BY <1>3, <2>0, ChunkFixed DEF RejectVariant, Pending, Using, Best, Acceptable
  <2>4. Attempts'
    BY <1>3, ChunkFixed DEF RejectVariant, Attempts, AnswerIsValid, None
  <2> QED BY <2>1, <2>2, <2>3, <2>4
<1>4. CASE AcceptVariant
  <2>1. TypeInv'
    BY <1>4 DEF AcceptVariant, TypeInv, Using
  <2>2. Stacked'
    BY <1>4 DEF AcceptVariant, Stacked, Using, StackRestored
  <2>3. Pending'
    BY <1>4, ChunkFixed DEF AcceptVariant, Pending, Using, Best, Acceptable, NoRoot
  <2>4. Attempts'
    BY <1>4, ChunkFixed DEF AcceptVariant, Attempts, AnswerIsValid, None
  <2> QED BY <2>1, <2>2, <2>3, <2>4
<1>5. CASE NoVariantLeft
  <2>1. TypeInv'
    BY <1>5 DEF NoVariantLeft, TypeInv, Using
  <2>2. Stacked'
    BY <1>5, TwoElements DEF NoVariantLeft, Stacked, Using, StackRestored, settop
  <2>3. Pending'
    BY <1>5, ChunkFixed DEF NoVariantLeft, Pending, Using
  <2>4. Attempts'
    BY <1>5, ChunkFixed DEF NoVariantLeft, Attempts, AnswerIsValid, None
  <2> QED BY <2>1, <2>2, <2>3, <2>4
<1> QED BY <1>1, <1>2, <1>3, <1>4, <1>5
(* The renderers, their validation and the end keep the invariant. *)
LEMMA RenderingIInv ==
    ASSUME IInv,
           \/ ReportFailure \/ Inspect \/ Prefer \/ RenderAst \/ registerFallback
           \/ validSourceParse \/ validSourceEnd
    PROVE  IInv'
<1> USE DEF IInv
<1>0. UNCHANGED <<chunk, variants, root>>
  BY DEF ReportFailure, Inspect, Prefer, RenderAst, registerFallback, validSourceParse, validSourceEnd
<1>1. TypeInv' /\ Pending'
  <2>1. phase' \in {"register", "validate", "restore", "done"}
    BY DEF ReportFailure, Inspect, Prefer, RenderAst, registerFallback, validSourceParse,
           validSourceEnd, Reject
  <2>2. phase' = "done" \/ phase \in Using \cup {"restore"}
    BY DEF ReportFailure, Inspect, Prefer, RenderAst, registerFallback, validSourceParse,
           validSourceEnd, Using
  <2>3. phase \in Using \cup {"failed", "restore"}
    BY DEF ReportFailure, Inspect, Prefer, RenderAst, registerFallback, validSourceParse,
           validSourceEnd, Using
  <2> QED BY <1>0, <2>1, <2>2, <2>3, ChunkFixed DEF TypeInv, Pending, Using
<1>2. CASE ReportFailure
  <2>1. Stacked'
    BY <1>2 DEF ReportFailure, Stacked, StackRestored, Using, Pending
  <2>2. Attempts'
    BY <1>2, ChunkFixed DEF ReportFailure, Attempts, AnswerIsValid, None, Pending
  <2> QED BY <1>1, <2>1, <2>2
<1>3. CASE Inspect
  <2>1. Stacked'
    BY <1>3 DEF Inspect, Stacked, StackRestored, Using, Pending
  <2>2. Attempts'
    BY <1>3, ChunkFixed DEF Inspect, Attempts, AnswerIsValid, None
  <2> QED BY <1>1, <2>1, <2>2
<1>4. CASE Prefer
  <2>1. Stacked'
    BY <1>4 DEF Prefer, Stacked, StackRestored, Using
  <2>2. Attempts'
    BY <1>4, ChunkFixed DEF Prefer, Attempts, AnswerIsValid, None, Tree
  <2> QED BY <1>1, <2>1, <2>2
<1>5. CASE RenderAst
  <2>1. Stacked'
    BY <1>5 DEF RenderAst, Stacked, StackRestored, Using
  <2>2. Tree /\ "jump" \notin erased'
    BY <1>5 DEF RenderAst, liftBodyInfo, Tree, treeNeedsRegisterRenderer
  <2>3. Attempts'
    BY <1>5, <2>2, ChunkFixed DEF RenderAst, Attempts, AnswerIsValid, None
  <2> QED BY <1>1, <2>1, <2>3
<1>6. CASE registerFallback
  <2>1. Stacked'
    BY <1>6 DEF registerFallback, Stacked, StackRestored, Using, Pending
  <2>2. Attempts'
    BY <1>6, ChunkFixed DEF registerFallback, Attempts, AnswerIsValid, None, Tree
  <2> QED BY <1>1, <2>1, <2>2
<1>7. CASE validSourceParse
  <2>1. Stacked'
    <3>1. stack = <<"base", ToString(root)>>
      BY <1>7 DEF validSourceParse, Stacked, Using
    <3>2. CASE Rendered = "unparsable"
      BY <1>7, <3>1, <3>2 DEF validSourceParse, Reject, Stacked, StackRestored, Using, Pending
    <3>3. CASE Rendered # "unparsable"
      <4>1. /\ phase' = "restore" /\ root' = root /\ stackTop' = Len(stack)
            /\ \E x : stack' = Append(stack, x)
        BY <1>7, <3>3 DEF validSourceParse
      <4>2. PICK x : stack' = Append(stack, x)
        BY <4>1
      <4>3. stack' = <<"base", ToString(root), x>> /\ stackTop' = 2
        BY <3>1, <4>1, <4>2, TwoElements, ThreeElements, ZenonT(40)
      <4> QED BY <4>1, <4>3 DEF Stacked, StackRestored, Using
    <3> QED BY <3>2, <3>3
  <2>2. Attempts'
    BY <1>7, ChunkFixed DEF validSourceParse, Reject, Rendered, Attempts, AnswerIsValid, None, Tree
  <2> QED BY <1>1, <2>1, <2>2
<1>8. CASE validSourceEnd
  <2>1. Stacked'
    <3>1. PICK x : stack = <<"base", ToString(root), x>>
      BY <1>8 DEF validSourceEnd, Stacked
    <3>2. stack' = SubSeq(stack, 1, 2)
      BY <1>8 DEF validSourceEnd, Stacked, settop
    <3>3. stack' = <<"base", ToString(root)>>
      BY <3>1, <3>2, ThreeElements, Zenon
    <3> QED BY <1>8, <3>3 DEF validSourceEnd, Reject, Stacked, StackRestored, Using, Pending
  <2>2. Attempts'
    BY <1>8, ChunkFixed DEF validSourceEnd, Reject, Rendered, Attempts, AnswerIsValid, None, Tree
  <2> QED BY <1>1, <2>1, <2>2
<1> QED BY <1>2, <1>3, <1>4, <1>5, <1>6, <1>7, <1>8

LEMMA NextIInv == IInv /\ [Next]_vars => IInv'
<1> SUFFICES ASSUME IInv, [Next]_vars PROVE IInv'
  OBVIOUS
<1>1. CASE UNCHANGED vars
  <2>1. chunk' = chunk /\ UNCHANGED <<phase, variants, stack, stackTop, root, erased, source, result>>
    BY <1>1 DEF vars
  <2>2. TypeInv' /\ Stacked' /\ Pending'
    BY <2>1, ChunkFixed DEF IInv, TypeInv, Stacked, Pending, StackRestored, Using
  <2>3. Attempts'
    BY <2>1, ChunkFixed DEF IInv, Attempts, AnswerIsValid, Rendered, Tree
  <2> QED BY <2>2, <2>3 DEF IInv
<1> QED BY <1>1, LoadingIInv, RenderingIInv DEF Next, Done

LEMMA Invariance == Spec => []IInv
  BY InitIInv, NextIInv, PTL DEF Spec

-----------------------------------------------------------------------------
(* The prototype that a renderer or the inspection works on is anchored.    *)
THEOREM AnchoredTheorem == Spec => []RootAnchored
<1>1. IInv => RootAnchored
  <2> SUFFICES ASSUME IInv, phase \in Using \cup {"restore"}
               PROVE  \E i \in DOMAIN stack : stack[i] = ToString(root)
    BY DEF RootAnchored, Using
  <2>1. CASE phase \in Using
    BY <2>1 DEF IInv, Stacked
  <2>2. CASE phase = "restore"
    BY <2>2 DEF IInv, Stacked
  <2> QED BY <2>1, <2>2
<1> QED BY <1>1, Invariance, PTL

(* The Lua stack is left with the prototype's closure or as it was.         *)
THEOREM StackTheorem == Spec => []StackRestored
<1>1. IInv => StackRestored
  BY DEF IInv, Stacked
<1> QED BY <1>1, Invariance, PTL

(* No acceptable decoding is given up for a worse one or for none.          *)
THEOREM DecodingTheorem == Spec => []FirstAcceptable
<1>1. IInv => FirstAcceptable
  BY DEF IInv, Pending, Best, FirstAcceptable
<1> QED BY <1>1, Invariance, PTL

(* The answer is valid source, or an error when neither renderer has any.   *)
THEOREM AnswerTheorem == Spec => []AnswerIsValid
<1>1. IInv => AnswerIsValid
  BY DEF IInv, Attempts
<1> QED BY <1>1, Invariance, PTL

(* No jump that the register renderer should follow has been erased.        *)
THEOREM FallbackTheorem == Spec => []FallbackSeesJumps
<1>1. IInv => FallbackSeesJumps
  BY DEF IInv, Attempts, FallbackSeesJumps
<1> QED BY <1>1, Invariance, PTL

-----------------------------------------------------------------------------
(* The command line around the driver. *)

(* Nothing is written before it is known to be wanted, an exit code is set  *)
(* only at the end, and a decoder is chosen only after parse() is over.     *)
Routing ==
    /\ content \in Contents
    /\ pc \in {"parse", "read", "route", "decode", "cfg", "output", "return", "end"}
    /\ code \in {Running, 0, 1, 2, 124}
    /\ pc = "end" <=> code # Running
    /\ pc \notin {"return", "end"} => stdout = "none" /\ outFile = "none"
    /\ pc \in {"parse", "read", "route", "decode"} => cfgFile = "none"
    /\ pc \in {"parse", "read", "route"} => reader = "none"
    /\ pc = "route" => content # "unreadable"
    /\ pc \in {"decode", "cfg", "output", "return"} => reader # "none"
    /\ pc = "output" /\ o.cfg # "" /\ o.format = "cfg" => cfgFile \in Written

(* What main has done when it returns 0. *)
Delivered ==
    pc = "return" =>
        /\ \/ stdout = "buffered" /\ outFile = "none"
           \/ stdout = "none" /\ outFile \in Written
        /\ o.output # "" => outFile \in Written \/ o.analyze
        /\ o.cfg # "" /\ o.format = "cfg" => cfgFile \in Written \/ o.analyze

CliIInv == Routing /\ Delivered /\ FailureLeavesNoAnswer /\ OneAnswer /\ CompilerSeesText

(* The exit codes are different from the mark of a run that goes on. *)
LEMMA Codes == Running \notin {0, 1, 2, 124} /\ 0 \notin {1, 2, 124} /\ Promise!Running = Running
  BY DEF Running, Promise!Running

(* The invariant holds when main starts. *)
LEMMA CliInitIInv == CliInit => CliIInv
  BY Codes
     DEF CliInit, CliIInv, Routing, Delivered, FailureLeavesNoAnswer, OneAnswer, CompilerSeesText

(* While the command line is parsed nothing is decided. *)
LEMMA ParseIInv ==
    ASSUME CliIInv, Parse
    PROVE  /\ CliIInv'
           /\ pc = "parse" /\ UNCHANGED files /\ code' \in {code, 0, 2}
<1> USE DEF CliIInv
<1>1. /\ pc = "parse" /\ UNCHANGED <<content, reader, cfgFile, outFile, stdout>>
      /\ \/ pc' \in {"parse", "read"} /\ code' = code
         \/ pc' = "end" /\ code' \in {0, 2}
  BY DEF Parse, ParseInfo, ParseInput, ParseReject, NoArguments,
         ParseDone, ParseFile, ParseFormat, ParseFlag, ParseTimeout,
         MoreArgs, Parsing, Exit, files
<1>2. /\ reader = "none" /\ stdout = "none" /\ outFile = "none" /\ cfgFile = "none"
      /\ code = Running
  BY <1>1 DEF Routing
<1>3. Routing' /\ Delivered'
  BY <1>1, <1>2, Codes DEF Routing, Delivered
<1>4. FailureLeavesNoAnswer' /\ OneAnswer' /\ CompilerSeesText'
  BY <1>1, <1>2 DEF FailureLeavesNoAnswer, OneAnswer, CompilerSeesText, NotWritten
<1> QED BY <1>1, <1>3, <1>4 DEF files

(* Choosing a decoder, and running it, writes nothing. *)
LEMMA RouteIInv ==
    ASSUME CliIInv,
           \/ Read \/ RouteReport \/ RouteMoonSec \/ RouteLua51
           \/ RouteLuau \/ Decode
    PROVE  /\ CliIInv'
           /\ o' = o /\ pc \in {"read", "route", "decode"} /\ ~ Bounded
           /\ UNCHANGED files /\ code' \in {code, 1, 2}
<1> USE DEF CliIInv
<1>1. UNCHANGED <<content, o, cfgFile, outFile, stdout>>
  BY DEF Read, RouteReport, RouteMoonSec, RouteLua51, RouteLuau,
         Decode, Keep, files
<1>2. /\ pc \in {"read", "route", "decode"} /\ stdout = "none" /\ outFile = "none"
      /\ cfgFile = "none" /\ code = Running /\ ~ Bounded
  BY DEF Routing, Read, RouteReport, RouteMoonSec, RouteLua51, RouteLuau,
         Decode, Bounded
<1>3. \/ pc' \in {"route", "decode", "cfg", "output"} /\ code' = code
      \/ pc' = "end" /\ code' \in {1, 2}
  BY DEF Read, RouteReport, RouteMoonSec, RouteLua51, RouteLuau,
         Decode, Exit
<1>4. FailureLeavesNoAnswer' /\ OneAnswer' /\ Delivered'
  BY <1>1, <1>2, <1>3, Codes DEF FailureLeavesNoAnswer, OneAnswer, Delivered, NotWritten
<1>5. Routing'
  BY <1>1, <1>2, <1>3, Codes
     DEF Routing, Read, RouteReport, RouteMoonSec, RouteLua51, RouteLuau, Decode, Exit,
         ReportFormats
<1>6. CompilerSeesText'
  <2>1. CASE reader' = reader
    BY <1>1, <2>1 DEF CompilerSeesText
  <2>2. CASE reader' \notin {"compiler", "luau"}
    BY <2>2 DEF CompilerSeesText
  <2>3. CASE RouteLuau
    BY <1>1, <2>3 DEF RouteLuau, CompilerSeesText, Binary, IsChunk,
                      IsBytecode, Routing, Contents
  <2> QED BY <2>1, <2>2, <2>3 DEF Read, RouteReport, RouteMoonSec,
                                  RouteLua51, Decode
<1> QED BY <1>1, <1>2, <1>3, <1>4, <1>5, <1>6 DEF files

(* The graph is written before the answer, and the answer only once. *)
LEMMA OutputIInv ==
    ASSUME CliIInv, Analyze \/ Output
    PROVE  /\ CliIInv'
           /\ o' = o /\ pc \in {"route", "cfg", "output", "return"}
           /\ pc = "cfg" => pc' \in {"output", "end"}
           /\ pc \in {"output", "return"} => pc' \in {"return", "end"}
           /\ code' \in {code, 0, 1}
<1> USE DEF CliIInv
<1>0. /\ pc \in {"route", "cfg", "output", "return"} /\ content' = content /\ o' = o
      /\ code = Running /\ (pc # "return" => stdout = "none" /\ outFile = "none")
  BY DEF Analyze, Output, WriteCfg, WriteOutput, Return, Keep, Routing
<1>1. CASE Analyze
  <2>1. /\ pc = "route" /\ pc' = "return" /\ code' = code /\ reader' = "analyze" /\ o.analyze
        /\ stdout' = "buffered" /\ outFile' = "none" /\ cfgFile' = cfgFile
    BY <1>0, <1>1 DEF Analyze
  <2>2. Routing' /\ Delivered'
    BY <1>0, <2>1 DEF Routing, Delivered
  <2>3. FailureLeavesNoAnswer' /\ OneAnswer' /\ CompilerSeesText'
    BY <1>0, <2>1, Codes DEF FailureLeavesNoAnswer, OneAnswer, CompilerSeesText
  <2> QED BY <1>0, <2>1, <2>2, <2>3
<1>2. CASE WriteCfg
  <2>1. /\ pc = "cfg" /\ reader' = reader /\ UNCHANGED <<stdout, outFile>>
        /\ \/ pc' = "output" /\ code' = code /\ cfgFile' \in Written
           \/ pc' = "end" /\ code' = 1
    BY <1>2 DEF WriteCfg, Exit
  <2>2. Routing' /\ Delivered'
    BY <1>0, <2>1, Codes DEF Routing, Delivered
  <2>3. CompilerSeesText'
    BY <1>0, <2>1 DEF CompilerSeesText
  <2>4. FailureLeavesNoAnswer' /\ OneAnswer'
    BY <1>0, <2>1, Codes DEF FailureLeavesNoAnswer, OneAnswer, NotWritten
  <2> QED BY <1>0, <2>1, <2>2, <2>3, <2>4
<1>3. CASE WriteOutput
  <2>1. /\ pc = "output" /\ reader' = reader /\ cfgFile' = cfgFile /\ reader # "none"
        /\ \/ /\ o.output = "" /\ stdout' = "buffered" /\ outFile' = "none"
              /\ pc' = "return" /\ code' = code
           \/ /\ o.output # "" /\ stdout' = "none" /\ outFile' \in Written
              /\ pc' = "return" /\ code' = code
           \/ /\ o.output # "" /\ stdout' = "none" /\ outFile' \in NotWritten
              /\ pc' = "end" /\ code' = 1
    BY <1>0, <1>3 DEF WriteOutput, Exit, Routing
  <2>2. Routing'
    BY <1>0, <2>1, Codes DEF Routing
  <2>3. Delivered'
    BY <1>0, <2>1 DEF Routing, Delivered
  <2>4. CompilerSeesText'
    BY <1>0, <2>1 DEF CompilerSeesText
  <2>5. FailureLeavesNoAnswer' /\ OneAnswer'
    BY <1>0, <2>1, Codes DEF FailureLeavesNoAnswer, OneAnswer
  <2> QED BY <1>0, <2>1, <2>2, <2>3, <2>4, <2>5
<1>4. CASE Return
  <2>1. /\ pc = "return" /\ reader' = reader /\ cfgFile' = cfgFile /\ outFile' = outFile
        /\ pc' = "end" /\ code' = 0
        /\ \/ stdout = "buffered" /\ outFile = "none" /\ stdout' \in Written
           \/ stdout = "none" /\ outFile \in Written /\ stdout' = "none"
    BY <1>0, <1>4 DEF Return, Exit, Delivered
  <2>2. Routing' /\ Delivered'
    BY <1>0, <2>1, Codes DEF Routing, Delivered
  <2>3. CompilerSeesText' /\ FailureLeavesNoAnswer'
    BY <1>0, <2>1 DEF CompilerSeesText, FailureLeavesNoAnswer
  <2>4. (stdout' \in Written) # (outFile' \in Written) /\ (stdout' = "none" \/ outFile' = "none")
    BY <2>1 DEF Written
  <2>5. OneAnswer'
    BY <1>0, <2>1, <2>4 DEF Delivered, OneAnswer
  <2> QED BY <1>0, <2>1, <2>2, <2>3, <2>5
<1> QED BY <1>1, <1>2, <1>3, <1>4 DEF Output

(* What a step of the command line does to the rest of the driver. *)
LEMMA CliStep ==
    ASSUME CliIInv, CliNext
    PROVE  /\ CliIInv' /\ code = Running /\ code' # 124 /\ ~ Bounded
           /\ o' # o => pc = "parse"
           /\ pc \in {"output", "return"} => pc' \in {"return", "end"}
<1>0. code \in {Running, 0, 1, 2, 124} /\ (pc # "end" => code = Running)
  BY DEF CliIInv, Routing
<1>1. CASE Parse
  <2>1. CliIInv' /\ pc = "parse" /\ code' \in {code, 0, 2}
    BY <1>1, ParseIInv
  <2> QED BY <1>0, <2>1, Codes DEF Bounded
<1>2. CASE Read \/ RouteReport \/ RouteMoonSec \/ RouteLua51 \/ RouteLuau \/ Decode
  <2>1. /\ CliIInv' /\ o' = o /\ pc \in {"read", "route", "decode"} /\ ~ Bounded
        /\ code' \in {code, 1, 2}
    BY <1>2, RouteIInv
  <2> QED BY <1>0, <2>1, Codes
<1>3. CASE Analyze \/ Output
  <2>1. /\ CliIInv' /\ o' = o /\ pc \in {"route", "cfg", "output", "return"}
        /\ pc \in {"output", "return"} => pc' \in {"return", "end"}
        /\ code' \in {code, 0, 1}
    BY <1>3, OutputIInv
  <2> QED BY <1>0, <2>1, Codes DEF Bounded
<1> QED BY <1>1, <1>2, <1>3 DEF CliNext, Route

-----------------------------------------------------------------------------
(* The decompile route and its watchdog thread. *)

MutexOwner ==
    /\ mutex = "main" <=> mpc = "set"
    /\ mutex = "worker" <=> wpc \in {"test", "kill"}

(* Main's control: between the construction and the end of the scope main   *)
(* is on the bounded route, the continuation of stop() is known while it    *)
(* runs, the flag is set once main is past StopSet, and the worker is gone  *)
(* once stop() has returned.                                                *)
MainControl ==
    /\ mpc \notin {"construct", "left"} /\ code = Running => Bounded
    /\ mpc = "left" => pc \in {"output", "return", "end"}
    /\ mpc = "construct" => wpc = "absent"
    /\ mpc \in {"lock", "set", "notify", "join"} => after \in {"check", "fail", "write"}
    /\ mpc \in {"notify", "join", "check", "fail", "write", "left"} => stopped
    /\ mpc \in {"check", "fail", "write", "left"} => wpc \in {"absent", "finished"}

WorkerControl ==
    /\ wpc # "absent" => o.timeoutSec > 0
    /\ wpc = "kill" => ~ stopped
    /\ code = 124 => wpc = "kill"

WatchdogIInv == WatchdogTypeOK /\ MutexOwner /\ MainControl /\ WorkerControl /\ NoOutputOnTimeout

DriverIInv == CliIInv /\ WatchdogIInv

(* The inductive invariant holds initially. *)
LEMMA DriverIInvInit == DriverInit => DriverIInv
<1> SUFFICES ASSUME DriverInit PROVE DriverIInv
  OBVIOUS
<1>1. stopped \in BOOLEAN /\ expired \in BOOLEAN
  BY Zenon DEF DriverInit
<1>2. WatchdogTypeOK
  BY <1>1, MaxSpuriousAssumption DEF DriverInit, WatchdogTypeOK
<1>3. MutexOwner /\ MainControl /\ WorkerControl /\ NoOutputOnTimeout
  BY Codes DEF DriverInit, CliInit, MutexOwner, MainControl, WorkerControl, NoOutputOnTimeout,
         files
<1>4. CliIInv
  BY CliInitIInv DEF DriverInit
<1> QED BY <1>2, <1>3, <1>4 DEF DriverIInv, WatchdogIInv

(* The steps of the command line leave the threads alone. *)
LEMMA CliKeepsThreads ==
    ASSUME DriverIInv, CliNext, UNCHANGED threadVars
    PROVE  DriverIInv'
<1>1. /\ CliIInv' /\ code = Running /\ code' # 124 /\ ~ Bounded
      /\ o' # o => pc = "parse"
      /\ pc \in {"output", "return"} => pc' \in {"return", "end"}
  BY CliStep DEF DriverIInv
<1>2. UNCHANGED <<mpc, after, decompiled, wpc, mutex, stopped, expired, spurious>>
  BY DEF threadVars
<1>3. mpc \in {"construct", "left"} /\ wpc \in {"absent", "finished"}
  BY <1>1 DEF DriverIInv, WatchdogIInv, MainControl
<1>4. WatchdogTypeOK' /\ MutexOwner'
  BY <1>2 DEF DriverIInv, WatchdogIInv, WatchdogTypeOK, MutexOwner
<1>5. MainControl'
  BY <1>1, <1>2, <1>3 DEF DriverIInv, WatchdogIInv, MainControl, CliIInv, Routing
<1>6. WorkerControl'
  <2>1. wpc # "absent" => o' = o
    BY <1>1, <1>3 DEF DriverIInv, WatchdogIInv, MainControl
  <2> QED BY <1>1, <1>2, <2>1 DEF DriverIInv, WatchdogIInv, WorkerControl
<1>7. NoOutputOnTimeout'
  BY <1>1, <1>2, <1>3 DEF NoOutputOnTimeout
<1> QED BY <1>1, <1>4, <1>5, <1>6, <1>7 DEF DriverIInv, WatchdogIInv

(* Where the threads run, nothing is written yet. *)
LEMMA BoundedQuiet ==
    ASSUME DriverIInv, code = Running, mpc \notin {"construct", "left"}
    PROVE  /\ pc = "decode" /\ reader # "none" /\ files = <<"none", "none", "none">>
           /\ o.format \in SourceFormats
  BY DEF DriverIInv, WatchdogIInv, MainControl, Bounded, CliIInv, Routing, files

(* What the command line's variables determine stays when they stay. *)
LEMMA CliStutter ==
    ASSUME CliIInv, UNCHANGED cliVars
    PROVE  CliIInv' /\ (Bounded' <=> Bounded) /\ files' = files
<1>1. UNCHANGED <<content, pc, args, o, reader, cfgFile, outFile, stdout, code>>
  BY DEF cliVars
<1>2. Bounded' <=> Bounded
  BY <1>1 DEF Bounded
<1>3. files' = files
  BY <1>1 DEF files
<1>4. Routing'
  BY <1>1 DEF CliIInv, Routing
<1>5. Delivered'
  BY <1>1 DEF CliIInv, Delivered
<1>6. FailureLeavesNoAnswer' /\ OneAnswer' /\ CompilerSeesText'
  BY <1>1 DEF CliIInv, FailureLeavesNoAnswer, OneAnswer, CompilerSeesText
<1> QED BY <1>2, <1>3, <1>4, <1>5, <1>6 DEF CliIInv

(* The steps that only the threads see. *)
LEMMA ThreadsIInv ==
    ASSUME DriverIInv, UNCHANGED cliVars,
           \/ Construct \/ Stop \/ CheckResult \/ WorkerLock \/ WorkerTest \/ WorkerTimeout
           \/ WorkerRelock \/ WorkerSpurious \/ Expire
           \/ \E r \in Results : Decompiled(r)
    PROVE  DriverIInv'
<1>1. UNCHANGED <<content, pc, args, o, reader, cfgFile, outFile, stdout, code>>
  BY DEF cliVars
<1>2. CliIInv' /\ (Bounded' <=> Bounded) /\ files' = files
  BY CliStutter DEF DriverIInv
<1> SUFFICES WatchdogIInv'
  BY <1>2 DEF DriverIInv
<1>3. WatchdogIInv
  BY DEF DriverIInv
<1> USE DEF WatchdogIInv, WatchdogTypeOK, MutexOwner, MainControl, WorkerControl
<1>4. NoOutputOnTimeout'
  <2>1. wpc' # wpc => wpc' \in {"absent", "finished"} \/ files = <<"none", "none", "none">>
    <3>1. CASE Construct
      BY <3>1 DEF Construct, Bounded, DriverIInv, CliIInv, Routing, files
    <3>2. CASE ~ Construct
      <4>1. wpc' # wpc => code = Running /\ (wpc \notin {"absent", "finished"})
        BY <3>2 DEF Stop, StopLock, StopSet, StopNotify, StopJoin, CheckResult, WorkerLock,
                    WorkerTest, WorkerTimeout, WorkerRelock, WorkerSpurious, Expire, Decompiled
      <4> QED BY <1>3, <4>1, BoundedQuiet
    <3> QED BY <3>1, <3>2
  <2> QED BY <1>1, <1>2, <1>3, <2>1 DEF NoOutputOnTimeout
<1> SUFFICES WatchdogTypeOK' /\ MutexOwner' /\ MainControl' /\ WorkerControl'
  BY <1>4
<1>5. CASE Construct
  BY <1>1, <1>2, <1>3, <1>5 DEF Construct
<1>6. ASSUME NEW r \in Results, Decompiled(r)
      PROVE  WatchdogTypeOK' /\ MutexOwner' /\ MainControl' /\ WorkerControl'
  BY <1>1, <1>2, <1>3, <1>6 DEF Decompiled, Results
<1>7. CASE StopLock
  BY <1>1, <1>2, <1>3, <1>7 DEF StopLock
<1>8. CASE StopSet
  BY <1>1, <1>2, <1>3, <1>8 DEF StopSet
<1>9. CASE StopNotify
  BY <1>1, <1>2, <1>3, <1>9 DEF StopNotify
<1>10. CASE StopJoin
  BY <1>1, <1>2, <1>3, <1>10 DEF StopJoin
<1>11. CASE CheckResult
  BY <1>1, <1>2, <1>3, <1>11 DEF CheckResult
<1>12. CASE WorkerLock
  BY <1>1, <1>2, <1>3, <1>12 DEF WorkerLock
<1>13. CASE WorkerTest
  BY <1>1, <1>2, <1>3, <1>13 DEF WorkerTest
<1>14. CASE WorkerTimeout
  BY <1>1, <1>2, <1>3, <1>14 DEF WorkerTimeout
<1>15. CASE WorkerRelock
  BY <1>1, <1>2, <1>3, <1>15 DEF WorkerRelock
<1>16. CASE WorkerSpurious
  BY <1>1, <1>2, <1>3, <1>16, MaxSpuriousAssumption DEF WorkerSpurious
<1>17. CASE Expire
  BY <1>1, <1>2, <1>3, <1>17 DEF Expire
<1> QED
  BY <1>5, <1>6, <1>7, <1>8, <1>9, <1>10, <1>11, <1>12, <1>13, <1>14, <1>15, <1>16, <1>17 DEF Stop

(* The ways out of the bounded route: an error, the answer, the deadline. *)
LEMMA WaysOutIInv ==
    ASSUME DriverIInv, Fail \/ Leave \/ WorkerKill
    PROVE  DriverIInv'
<1>1. /\ UNCHANGED <<content, o, reader, cfgFile, outFile, stdout>> /\ files' = files
      /\ UNCHANGED <<after, decompiled, wpc, mutex, stopped, expired, spurious>>
  BY DEF Fail, Leave, WorkerKill, Unbound, threadVars, files
<1>2. /\ code = Running /\ pc = "decode" /\ reader # "none" /\ o.format \in SourceFormats
      /\ files = <<"none", "none", "none">>
  BY BoundedQuiet DEF DriverIInv, WatchdogIInv, MainControl, Fail, Leave, WorkerKill
<1>3. cfgFile = "none" /\ outFile = "none" /\ stdout = "none"
  BY <1>2 DEF files
<1>4. \/ Fail /\ mpc = "fail" /\ mpc' = mpc /\ pc' = "end" /\ code' = 1
      \/ Leave /\ mpc = "write" /\ mpc' = "left" /\ pc' = "output" /\ code' = code
      \/ WorkerKill /\ wpc = "kill" /\ mpc' = mpc /\ pc' = "end" /\ code' = 124
  BY DEF Fail, Leave, WorkerKill, Exit, threadVars
<1>5. o.format # "cfg"
  BY <1>2 DEF SourceFormats
<1>6. CliIInv'
  <2>1. Routing' /\ Delivered'
    BY <1>1, <1>2, <1>3, <1>4, <1>5, Codes DEF DriverIInv, CliIInv, Routing, Delivered
  <2>2. FailureLeavesNoAnswer' /\ OneAnswer' /\ CompilerSeesText'
    BY <1>1, <1>2, <1>3, <1>4, Codes
       DEF DriverIInv, CliIInv, FailureLeavesNoAnswer, OneAnswer, CompilerSeesText, NotWritten
  <2> QED BY <2>1, <2>2 DEF CliIInv
<1>7. WatchdogTypeOK' /\ MutexOwner' /\ MainControl' /\ WorkerControl'
  BY <1>1, <1>2, <1>4, Codes
     DEF DriverIInv, WatchdogIInv, WatchdogTypeOK, MutexOwner, MainControl, WorkerControl
<1>8. NoOutputOnTimeout'
  BY <1>1, <1>2 DEF NoOutputOnTimeout
<1> QED BY <1>6, <1>7, <1>8 DEF DriverIInv, WatchdogIInv

(* Every step preserves the inductive invariant. *)
LEMMA DriverIInvStep == DriverIInv /\ [DriverNext]_driverVars => DriverIInv'
<1> SUFFICES ASSUME DriverIInv, [DriverNext]_driverVars PROVE DriverIInv'
  OBVIOUS
<1>1. CASE CliNext /\ UNCHANGED threadVars
  BY <1>1, CliKeepsThreads
<1>2. CASE Fail \/ Leave \/ WorkerKill
  BY <1>2, WaysOutIInv
<1>3. CASE \/ Construct \/ Stop \/ CheckResult \/ WorkerLock \/ WorkerTest \/ WorkerTimeout
           \/ WorkerRelock \/ WorkerSpurious \/ Expire
           \/ \E r \in Results : Decompiled(r)
  <2>1. UNCHANGED cliVars
    BY <1>3 DEF Construct, Stop, StopLock, StopSet, StopNotify, StopJoin, CheckResult, WorkerLock,
                WorkerTest, WorkerTimeout, WorkerRelock, WorkerSpurious, Expire, Decompiled
  <2> QED BY <1>3, <2>1, ThreadsIInv
<1>4. CASE UNCHANGED driverVars
  <2>1. /\ UNCHANGED <<content, pc, args, o, reader, cfgFile, outFile, stdout, code>>
        /\ UNCHANGED <<mpc, after, decompiled, wpc, mutex, stopped, expired, spurious>>
    BY <1>4 DEF driverVars, cliVars, threadVars
  <2>2. CliIInv' /\ (Bounded' <=> Bounded) /\ files' = files
    BY <1>4, CliStutter DEF DriverIInv, driverVars
  <2>3. WatchdogTypeOK' /\ MutexOwner' /\ WorkerControl'
    BY <2>1 DEF DriverIInv, WatchdogIInv, WatchdogTypeOK, MutexOwner, WorkerControl
  <2>4. MainControl'
    BY <2>1, <2>2 DEF DriverIInv, WatchdogIInv, MainControl
  <2>5. NoOutputOnTimeout'
    BY <2>1, <2>2 DEF DriverIInv, WatchdogIInv, NoOutputOnTimeout
  <2> QED BY <2>2, <2>3, <2>4, <2>5 DEF DriverIInv, WatchdogIInv
<1> QED BY <1>1, <1>2, <1>3, <1>4 DEF DriverNext, Guarded, Worker, ProcessEnded

(* The inductive invariant holds throughout. *)
LEMMA DriverInvariance == DriverSpec => []DriverIInv
  BY DriverIInvInit, DriverIInvStep, PTL DEF DriverSpec

(* A run that fails, or that the time limit ends, leaves no answer.         *)
THEOREM FailureTheorem == DriverSpec => []FailureLeavesNoAnswer
<1>1. DriverIInv => FailureLeavesNoAnswer
  BY DEF DriverIInv, CliIInv
<1> QED BY <1>1, DriverInvariance, PTL

(* A run that succeeds writes one answer and every file it was asked for.   *)
THEOREM OneAnswerTheorem == DriverSpec => []OneAnswer
<1>1. DriverIInv => OneAnswer
  BY DEF DriverIInv, CliIInv
<1> QED BY <1>1, DriverInvariance, PTL

(* Recognisable bytecode is never compiled, whatever the options.           *)
THEOREM CompilerTheorem == DriverSpec => []CompilerSeesText
<1>1. DriverIInv => CompilerSeesText
  BY DEF DriverIInv, CliIInv
<1> QED BY <1>1, DriverInvariance, PTL

(* The type invariant of the two threads. *)
THEOREM WatchdogTypeCorrect == DriverSpec => []WatchdogTypeOK
<1>1. DriverIInv => WatchdogTypeOK
  BY DEF DriverIInv, WatchdogIInv
<1> QED BY <1>1, DriverInvariance, PTL

(* DecompileWatchdog::stop and the timeout exit exclude each other. *)
THEOREM StopWinsTheorem == DriverSpec => []StopWins
<1>1. DriverIInv => StopWins
  BY DEF DriverIInv, WatchdogIInv, WorkerControl, StopWins
<1> QED BY <1>1, DriverInvariance, PTL

(* A process that the watchdog ended has written nothing, and nothing is    *)
(* written while the watchdog thread is there.                              *)
THEOREM NoOutputTheorem == DriverSpec => []NoOutputOnTimeout
<1>1. DriverIInv => NoOutputOnTimeout
  BY DEF DriverIInv, WatchdogIInv
<1> QED BY <1>1, DriverInvariance, PTL

-----------------------------------------------------------------------------
(* The program implements the safety part of its promise: every step of the *)
(* command line and of the two threads is a step of BoundedRun or leaves    *)
(* its state alone.                                                         *)
THEOREM SafetyRefinement == DriverSpec => KeepsPromise
<1>1. DriverInit => Promise!Init
  BY Codes DEF DriverInit, CliInit, Promise!Init, limited, answer, Written
<1>2. DriverIInv /\ [DriverNext]_driverVars => [Promise!Next]_Promise!bvars
  <2> SUFFICES ASSUME DriverIInv, [DriverNext]_driverVars
               PROVE  Promise!Next \/ UNCHANGED Promise!bvars
    BY DEF Promise!bvars
  <2>1. CASE CliNext /\ UNCHANGED threadVars
    <3>1. /\ code = Running /\ mpc' = mpc /\ (o' # o => mpc = "construct")
      BY <2>1, CliStep DEF DriverIInv, WatchdogIInv, MainControl, threadVars
    <3>2. limited' <=> limited
      BY <3>1 DEF limited
    <3>3. CASE Parse
      <4>1. /\ pc = "parse" /\ UNCHANGED files /\ code' \in {code, 0, 2}
            /\ stdout = "none" /\ outFile = "none" /\ mpc = "construct"
        BY <3>3, ParseIInv DEF DriverIInv, CliIInv, Routing, WatchdogIInv, MainControl, Bounded
      <4>2. answer = "none" /\ answer' = "none" /\ ~ limited /\ ~ limited'
        BY <3>2, <4>1 DEF answer, files, limited, Written
      <4> QED BY <3>1, <3>2, <4>1, <4>2, Codes
                 DEF Promise!Next, Promise!Succeed, Promise!Fail, Promise!bvars
    <3>4. CASE Read \/ RouteReport \/ RouteMoonSec \/ RouteLua51 \/ RouteLuau \/ Decode
      <4>1. /\ UNCHANGED files /\ code' \in {code, 1, 2} /\ stdout = "none" /\ outFile = "none"
        BY <3>4, RouteIInv DEF DriverIInv, CliIInv, Routing
      <4>2. answer = "none" /\ answer' = "none"
        BY <4>1 DEF answer, files, Written
      <4> QED BY <3>1, <3>2, <4>1, <4>2, Codes DEF Promise!Next, Promise!Fail, Promise!bvars
    <3>5. CASE Analyze
      <4>1. /\ stdout = "none" /\ outFile = "none" /\ stdout' = "buffered" /\ code' = code
        BY <3>5 DEF Analyze, DriverIInv, CliIInv, Routing
      <4>2. answer = "none" /\ answer' = "handed"
        BY <4>1 DEF answer, Written
      <4> QED BY <3>1, <3>2, <4>1, <4>2, Codes DEF Promise!Next, Promise!Write
    <3>6. CASE WriteCfg
      <4>1. /\ stdout = "none" /\ outFile = "none" /\ UNCHANGED <<stdout, outFile>>
            /\ code' \in {code, 1}
        BY <3>6 DEF WriteCfg, Exit, DriverIInv, CliIInv, Routing
      <4>2. answer = "none" /\ answer' = "none"
        BY <4>1 DEF answer, Written
      <4> QED BY <3>1, <3>2, <4>1, <4>2, Codes DEF Promise!Next, Promise!Fail, Promise!bvars
    <3>7. CASE WriteOutput
      <4>1. /\ stdout = "none" /\ outFile = "none"
            /\ \/ stdout' = "buffered" /\ code' = code
               \/ outFile' \in Written /\ code' = code
               \/ stdout' = "none" /\ outFile' \in NotWritten /\ code' = 1
        BY <3>7 DEF WriteOutput, Exit, DriverIInv, CliIInv, Routing
      <4>2. answer = "none"
        BY <4>1 DEF answer, Written
      <4>3. \/ answer' = "handed" /\ code' = code
            \/ answer' \in {"none", "begun"} /\ code' = 1
        BY <4>1 DEF answer, Written, NotWritten
      <4> QED BY <3>1, <3>2, <4>2, <4>3, Codes DEF Promise!Next, Promise!Write, Promise!Fail
    <3>8. CASE Return
      <4>1. /\ code' = 0 /\ outFile' = outFile
            /\ \/ stdout = "buffered" /\ stdout' \in Written
               \/ outFile \in Written
        BY <3>8 DEF Return, Exit, DriverIInv, CliIInv, Delivered
      <4>2. answer = "handed" /\ answer' = "handed"
        BY <4>1 DEF answer, Written
      <4> QED BY <3>1, <3>2, <4>1, <4>2, Codes DEF Promise!Next, Promise!Succeed
    <3> QED BY <2>1, <3>3, <3>4, <3>5, <3>6, <3>7, <3>8 DEF CliNext, Route, Output
  <2>2. CASE Fail \/ Leave \/ WorkerKill
    <3>1. /\ code = Running /\ files = <<"none", "none", "none">> /\ files' = files /\ o' = o
          /\ mpc # "construct" /\ mpc' # "construct"
      BY <2>2, BoundedQuiet
         DEF DriverIInv, WatchdogIInv, MainControl, Fail, Leave, WorkerKill, Unbound, threadVars, files
    <3>2. answer = "none" /\ answer' = "none" /\ (limited' <=> limited)
      BY <3>1 DEF answer, files, Written, limited
    <3>3. CASE Fail
      BY <3>1, <3>2, <3>3, Codes DEF Fail, Exit, Promise!Next, Promise!Fail
    <3>4. CASE Leave
      BY <3>1, <3>2, <3>4 DEF Leave, Promise!bvars
    <3>5. CASE WorkerKill
      <4>1. limited /\ code' = 124
        BY <3>1, <3>5 DEF WorkerKill, Exit, limited, DriverIInv, WatchdogIInv, WorkerControl
      <4> QED BY <3>1, <3>2, <4>1, Codes DEF Promise!Next, Promise!TimeOut
    <3> QED BY <2>2, <3>3, <3>4, <3>5
  <2>3. CASE Construct
    <3>1. /\ code = Running /\ stdout = "none" /\ outFile = "none"
          /\ UNCHANGED <<o, stdout, outFile, code>>
      BY <2>3 DEF Construct, Bounded, DriverIInv, CliIInv, Routing, cliVars
    <3>2. answer = "none" /\ answer' = "none" /\ ~ limited
      BY <2>3, <3>1 DEF answer, Written, limited, Construct
    <3>3. limited' \in BOOLEAN /\ limited \in BOOLEAN
      BY Zenon DEF limited
    <3>4. CASE limited'
      BY <3>1, <3>2, <3>3, <3>4, Codes DEF Promise!Next, Promise!Limit
    <3>5. CASE ~ limited'
      BY <3>1, <3>2, <3>3, <3>5 DEF Promise!bvars
    <3> QED BY <3>4, <3>5
  <2>4. CASE \/ Stop \/ CheckResult \/ WorkerLock \/ WorkerTest \/ WorkerTimeout
             \/ WorkerRelock \/ WorkerSpurious \/ Expire
             \/ (\E r \in Results : Decompiled(r))
    <3>1. /\ UNCHANGED cliVars
          /\ mpc = "construct" <=> mpc' = "construct"
      BY <2>4 DEF Stop, StopLock, StopSet, StopNotify, StopJoin, CheckResult, WorkerLock,
                  WorkerTest, WorkerTimeout, WorkerRelock, WorkerSpurious, Expire, Decompiled,
                  DriverIInv, WatchdogIInv, MainControl
    <3> QED BY <3>1 DEF cliVars, limited, answer, Promise!bvars
  <2>5. CASE UNCHANGED driverVars
    BY <2>5 DEF driverVars, cliVars, threadVars, limited, answer, Promise!bvars
  <2> QED BY <2>1, <2>2, <2>3, <2>4, <2>5 DEF DriverNext, Guarded, Worker, ProcessEnded
<1> QED BY <1>1, <1>2, DriverInvariance, PTL DEF DriverSpec, KeepsPromise, Promise!SafeSpec
=============================================================================
