------------------------------ MODULE MCLua51 ------------------------------
(* Codes of up to three units and a RETURN.  A unit is an instruction with  *)
(* the records that belong to it.  The dispatcher is given every kind of    *)
(* control flow and closures; the structured text gets loads, copies and    *)
(* branches over three locals, and a call whose argument is set up in       *)
(* registers of its own.                                                    *)
EXTENDS Lua51Text, SequencesExt

Ins(op, a, b, c) == [op |-> op, a |-> a, b |-> b, c |-> c, sbx |-> 0]

(* In a unit the field sbx of a jump holds the target. *)
To(op, t) == [Ins(op, 0, 0, 0) EXCEPT !.sbx = t]

CodeOf(units) ==
    LET s == FlattenSeq(units)
    IN  [pc \in 0 .. Len(s)-1 |->
            IF s[pc+1].op \in {"JMP", "FORLOOP", "FORPREP"}
            THEN [s[pc+1] EXCEPT !.sbx = @ - pc - 1] ELSE s[pc+1]]

(* The loops are at register 0, so that register 3 is a loop variable.  It  *)
(* is also the one that is tested, captured and returned.                   *)
Plain ==
    {<<Ins("LOADK", 3, 0, 0)>>, <<Ins("LOADBOOL", 3, 1, 1)>>,
     <<Ins("SETLIST", 2, 1, 0), Ins("EXTRA", 0, 0, 0)>>,
     <<Ins("CLOSURE", 4, 0, 1), Ins("MOVE", 0, 3, 0)>>,
     <<Ins("CLOSE", 3, 0, 0)>>, <<Ins("CLOSE", 4, 0, 0)>>,
     <<Ins("CALL", 4, 1, 1)>>, <<Ins("TAILCALL", 4, 1, 0)>>,
     <<Ins("RETURN", 3, 2, 0)>>}

Jumps(t) ==
    {<<To("JMP", t)>>, <<To("FORPREP", t)>>, <<To("FORLOOP", t)>>,
     <<Ins("TFORLOOP", 0, 0, 1), To("JMP", t)>>,
     <<Ins("EQ", 1, 3, 4), To("JMP", t)>>,
     <<Ins("TEST", 3, 0, 0), To("JMP", t)>>,
     <<Ins("TESTSET", 4, 3, 1), To("JMP", t)>>}

Control == Plain \cup UNION {Jumps(t) : t \in 0 .. 5}

(* Closures that are created, called and closed in a loop. *)
Sharing ==
    {<<Ins("LOADK", 3, 0, 0)>>, <<Ins("CLOSURE", 4, 0, 1), Ins("MOVE", 0, 3, 0)>>,
     <<Ins("CLOSE", 3, 0, 0)>>, <<Ins("CALL", 4, 1, 1)>>}

Branching ==
    Sharing
      \cup UNION {{<<To("JMP", t)>>, <<To("FORLOOP", t)>>, <<Ins("TEST", 3, 0, 0), To("JMP", t)>>} :
                     t \in 0 .. 5}

Ret == <<Ins("RETURN", 3, 2, 0)>>

Copies == {<<Ins("MOVE", r, s, 0)>> : <<r, s>> \in {x \in (0 .. 2) \X (0 .. 2) : x[1] # x[2]}}
Locals ==
    Copies \cup {<<Ins("LOADK", r, 0, 0)>> : r \in 0 .. 2}
      \cup {<<Ins("LOADNIL", 1, 1, 0)>>, <<Ins("CALL", 0, 1, 2)>>,
            <<Ins("CLOSURE", 2, 0, 1), Ins("MOVE", 0, 0, 0)>>}
      \cup {<<Ins("TEST", 0, 0, 0), To("JMP", t)>> : t \in 0 .. 5}

Calls ==
    {<<Ins("MOVE", 4, r, 0), Ins("CALL", 3, 2, 1)>> : r \in 0 .. 2}
      \cup {<<Ins("LOADK", 4, 0, 0), Ins("CALL", 3, 2, 2)>>,
            <<Ins("MOVE", 4, 2, 0), Ins("TAILCALL", 3, 2, 0)>>,
            <<Ins("CLOSURE", 2, 0, 1), Ins("MOVE", 0, 4, 0), Ins("LOADK", 4, 0, 0), Ins("CALL", 3, 2, 1)>>,
            <<Ins("LOADK", 0, 0, 0)>>}

MCPrograms ==
    [dispatcher |->
        {CodeOf(<<x, y, z, Ret>>) : x, y \in Control, z \in Plain \cup Jumps(0)}
          \cup {CodeOf(<<w, x, y, z, <<To("FORLOOP", t)>>, Ret>>) :
                   w, x, y, z \in Sharing, t \in 0 .. 2},
     region |-> {CodeOf(<<x, y, z, Ret>>) : x, y, z \in Branching},
     structured |-> {CodeOf(<<x, y, z, call, <<Ins("RETURN", 0, 2, 0)>>>>) : x, y, z \in Locals, call \in Calls}]

(* A copy of a copy, whose original is set again before the call. *)
FoldPrograms ==
    [dispatcher |-> {}, region |-> {},
     structured |-> {CodeOf(<<<<Ins("MOVE", 1, 0, 0)>>, <<Ins("MOVE", 2, 1, 0)>>, x,
                              <<Ins("MOVE", 4, 2, 0), Ins("CALL", 3, 2, 1)>>, Ret>>) :
                        x \in Copies \cup Locals}]
=============================================================================
