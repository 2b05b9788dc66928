-------------------------- MODULE MCRegisterCells --------------------------
(* Two registers; a closure that captures register 0 by reference and one   *)
(* that captures it from register 0 itself, as a recursive local function   *)
(* does; one that captures it by value, one that captures register 1 by     *)
(* reference, and one that passes on the enclosing function's upvalue.      *)
EXTENDS RegisterCells

MCSite == {"ref0", "again0", "val0", "ref1", "outer"}

MCCapture ==
    [s \in MCSite |->
        CASE s = "ref0"   -> [a |-> 1, kind |-> "REF",   b |-> 0]
          [] s = "again0" -> [a |-> 0, kind |-> "REF",   b |-> 0]
          [] s = "val0"   -> [a |-> 1, kind |-> "VAL",   b |-> 0]
          [] s = "ref1"   -> [a |-> 0, kind |-> "REF",   b |-> 1]
          [] s = "outer"  -> [a |-> 1, kind |-> "UPVAL", b |-> 0]]
=============================================================================
