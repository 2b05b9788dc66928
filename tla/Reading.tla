------------------------------ MODULE Reading ------------------------------
(***************************************************************************)
(* What the readers of binary input have in common.  A reader is a record:  *)
(* at is the field of the format it reads next, left the number of bytes    *)
(* after its position, n the elements left in its innermost loop and b the  *)
(* size of a block that it skips or copies; a reader adds what it remembers *)
(* of the fields before.  A step of a reader takes the record, its position *)
(* already moved over the field, and the field's value.                     *)
(***************************************************************************)
EXTENDS Integers, Sequences

(* The end of a reader that fails, whatever the error: nothing is kept. *)
Refused == [at |-> "refused", left |-> 0, n |-> 0]
Accepted(s) == [s EXCEPT !.at = "accepted"]

Go(s, field) == [s EXCEPT !.at = field]

(* "if (! condition) fail": rest is the state of a reader that goes on. *)
Require(condition, rest) == IF condition THEN rest ELSE Refused

(* A loop of count rounds that begin with the field body; rest is the state *)
(* after the loop.                                                          *)
Times(s, count, body, rest) ==
    IF count = 0 THEN rest ELSE [s EXCEPT !.at = body, !.n = count]

Again(s, body, rest) == Times(s, s.n - 1, body, [rest EXCEPT !.n = 0])

(* A field of size bytes whose content does not matter. *)
Block(s, size, field) == [s EXCEPT !.at = field, !.b = size]
=============================================================================
