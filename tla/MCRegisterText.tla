--------------------------- MODULE MCRegisterText ---------------------------
(* An operation on two values whose result depends on both operands and on  *)
(* their order, and that is not associative.                                *)
EXTENDS RegisterText

MCResult(v, w) == IF v > w THEN 0 ELSE 1
=============================================================================
