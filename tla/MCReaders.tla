----------------------------- MODULE MCReaders -----------------------------
(***************************************************************************)
(* The readers on inputs of up to two (Luau, MoonSec) and three (Lua 5.1)   *)
(* prototypes, with limits small enough to be reached.                      *)
(***************************************************************************)
EXTENDS Readers

MCSizes == [luau |-> {17, 36, 39}, moonsec |-> {12, 13, 30, 40}, lua51 |-> {60, 92, 132}]

MCOrders == {<<"constants", "instructions", "functions", "parameters">>,
             <<"functions", "parameters", "instructions", "constants">>}

MCTags == {<<"boolean", "number", "string", "unknown">>,
           <<"unknown", "string", "number", "boolean">>}
=============================================================================
