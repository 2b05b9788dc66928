----------------------------- MODULE BoundedRun -----------------------------
(***************************************************************************)
(* What byteveil promises of its runs, with or without a time limit: the    *)
(* process ends at most once, with an answer (exit code 0), with an error   *)
(* (1 or 2), or because the limit ran out (124).  Once the answer is handed *)
(* over the run cannot fail or time out any more, and a run that the limit  *)
(* ended has not touched the output.                                        *)
(***************************************************************************)
EXTENDS Integers

VARIABLES
    limited,  \* whether a time limit is running
    output,   \* "none", "begun" or "handed"
    code      \* the exit code, or Running

Running == -1

bvars == <<limited, output, code>>

Init == limited = FALSE /\ output = "none" /\ code = Running

Limit ==
    /\ code = Running
    /\ output = "none"
    /\ limited' = TRUE
    /\ UNCHANGED <<output, code>>

Write ==
    /\ code = Running
    /\ output = "none"
    /\ output' = "handed"
    /\ UNCHANGED <<limited, code>>

(* A run without a limit may have had no answer to give (--help). *)
Succeed ==
    /\ code = Running
    /\ limited => output = "handed"
    /\ code' = 0
    /\ UNCHANGED <<limited, output>>

Fail ==
    /\ code = Running
    /\ output = "none"
    /\ output' \in {"none", "begun"}
    /\ code' \in {1, 2}
    /\ UNCHANGED limited

TimeOut ==
    /\ limited
    /\ code = Running
    /\ output = "none"
    /\ code' = 124
    /\ UNCHANGED <<limited, output>>

Next == Limit \/ Write \/ Succeed \/ Fail \/ TimeOut

SafeSpec == Init /\ [][Next]_bvars

(* With a limit, the process ends. *)
Ends == limited ~> (code # Running)

Spec == SafeSpec /\ Ends
=============================================================================
