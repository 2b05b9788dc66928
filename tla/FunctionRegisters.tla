-------------------------- MODULE FunctionRegisters --------------------------
(***************************************************************************)
(* The two register analyses as addFunction runs them: the liveness sweeps, *)
(* then the version passes, on the same graph and the same instructions;    *)
(* last, the function itself runs (the walker of SsaVersions).              *)
(***************************************************************************)
EXTENDS Liveness, SsaVersions

registerVars == <<vars, versionVars>>

RegistersInit == FunctionInit /\ Start /\ SsaStart

FindLiveness == (Visit \/ NextPass \/ Finish) /\ UNCHANGED versionVars

GiveVersions == phase = "done" /\ FindVersions /\ UNCHANGED vars

Run == ((\E s \in Block : Walk(s)) \/ Returned) /\ UNCHANGED vars

RegistersNext == FindLiveness \/ GiveVersions \/ Run

(* One thread runs the analyses; an execution of the function may stop. *)
RegistersSpec ==
    /\ RegistersInit /\ [][RegistersNext]_registerVars
    /\ WF_registerVars(FindLiveness \/ GiveVersions)
=============================================================================
