----------------------------- MODULE SsaVersions -----------------------------
(***************************************************************************)
(* The register SSA of IR.cpp's addFunction: every definition has a version *)
(* number of its own, versions flow through the graph in block order until  *)
(* a whole pass changes nothing, and a join whose incoming versions differ  *)
(* gets a phi version.                                                      *)
(*                                                                          *)
(* What the versions are for is stated by running the function: a walker    *)
(* follows the graph and keeps, for each register, the versions that stand  *)
(* for its current value.                                                   *)
(***************************************************************************)
EXTENDS FunctionBody

VARIABLES
    ssaPhase,    \* "sweep" or "done"
    incoming, outgoing, phiVersions,  \* a version per block and register
    ssaCursor,   \* the loop variable "block"
    ssaChanged,
    at,          \* the block the walker is about to execute
    holds        \* per register, the versions that have its current value

versionVars == <<ssaPhase, incoming, outgoing, phiVersions, ssaCursor, ssaChanged, at, holds>>
ssaVars == <<succ, body, versionVars>>

NoVersion == -1

(* The version of register r defined by instruction number i. *)
DefinitionVersion(i, r) == 1 + i * Registers + r

(* Mutant: the block number is not scaled by the number of registers. *)
PhiVersionUnscaled(b, r) == 1 + (N * PerBlock + 1) * Registers + b + r

PhiVersion(b, r) == 1 + (N * PerBlock + 1) * Registers + b * Registers + r

InstructionIndex(b, k) == b * PerBlock + k - 1

Unversioned == [b \in Block |-> [r \in Reg |-> NoVersion]]

SsaStart ==
    /\ ssaPhase = "sweep"
    /\ incoming = Unversioned
    /\ outgoing = Unversioned
    /\ phiVersions = Unversioned
    /\ ssaCursor = 0
    /\ ssaChanged = FALSE
    /\ at = None
    /\ holds = [r \in Reg |-> {0}]

SsaInit == FunctionInit /\ SsaStart

(* The versions of r that the predecessors of b leave. *)
Arriving(b, r) == {outgoing[p][r] : p \in Preds(succ, b)}

(* Mutant: the version of the first predecessor is taken for all. *)
NextIncomingFirst(b) ==
    [r \in Reg |->
        IF b = Entry THEN 0
        ELSE IF Preds(succ, b) = {} THEN NoVersion
        ELSE outgoing[CHOOSE p \in Preds(succ, b) : \A q \in Preds(succ, b) : p <= q][r]]

NextIncoming(b) ==
    [r \in Reg |->
        CASE b = Entry -> 0
          [] b # Entry /\ Arriving(b, r) = {} -> NoVersion
          [] b # Entry /\ Cardinality(Arriving(b, r)) = 1 -> CHOOSE v \in Arriving(b, r) : TRUE
          [] OTHER -> PhiVersion(b, r)]

(* The registers for which this visit of b finds differing versions. *)
NeedsPhi(b) == {r \in Reg : b # Entry /\ Cardinality(Arriving(b, r)) > 1}

(* The instructions of b that define r, and what they leave in it. *)
Defining(b, r) == {k \in 1 .. PerBlock : r \in body[b][k].definitions}

NextOutgoing(b) ==
    [r \in Reg |->
        IF Defining(b, r) = {} THEN NextIncoming(b)[r]
        ELSE LET lastDef == CHOOSE k \in Defining(b, r) : \A j \in Defining(b, r) : j <= k
             IN  DefinitionVersion(InstructionIndex(b, lastDef), r)]

(* Mutant: recording a phi always counts as a change. *)
VisitVersionsPhiChanges ==
    /\ ssaPhase = "sweep"
    /\ ssaCursor \in Block
    /\ ssaCursor' = ssaCursor + 1
    /\ phiVersions' = [phiVersions EXCEPT ![ssaCursor] =
                          [r \in Reg |-> IF r \in NeedsPhi(ssaCursor)
                                         THEN PhiVersion(ssaCursor, r) ELSE @[r]]]
    /\ incoming' = [incoming EXCEPT ![ssaCursor] = NextIncoming(ssaCursor)]
    /\ outgoing' = [outgoing EXCEPT ![ssaCursor] = NextOutgoing(ssaCursor)]
    /\ ssaChanged' = (ssaChanged \/ outgoing' # outgoing \/ NeedsPhi(ssaCursor) # {})
    /\ UNCHANGED <<succ, body, ssaPhase, at, holds>>

VisitVersions ==
    /\ ssaPhase = "sweep"
    /\ ssaCursor \in Block
    /\ ssaCursor' = ssaCursor + 1
    /\ phiVersions' = [phiVersions EXCEPT ![ssaCursor] =
                          [r \in Reg |-> IF r \in NeedsPhi(ssaCursor)
                                         THEN PhiVersion(ssaCursor, r) ELSE @[r]]]
    /\ incoming' = [incoming EXCEPT ![ssaCursor] = NextIncoming(ssaCursor)]
    /\ outgoing' = [outgoing EXCEPT ![ssaCursor] = NextOutgoing(ssaCursor)]
    /\ ssaChanged' = (ssaChanged \/ incoming' # incoming \/ outgoing' # outgoing)
    /\ UNCHANGED <<succ, body, ssaPhase, at, holds>>

NextVersionPass ==
    /\ ssaPhase = "sweep"
    /\ ssaCursor \notin Block
    /\ ssaChanged
    /\ ssaCursor' = 0
    /\ ssaChanged' = FALSE
    /\ UNCHANGED <<succ, body, ssaPhase, incoming, outgoing, phiVersions, at, holds>>

(* The phi nodes are emitted from the final tables, and the function runs. *)
FinishVersions ==
    /\ ssaPhase = "sweep"
    /\ ssaCursor \notin Block
    /\ ~ ssaChanged
    /\ ssaPhase' = "done"
    /\ at' = Entry
    /\ UNCHANGED <<succ, body, incoming, outgoing, phiVersions, ssaCursor, ssaChanged, holds>>

(* A phi node of block b: what it selects when control arrives from p. *)
PhiNodes(b) == {r \in Reg : phiVersions[b][r] # NoVersion}
IncomingVersion(p, r) == outgoing[p][r]

-----------------------------------------------------------------------------
(* The walker executes block "at" and goes to its successor s.  A           *)
(* definition gives the register a new value, which only its own version    *)
(* has; a phi node copies the version that belongs to the edge.             *)
AfterBlock(b, r) ==
    IF Defining(b, r) = {} THEN holds[r] ELSE {outgoing[b][r]}

Walk(s) ==
    /\ ssaPhase = "done"
    /\ s \in succ[at]
    /\ at' = s
    /\ holds' = [r \in Reg |->
                   LET now == AfterBlock(at, r) IN
                   IF r \notin PhiNodes(s) THEN now
                   ELSE IF IncomingVersion(at, r) \in now
                   THEN now \cup {PhiVersion(s, r)}
                   ELSE now \ {PhiVersion(s, r)}]
    /\ UNCHANGED <<succ, body, ssaPhase, incoming, outgoing, phiVersions, ssaCursor, ssaChanged>>

(* The function has returned. *)
Returned == ssaPhase = "done" /\ succ[at] = {} /\ UNCHANGED ssaVars

FindVersions == VisitVersions \/ NextVersionPass \/ FinishVersions

SsaNext == FindVersions \/ (\E s \in Block : Walk(s)) \/ Returned

SsaSpec == SsaInit /\ [][SsaNext]_ssaVars

-----------------------------------------------------------------------------
(* However control reached a block, the version that the analysis says a    *)
(* register has on entry stands for the value the register really has: no   *)
(* execution arrives with a definition that the versions do not account     *)
(* for.  (When the entry block heads a loop this fails: its registers keep  *)
(* version 0.)                                                              *)
VersionIsCurrent ==
    ssaPhase = "done" /\ Preds(succ, Entry) = {} => \A r \in Reg : incoming[at][r] \in holds[r]

(* A version belongs to one register and one place: the numbers of          *)
(* definitions and phi nodes never collide, so that two registers with the  *)
(* same version cannot be taken for one another.                            *)
VersionsDisjoint ==
    ssaPhase = "done" =>
        \A b, c \in Block, r, q \in Reg :
            outgoing[b][r] = outgoing[c][q] => r = q \/ outgoing[b][r] \in {NoVersion, 0}

(* The version passes, the loop "while (changed)", end on every function,   *)
(* although a version may be replaced by a phi and a phi by a version       *)
(* again.                                                                   *)
VersionsTermination == <>(ssaPhase = "done")
=============================================================================
