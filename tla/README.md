# A verification development for ByteVeil

ByteVeil reads Luau bytecode, Lua 5.1 chunks or Luau source and prints what it
can reconstruct: source text, an intermediate representation, control-flow
facts, a structured plan. This directory holds TLA+ models of its core logic,
the TLC configurations that check them on small instances, and TLAPS proofs of
the main results for instances of every size.

The repository is the reference. Line numbers below are lines of
`src/byteveil_cli.cpp` ("cli") or of files in `src/byteveil_decompiler/`.
`PROJECT.json` maps every definition to the lines it models.

## 1. Inventory

| Component | State it keeps | Operations | Hard behaviour | What makes it correct |
|---|---|---|---|---|
| Command line (`byteveil_cli.cpp`, `parse`, `main`) | options, the files being written, the exit code | parse an argument, read the input, recognise it, choose a reader, write | order of checks; one of several writes fails | a failed run leaves no answer, a successful one exactly one; binary input never reaches the compiler |
| Watchdog (cli 74-113) | mutex, condition variable, flag, deadline, two threads | construct, wait with a deadline, stop, end the process | deadline against `stop()`, lost or spurious wake-ups, exit while another thread writes | stop and timeout exclude each other; a timed-out run wrote nothing; every run with a limit ends |
| Loader and driver (`Decompile.cpp`, `loadBytecode`, `inspectBytecode`, `opcodeVariants`) | the Lua stack, the prototype it owns, the decodings left, the last error | try a decoding, validate, render, validate the rendering, fall back | a decoding fails half-way; a load may collect the prototype | the prototype stays on the stack while it is used; the stack is restored; only valid source is returned |
| Code validation and basic blocks (`validateOne`, `addFunction`) | program counter, jump targets, blocks and edges | decode a word, refuse, cut, link | limits, jumps into AUX words, fall through at the end | blocks and edges describe exactly what the virtual machine can do |
| Graph analyses (`addFunction`) | reachable blocks, dominators, loops, scopes, post-dominators, components | in-place sweeps, worklists, a recursive search | sets read while others are stale, irreducible graphs, termination | each result equals its definition by paths |
| Liveness (`addFunction`) | live-in and live-out per block | backward sweeps, peak per block | the same | exact live sets |
| SSA versions (`addFunction`) | a version per block and register, phi versions | forward passes | joins visited before their predecessors | whatever path is executed, the version shown stands for the register's value |
| Register-state reconstruction (`RegisterDecompile.cpp`) | text of a program with `pc`, registers, `top`, cells, captures | render an instruction, a jump, a capture, a call | sharing of captured registers, re-execution of a capture, open ranges, registers that are read after they are written | the rendered program does what the bytecode does |
| Structured plan (`Restructure.cpp`) | none of its own | name the join of a branch | ties | a join is passed by both arms |
| Luau reader (`RobloxBytecode.cpp`), and `luau_load` behind it | a cursor in the bytes, totals | read a field, refuse | the same bytes are read twice, the second time unchecked; counts and indices from the input | the two readers agree on every field; what the second one looks up is inside its tables; totals stay within their limits |
| Instruction annotation and listings (`IR.cpp`) | none | uses and definitions per opcode; JSON, DOT, text | table errors | uses and definitions are those of the opcode |
| Lua 5.1 back end (`Lua51.cpp`) | cursor and totals, decoded functions, the text | read, validate, recover control flow, fold values, emit | totals over nested prototypes; blocks of the dispatcher; cells replaced by CLOSE; a value rendered as a register that has changed | the text does what the code does on the virtual machine |
| MoonSec (`MoonSec.cpp`) | cursor, totals, the layout tried | extract, decode, try a layout, build the tree | two readers with one grammar | the second reads what the first has accepted |
| Syntax-tree reconstruction (`BlockGen/`) | virtual stack, block nesting, the prototype itself | lift, nest | nesting of scopes; jumps are overwritten in place | the other renderer never sees the overwritten code |
| Protector and packer reports | none | substring searches | - | - |
| Vendored Luau (`src/luau`) | third party | - | - | - |

How they interact: `main` recognises the input and calls one back end. For
Luau it starts the watchdog thread, calls `decompile`, stops the watchdog and
writes. `decompile` has the chunk parsed, loads a decoding of it into a Lua state (which
reads the same bytes again), validates it (`validateOne`), and renders it with the lifter or the register
renderer. The inspection formats run `addFunction`, whose passes work one after
the other on the same graph; `Restructure.cpp` renders their results. Only the
watchdog runs concurrently with anything else. The Lua 5.1 route and the
inspection formats are not under the watchdog.

The places where things go wrong that a test hardly reaches are listed in
`PROJECT.json` under "hazards", each with the properties that cover it.

## 2. Modules

**FlowGraph** - the graph of one function: blocks `0 .. N-1`, the successors
read off the last instruction, and reference definitions. *b can be reached from
a without passing d* is defined by closed sets (b lies in every set that holds a
and is closed under the edges that avoid d), so that neither recursion nor path
sequences are needed and the prover can use it directly.

**FlowFacts** - the variables the passes share: `succ`, `reachable`,
`dominators`.

**Dominators** - `markReachable` (one action per call, in any order), the
initial sets, one action per turn of `for block`, one per new pass of
`while (changed)`, the immediate dominators.

**NaturalLoops** - back edges, the worklist (one action per turn, any element),
the merged regions with latches, preheader and exits, the scope tree. The
registers and the exit blocks of a scope are left out.

**PostDominators** - the sweeps from the last block to the first, the immediate
post-dominators, and `commonPostdom` of `Restructure.cpp`; its sort leaves the
order of equal elements open, and so does the model.

**Sccs** - Tarjan's search with the recursion of `strongConnect` as an explicit
stack of calls.

**FunctionAnalysis** composes these four: the passes of `addFunction` in its
order, each working on what the earlier ones left in the shared variables, and
the rendering of the plan at the end.

**FunctionBody** - what the register analyses see of a function: its graph and, for each
block, a sequence of instructions given by the registers they use and define.

**Liveness** - uses before definitions per block, the sweeps with `live_out` from the
successors and `live_in` from it, the largest number of live registers in a block.

**SsaVersions** - the version numbers, the passes, the recorded phis. After the analysis
a *walker* executes the function along any path and keeps, for each register, the set of
versions that stand for its current value.

**FunctionRegisters**, **MCRegisters** compose these two on one function: the liveness
sweeps, then the version passes, then the walk.

**CodeBlocks** - `validateOne`'s decoding and jump checks, `addFunction`'s cutting
and linking, and the register renderer's dispatcher on `pc`. Opcodes are grouped
by what they do to the program counter. A word is revealed when it is decoded,
so that every accepted code up to the bound is reached. The checks of operands
that do not move the program counter are one refusal (`Refuse`). `VMNext` says
what Luau's virtual machine may do next and is the reference.

**RegisterCells**, **MCRegisterCells** - one activation executed twice in step:
by the virtual machine, whose closures have upvalues that are open until
`CLOSEUPVALS`, and by the rendered program, which moves captured registers into
cells and passes them through `captures[pc]`. Sites may run again, as in a loop, and
registers be used again after `CLOSEUPVALS`. The rendered program is not exact then
(section 6), and two history variables say where: `home` has the cell each upvalue was
given when it was made, so that a closure whose `captures[pc]` was replaced is known
(`Replaced`), and `mixed` the cells that a later variable has moved into.

**RegisterText**, **MCRegisterText** - the values of one activation, again executed
twice in step: one action per kind of instruction (loads, operations, concatenation,
table writes, method calls, calls with fixed and open arguments and results, varargs,
SETLIST, RETURN, both loops). The virtual machine ends an open range at its stack top,
the text at its variable `top`, which every assignment may raise. The order of the
instructions is any that compiled code could have: a register is read only after it
was written (`live`), and between open results and the instruction that takes them
there are only assignments to registers before them (the fallback of a FASTCALL).
Whether a method call may have its object in the register of the method is the
constant `SelfInPlace`. An operation is an uninterpreted function of its operands;
the condition a loop or a branch tests is left out, captured registers are in
RegisterCells, where the code goes in CodeBlocks.

**Loader** - `opcodeVariants`, `loadBytecode`, `inspectBytecode` and `decompile`
with `treeNeedsRegisterRenderer`, `registerFallback` and `validSource`, on an
explicit Lua stack, and what `liftBodyInfo` overwrites in the prototype: the jumps, and,
because the lifter has its own table of instruction lengths (Lifter.h 80-109, with one
word for NEWCLASS and NEWCLASSMEMBER instead of two), possibly a word behind an
instruction. The fallback must not miss the jumps; it may miss such a word. What the
parts find out about a chunk is chosen at the start. C++ exceptions thrown by the parts
are not modelled.

**Reading**, **LuauReaders**, **MoonSecReaders**, **Lua51Reader**, **Readers**,
**MCReaders** - the readers of binary input. A reader is a record (the field it
reads next, the bytes left, the loop counter, what it remembers of the fields
before), and each of the five readers a function from this record and the value of
a field to the next record; refusing is a state of its own. **Readers** runs them:
the bytes are chosen when they are read, and the second reader of a format
(`luau_load` of the vendored Luau, `VirtualTreeReader` of MoonSec) goes along with
the first as long as they agree on the next field. An index that the second one reads as
a field, and does not check, is recorded as inside or outside its table. What it looks up
without a field of its own (constants by the AUX words of the code and by import ids,
prototypes that are not read yet, counts inside the type information) parse does not
look at; the variable `astray` tells which of these has just missed.
The bytes of a variable-length integer are abstracted to "short", "as long as allowed"
and "too long", `kMaxObjects` and the other limits are constants.

**Lua51Code**, **Lua51Values**, **Lua51Text**, **Lua51Vm**, **MCLua51** - the Lua
5.1 renderer. Lua51Code has what is decoded and computed from the code: what
`parseProto` delivers (`Decoded`; a CLOSURE captures one register), what
`validateProtoData` accepts, targets, captures,
`managedCapturedRegisters`, the control-flow graph, the leaders and blocks of the
dispatcher and the binary search that selects a block. Lua51Values has
`renderedValueAt`, which looks back in the code for the value of a register, and the
conditions under which the setup of an argument is left out. Lua51Text *executes
the text*: one action per kind of statement, with cells for captured registers, for
a function rendered as one dispatcher, with a dispatcher region, or without one.
Lua51Vm is the abstract specification, the virtual machine with registers and open
and closed upvalues; `Vm == INSTANCE Lua51Vm WITH ...` maps the state of the text to
it (a register whose assignment was left out has the value it was meant to get; an
upvalue is open while its storage is still the register's cell). Outside the
dispatcher the text is taken to have the control flow of the code; where a region is
left by a branch that the text has only a comment for, the run ends (`Strays`).
`Misled` is true of a state in which looking back has gone wrong: an operand would be
rendered by an expression with another value, or a closure can see a register whose
assignment was left out. The dispatcher of a whole function is never misled.

**Cli**, **Watchdog** - `main`. Cli has `parse` argument by argument, recognition, routing,
the writes and the exit. A write whose error the code sees ends the run; `writeFile`
(cli 137) reports success before the stream is closed, and `std::cout` (cli 257, 283)
is never checked, so what was written may be "cut" instead of "complete" although the
run succeeds. The decoders are left open, except that the decompilation bounded by a
time limit is Watchdog, which extends Cli: the construction, `decompile()`, both calls of
`stop()` on one side, the watchdog thread on the other, one action per access to shared
state: lock, set, notify, join; lock, test, wait, time out, wake up (also spuriously),
relock, kill. `limitAddressSpace` and the text of `--analyze` are left out. (An
exception text at cli 278 is printed before `stop()` has run, so a run that has just
reported an error may still end with 124; only the answer counts as output.)

**BoundedRun** is the abstract specification of the whole: the process ends at most once,
with an answer, an error or a timeout; once the answer is handed over it can neither
fail nor time out; a failure leaves no more than a file begun; a run with a limit ends.
`Promise == INSTANCE BoundedRun WITH ...` maps the detailed state to it.

Proofs: **FunctionAnalysisProof** (the four graph analyses and their composition),
**LivenessProof**, **SsaProof**, **RegisterDecompileProof** (code, blocks and
dispatcher; registers and open ranges), **RegisterCellsProof**, **DriverProof**
(loader, command line and watchdog), **ReadersProof**, **Lua51Proof**.

Operators marked "Mutant" in the modules are plausible bugs: each is the mutated
form of the definition below it, and shows which property notices it.

## 3. Runs

| Run | Configuration | Checks |
|---|---|---|
| function_analysis | `FunctionAnalysis.cfg` | every graph of four blocks: exactly the reachable blocks are marked; the dominators and immediate dominators are exact; natural loops are exact, have one entry, and a named preheader dominates them, their scopes nest; the post-dominators are exact and a named join lies behind both arms; the components are exact and come out in reverse topological order; all passes end |
| registers | `Registers.cfg` | `LivenessCorrect` (the live sets are exact), `PeakCorrect`, `VersionIsCurrent`, `VersionsDisjoint`; both analyses end (`Termination`, `VersionsTermination`) |
| code_blocks | `CodeBlocks.cfg` | `GraphExact` (jump targets are instructions, the blocks cover the code, the edges are the moves of the machine), `DispatcherFollows` |
| register_cells | `RegisterCells.cfg` | `SameRegisters`, `SameUpvalues`, `SharingKept` |
| register_text | `RegisterText.cfg` | `SameAsMachine`: registers, open ranges and values passed on are those of the machine |
| loader | `Loader.cfg` | `RootAnchored`, `StackRestored`, `FirstAcceptable`, `AnswerIsValid`, `FallbackSeesJumps` |
| driver | `Driver.cfg` | `StopWins`, `KeepsPromise` (refinement of BoundedRun), `EndsInTime`, `StopReturns`, `FailureLeavesNoAnswer`, `OneAnswer`, `CompilerSeesText` |
| readers | `Readers.cfg` | `SameLayout`, `IndicesInside`, `WithinLimits` |
| lua51 | `Lua51.cfg` | `KeepsVm` (refinement of Lua51Vm, but for steps that are misled), `FollowsGraph` |
| register_text_self | `RegisterText_Self.cfg` | `SameAsMachine` is violated: see section 6 |
| register_cells_loop | `RegisterCells_Loop.cfg` | `CapturesPreserved` is violated: see section 6 |
| lua51_fold | `Lua51_Fold.cfg` | `FoldedValueIsCurrent` is violated: see section 6 |


### Bounds, and why they are enough

* Graphs: `N = 4` blocks, all 2560 graphs that terminators can produce.
  Four blocks hold an irreducible loop (two entries) with its entry block and an
  exit, nested loops, two loops with one header, and unreachable predecessors;
  dominator sweeps need several passes on them. The theorems hold for every `N`.
* Liveness and SSA: `N = 3`, two registers. One block before, in and after a
  loop; bodies that read, write, read-then-write and write-then-read. The theorems
  hold for every `N`, every set (SSA: any number) of registers and all bodies.
* CodeBlocks: `MaxSize = 5` words and `MaxInstructions = 4` instructions, so that
  the limit can be hit. Five words hold two two-word instructions and a jump into
  either. The theorems hold for code of any length.
* RegisterCells: two registers, two values, five capture sites (by value, by
  reference twice, of an outer upvalue, into the captured register itself), three
  closures, so that a site can run again between two others. The theorems hold for
  every number of each.
* RegisterText: four registers (the least for a loop over an iterator), one parameter,
  up to two arguments and two results, two values and an operation that tells its
  operands apart. Open ranges are empty, inside the registers, and beyond them. The theorem holds for
  any number of registers, arguments and results.
* Loader: two decodings (identity and one multiplier) is what the code has; no
  bound besides.
* Driver: `MaxArgs = 9`, an option of each kind with its value, and repeated ones, before
  the input and a time limit; `MaxSpurious = 2` spurious wake-ups: one leads back to the
  same wait, so a third adds nothing. 152,508 states. The theorems hold for any bound.
* Readers: limits of one to three and counts up to 2, so that every limit is met and
  passed; inputs of up to 39 bytes (Luau, versions below, at and above the gates),
  40 (MoonSec, two orders and two tag tables of the 24 and 24 that are tried) and
  132 (Lua 5.1), which hold two or three prototypes with constants of each kind and
  debug information. The theorems hold for inputs of every size and all limits.
* Lua 5.1 text: five registers, two closures. Dispatcher: all codes of three
  statements out of 51 (each of the modelled instructions, each jump to each place),
  and all codes of four statements and a loop that create, call and close closures;
  regions: three branches, loads, calls or closure statements and a RETURN of a value, with
  every region that `isSingleEntryExitRegion` accepts; values: three loads, copies, calls,
  closures or branches, back edges included, before a call with one argument, the least
  that shows a copy of a copy.

### Fairness

* FunctionAnalysis: `WF_vars(Next)`. One thread runs the analysis; it does not stop by
  itself.
* FunctionRegisters: weak fairness of the two analyses only; the walker may stop anywhere.
* Watchdog: weak fairness of each thread, and none for `Decompiled` and `Decode`, because
  neither `decompile()` nor another decoder need return, nor for the parsing, which
  depends on the arguments. Time is not assumed to pass in `StopReturns`, which must not
  need the deadline; it is the hypothesis of `EndsInTime`.
* CodeBlocks, RegisterCells, RegisterText, Loader, Readers and Lua51Text have no fairness and
  no liveness property: a reader consumes input or a counter at every step, and
  whether a rendered program ends is the program's affair.

`Done`, `Ended` and `Returned` are stuttering steps of finished programs, so that
deadlock checking stays on in every run.

## 4. What is proved

Every theorem is for all values of the constants that satisfy the named assumptions:
`NAssumption` (at least one block), `BodiesAssumption` (bodies are sequences of
instructions over the registers), `CodeAssumption`, `TextAssumption`, `CellsAssumption`,
`MaxSpuriousAssumption`, `MaxArgsAssumption`, `Lua51Assumption` (bounds are
numbers; in Lua51Text the codes looked at are ones that `parseProto` can deliver: a nonempty
sequence of instructions with numbers for operands), `ReadersAssumption` (limits are
numbers, an order is a nonempty sequence of parts). An
invariant that speaks of a finished pass says nothing before its end and so cannot be
inductive; what follows names the strengthening in each case.

**FunctionAnalysisProof.** All safety properties of run *function_analysis*.

* *Dominators* (`ReachableCorrect`, `NoDominatorLost`, `DominatorsCorrect`): `Frontier`
  (marked blocks and pending calls are closed under the edges), `OnlyReached`,
  `DomBounded`, `DomUpper` (d is missing from a set only if some path avoids it) and
  `DomSettled` (the blocks visited in a pass that has changed nothing satisfy their
  equation). At the end the blocks whose sets lack d are closed under the edges that
  avoid d, which contradicts any path that would reach a block that has d.
  Post-dominators are dual, with the exits fixed (`PostFixed`).
* *Immediate dominators* (`ImmediateCorrect`): the dominators of a block form a chain, so
  the strict dominator with the largest set is the one the others dominate.
* *Loops* (`NaturalLoopExact`, `SingleEntry`, `ScopesNest`): `Known` (what the
  dominator analysis has left) and `Collected` (a member is the header or reaches the latch
  without passing it, and a member that is no longer in the worklist has its predecessors
  in the region). Nesting follows from paths: of two loops with a common block one
  header dominates the other.
* *Joins* (`JoinIsCommon`): from the exactness of the post-dominator sets of both arms.
* *Components* (`ComponentsExact`): Tarjan's search with its explicit calls. `SccOrder`
  (both stacks hold the blocks in the order of their visits; a visited block is on the
  stack or in a component), `SccConnected` (a block on the stack reaches the newer ones,
  and an active call that is not newer), `SccSeen` (successors are visited or still to be
  looked at), `LowReached` and `LowCounts` (a low link is the number of a block on the
  stack that is reached, and no larger than any met through an edge a call has taken into
  account) and `SccExact` (the components so far are whole classes in reverse topological
  order).
  The step that matters is `RootIsComponent`: when a block returns with its own number
  as low link, the stack above it is exactly its class.
* *The whole*: `TypeOK`, and `InOrder`: until a pass has finished the later ones have not
  begun; afterwards nobody writes what they read.

**LivenessProof.** `TypeOK`, `NoFalseLive`, `LivenessCorrect` from `Sound` (whatever is
live is read on some path) and `Settled`; `PeakCorrect`, for which a walk back through
the body is shown to exist (`WalkExists`) and to hold at each point exactly the
registers needed there (`WalkIsNeeded`).

**SsaProof.** `VersionsDisjoint` by the arithmetic of the version numbers, from which the
register can be read off (`Numbered`); `VersionIsCurrent` from `Settled` (the blocks visited
in a pass that has changed nothing satisfy their equations) and `Current` (the walker's
versions contain the one shown, at every block it comes to). Both are theorems of
`RegistersSpec`, the specification that the run checks: `RunsVersions` and `RunsLiveness`
show that each analysis behaves in it as it does alone, so what LivenessProof states of
`Spec` holds there as well.

**RegisterDecompileProof.**

* `GraphExact`, `DispatcherFollows`: `Chained` (every instruction starts where the one
  before it ends), `TargetsKept` (every jump's target is remembered), `AcceptedIsWhole` (accepted
  code was decoded to its end and its targets are instructions), `BuiltFromCode` (blocks
  and edges are what the code determines).
* `SameAsMachine`, for `SelfInPlace = FALSE` (the other value is the finding of section 6):
  registers agree where they are live, and `OpenInSlots` says that an open range begins at
  a register and ends within the slots behind it.

**RegisterCellsProof.** `SameRegisters`, `SameUpvalues`, `SharingKept` and the types, for
every program: nothing is assumed of which site runs again or which register is used
again. The invariant relates each open upvalue to the cell of its register
(`OpenIsCell`, `CellIsOpen`), the values on both sides except in mixed cells
(`CellsAgree`, `UncapturedAgree`) and each closure to the captures of its site
(`ClosuresLinked`); that a capture by reference or of an outer upvalue is only ever
replaced by the same cell is part of it.

**DriverProof.** All safety properties of runs *loader* and *driver*. For the loader:
`Stacked` (what is on the Lua stack at each point), `Pending` (the decodings given up are
not acceptable, and no better one is left behind the next) and `Attempts` (what has been
rendered and validated, and whether a jump has been overwritten).

For the driver the invariant has two halves. The command line's: `Routing` (nothing is
written before it is wanted, the exit code is set only at the end, and a decoder is
chosen only after the parsing is over) and `Delivered` (what has been written when main
is about to return). The threads': the mutex is tied to the program counters
(`MutexOwner`), `MainControl` says what the flag and the worker's state are at each
point of `main` and that main is on the bounded route, `WorkerControl` that the worker
kills only while it has seen the flag false, and `NoOutputOnTimeout` that nothing is
written while the worker is there. `DriverSpec => KeepsPromise`: every step of the
command line and of the two threads is a step of BoundedRun or a stutter.

**ReadersProof.** `SameLayout`, `IndicesInside` and `WithinLimits`, for inputs of every
size, all limits, and (MoonSec) all orders and tag tables; a field takes the values that
`Values` lists. For Luau the invariant is that luau_load's reader is in the state of parse's but for
the number of userdata types (`Mirror`); field by field, an operation is the same in both,
or parse refuses, or its check makes what luau_load does without one come to the same
(`IndexInside`, `StringInside`, `LinesAgree`). For MoonSec both readers are in one state, and
the limit on instructions needs that those still to read fit, whether they will be kept
or discarded (`MoonSecInside`); for Lua 5.1 each prototype in progress has a frame.

**Lua51Proof.** Both properties of run *lua51*, for code of any length, any number of
registers and closures, and all three ways of rendering.

* `FollowsGraph` (theorem `FollowsGraphTheorem`): the nested comparisons of `dispatch` are a
  binary search over the leaders, and for a leader they end at it (`SearchFinds`, by the least counterexample in
  the length of the range); every target of an instruction in the region is a leader or
  outside it (`BranchLeaders`, `RegionExits`), and so every statement goes where its
  instruction goes (`StatementGoes`). The invariant is `ControlInv`: the text is at the
  start of an instruction, never in the middle of a CLOSURE or a SETLIST.
* `KeepsVm` (theorem `KeepsVmTheorem`): every step of the text is a step of Lua51Vm under
  the refinement mapping, or starts in a state in which looking back is misled; no
  code is left out. Theorem `DispatcherTheorem` says that the dispatcher of a whole
  function refines Lua51Vm without exception. The inductive invariant `TextInv` has two
  more parts. `StorageInv`: every closure holds a place of a register that the code
  captures, and there are more generations than closures, so that CLOSE finds a cell
  nobody holds. `UnsetInv`: for each register whose assignment was left out there is a
  setup and a call, or a RETURN behind it (`Prepared`), such that nothing has set the
  register since, and no instruction but the one it was meant for can read it. One lemma
  per statement shows which step of the machine it is; the ones that need most are those
  of CLOSE and CLOSURE, where places shared between closures are upvalues shared between
  them.

The functions that look back and that search are recursive; that they have a solution,
and what it is, is proved from the least number at which it would fail.

Only model-checked: the liveness properties (`Termination`, `VersionsTermination`, `EndsInTime`, `StopReturns`),
which need fairness and `ENABLED`, out of the prover's reach. Every other property of a
passing run is a theorem. The invariants stated during the sweeps (`NoDominatorLost`,
`NoPostDominatorLost`, `NoFalseLive`) and `NoOutputOnTimeout` are proved and need no run
of their own.

## 5. What is not modelled, and why

* Lexical detail: text of listings, JSON and DOT, wording of errors.
* The opcode table of `annotateInstruction` and `validateFunctionAnalysis`: planned,
  section 7.
* Of the readers: the bits of a variable-length integer (the 32-bit overflow check at
  RobloxBytecode.cpp 49), sizes near 2^32, the contents of type information, import
  ids and AUX words beyond what `astray` tells of them, `applyOpcodeTransform`, and the
  search over MoonSec layouts (`probe`), of which each layout is a run of the reader.
* Of the Lua 5.1 renderer: the structuring of `emitRange` (1191-2487), which includes leaving
  out the setup of a numeric loop (2450-2453) because the header names its values, and the search
  for a region (the model tries every region that passes
  `isSingleEntryExitRegion`), method calls (SELF), open results, closures with several captures,
  GETUPVAL bindings, tests that are not followed by a JMP, the readable names, and
  arithmetic and table instructions, which only read and set registers.
* MoonSec's extraction and decoding of the payload and its listings; the lifter and
  its block nesting.
* Child prototypes: apart from the readers the models are of one prototype. `validateOne` numbers
  functions in the order of validation, `addFunction` in preorder.
* Protector and packer reports: searches without state.
* The C++ stack (recursion of `markReachable` and `strongConnect` has no depth
  limit) and `limitAddressSpace`.
* Of the register renderer: branch conditions, the text of constants and imports, the
  tree of prototypes.
* The vendored Luau library, except `loadsafe` of its bytecode loader; upvalues, instruction lengths and
  `std::condition_variable` are modelled from how the code uses them.

## 6. Disagreements met while modelling

Shown by a run (quoted in full in `PROJECT.json` under "findings"):

* *register_text_self*: a method call assigns the method to register A and then
  register B to A + 1 (RegisterDecompile.cpp 369-370). For an object that is not a
  local variable the compiler lets A and B be one register, so the method is passed
  as `self`.

* *register_cells_loop*: a closure looks `captures[pc]` up when it is called, and the next
  execution of its instruction replaces it (RegisterDecompile.cpp 344), so that closures
  made in a loop share the captures by value of the last one; and `CLOSEUPVALS` is
  rendered as a comment (331), so that a register used again keeps the cell of the
  variable that has ended. README.md 184 says that captures are preserved. What does
  hold, for all programs, is run *register_cells*.
* *lua51_fold*: a copy of a copy is rendered as the first register, although that is
  written again before the use (Lua51.cpp 524), against the comment at Lua51.cpp 525-527:
  after `local b = a; local c = b; a = 5` the call `f(c)` becomes `f(r0)`.

Met as well, and exempt from the passing properties where it matters:

* The register renderer takes the low 16 bits of the AUX word for the constant of a
  field or a method (RegisterDecompile.cpp 335, 336, 369), the virtual machine all of
  it: they differ in a function with more than 65,536 constants.
* A loop directly over a table (`for k, v in t`) is rendered as a call of the table
  (RegisterDecompile.cpp 450), which only works with a `__call` metamethod.
* For a back edge from a block to itself the worklist (IR.cpp 689) starts with the
  header and takes in the blocks before the loop; `NaturalLoopExact` and
  `SingleEntry` are about the other headers.
* The candidate with the smallest set (IR.cpp 759) is the strict post-dominator
  farthest away, not the immediate one.
* Signed Luau bytecode is taken for a Lua 5.1 chunk (cli 200: `isChunk` compares four
  bytes that both signatures begin with), against `CHANGELOG.md` 885.
* The join named for a branch (Restructure.cpp 26) is by the same choice the
  last block both arms pass, not the first; `JoinIsCommon` states what holds.
* An entry block that heads a loop keeps version 0 for its registers (IR.cpp 839);
  `VersionIsCurrent` assumes that the entry has no predecessor.
* A phi recorded in an early pass is kept although the versions agree in the end
  (IR.cpp 855), against the comment at IR.cpp 812.
* `--timeout ''` passes the check of `strtoul`'s end pointer (cli 183) and switches
  the limit off; README.md 311 promises decimal values only.
* `--cfg` is ignored unless the format is `cfg`, and `--analyze` ignores both files
  (cli 274); `OneAnswer` states what holds.
* A `LOADB` that skips also gets an edge to the next block (IR.cpp 38);
  `GraphExact` leaves these blocks out. `CHANGELOG.md` 631 calls them unconditional.
* `renderedValueAt` (Lua51.cpp 507-534) also ignores back edges, registers that a
  LOADNIL or a call sets besides A, and registers that closures write; the steps in
  which this shows are exempt from `KeepsVm` (`Misled`).
* The lifter's lengths of NEWCLASS and NEWCLASSMEMBER differ from the virtual machine's
  (Lifter.h 80-109, BytecodeUtils.h 41 and 44), and the gate lets these instructions
  through (RegisterDecompile.cpp 505-509): a word behind one of them may be taken for a
  jump and overwritten (Lifter.cpp 340-351) before the fallback sees the code.
  `FallbackSeesJumps` is about the jumps.
* `luau_load` looks up constants by AUX words and import ids, and counts in the type
  information, that `parse` does not look at; `validateOne` checks the AUX words only
  after the load. `astray` records it, `IndicesInside` is about the fields.
* A run may succeed with a cut answer: `writeFile` (cli 137) returns before its stream is
  closed, and `std::cout` (cli 257, 283) is not checked. `OneAnswer` is about what was
  written, not about whether it is complete.
* A branch from before a dispatcher region to behind it becomes a comment
  (Lua51.cpp 2770-2771); the model's run ends there.
* A body is rendered once to decide on a dispatcher and then again, and every CLOSURE
  renders its child (Lua51.cpp 2765, 1162): the work doubles with each level of
  nesting, on a route that is not under the watchdog.
* CONCAT of three operands drops the middle one (Lua51.cpp 1109).
* Calls that pass on all their results are followed to a depth of 32, counted twice
  per call (Lua51.cpp 555, 579), against README.md 180.
* `parse` accepts child indices up to the number of prototypes (RobloxBytecode.cpp
  246-250); at that moment `luau_load` has only filled in the earlier ones.
* An unreachable predecessor of a header can hide its preheader (IR.cpp 719), and
  SSA joins count unreachable predecessors.

## 7. Plan

Done, in this order: the graph analyses with their reference definitions; the
watchdog and its abstract specification; liveness and SSA; the command line; code
validation, blocks and dispatcher; closure cells; the loader; the composition of
the graph analyses; proofs for dominators, post-dominators, liveness, watchdog and
cells; the readers of the three binary formats; the Lua 5.1 text against the virtual
machine; the lifter's rewriting in the loader; the register renderer's values and open
ranges; proofs for loops and scopes, Tarjan's components, joins, peaks, SSA versions,
basic blocks and the dispatcher, open ranges, the loader, the command line and the
readers; the proof that the Lua 5.1 text refines the virtual machine.

Next:

1. The uses and definitions per opcode (`annotateInstruction`) against the operand
   roles, feeding Liveness and SsaVersions; `validateFunctionAnalysis` as a check on
   a finished function.
2. Open results in the Lua 5.1 text, next to the virtual machine's stack top.
3. The structuring of `emitRange`, against the same Lua51Vm.
4. The lifter's block nesting.
