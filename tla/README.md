# A verification of the SVC-SP bundled-data compiler

The repository compiles a SystemVerilogCSP module (Channels, `Receive`, `Send`,
`if`, parallel composition) into a four-phase bundled-data asynchronous
circuit. The compiler is a chain of passes M1 to M7 in Python; the circuit it
emits is an instance graph over the cells in `rtl_lib/`. What can go wrong at
run time happens in the circuit: every gate, matched delay and channel partner
moves on its own. That circuit is what this directory models first; the passes
that decide which programs are accepted, and what the circuit is to compute,
come second.

## 1. Inventory

| Component | Source | State | Operations | Talks to |
|---|---|---|---|---|
| C-element | `rtl_lib/controllers/muller_c_element2.sv` | a NAND latch `q`, `q_bar` and three gate outputs | each gate switches; reset | joins, controller |
| Request and acknowledge join | `four_phase_request_join.sv`, `four_phase_ack_join.sv` | one C-element per channel after the first, in series | a cell switches | channel wires, controller |
| Request and acknowledge fanout | `four_phase_*_fanout.sv` | none | wires | joins, channels |
| Half-buffer controller | `four_phase_half_buffer_controller.sv` | `q` | rises on all requests and no acknowledge, falls on the opposite | joins, latch banks, delays |
| Latch bank | `storage/*.sv` | one NAND latch per bit | transparent while enabled, holds while closed | controller, EN stages |
| Matched delay | `delay/*.sv` | the value under way | copies its input after a delay | request wires |
| Enable sender | `four_phase_enable_sender.sv` | `state`, `req`, `data` | launch, withdraw, rearm | EN stages, BODY launch signals |
| EN_RECV | `en_receive_controller.sv` | `state`, `enabled_reg`, `enable_ack`, `external_ack`, `body_req` | consume enable, external Receive or dummy payload, BODY handshake | enable sender, external sender, BODY |
| EN_SEND | `en_send_controller.sv` | `state`, `enabled_reg`, `enable_ack`, `body_ack`, `external_req` | consume enable and BODY payload, external Send or nothing | enable sender, BODY, external receiver |
| Channel partners | test benches in `tests/test_async_generated_rtl.py` | request or acknowledge, payload | offer, withdraw; take, release | the generated module |
| M1 frontend | `frontend.py` | none beyond one walk | parse | M2 |
| M2 behavioural IR | `behavioral_ir.py` | immutable terms | lower each statement; refuse a value whose width is not proven to be that of its place | M3 to M7 |
| M3 transaction extraction | `transaction.py` | current phase, three region lists, endpoints seen | visit each process; reject a receive after computation, a repeated endpoint, a parallel of mixed regions | M4 |
| M4 communication decomposition | `communication_decomposition.py` | guard per source path, enable list | compose guards; split conditional ports into BODY port and EN adapter | M5, M6 |
| M5 semantic analysis | `semantic_analysis.py` | reaching definitions per bit with the guard of each | walk in program order; reject a write to an external input and a read that some admitted path leaves undefined; record dependencies | M6 |
| M6 microarchitecture | `async_microarchitecture.py` | none | choose topology: direct, join, fanout; latch and delay per output; enable channels | M7 |
| M7 binding and emission | `async_template_binding.py`, `async_rtl_codegen.py` | signal and instance tables under construction | bind templates, emit text | simulator |
| Decomposed view | `decomposed_svcsp.py` | none | print a decomposed transaction as SVCSP for simulation | simulator |
| Reference compiler | `reference/luc_repo` | - | a predecessor, not used | - |

**What is hard.** Everything in the circuit is concurrent: N senders, M
receivers, every cell and every delay may move in any order. The joins are
*serial* reductions of two-input C-elements, which equal an N-input C-element
only while requests are monotonic. Data has no completion signal: a request
must not overtake its payload. The EN controllers leave their last state only
when up to four wires of two handshakes are low at the same time, while other
parts of the circuit are already free to raise them again. Each conditional
port evaluates its guard for itself at its own moment. Reset reaches the
C-elements but not the EN controllers. In the compiler, M4 and M5 treat guards
as expressions compared by text, although the variables in them may be
reassigned between two uses. M7 wires dozens of kinds of nets by name; its own
check that every formal is bound compares a list with the list it was made
from.

**What makes each component correct.**

- C-element: its output follows the C-element relation with no glitch; reset
  clears it from every power-up state.
- Latch: shows its data while open, does not move while closed.
- Joins and controller: a transaction starts only on all requests and idle
  outputs, ends only when all is withdrawn and acknowledged; no hazard.
- Ordinary stage: results in order, one token from every input, none lost or
  repeated; payload settled before its request and still until its
  acknowledge is low; everything offered is delivered.
- Conditional stage: it implements a wire-free transaction (`GuardedFlow`): the
  receivers get exactly what the source transaction owes them and disabled
  Channels are left alone; every enable token is consumed; no deadlock.
- M3 to M5: an accepted program's decomposed form computes what its source does.
- M2: nothing that is emitted is resized in silence.
- M5: besides, the recorded dependencies cover every use on every path.
- M6, M7: every net has one driver and every template all its formals; the
  emitted module takes and sends what the source does and rests afterwards.
- Printer: the view simulates as the source.

The hazards, each at its line, are in `PROJECT.json`.

## 2. Plan

Done in this order, core first:

1. `FourPhaseCells`, `BodyStage`, `TransactionFlow`, `OrdinaryTransaction`: the
   ordinary stage, the wire-free specification it implements, and
   `OrdinaryTransactionProofs`.
2. `MullerCElement`, `LatchCell` with their proofs: the gates under the two
   one-step cells that item 1 uses.
3. `EnableControllers`, `ConditionalTransaction`, `MCConditionalTransaction`:
   the behavioural controllers and the network with conditional ports.
4. `Terms` and `Programs` (the behavioural IR and its execution),
   `BehavioralLowering` (the width rules of M2), `TransactionExtraction` (M3),
   `CommunicationDecomposition` (M4), `SemanticAnalysis` (M5).
5. `Microarchitecture` (M6), `Netlist` (the tables M7 fills), `TemplateBinding`
   (M7) and `GeneratedNetlist` (the emitter, and the meaning of what it emits in
   terms of the cells of items 1 and 3); `DecomposedView` (the printer);
   `CompiledTransaction`, which takes
   every body over a pool of statements through all of them, runs the netlist
   and executes the source.
6. Reset between transactions of the conditional network.
7. `ConditionalInvariants`, the inductive invariant of the conditional network,
   and its proofs in three layers: control (`ConditionalTransactionProofs`),
   enable channels, guards and counts (`ConditionalEnableProofs`), pace and
   payloads (`ConditionalDataProofs`).
8. `GuardedFlow`, the wire-free specification of a transaction with conditional
   ports, and the proof that the network implements it
   (`ConditionalDataProofs`).
9. `TemplateBindingProofs`: the bound module for any number of ports.

Left for later:

- Guards over received data in `ConditionalTransaction`; today only
  `GeneratedNetlist` runs them, under one schedule.
- The lemma that a chain of C-elements in `MullerCElement` form composes with
  `AnsweredInputs` into the network.
- The scopes and declarations of M1 and M2.

`Terms`, `Microarchitecture`, `Netlist` and `TemplateBinding` need no recursion
and are proved about. The other modules of items 4 and 5 range over recursive
terms with RECURSIVE operators and stay with TLC.

## 3. Modules and how they correspond to the code

**`FourPhaseCells`** has the one relation all control logic is built from, the
resettable C-element. Fanouts and buffers are wires and disappear.

**`MullerCElement`** is `muller_c_element2` gate by gate: one variable per net,
one action per gate primitive, named as in the source (`make_set_latch_n`,
`detect_any_high`, `make_reset_latch_n`, `sr_set`, `sr_reset`). It starts from
every power-up state, lets reset return at any time, and moves the inputs under
four-phase monotonicity: an input changes only when `q` agrees with it.
`FollowsCElement` says the gates implement `CElement`.

**`LatchCell`** is `latch_cell` gate by gate in the same way. Data moves at any
time; `enable` falls once the cell has settled, which is the bundled-data
margin. `closed` and `captured` are history variables: since when the bank has
been closed and what it captured.

**`BodyStage`** is the stage that `bind_async_templates` puts into every
module, for N inputs and M outputs. `inReq`/`inData`/`outAck` are the
BODY-side wires of each channel, `reqRed`/`ackRed` the cells of the serial
joins, `q` the controller, `latch` the output latch banks, `rreq` the output
requests after their matched delays. `base_Lreq`, `base_Rack`, `base_Lack`,
`storage_enable` are the binder's nets. One action per cell. Reset is held until
the joins are clear, as the test benches hold it. `StageInv` is what the stage
guarantees to any surroundings that follow the four-phase protocol; both
compositions below prove it of theirs. A payload is the
number of the token that carries it and `BodyData` hands the vector of all
input payloads to every output, so that any mixture of two transactions shows.
The matched delay is the action `EndDelay`, enabled once the bank behind it
has settled; it stands for the requirement M6 attaches to each output
(`MatchedDelayRequirement`), not for a number of time units.

**`OrdinaryTransaction`** adds the channel partners of an unconditional
transaction and all properties of the stage. `HoldsUntilAckLow` says how long a
sender keeps its payload.

**`TransactionFlow`** is the abstract specification: tokens offered, a
transaction started, results delivered; no wires. `OrdinaryTransaction`
implements it with `offered <- sent`, `delivered <- received` and `accepted`
read off the controller and the first input.

**`EnableControllers`** has one operator per `always` block of the three
behavioural controllers: registers and input wires in, registers out. Blocking
assignments are respected, so later statements see earlier results. `default`
arms are unreachable from the `initial` blocks and left out.

**`ConditionalTransaction`** composes `BodyStage` with an EN_RECV stage per
conditional input, an EN_SEND stage per conditional output and one enable
sender for each, wired as in `bind_async_templates`: PRE_INPUT senders launch on
`~base_Rack`, POST_INPUT senders on `storage_enable`; each samples the live guard
expression. Guards are an external input `sel` or its negation, which is enough
for any pair of ports to be enabled together, exclusively or always. `guard` and
`due` are history: the value of `sel` the transaction captured and the results
each receiver is owed, computed from the source-level meaning of the
transaction. Four constants describe the surroundings:

- `Paced`: partners keep the pace of the test benches (next token only when the
  previous transaction has left every EN stage, withdrawal before any delay
  ends); otherwise they follow the four-phase protocol only.
- `SettledPartners`: partners move only once the gates have settled. All runs
  assume it: the EN_RECV latch closes when `external_req` falls, and against a
  sender that withdraws before the latch has captured nothing protects the
  payload.
- `SelHeld`: `sel` is held until the BODY latches close; otherwise only until
  the PRE_INPUT enables have captured it, the contract in the backend document.
- `ResetAgain`: `reset_n` may return. It reaches the controller and the joins
  and nothing else, so `AssertReset` waits for `SafeToReset`: the controller and the
  joined acknowledge low. The EN stages and the enable senders keep what they
  hold, a captured enable included. With the acknowledge still up a reset
  already loses results.

This network is not speed-independent: an enable sender must see its launch low
before the acknowledge returns. A matched delay therefore ends only when every
gate has settled, and gate steps interleave freely in between.

**`GuardedFlow`** is what such a transaction promises, with no wires: the external
input, the last token of every sender and whether it is fresh, the results each
receiver is owed and the one its Channel shows. `StartTransaction` uses the fresh
tokens of the enabled inputs and owes every enabled output one result; it waits
until no direct output is owed anything and no buffered one more than one. The
network maps to it by `Fresh` and `Shown`: a token is fresh from its external
request until `q` rises, handed on by EN_RECV meanwhile; a result is shown while
its request is up and unanswered. `ImplementsFlow` is the refinement.

**`ConditionalInvariants`** has the inductive invariant `Inv` of the network,
in parts ordered by what they assume (section 5).

**`MCConditionalTransaction`** names the guard shapes for TLC.

**`Terms`** has the terms of `behavioral_ir.py`. An expression or a process
is a record of one shape, so that any two can be compared, as the code compares
frozen dataclasses; a variable is a set of bits and an lvalue the set it covers.

**`Programs`** says what they compute. `Eval` is the value of the text `_expression` prints, with `Unknown` for `'x`.
`FirstSteps` is the source-level execution: parallel branches interleave
statement by statement. Conditions are one bit wide.

**`BehavioralLowering`** has the width rules of M2: what `expression_payload_type`
can prove (`ExpressionWidth` in `Programs`) and where `_statement` requires it.

**`TransactionExtraction`**, **`CommunicationDecomposition`**,
**`SemanticAnalysis`** are M3, M4 and M5, one operator per method. An exception
of the code is a flag that is no longer set: `accepted` in the walk of M3, `valid`
in that of M5. `DefinitionsCover` runs over every valuation of the atoms, as the
code does. M5's walk also collects the dependency edges.

**`Microarchitecture`** is M6 as an operator from the ports of M4 to one record:
direct connection or join and fanout per side, an enable channel and stage per
conditional port, the operations every matched delay has to outlast.

**`Netlist`** has the tables of a bound module: instances, nets, public ports and
assignments. A net is a role and an owner instead of a name, an instance a
template and an owner. `TemplateInputs` and `TemplateOutputs` are the formal ports
in `rtl_lib`, `DriversOf` and `NetsRead` what drives a net and which are read, and
`Closed` a module nothing is left open in. `Renderable` is the emitter's own
`_validate`, `PortsBoundOnce` the binder's refusal of a second public port.

**`TemplateBinding`** is M7. Each `Bind...` operator is one section of
`bind_async_templates` or one of its helpers and returns its part of the tables;
the module is the union of the parts (`PartsOf`, `Module`), since the code only
ever adds to its tables. An enable value and a storage input read the variables of
the BODY, which are not nets.

**`GeneratedNetlist`** says what the emitted text means, for the modules that
`Binds`, that is, the binder does not refuse: the value of a net as an expression over registers
(`NetValue`), the `always_comb` block (`BodyProgram`, which starts every variable it
writes with x), and the next value of every register, with `CElement`,
`EnableSender`, `EnReceive` and `EnSend` from the circuit modules. `Transact` runs
it for one transaction under one schedule: all cells until none is excited,
then all partners, then all delays, which is the pace of the test benches; in
reset the partners keep still.
Other schedules are the business of the circuit modules; this one tells whether
the wires lead where those modules assume they do. The BODY controller is held
after its first transaction (`begun`): with every Receive disabled the next one
needs no token and would begin at once.

**`DecomposedView`** is the printer, as the statements it prints.

**`CompiledTransaction`** puts them together. A body grows by one statement of
a pool per step while M2 and M3 take it (`ExtractItem`), then passes M4, M5
and M6 with M7 (`Bind`). `Begin` runs the netlist of an accepted body for every
token and every external input and keeps what it took, what it sent and whether
it rests; then the source is executed statement by statement (`ExecuteReceive`,
`ExecuteAssign`, `ExecuteSend`, `ExecuteIf`) and compared. `writer` remembers which
operation wrote each bit last. `StableGuards` restricts the bodies to those that
never write a variable of a condition they have tested before in the text;
without it the two programs of section 6 appear.

**`MCCompiledTransaction`** has the pools of statements.

The modules named `...Proofs` have the proofs, section 5.

## 4. Runs

| Run | Instance | What it shows |
|---|---|---|
| `cell_gates` | one C-element, all 32 power-up settings of its gates, both inputs, reset returning at any time | legal latch phases (`CellInv`), no glitch and agreement with `CElement` (`FollowsCElement`), reset clears (`ResetClears`), inputs are copied (`CopiesInputs`) |
| `latch_gates` | one latch bit, every power-up state | holds while closed (`CellInv`, `ClosedOutputStill`), follows while open (`Transparent`) |
| `ordinary_joins` | N = M = 3, two tokens per sender | the inductive invariant `Inv`, bundling, stable payload, joint handshake, no hazard (`SpeedIndependent`), the input discipline of every cell (`AnsweredInputs`), no pulse shorter than a delay (`NoSwallowedEdge`), and refinement of `TransactionFlow` with liveness |
| `conditional_mixed` | one always and one conditional port per side | the inductive invariant `Inv`, refinement of `GuardedFlow`, results, untouched disabled Channels, single evaluation, external handshakes; every enable token consumed, every result taken, no stop |
| `conditional_select` | `if (sel) A->C else B->D`, reset returning between transactions | `Inv`, refinement of `GuardedFlow`, untouched disabled Channels, joint handshake, no deadlock, with every port conditional |
| `programs` | bodies of up to 5 of 29 statements: nested guards over one-bit variables and an external input, bits of a two-bit variable, parallel branches, declared and undeclared Channels | for those the compiler accepts: the netlist is closed (`NetlistClosed`) and resizes nothing (`NoImplicitResize`); it has the source's outcome, whatever order the source's parallel branches take (`SameOutcome`), and rests (`RestsAfterTransaction`); every use has its dependency (`EveryUseHasItsEdge`); no undefined value (`NoUndefinedValue`); regions in order (`RegionsInOrder`); the printed view simulates as the source (`ViewSameOutcome`) |

Bounds. Three channels give joins of two cells, one behind the other, the
smallest chain in which a cell has both a predecessor and a successor; two
tokens let one transaction overlap the next offer, and the stage has no memory
longer than that. In the conditional runs tokens are numbered modulo 2, so the
runs are infinite: two consecutive tokens can be told apart and the stage holds
at most one transaction and the next offer. `conditional_select` leaves
liveness to `conditional_mixed`, which has a sender and a receiver of either
kind, and adds reset. In the program runs five statements allow a receive or two,
computation in two steps, and two sends; the pools hold, for each rule of M2,
M3, M5 and M7, a statement that keeps it and one that breaks it. The passes of the
repository, called on every body of the two pools, accept exactly as many as the
model does: 5,688 bodies in M3, of which 687 in M5, of which 412 are emitted. M7
refuses 233 for a Send without a width and 42 for a Channel used twice.
All passing runs check for deadlock; `CompiledTransaction` stops in `Stopped`, at
a rejected body or a finished execution; `OrdinaryTransaction` ends in
`Finished`, which requires every token delivered and every wire at zero.

Fairness. A gate whose inputs call for a change switches, and a delay ends
(weak fairness: in a settled circuit an excited gate stays excited, as
`SpeedIndependent` shows for the ordinary stage). In the conditional network one
fairness condition over all gates is enough, since each gate step is a step
towards a settled state. Partners carry on with a handshake they take part in.
Nobody has to change `sel` or to disturb data.

## 5. Proved

For every number of channels N, M and every supply of tokens
(`SizeAssumption`, `EnvironmentAssumption`), `OrdinaryTransactionProofs` shows
with TLAPS: `TypeOK`; `JoinedHandshake`, `NoSwallowedEdge`, `SpeedIndependent`
and `AnsweredInputs`, with no assumption on how long senders hold data; and,
when `HoldsUntilAckLow`, the full `Inv`, `BundledPayload`, `PayloadStable` and the
safety half of the refinement (`FlowCorrect`).

*Argument.* The joins remember: a cell may be high because its inputs are, or
because they were. The invariant `ControlInv` says which. While `q` is low,
requests only rise, so a cell that is already high tells that every request in
front of it, and every earlier cell, is high; while `q` is high the same holds
downwards (`RequestPhase`, and `AckPhase` for the second join). Without the
clause about earlier cells the statement is not inductive: the last cell could
be high above a low first one. `OutputPhase` ties each acknowledge to its
delayed request, so that the acknowledge join speaks about requests too.
`JoinedRequests` and `JoinedAcknowledges` are the two lemmas that turn one wire
(`base_Lreq`, `base_Rack`) into a statement about all channels. `DataInv` then
counts: every input has offered and every output has taken as many tokens as
the controller's phase says, and input data is held while requested or while
`q` is high, from which the latch contents follow.

`MullerCElementProofs` shows that the gate-level cell stays in its four latch
phases and follows `CElement`, assuming `PartnersWait`: the other inputs answer
`q` only after `q_bar` has followed it. The theorem `AnsweredInputsCorrect` is the
other half: in the stage, for every N and M, an input of a cell changes only
when the cell has answered its last change. What the two leave to the
implementation is a single relative-timing margin, a NAND against a path
through at least one other cell; without it (`PartnersWait` = FALSE) the output
can glitch.

`LatchCellProofs` shows the same for the latch: a closed cell's output is
still, from every power-up state.

The conditional network is proved for every N and M, every choice of conditional
ports and guards and every number of tokens (`SizeAssumption`,
`ConditionAssumption`), with reset returning wherever `SafeToReset` allows. What
each theorem assumes of the surroundings is no more than it needs:

| Theorem | Assumes | Shows |
|---|---|---|
| `WireTypeCorrect`, `ControlInvCorrect` | nothing | types; the phases of EN_RECV, EN_SEND and the joins |
| `JoinedHandshakeCorrect` | nothing | `JoinedHandshake` with EN stages and late resets |
| `ExternalHandshakeCorrect` | nothing | `ExternalHandshake` |
| `EvaluatedOnceCorrect` | nothing | `EvaluatedOnce` |
| `EnableInvCorrect` | nothing | every enable sender is launched, acknowledged and rearmed within one transaction |
| `HeldInvCorrect`, `TypeCorrect` | `SelHeld` | one value of `sel` per transaction; the number of results owed; `TypeOK` |
| `PacedInvCorrect`, `DisabledUntouchedCorrect` | `SelHeld`, `Paced` | every EN_RECV stage is idle before the BODY starts again; `DisabledUntouched` |
| `PayloadInvCorrect`, `ResultDeliveredCorrect` | `SelHeld`, `Paced`, `SettledPartners` | tokens, dummies and results in every latch; `ResultDelivered` |
| `FlowCorrect` | the same | `ImplementsFlow` |
| `InvCorrect` | nothing | `Inv`, whose parts carry these assumptions themselves |

The three assumptions are the setting of the repository's own test benches
(section 3), and the runs of section 6 show what happens without each of
the first two.

*Argument.* `ControlInv` makes the network a stage with four-phase partners:
`RecvPhase` says that EN_RECV raises its BODY request only while `q` is low and
lowers it only while `q` is high, `SendPhase` that EN_SEND acknowledges only what
the BODY requests; `RequestStep` and `AcknowledgeStep` then reduce every step of
partners and EN stages to the two moves under which `BodyStageProofs` keeps
`StageInv`. On the sending side the external handshake is not a fact about one
evaluation of EN_SEND, whose request reaches the Channel through a delay that may
still be under way; `SendPhase` adds where the receiver is meanwhile. Each
controller is reduced to a lemma about one evaluation (`EnReceiveControl`,
`EnReceiveOnce` and so on), proved by its states.

`EnableInv` needs the only timing argument of the network. A sender that launches
on `~base_Rack` must have seen it high before it falls again. Nothing in the
control network orders the two; what does is that a BODY request returns to
zero through a matched delay, which ends on a settled network. `Resting` names
the time from the first such end to the next rise of `q`. By
`RecvEnableSettled` and `SendEnableSettled` a settled network has no sender
left in REARM or unacknowledged after its launch has gone, so that no sender
can be met there by the next launch.

`GuardInv` follows: while `q` is high or a PRE_INPUT token is under way `sel` is
what that token captured. `OwedInv` counts: a receiver is owed one result
while the BODY has not handed it over and one while EN_SEND offers it, hence never
more than two. `PaceInv` needs senders that answer before a delay ends: then
every EN_RECV stage has returned to IDLE by the time the BODY rests, and no
stage of the next transaction works with an old guard. `PayloadInv` puts the
token, the dummy and the result where each phase has them, from the external
Channel to the latches.

For `ImplementsFlow`, a token is made fresh only by its sender, used only by the
rise of `q` and only if its Receive is enabled, and moved by nothing else
(`FreshOffered`, `FreshUsed`, `FreshKept`); by `ResultDelivered` a Channel with
an unanswered request shows the head of what it is owed, so only the end of a
delay and the receiver's acknowledge are visible (`ShownIs`, `DelayShows`,
`ReceiverTakes`, `ShownKept`).

The bound module is proved by `TemplateBindingProofs` for every sequence of input
ports and every sequence of output ports, of any length and with conditions on any
of them:

| Theorem | Assumes | Shows |
|---|---|---|
| `LoweredArchitecture` | a Receive and a Send | M6 gives each conditional port one stage, each stage an enable channel of its own, and no stage to other ports |
| `BoundModuleClosed` | the same, `PortsBoundOnce` | `Closed`: every template has all its formals bound and every net that is read has exactly one driver |
| `BoundModuleRenderable` | the same | `Renderable`: every net in use is declared, no two instances share a name |

M3 establishes the first assumption (`IsTransaction`) and the binder raises an
exception where the second fails. The second theorem says that the checks of the
emitter on nets, ports and instances (`async_rtl_codegen.py:107` to `:129`, names
and widths aside) find nothing the binder has let through; that each table holds
a thing once is the form of the model.

*Argument.* Each part of the module drives a known set of nets, each once
(`Drives`, one lemma per part). Every net has one part it belongs to (`Home`),
computed from its role and owner, and no other part drives it (`Settled`); so two
drivers would be two in one part. What a part reads some part drives
(`ReadsDriven`), and there the parts depend on each other: a conditional input
leaves its request to EN_RECV, an unconditional one to a copy, and an enable
channel is acknowledged by the stage that M6 gave its number to. Two facts are
needed of the data. Channels on one side are distinct, or a public net would have
two drivers: `BoundOnceDistinct` gets that from `PortsBoundOnce`, because a port
remembers which input or output asked for it. And no two stages share an enable
channel although Receives and Sends are numbered from 1 separately: `StageIndex`
counts the conditional ports before each, and the Sends start after the last
Receive. For `Renderable` the names of instances are separated in the same way, by
template and owner (`Owner`).

Model-checked only. All liveness, which TLAPS does not reach: the enable
tokens consumed, the results taken, the stages running on, the liveness half of
`TransactionFlow`, and `ResetClears`, `CopiesInputs` and `Transparent` of the cells. The
other properties of the compiler passes (`SameOutcome`, `ViewSameOutcome`,
`RestsAfterTransaction`, `NoImplicitResize`, `EveryUseHasItsEdge`,
`NoUndefinedValue`, `RegionsInOrder`): these recur over terms of the behavioural
IR, and neither RECURSIVE operators nor induction over data can be used in a
proof. For the same reason `NetlistClosed` is an invariant only of the run: it is
stated in `CompiledTransaction`, which reaches these operators, and what is proved
is its content, `Closed` of what M6 and M7 compute from any ports. The theorems with `SelHeld` say nothing of the other setting, in which
`due` is unbounded and the run `changing_sel` refutes the result.

## 6. Disagreements between code and documents

Six runs exhibit one behaviour each; `PROJECT.json` quotes the lines.

- `eager_sender`: EN_RECV leaves `WAIT_BODY` only while `external_req` is low.
  A four-phase sender that offers its next token before the BODY has finished
  keeps it up, and the stage is stuck.
- `pipelined_send`: EN_SEND leaves `ACTIVE` only when two handshakes are low at
  once; a BODY that starts its next transaction during the receiver's
  return-to-zero phase makes that impossible.
- `changing_sel`: POST_INPUT enables read an external guard again after the
  PRE_INPUT capture the document limits the stability requirement to.
- `ordinary_early_release`: the ordinary latch is transparent until the
  controller falls, so payload held "while its request is asserted" is not held
  long enough.
- `enable_rewritten`: the enable of a Send is its source condition, evaluated on
  the values the whole body has computed. `A.Receive(a); if (a) C.Send(a); else
  a = !a; D.Send(a);` is accepted, and its circuit sends on C for a token 0 too.
- `retested_guard`: M5 takes two tests of one variable for one condition even when
  it is assigned in between. `A.Receive(a); if (a) x = a; a = !a; if (a)
  C.Send(x); D.Send(a);` is accepted, and sends an x that was never assigned for a
  token 0.

The test benches avoid the first four by their pace; no test
executes a program that changes a variable it has tested.

Two more, of the printer, are kept out of `ViewSameOutcome` by `KeepsBlocks`;
drop either of its conjuncts and the run reports them. A branch of a Parallel
that is a sequence is printed straight into the fork (`decomposed_svcsp.py:83`),
so its statements become concurrent: `fork low = ~v[0]; x = v[0]; high = s; join`.
What stands in the other branch of a direct conditional Receive is replaced by
the zero payload (`decomposed_svcsp.py:103`, `:108`): of `if (s) b = a; else
B.Receive(b);` the assignment is gone.

## 7. Not modelled

- M1, and in M2 declarations, scopes and parameters: parsing and symbol tables,
  with no control beyond a tree walk.
- Symbolic widths, dynamic selectors and ranges written with expressions:
  widths are 1 or 2 and selectors constant. Their checks (out of bounds, not a
  literal) concern the form of a term.
- M3: the warnings about sequential communication, which decide nothing.
- M6 and M7: names, module parameters, the identity checks between passes, which
  compare Python objects that the model does not copy, and the text layout.
  That an external input may be named like a generated wire
  (`async_template_binding.py:372`) is therefore a listed hazard without a property.
- In the circuit modules, delay values, bit widths and expressions: a payload is
  a token number. The program modules evaluate expressions, without time; which
  operations a matched delay should outlast, and whether an enable has settled
  when `storage_enable` rises, are listed hazards without a property.
- Reset in the middle of a transaction of the conditional network: nothing in
  the code or its documents says what should happen, and it loses transactions.
- `reference/luc_repo`: an unused predecessor.
