# TLA+ verification of VectorCGRA

VectorCGRA is a generator, written in PyMTL3, for coarse-grained
reconfigurable arrays: tiles with functional units (FUs), crossbars and
register banks, joined by val/rdy links, fed with control words by a
controller and with data by banked scratchpads, a DMA engine and other CGRAs.
Every `@update_ff` block is a set of registers that change together at a clock
edge and every `@update` block is combinational logic on the values before it.
The modules here therefore take **one clock cycle as one step**: registers are
VARIABLES, combinational signals are operators with the name of the signal,
the inputs of a cycle (valid, ready, data, arriving commands) are
quantified or are variables that change freely, and the action assigns every
register. Where parts far apart exchange messages (DMA and im2col paths, loop
nest, data memory) **one handshake is one step** instead, and what the hardware
does at one edge happens one after the other, in any order.

All source paths below are relative to `src/`.

## 1. Inventory

Lines are those of the implementation without tests.

| Part | Lines | State it keeps | Operations and partners |
|---|---|---|---|
| val/rdy queues (`lib/basic/val_rdy/queues.py`) | 717 | ring of registers with head, tail, count, or one register with a full bit | enqueue and dequeue handshakes, clear; used by nearly everything |
| links (`noc/ChannelWithClearRTL.py`, `rf/RegisterRTL.py`, `noc/LinkOrRTL.py`) | 166 | a chain of queues | carry messages between tiles, cleared at a task switch |
| crossbar (`noc/CrossbarRTL.py`) | 325 | accepted outports of the step, prologue counters | multicast by ctrl word; two per tile, between channels, banks, FU and neighbors |
| register banks (`mem/register_cluster/`) | 443 | values, token bits, armed bits, one-entry write skid | written by crossbars, read by FU and routing crossbar, consumed at the end of a step |
| control memory (`mem/ctrl/CtrlMemDynamicRTL.py`) | 365 | ctrl words, bounds, address, step counter, FU prologue, return queue | configured by packets, issues steps, returns data and COMPLETE |
| constant queue (`mem/const/ConstQueueDynamicRTL.py`) | 146 | constants, write and read cursor, owed consumption | filled by packets, read cyclically by the FU |
| tile glue (`tile/TileRTL.py`) | 375 | done flags, pending REARM, hold of inputs | starts FU and crossbars on each step, advances when all are done |
| FUs (`fu/`) | 7 000 | mostly none; a vector counter, per-address flags of first, done and granted, strides, a loop index, divider pipelines, memory units with outstanding requests | operands in, results out, memory and controller ports |
| loop controller (`controller/LoopControllerRTL.py`) | 405 | per CCU bounds, value, state, completion count, targets | counts completions, resets leaf counters, delivers outer values |
| loop counter FU (`fu/single/LoopCounterRTL.py`) | 267 | leaf counters, reported flags, shadow registers per ctrl address | counts iterations, reports the end of a loop |
| controller (`controller/ControllerRTL.py`) | 628 | queues only | routes packets among CPU, NoC, tile ring, memory, DMA, reduce unit |
| global reduce unit (`controller/GlobalReduceUnitRTL.py`) | 119 | counts, accumulators, 16-entry queue | gathers one value per contributing tile, answers all |
| data memory (`mem/data/`) | 950 | banks, read pipeline, routing of responses | loads and stores of tiles (`fu/single/MemUnitRTL.py`), NoC, CPU, DMA |
| DMA engine (`mem/dma/DmaEngineRTL.py`) with its arbiter (`cgra/IntegratedCgraWithDmaRTL.py`) | 572 | transfer state, beat under assembly, owner of the scratchpad read | commands and completions of the controller, DRAM beats to and from scratchpad words |
| im2col engine (`fu/others/Im2colEngineRTL.py`) with its gate (`cgra/IntegratedIm2ColWithCgraRTL.py`) | 500 | geometry, loop counters, whether the CPU is held back | takes packets from the controller, sends it stores |
| context switch (`mem/ctrl/ContextSwitchRTL.py`, `tile/TileWithContextSwitchRTL.py`) | 562 | saved phi registers and status | pause, preserve, resume |
| tops (`cgra/`, `multi_cgra/`) | 2 900 | none | wiring, PyOCN networks |

How they interact in a job: the CPU sends packets to the controller; the
controller forwards them over a ring to tiles; a tile first gets REARM, then
constants, ctrl words and bounds, then LAUNCH. Each step of a tile hands one
ctrl word to the routing crossbar, the FU and the FU crossbar, which act in
any order and over any number of cycles, and the step completes in the cycle
the last one is done. The tile reports COMPLETE after the configured number of
steps, or earlier with the value of a RET. Loop nests add a second loop: leaf counters in tiles report the end of
an inner loop to the loop controller, which advances outer loops and sends
resets back.

What is hard here: partial progress (one message, several receivers; one step,
three workers), bookkeeping that must survive a stall without being applied
twice, combinational val/rdy cycles, the REARM that overtakes and is overtaken,
one-edge races between completions, and messages that arrive while nobody is
in the state to take them. `PROJECT.json` lists the hazards one by one with the
line where each bites and the properties that watch it.

What makes each part correct:

- a queue or channel is a FIFO and hands on what it holds;
- a crossbar delivers each message to each required outport exactly once, keeps
  offers, and consumes inputs only when everybody has been served;
- a register bank neither loses nor duplicates a token, and a read-modify-write
  step does not block itself;
- a tile executes each step as if it were one atomic action, executes the
  configured number of steps in address order, reads constants in order, and
  reports its end once, with the value of a RET if the job performs one;
- a functional unit computes what its operation means for whatever order its
  operands and receivers come in, uses each of them once per step, and ends the step;
- a load is answered once, at the port that asked, with a word its address held
  meanwhile; the stores of one requester to a word land in order; nothing is lost;
- a reduction is exact in every round and answered to every contributor;
- a DMA transfer copies exactly the block its CPU configured and is reported once;
- an im2col preload is the lowered matrix, word by word, and nothing that depends
  on it starts before it is there;
- a loop nest counts completions exactly, runs each leaf as often as the bounds
  say, and ends.

## 2. Modules

| Module | Models | Role |
|---|---|---|
| `Fifo` | what a queue promises | abstract specification |
| `QueueShape` | parameters of a multi-entry queue | constants and their assumption |
| `ValRdyQueue` | multi-entry queues of `queues.py` | refines `Fifo` |
| `OneEntryQueue` | one-entry queues of `queues.py` | refines `Fifo` |
| `Channel` | `ChannelWithClearRTL`, `RegisterRTL` | built from FIFOs, refines `Fifo` |
| `Links` | a multi-entry queue, a one-entry queue and a channel, side by side | composition |
| `CrossbarLogic` | combinational part of `CrossbarRTL` | operators on sets of ports |
| `Crossbar` | `CrossbarRTL` under a tile's schedule | uses `CrossbarLogic` |
| `GlobalReduce` | `GlobalReduceUnitRTL` with the contributing tiles | component |
| `ReduceUnit` | the reduce unit among the other parts | instance of `GlobalReduce` |
| `PartsMC` | extends `Links`, `Crossbar`, `ReduceUnit`; one of them per initial state | MC module |
| `TokenStore` | what a register bank promises | abstract specification |
| `RegisterWord` | the fields of a ctrl word a bank reads | constants, operators |
| `RegisterBank` | `RegisterBankRTL` | refines `TokenStore` |
| `TileControl` | `CtrlMemDynamicRTL`, `ConstQueueDynamicRTL`, control part of `TileRTL` | component |
| `Tile` | data part of `TileRTL` and `RegisterClusterRTL`, `FlexibleFuRTL`, `NahRTL`, `AdderRTL`, `LinkOrRTL` | composes two `CrossbarLogic` and a `RegisterBank` |
| `FuSignals` | payloads, predicates, handshakes common to the units, vector factor | operators |
| `ScalarFus`, `VectorFus`, `FusedFus` | `fu/single`, `fu/float`, `fu/fused_alu_fixedp`; `fu/vector`; `fu/double`, `fu/triple`, `fu/quadra` and the `fu/basic/*Combo.py` they are built from | the units as operators |
| `FunctionalUnit` | `FlexibleFuRTL` and the registers of its units, in the steps of a tile | component |
| `FunctionalUnitMC` | lists of units, and what operations mean | MC module |
| `DataMemory` | `DataMemControllerRTL`, `DataMemWrapperRTL`, `MemUnitRTL`, the memory side of `ControllerRTL` | composition |
| `DataMemoryMC` | two CGRAs and four requesters | MC module |
| `BlockCopy` | what a DMA transfer promises | abstract specification |
| `DmaEngine` | `DmaEngineRTL` | component, one action per handshake |
| `DmaPath` | the engine with the controller's DMA registers and the read arbiter of `IntegratedCgraWithDmaRTL` | composition, refines `BlockCopy` |
| `DmaPathMC` | sequences of transfers | programs |
| `Im2colPath` | `Im2colEngineRTL`, its packets through `ControllerRTL`, the gate of `IntegratedIm2ColWithCgraRTL` | composition |
| `Im2colUnit` | the im2col path among the other engines | instance of `Im2colPath` |
| `LoopNestShape` | parameters of a loop controller | constants and their assumption |
| `LoopController` | `LoopControllerRTL` | component |
| `LoopCounter` | `LoopCounterRTL` | component |
| `LoopNest` | controller, counters and the messages between them; what a proper nest is | composition |
| `LoopNests`, `LoopNestMC` | nests of `LoopControllerRTL_test` | configurations, MC module |
| `EnginesMC` | extends `DmaPathMC`, `Im2colUnit`, `LoopNest`; one of them per initial state | MC module |
| `PartsProofs`, `RegisterBankProofs`, `TileProofs`, `TileControlProofs`, `DataMemoryProofs`, `DmaPathProofs`, `ControllerUnitsProofs`, `FunctionalUnitProofs` | | theorems |

Operators named `Bug_...` are altered copies of the definition that follows
them, one plausible mistake each. Nothing uses them; replacing a definition by
its altered copy must break the property listed with it in `PROJECT.json`
("mutants"), which shows that the property depends on the code.

`PartsMC` and `EnginesMC` put designs that do not interact into one state
machine: the initial state picks the design that has something to do, the others
stay as reset leaves them, and every property is checked in all of them.

### Queues and channels

`kind` picks the queue; `recv_rdy`, `send_val` and `send_msg` are the
handshake signals, `up_reg` the register update, `TickClear` the edge with
`clear` high. `inp` and `out` are history variables: the messages that crossed
the two interfaces in the last cycle. The refinement mapping reads the stored
messages off the ring (`Contents`). A clear drops what is stored and also a
message accepted in the same cycle. In `Fifo` that is `Flush`, the only way to lose a
message: it belongs to buffers with a clear port (`clearable`; the mapping takes it from `kind`) and
to cycles in which that port is high (`cleared`, which the queues record at their `TickClear`). So a
normal, pipe or bypass queue, with one entry or several, that drops anything is not a FIFO, and neither
is a queue with clear that empties in any other cycle. `Channel` takes each of its queues as the FIFO
that `ValRdyQueue` is shown to implement, and is either `ChannelWithClearRTL` or `RegisterRTL`,
the same chain without clear.

### Register bank

The bank sees the fields of the ctrl word, whether the selected write source is
valid, and `inport_ctrl_proceed`. `StepCycle` is a cycle of an active step,
`IdleCycle` one without, `ClearCycle` a REARM, the only one in which `TokenStore` forgets tokens
(`cleared`). A write whose target is read by
its own step goes to the skid and commits when the step completes. The theorems
take the words as arbitrary; the runs check the bank inside the tile, where the
crossbars and the FU drive it.

### Crossbar

`CrossbarLogic` states the combinational signals on sets of ports
(`send_required`, `recv_required`, `offered`, `dequeued`, `all_send_accepted`).
`Crossbar` adds the registers and what surrounds them: a step arrives when the
previous one is over, inports are queue heads that keep their message until
dequeued, receivers are ready or not as they please, `compute_done` may rise at
any time and stays till the end of the step.

### Global reduce unit

`Cycle` is one edge: at most one of the count and a contribution arrives, a
ready receiver takes the answer of that cycle. A tile contributes to its next
round once it has its answer, so that fast tiles are a round ahead of slow ones;
the accumulators are cleared by `sending_count = target_count`, an edge before
the counts restart (`starts_afresh`). Products are answered like sums, although
the controller has no branch for `CMD_GLOBAL_REDUCE_MUL`. The count comes before
the contributions; behind one, the port would be blocked by it.

### Tile control

`Cycle` is one clock edge of the control memory, the constant queue and the
glue; each conjunct is one `@update_ff` block of the source. A sub-module takes
any number of cycles for its part of a step (`Ready`). The FU in its prologue
reports ready in every cycle, with or without a step, as
`FlexibleFuRTL.comb_logic` does. What the FU sends back waits in `returns`: the
CMD_COMPLETE of a RET or RET_VOID (`"value"`), or one of its other messages. When the controller takes a
CMD_COMPLETE, the RET's or the memory's own (`Completes`), `sent_complete` stops issue and everything behind it
(`CtrlMemDynamicRTL.py:212`, `257-268`), with a RET in the middle of a step; the crossbars of that
step never finish it, and the REARM drops what is left. `told` records the CMD_COMPLETEs of a job. The constant queue is
read when the FU is ready for a constant, valid or not (`Uses`): as it waits for
its other operands, and of an empty queue, where `wr_cur - 1` wraps (`NextConst`). Packets arrive in the order a controller
sends them (`Sendable`): configuration before the launch, a REARM before the
next job.

### Tile

`Tile` follows a message through one combinational cycle: channel, routing
crossbar, lane with its register bank, FU, FU crossbar, neighbor, and the ready
signals back. The definitions come in the order in which they depend on each
other, so there is no cyclic definition; the source avoids combinational loops
in the same way. `Compiled` restricts ctrl words to those a compiler emits (one
driver per outport, operands routed where they are used). `Careful` further
restricts a word to registers whose state fits it: it reads a register that
holds a token or was never written and overwrites a token only in the step that
consumes it.

### Functional units

A unit is an operator from its operands, the readiness of its receivers and its
registers to a record of signals: which operands it takes, what it offers with
which predicate, whether it raises `recv_opt.rdy`, what it reports. `FlexibleFu`
merges the units of a list as the source does, the later one winning (`Latest`).
`FunctionalUnit` is one step of a tile after the other: `Begin` gives a word and
operands that are still to come, `Arrive` brings one, `Clock` is an edge, `End`
takes the word away once the unit was ready, `Clear` is the task switch. Operands
are gone once taken, as those of a crossbar are. Payloads have eight bits and four
lanes of two bits; operations are written on numbers, with the carries and the
wrap-around of their circuits, and `FunctionalUnitMC` says without the circuit what each of them
puts on its outports (`Meaning`, `MeaningOfOut1`) and when that is valid (`ValidExactly`, `ValidOnOut1`): on signed
numbers, on moved bits, on lanes, on the history of the steps. `Meaning` has a case for every operation run, but for
those whose arithmetic is vendored Verilog (`NoMeaning`: the floating point operations and AluGenMac, where the model
gives the payload 0): of them only the handshake and, of the result, its validity is checked.

What the code does and the runs leave out, since its result is not stated anywhere:

- words whose registers move with `recv_opt.val`, or in which a signal ignores an
  operand or a receiver, are right only if nothing stalls them (`Careful`):
  PHI_START and PHI_CONST, FMUL_CONST, the START operations of the inclusive divider,
  global reductions, anything in `ExclusiveDivRTL`, the last word of a vectorized
  iteration. The runs give them operands and receivers at once. The inclusive divider's
  END comes `Latency - 1` cycles after its START, whose operand `in1` stays unread.
- LOOP_CONTROL, FINC and the fixed-point MAC raise `val` only after `rdy`, and get
  receivers that are ready by themselves (`ReadyFirst`).
- the BASE_GLOBAL reductions are modelled and not run: `VectorAllReduceRTL.py:162-170`
  offers the result and the contribution together and may send it twice, a response is
  lost when the receiver is not ready (line 191), and the product sends the sum.
- `VEC_ADD_CONST_COMBINED` is not combined (`VectorAdderComboRTL.py:141`), the lanes of
  `VEC_MUL` overlap, SUB_CONST leaves its constant unread: the properties say what the code
  computes there.
- `Clear` leaves the loop index and `already_sent_to_controller` as they are.

### Data memory

Every CGRA has banks behind a read, a write and a response crossbar; tile ports, a
port to the controller (`Noc`) and the DMA port are in front of them. A request is
routed by its address to a bank or away; what goes away passes the controllers
and the network and enters the other CGRA at its `Noc` port, with the asking port in
`remote_src_port`. `ReadAccess` and `WriteAccess` are accesses to a bank,
`ReadAway`, `WriteAway`, `Send` and `Receive` the way through the controllers,
`Respond` and `Answered` the way back. One action is one handshake; of accesses at
one edge, reads come before writes. Crossbars from PyOCN are external: a request
enters when there is room and any one of those that wait is granted.
`landed` and `seen` are history: how many stores of a requester a word has, and what a
word held since a load of it was issued. A store counts as done when its crossbar takes it, so
that a load right behind it may still read the word before; no document promises more, and
`LoadsRegular` asks for no more. A predicated-off load in `MemUnitRTL.py:120`, which takes its address
whatever its receiver does, is not run.

### DMA path

`DmaEngine` has one action per handshake of the state machine; which one is
possible is its state, as in `comb_outputs`. `DmaPath` gives the handshakes
their other side. A CPU sends configuration and launch packets through the
two-entry queue of the controller (`Configure`, `Launch`), and completions go
back through another (`ReportDone`). The arbiter of the scratchpad read port
notes at the request whose read it is (`AcceptRead`) and gives the response to
that one (`SpmReadResp`, `ExtReadResp`). A launch packet carries, as history,
what its CPU has configured before it; `job` keeps it during the transfer, so
that `BlockCopy` starts from what the CPU meant and not from what the controller
happened to hold. The refinement mapping counts a word as moved when it is in its
destination: for a transfer to DRAM, the words in the beat under assembly
(`InBeat`) are not yet. Handshakes on different interfaces that the hardware
does at one clock edge are separate steps here; none of them reads what another
one of the same edge writes. Both memories answer after any delay. The
scratchpad's banks and crossbars are behind one in-order port, where a write is
in place when it is accepted.

### im2col path

The CPU configures the engine packet by packet and launches it (`RecvConfig`,
`RecvLaunch`); `ReadImage` and `SendStore` are its READ and EMIT states, with the four
nested counters in `Advance`, in the width of a scratchpad address. Stores go through
the controller's crossbar, the bypass queue that is the NoC of a single CGRA, and the
memory's queue (`GrantIm2col`, `ToMemory`, `WriteMemory`); packets for tiles share that way as far as the
NoC (`GrantCpu`, `ToTiles`). `engine_active` closes the CPU's port at the edge after the
launch is taken. All words of an image differ, so a misplaced one shows. The engine is
launched once: it leaves DONE only by reset, and a second launch would stay at the head of the
CPU's queue for good.

### Loop nest

`update_ccu_ff` is the one big block of the loop controller. Several branches
may write a register at the same edge; in the source the last assignment wins
and all of them read the old values, which is why `Counting` is a *set* of CCUs
and each of them counts one, however many completions named it. `LoopNest`
adds the leaf and delivery counters (`LoopCounter`) and the messages under way:
a command to a counter and a completion to the controller take any time.
`Proper` says which configurations keep the controller's counts apart: each register is set
once and the launch comes last, no two targets share an address, a CCU has fewer targets than the dispatch
index has values, its value does not wrap, and it waits for as many completions as it has leaves; or it is a
root over such CCUs and has a single iteration, since a restarted inner CCU does not
restart its leaf (finding 3). A remote leaf needs the CCU in use to be the only one, without local
leaves, since *every* RUNNING CCU counts a remote completion (finding 4). The passing run checks
that its nests are proper (`NestsAssumption`); the nests of both findings are not.

## 3. Runs

Every run is complete (no depth bound) and takes less than two minutes.

| Run | States | What it shows |
|---|---|---|
| `parts` | 18 k | every queue kind and a channel of two stages are FIFOs under all handshakes, lose messages in a clear only, and nothing is stuck in a channel; multicast exactly once, inputs consumed at the end only, offers held, steps complete; every round of a reduction exact and answered |
| `tile_control` | 40 k | address order, one FU operation per step, constants in order, the controller told once and of the right end, jobs complete |
| `tile_control_any_order` | | violation, see findings |
| `tile` | 9 k | a step is atomic, nothing happens twice, a step completes; its bank neither loses nor duplicates a token, accepts its own writes, and repeats its reads |
| `tile_lost_write` | | violation, see findings |
| `functional_units` | 71 k | payload and validity of results are what their operation means (payloads not of FP units and AluGenMac), operands, constants and reports are used once per step, the step ends |
| `functional_units_phi` | | violation, see findings |
| `data_memory` | 358 k | loads are answered once, rightly and at their port; stores of one requester in order; every access completes |
| `engines` | 102 k | transfers copy exactly the configured block in order and are reported, reads go to their owner; the stores are the lowered matrix, one packet at most gets ahead of the gate; barriers and trip counts exact, deliveries right; programs, preloads and nests end |
| `im2col_gate` | | violation, see findings |
| `loop_nest_three_layers` | | violation, see findings |
| `loop_nest_mixed_barrier` | | violation, see findings |

Bounds and why they are enough:

- Queues: 2 messages, capacity 3. Two distinct messages are enough to see loss,
  duplication and reordering; capacity 3 has full, empty, partly full and wrap
  positions. The theorems cover every capacity.
- Crossbar: 2 inports, 2 outports (one towards the FU, one not), prologue 0 or 1,
  one ctrl address. Multicast needs two outports, a join needs two inports. The
  theorems cover every number of ports, addresses and every prologue.
- Reduce unit: three contributors and three rounds (a sum that overflows, a product, a
  sum). Three is the least number with an answer neither first nor last; a third round
  sees what the second left behind.
- Tile control: 2 addresses, windows of 1 and 2 words, jobs of 1 and 3 steps (the
  window wraps), FU prologue of one execution, up to 2 constants and 2 returned
  messages in the queue, each a RET's COMPLETE or another one: a RET first, behind another message, in the last
  step, or twice in a job.
- Tile: one channel, one lane, one neighbor, one register, two values. Words
  range over all compiled combinations of the fields. The theorems cover every
  number of registers and values.
- Functional units: eight bits, so that lanes of two bits overflow and add and subtract differ; for each
  number of operands values around zero, the sign and all ones, and one with four different lanes (`MCSample`). Any two steps of one list
  follow each other; vector factors 0 and 1; two executions of LOOP_CONTROL; dividers of two
  stages (the latency has to divide the width). Operations of one list can disturb
  each other only through the registers of their units.
- Data memory: two CGRAs of two banks of two words, two tile ports each, queues of two. Requesters are a tile of each
  CGRA, a DMA engine and the CPU, at a local and a remote word; at most two loads in all and
  two stores of one requester are under way. Loads of different ports cross each other, a store passes or is passed by a load.
  A deadlock that needs every queue between two CGRAs full of requests in both directions is out of reach.
- DMA path: two transfers of 0, 2, 3, 4, 5 or 6 words, that is none, a partial
  beat, a beat, and a beat and a partial one, from blocks that start inside and
  across the other transfer's, in all four combinations of directions; a CPU that
  reconfigures everything and one that reuses its settings; four short launches
  in a row, which fill the queue of completions. All words of the memories differ, so a
  misplaced word shows. The external reader asks for any of two words at any time.
- im2col: eight shapes in a scratchpad of 16 words: three of the engine's test,
  images that are not square, that fill the scratchpad or end at the memory's last word, and a stride that
  leaves a rest. One packet for a tile before the launch and three behind it, one more than the queue holds.
- Loop nest: three CCUs, three addresses, leaf loops of one iteration, trip counts
  up to 3, one command under way per counter. Topologies are those of
  the test bench: a sibling barrier, two independent chains (one with a step
  that does not divide its range), a cross-CGRA leaf, a three-layer nest with
  one outer iteration, an outer loop over two sub-nests.

Deadlock is checked in `parts`, `tile`, `tile_control` and `functional_units`. The others end: a
memory whose requesters have made all their accesses, a program, preload or nest that is done.

Fairness:

- The clock: weak fairness of the whole next-state relation (or of each cycle
  action). A synchronous design takes a step in every cycle.
- Receivers: a neighbor, an outport or the reader of a channel is ready
  infinitely often (`[]<>`), which is what val/rdy producers may assume, and
  never more: not at the same time as another one, not for long.
- Sources: data keeps arriving (`[]<>(chan # None)`, `[]<>(recv_data[i] # Empty)`)
  where a step waits for it.
- Reduce unit: the count and every contribution comes up at its port, answers are taken.
- Tile control: each of the three sub-modules finishes its part eventually, which the
  `tile` run shows for the data path; the controller takes messages.
- Functional units: the operands of a step arrive and receivers become ready.
- Data memory: weak fairness of what moves packets (`Move`), none of what makes new accesses.
- DMA path: weak fairness per party: CPU, controller, each memory, the arbiter, the
  engine. The external reader is never obliged to ask but takes its answers; a reader
  that does not would block the engine for good, since it holds the read port.
- im2col path: weak fairness of CPU, engine, gate, memory, and of the crossbar granting
  *some* inport; which one is left open.
- Loop nest: commands, completions and configuration arrive, tiles run.

A path with nothing to do can take none of the steps its fairness names, so that in
`EnginesMC` the three conditions are simply conjoined.

## 4. Findings

Six runs expect a violation, each of one property that a comment, test or
document of the repository states:

1. `tile_control_any_order`: a done flag set while the tile is idle
   (`tile/TileRTL.py:352-358`, FU prologue at the idle address) survives until
   the first step of another address, which then completes without the FU.
   It needs the start address to be configured after the prologue; all tests
   configure it before. `tile_control` checks the same property with that
   order and it holds.
2. `tile_lost_write`: once the FU has finished, the routing crossbar no longer
   waits for the lane (`noc/CrossbarRTL.py:254`), so a register write the bank
   refuses is dropped with its input. It needs a program that overwrites an
   unconsumed token. `tile` shows that a careful program is not affected.
3. `loop_nest_three_layers`: restarting an inner CCU does not restart the leaf
   counter below it; the nest of `test_3_layer_loop` stalls after its first outer
   iteration when real counters are attached.
4. `loop_nest_mixed_barrier`: a local and a remote completion consumed at the
   same edge are counted as one, and the barrier waits forever.
5. `functional_units_phi`: the flag of a PHI's first execution falls in any cycle the
   operation is valid (`fu/single/PhiRTL.py:137`), also while it waits for its operand or its
   receiver; PHI_START then takes its initial value for a loop value.
6. `im2col_gate`: the packet right behind an im2col launch is in the controller's
   queue when the gate closes (`cgra/IntegratedIm2ColWithCgraRTL.py:203`) and reaches its tile before
   the first store. `OneSlipsThrough` shows that it is the only one.

## 5. Proofs

The eight proof modules are checked by TLAPS for every value of the constants, from
the assumptions named in the modules:

- `QueueAssumption` (`QueueShape`): at least two entries, messages other than the mark of "none";
- `BankAssumption` (`RegisterWord`), `CrossbarLogicAssumption`, `CrossbarAssumption`: non-empty
  registers and values, outports of the FU among the outports, a natural prologue limit, distinguished values
  outside the data;
- `TileAssumption`: a message is neither `None` nor the name of a source;
- `TileControlAssumption`: a memory of at least one word (nothing in the proofs needs that its size is a power of two), windows that fit it, jobs of at least one step;
- `MemoryAssumption`, `RequesterAssumption` (`DataMemory`): at least one CGRA, bank and word,
  queues of at least one entry; requesters are ports other than the NoC's, or the CPU at the host's controller, and
  the port of a requester that accesses remote words fits `remote_src_port`
  (`clog2(num_rd_tiles + 1)` bits: the tiles' ports always do, the DMA engine's where a value is to spare);
- `DmaAssumption`: what the CPU asks for does not wrap around. A launch packet records the
  registers as the CPU last set them (`Setting`), a size is none or at least a word, and the block lies within both address
  ranges (`InRange`);
- `LoopNestAssumption` (`LoopNestShape`): at least one CCU, 1 to 16 targets each, addresses that are naturals;
- `UnitAssumption`, `ListsAssumption` (`FunctionalUnit`): what a tile's list of units and its job are (`ProperList`).
  A unit is in a list once; one that answers to operations of others, or reads other operands than they do, is alone; no
  BASE_GLOBAL reductions (section 2); a `ReadyFirst` operation is not in a list with the two vector units that call
  every word done; a return ends a job that is not vectorized; a first execution (PHI_START, PHI_CONST) is vectorized
  only where the job has no operations but these and PHI. Powers of two are positive.

Theorems about parts that the MC modules instantiate carry their hypotheses in the statement:

- `ChainShape`: a channel of at least one stage;
- `ReduceShape`: finitely many contributors, sums and products of naturals, payloads of at least one bit;
- `Im2colShape` and `Im2col!ShapesFit`: geometry registers hold naturals, and powers of two are positive (a fact of
  arithmetic the provers do not have); kernels are not larger than their images, and image and
  matrix fit the address ranges;
- `NestsProper`: every nest is `Proper` (section 2);
- `~Stalls`: words that are `Careful` are not stalled (section 2; the finding about PHI is what a stall does), and
  `NoneApart`: the mark of "nothing" is no token, report or operation.

TLC evaluates `ShapesFit` for the shapes and `Proper` for the nests of `engines` (`ShapesAssumption`,
`NestsAssumption`; the empty nest of that run only says that the CPU has another engine to run).

Sums over all contributors, channels of any length and matrices of any size need induction. The library
states it for operators, which the provers cannot instantiate; `Induction` states it for a *set* of naturals, from the
theorem that every nonempty set of naturals has a least element, and folds are unfolded one
element at a time.

- **Queues.** `RingTypeOK` alone is not inductive: the tail could point anywhere.
  The inductive invariant `RingInv` adds `RingConsistent` (the tail is where head and
  count put it), from which an enqueue at the tail appends to the contents and
  a dequeue at the head removes the first of them. Lemmas state how `Wrap` and
  `Advance` agree; `Refinement` proves that each edge without clear is a `Transfer` of the FIFO, for every kind,
  and each with clear a `Flush`, which only the kind with that port has.
- **Register bank.** What makes everything inductive is `SkidOfThisStep`, a part of `BankInv`: a
  parked write belongs to the step in progress, which reads and writes that very
  register. It gives the exclusion of skid commit and direct write
  (`SkidExclusive`), self-blocking (`NoSelfBlocking`), repeatable reads, and the
  refinement of `TokenStore`.
- **Tile.** `TileProofs` takes what is proved of a bank on its own to the bank in a tile.
  A second instance of the bank's proof module (`Alone`), with the tile's `BankWord` for its word, is the bank
  with its environment left open; one lemma per action of the tile shows that crossbars, FU and
  neighbors hand the bank only inputs that environment allows, and lemmas on the definitions show
  that both instances mean the same. So the invariant, the exclusion, the repeatable reads and the refinement of
  `TokenStore` hold of the tile for any registers and values and for *every* compiled word, also those the run
  leaves out as not careful.
- **Crossbar.** `MulticastInProgress` ties `send_accepted` to what the outports
  received and to what the inports still offer, and `PrologueExact` ties the counters
  to completed executions. Exactly-once delivery, all-or-nothing consumption and the
  persistence of offers follow from `CrossbarInv`, which has both.
- **Tile control.** A packet is in the queue for one cycle at most (`QueueDrains`), and `JobOrder` says by the phase of
  the job which one it can be. With that, `JobInv` is inductive and gives the address sequence (`ControlExact`), the
  order of the constants across REARMs (`ConstantsInOrder`). That the controller is told once (`CompletesOnce`) needs
  `CompleteOrder`: `sent_complete` holds exactly when it has been told, and until then the value of a
  RET that was performed is still in the element queue (`HasValueFacts`), which keeps the memory's own COMPLETE from being sent. The FU's
  single operation per step (`FuActsOnce`) also needs `PrologueOrder`: a done flag set between two jobs belongs to
  the address that is next. It is proved under `~AnyOrder`, the start address configured before the prologue; without it
  the run `tile_control_any_order` has the counterexample.
- **Steps of a tile.** `FlagsAgree` and `ServedOnce` tie the crossbars' memories and the done flags to what crossed each
  interface, for every program (`FlagsConsistent`, `NothingTwice`). Atomicity (`StepsAtomic`) is proved for careful programs:
  `CarefulStep` keeps what the word was allowed to assume of its register until the step completes, and
  `Delivered` says of each value already handed over that it is the one an atomic step would have handed over.
- **Data memory.** The queues are seen as one function from places to sequences (`Flight`), so that every
  action is a message that leaves one place, enters another, or both. `Owner` names the requester
  a load belongs to whatever form it has on its way, and `Unique` says that one message at most belongs to
  a requester, which is what makes an answer unambiguous; `InFlight` adds that it is awaited, and where it
  may be. With `Observed` (what an address holds has been seen by those who wait for it) this gives `Regular`. For
  the stores, `InOrder` numbers the places on a store's way (`Stage`) and says that further on, and ahead
  in a queue, are the older ones; `OldestFirst` follows with `Counted`.
- **DMA path.** For `Ownership` the inductive invariant `IndInv` says which queues between the engine and the
  memories are empty and what the others hold, by the state of the engine and the
  flags of the arbiter. It needs `Parties` (the arbiter serves the engine exactly in
  `MVOUT_RESP`, the external reader exactly while that one waits): without it an
  engine that leaves the state could change the address its outstanding read is
  compared with. For the refinement of `BlockCopy` (`BlocksCopied`) `CopyInv` adds where a transfer is: the next
  word and the next beat follow from the number of words fetched (`Fetched`, `BeatAt`), the beat holds the words
  before or behind them (`Loading`, `Storing`), and the packets on their way still make the launches their CPU meant
  when they reach the registers (`Commanded`). Each action then is a step of `BlockCopy` or changes nothing there; a
  write to the scratchpad copies one word, a write to the external memory all words of its beat.
- **Links.** `LinkRefinement` shows the one-entry queues and the channel to implement `Fifo`. The contents of a
  channel are those of its stages, the one next to the receiver first; `LastStagesStep` says, by induction over the
  stages, what one edge does to the last *i* of them: a message that one stage hands on and the next takes
  stays in its place, however many stages move at that edge.
- **Global reduce unit.** `FoldAnyOrder`: a sum or product over a set may be taken in any order, one element at a time.
  `ReduceInv` follows the rounds: who has been counted, who waits in the queue with which
  round's value (`QueueExact`; a fast tile is one round ahead at most), and what the accumulators hold of the round in
  progress, modulo the payload's width (`RemainderKept`). An answer is given when the counts say that all have contributed;
  with `ReduceInv` it is the reduction of exactly this round.
- **im2col.** `Im2colInv` numbers the packets the CPU sends and says where each of them is: with the CPU, in the
  controller's queue, in the NoC or at its tile. The gate closes an edge late, so that one packet may be past it
  (`GateHolds`), which is what `GateHoldsBack` needs. `ColumnsInv` adds the engine: its four counters are a position in the
  matrix (`PlaceOf`), an advance is the next position (`AdvanceToNext`), a geometry that fits does not overflow the
  counters, and what is stored, queued and about to be emitted is a prefix of the matrix.
- **Loop nest.** `LoopInv` has three parts. `ConfigInv` says what the commands sent so far have left in the
  registers; `LinksInv` that a completion is reported once, that a reset finds its leaf's completion counted, and that
  nothing else is on the way to a counter. Before the launch every CCU is idle and a leaf has run at most once (`Asleep`);
  afterwards (`Awake`) a CCU that drives leaves is in some lap *k* (`LapOf`): its value has gone up *k* steps, each leaf has
  run *k* times, or once more behind or before being counted, a dispatch has reset exactly the leaves up to its index, and
  deliveries hold the new value. An outer CCU has counted its COMPLETE children (`OuterInv`), and a CCU without a
  configuration, which the end of a dispatch of CCU 0 may restart, disturbs nobody (`IdleInv`). At one edge one CCU
  at most counts a leaf, and nobody else's (`HitOrNot`). This is where `Proper` is needed: two completions at one edge, and
  completions counted by somebody else, are what the findings are about. The four invariants of the run follow
  (`BarrierIsExact`, `IterationsAreExact`, `ShadowIsDelivered`, `NestIsSilent`).

- **Functional units.** Each unit alone `Fits`: for an operation it does not know it is silent, for one it knows it
  offers, takes and finishes together once its operands are there (the lemmas `AdderFits` to `RetFits`; the
  combined units from those of the units in them). No two units of a proper list know the same operation, so
  that `FlexibleFu`, which lets the later unit win, shows the signals of the only one that acts (`MergeFacts`,
  `ActsWhenReady`, `ReturnActs`, `ContributionActs`). `FuInv` follows a step: until it is done nothing has been
  taken or delivered (`Underway`), but a global reduction first sends its contribution and then waits for the answer
  (`Contributing`). It also ties the registers that outlive a step to the steps before: who has returned
  (`ReturnsKept`), who received an initial value (`FirstsKept`), and the passes of a vectorized iteration
  (`PassesCounted`). The last two need that registers which move with `recv_opt.val` see one cycle only
  (`FirstTakesOneCycle`): this is where `~Stalls` is used. `ActsOncePerStep` follows.

Model-checked only: all liveness properties (TLAPS does not reason about fairness), and `ResultsExact`: what the
operations of the functional units compute, about eighty of them, is a table of sums over bits and lanes and of
divisions in stages, each entry of which would be a proof of its own.

## 6. Plan

*Done:* queues, links, register banks, crossbar, tile control, tile data path,
loop nest, DMA path, im2col path, data memory, global reduce unit, functional units; proofs
about all of them. What is left, by weight:

1. The rest of the controller: configuration from CPU to the tile ring, COMPLETE to the
   CPU against DMA completions, commands without a branch. Abstract specification:
   every accepted packet reaches the one destination its command names, in order per
   source and destination. Run: two commands per source, queues of two.
2. Two tiles with the controller's order of REARM and LAUNCH, for `hold_data`: two
   instances of `TileControl` and a channel.
3. Context switch (`ContextSwitchRTL`), pause and resume in the control memory, and the
   streaming memory unit on top of `DataMemory`.
4. The DMA path on top of `DataMemory`, where a posted write can be overtaken.
5. Theorems: the results of the operations that are one expression on naturals (`ResultsExact`, entry by entry).

## 7. Not modelled

- The arithmetic of the floating point units and of the fixed-point MAC: imported Verilog
  black boxes, the payload 0 in their place.
- The PyOCN networks and crossbars: external; a link with any delay and an arbiter with
  any choice stand for them.
- Tops, architecture parser, script generator, CI, legacy en/rdy interfaces,
  functional and cycle-level simulators, the predecessors of the banked memory and of the control
  memory: wiring, host-side tools or code no current design instantiates.
- Context switch and streaming loads, see the plan.
- In the modelled parts: trace logging, line traces, the crossbar's predicates of
  data for vectors, PAUSE, RESUME, TERMINATE and phi recording in the control memory,
  multi-operand FU operations in `Tile` (`FunctionalUnit` has them), the configurable latency of `FlexibleFuRTL`,
  the FU prologue in `FunctionalUnit` (`Tile` and `TileControl` have it), vectors in `MemUnitRTL`. In `Tile`, `Fetch` takes a cycle of
  its own; in the source the next word appears at the edge that completes the step before.
