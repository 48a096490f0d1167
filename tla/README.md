# ADSP-2100: a TLA+ model of the processor

The repository reimplements the ADSP-2100 signal processor in SystemVerilog
(`src/rtl`) next to a Python model of the same machine (`src/sim`), with an
assembler and a disassembler (`src/tools`). This directory holds TLA+
specifications of them, the TLC configurations that check them, and proofs that
TLAPS checks. It has four parts:

- *the bus*, where concurrent requests meet: the eight-state clock, RESET,
  BR/BG, HALT, TRAP, DMACK, the program- and data-memory buses, the instruction
  cache, and the clients that share the one program-memory slot of a cycle;
- *the flow*, where a long sequence of legal instructions can go wrong:
  next-address selection, the four stacks, the loop counter, and interrupts that
  come between any two instructions;
- *the arithmetic and the registers*: the computational units, the instructions
  that compute, move and access memory, and what the models claim to know of
  registers that nobody initialised;
- *the words*: three readings of an instruction word, by the machine, the
  disassembler and the assembler.

Contents: 1 the system; 2 the modules and the code; 3 the runs; 4 fairness;
5 the proofs; 6 assumptions of the model; 7 disagreements in the repository;
8 what is not modelled; 9 what is left.

## 1. The system

One processor cycle is eight states (`phase_state_t`), each lasting one CLKIN
half-period. Everything of interest happens at four kinds of clock edge:

| edge | what the code does there |
|---|---|
| enabled state 3 | BR and HALT are sampled, each masked by the other |
| enabled state 7 | the transaction on the bus completes, an instruction retires |
| enabled state 8 | the slot of the next cycle is given to a client, or left empty |
| any rising CLKIN edge | RESET is sampled |

"Enabled" means that `phase_advance_i` is high. All registers change at the same
edge, from values read before it, so an edge is one TLA+ action.

### Components

| component (`src/rtl/core/adsp2100_…`) | state | operations | what makes it correct |
|---|---|---|---|
| `reset_phase` | ring, reset flag, sample count, release and duration flags | recognise, count, refuse, see and take a release, advance | reset is left only after an earned release, on the right CLKIN polarity |
| `bus_control`, `reset_bus_grant` | one of five modes | sample BR, resume at state 8 | the bus moves at two agreeing samples, always idle |
| `program_bus`, `program_owner_bus` | descriptor, owner, response | capture, complete, drive pins | one owner per slot; completions and strobes are not lost |
| `halt_control` | one of four modes | sample HALT, stop at state 7, hold state 8, force a fetch, resume | stops where the docs say, releases with DMACK, nothing moves meanwhile |
| `instruction_cache` | 16 words with validity, region start and length | look up, fill, clear | a hit is the last word fetched from that address |
| `compute_pm_…_client`, `shifter_pm_…_client` | pending/recovery flags and descriptor | issue, complete, recover | the data action happens exactly once, the successor is fetched or cached |
| `linear_fetch_client` | pc, instruction register, pending fetch, vectoring | preload, fetch, retire, vector | `opcode_q` is the word at `pc_q` |
| `program_clients_owner_control_slice` | captured cache words; wiring of the above | masks, slot arbitration, cache fill and capture | composition runs the sequential instruction stream |
| `interrupt_control` | edge latches, last sample | sample, latch, recognise, reset baseline | one service at a time per level, an edge is served once, the highest level is never starved |
| `sequencer_flow`, `sequencer_stacks`, `status_stack` | PC, loop, status stacks with sticky overflow | call, return, loop end, manual push and pop, interrupt entry | a loop goes back to its own start, a return finds what its call left |
| `counter` | CNTR, count stack | load, test, pop | a loop runs as often as its count says |
| `status_registers` | ASTAT, MSTAT, IMASK, ICNTL | effective writes, entry mask, restore | RTI gives back what the entry took |
| `data_bus`, `linear_dm_wait_control_slice` | DM descriptor, acknowledgement | capture, sample DMACK, extend, complete | access and fetch end at one edge, pins move on in an extension |
| `conditional_trap_slice`, `linear_halt_control_slice` | trap flag, handoff | stop, hand over to HALT, resume | nothing runs before HALT has answered a TRAP |
| register, status and mode banks | storage with validity | read, write, switch bank, save, restore | writes of one cycle land in the bank of its start and nowhere twice |
| ALU, MAC, shifter, divide, DAG, conditions | none (combinational) | arithmetic | the manual's sequences compute what they are for |
| DM and PM instruction slices | pending descriptor, recovery, cache | issue, wait, complete, set up | an instruction is one step of the programmer's machine |
| register-to-register slices, `ADSP2100Model` | registers that may be unknown | retire, refuse, report | no unknown value becomes a known result |
| sequencer and flow-type slices | PC, stacks, counter, status of their own | set up, offer a word | they agree with the integrated sequencer |
| assembler, disassembler, decoders | none | parse, list, decode | one reading of every word |
| vector generators, `formal`, `synthesis` | – | stimuli, harnesses | not modelled |

### How they interact

```
 RESET, CLKIN -> reset_phase -> phase_i, phase_advance_i, reset_i  (to all)

 BR pin --mask--> bus_control --issue inhibit--+
 HALT pin --mask--> halt_control --hold, force-+--> issue gate (state 8)
                                               |
 linear_fetch --request--+                     v
 Type 5 client -request--+--> owner selector --> program_bus --> PMA/PMDA/PMRD/PMWR
 Type 13 client -request-+                          |
        ^                                           | completion (state 7)
        +------ cache lookup <-- instruction_cache <+ fill
```

A PM-data instruction uses the slot that would have fetched its successor. The
successor then comes from the cache, captured when the access is issued, or from
a second *recovery* cycle. HALT may arrive in the middle and insist on the
recovery cycle, because a stopped machine has to show the next instruction's
address on PMA.

At the end of state 7 an instruction retires. `sequencer_flow` chooses the next
address from the word, the top of the loop stack and the counter; the stacks and
the counter take their cycle-end values; and `interrupt_control` samples the four
pins. A recognised level discards the word just fetched: the next cycle is a
*vectoring* cycle, which pushes PC and status, sets the entry mask, and fetches
the vector word.

The hard behaviour of the sequencer is in the sharing: loops, calls, services
and hand-written stack words push on the same PC stack, and the counter belongs
to whichever counted loop is innermost. A lost or misplaced entry does no harm
until much later, in other code.

The linear core comes in four compositions besides: with BR/BG, with BR/BG and
competing PM owners, with HALT and TRAP, and with a data memory whose DMACK
extends state 7. Each data- or program-memory instruction type also has a slice
of its own with a native bus, set-up ports and registers.

The hard behaviour of the bus is in the overlaps: a pin sampled in state 3 against the
transaction in flight; a request decided at state 8 and used five states later;
the two pin masks, which read each other's modes; a cache answer kept for a
cycle; an instruction that takes two bus cycles while BR, HALT, RESET or an
interrupt comes between them. `PROJECT.json` lists these under "hazards".

## 2. Modules

| module | what it is | models |
|---|---|---|
| `PhaseSource` | abstract specification: what every clocked block is told about time | `phase_i`, `phase_advance_i`, `reset_i` |
| `ResetPhase` | the block that drives them; implements `PhaseSource` | `reset_phase.sv` |
| `BusControl` | operators of the BR/BG sequencer | `bus_control.sv`, `reset_bus_grant.sv` |
| `BusArbiter` | abstract specification: two agreeing samples move the bus | – |
| `ProgramBus` | descriptor, selector, pins | `program_bus.sv`, `program_owner_bus.sv` |
| `ProgramOwnerBusControl` | sequencer + bus as a machine with free clients; implements `BusArbiter` | `program_owner_bus_control.sv` |
| `HaltControl` | operators of the HALT controller | `halt_control.sv` |
| `OwnerMasks` | the cross masks and the combined issue gate | slice lines 562–600 |
| `HaltBusOwner` | both controllers over one bus, with free clients | the same slice |
| `FetchWindow` | abstract specification of the cache: a run of fetches | – |
| `InstructionCache` | ring, start, length; implements `FetchWindow` | `instruction_cache.sv` |
| `PMDataClient` | both PM-data clients | the two `…_pm_shared_state_client.sv` |
| `LinearFetch` | pc, instruction register, flow | `linear_fetch_client.sv` |
| `InstructionStream` | abstract specification: the program, one instruction after the other | – |
| `ProgramClients` | everything above on one bus; implements `InstructionStream` | `program_clients_owner_control_slice.sv` |
| `MCProgramClients` | two small program memories | – |
| `Counter` | operators of a stack that drops an entry when full and remembers it; CNTR over its count stack | `sequencer_stacks.sv`, `status_stack.sv`, `counter.sv` |
| `InterruptControl` | pins, edge latches, masks, priority | `interrupt_control.sv`, IMASK and ICNTL of `status_registers.sv` |
| `ProgramFlow` | one instruction, or one interrupt entry, after the other | `sequencer_flow.sv`, and the sequencer parts of `linear_fetch_client.sv` and `architectural_state.sv` |
| `SequencerSlices` | operators of the stand-alone sequencer and of one slice per flow type, and their agreement with the core: the same state and word given to both | `sequencer_slice`, `direct_jump`, `indirect_jump`, `conditional_return`, `do_until`, `stack_control_slice`, `conditional_trap` |
| `MCProgramFlow` | four small programs with two services, and the words the slices are probed with | – |
| `DataBus` | operators of the native DM bus | `data_bus` |
| `LinearCore` | one instruction register, one pending fetch, the interrupt controller | `linear_core.py` |
| `LinearAttachments` | the core under each of its four compositions | `linear_bus_control`, `linear_owner_control`, `linear_halt_control`, `linear_dm_wait_control` |
| `Datapath` | ALU, MAC, shifter, divide, DAG and conditions at any width | `alu`, `mac`, `shifter`, `dag`, `conditions`, `divide_*` |
| `DatapathPrograms` | the manual's instruction sequences beside exact arithmetic | – |
| `Registers` | both computational banks, ASTAT, MSTAT, control registers, all possibly unknown | `registers`, `status`, `model` (`ArchitecturalState`) |
| `Computation` | Types 8, 9, 14, 15, 16, 23, 24, 25, which compute; 6, 7, 17, 18, 21, which move | the slices of these types, `model.step` |
| `Architecture` | two machines in lockstep: one that knows every register, one that may not; the mode slice | the slices, `mode_slice`, `model` |
| `MemoryInstructions` | Types 2, 3, 4, 5, 12, 13: captured at issue, done at completion | the six `…_dm`, `…_pm` and `dm_write_immediate` slices |
| `AtomicInstructions` | abstract specification: each of them is one step | – |
| `DataMemoryClient` | a data-memory type on `DataBus`; implements `AtomicInstructions` | the four `…_native` DM wrappers |
| `ProgramMemoryClient` | a program-memory type with cache and shared bus; implements `AtomicInstructions` | `compute_pm_*`, `shifter_pm_*` |
| `Assembler` | the parsers, on tokens | `adsp2100_assembler.py` |
| `ProgrammingTools` | disassembler, decoders, classifier; a session of listing, editing, assembling | `adsp2100_disassembler.py`, the `decode_*` functions, `validate_isa.py` and the field validators |
| `MC*` | programs and sample values for TLC | – |
| `*Proofs` | proofs | – |

`BusControl`, `ProgramBus`, `HaltControl`, `OwnerMasks`, `PMDataClient` and
`LinearFetch` extend one another in that order. Each adds its variables and
operators; the `Next` relations live in the modules that compose them
(`ProgramOwnerBusControl`, `HaltBusOwner`, `ProgramClients`), because a clock
edge changes all of the blocks together.

`Datapath`, `Registers`, then `Computation`, and on top of them
`Architecture` and `MemoryInstructions` extend one another in the same way: the
first three are operators on a machine record, the last ones have the variables.

The Python model and the RTL are the same design written twice, block by block
and with the same names (`linear_core.py` is `adsp2100_linear_fetch_client.sv`
with its private bus, and so on); the repository's generated vectors compare
them. A module says in its header which of the two it was read from, the "map"
of `PROJECT.json` names lines of one, and where the other is mentioned it was
compared. Four DM wrappers and two PM wrappers are the same code around
different slices. `DataMemoryClient` and `ProgramMemoryClient` model that
code once; the map shares it out among their definitions.

`ProgramFlow` EXTENDS `Counter` and `InterruptControl`. It is separate from `ProgramClients`: it abstracts the
fetch, and has one step per retirement, which `StreamSpec` justifies (the machine
of `ProgramClients` is an instruction stream); `ProgramClients` in turn leaves
the choice of an interrupt open.

Correspondence, in short (the line ranges are in `PROJECT.json`, "map"):

| TLA+ | RTL |
|---|---|
| `phase`, `resetActive` | `phase_q`, `reset_active_q` |
| `busMode`, `haltMode` | `mode_q` of `bus_control`, `halt_control` |
| `transaction` | `active_q` with the captured descriptor and `owner_q`; `NoTransaction` is `active_q` low |
| `response` | `response_valid_q`, direction and data |
| `brLow`, `haltLow`, `dmack` | the pins, TRUE when BR or HALT is asserted (active low) |
| `slots`, `regionStart`, `regionCount` | `cache_data_q` with `cache_data_valid_q`, `region_start_q`, `region_count_q` |
| `clients[o]` | `pending_q`, `recovery_q`, descriptor and `needs_recovery` of a PM-data client, with the captured cache word of the slice |
| `pc`, `opcode`, `fetchPending`, `vectoring` | `pc_q`, `opcode_q` with `instruction_valid_q`, `pending_q`, `interrupt_level_q` with `interrupt_vectoring_q` |
| `Unknown` | any value whose validity sidecar is low |
| `pcStack`, `loopStack`, `statusStack` | the entry arrays with their depth and sticky overflow bits; the last item is the top |
| `count` | `cntr_q` with its validity, and the count stack |
| `imask`, `icntl`, `edgePending`, `previousLow` | `imask_q`, `icntl_q` with its validity, the edge latches, the previous pin sample with its validity |
| `vectoring` (of `ProgramFlow`) | `interrupt_level_q` with `interrupt_vectoring_q` |
| `Retire`, `EnterInterrupt`, `WaitCycle` | `retire_event_o`, the accepted entry, a cycle end with neither |
| `access`, `stage` (of `DataBus`) | the active DM descriptor, whether DMACK has been seen or the cycle extended |
| `trapStop`, `attachment` | `trap_asserted` with `trap_handoff`; which of the four compositions this is |
| `view`, `actual` (of `Architecture`) | the model's registers with their `Unknown`s; a processor that has them all |
| `m.bank`, `m.flag`, `m.mode`, `m.ctl` | `primary` and `alternate`, ASTAT, MSTAT, CNTR with PX, IMASK, ICNTL and one I, M, L |
| `pending`, `recovery`, `cached` (of the clients) | the prepared descriptor, the recovery fetch, the captured cache word |
| `owed`, `pinsBefore`, `handshake`, `rewritten`, `forced`, `diagnosed` | none: history for the properties |
| `statement.clauses`, `statement.number` | the source line split at commas and into tokens; the value of its numeral |
| `interrupted`, `rounds` | none: history of the contexts saved by entries and of the loops set up, forgotten once a stack overflows |

In the bus modules there is an action per edge: `SamplePins` (state 3), `CompleteCycle` (state 7; one
disjunct per kind of completion), `IssueCycle` (state 8; one disjunct per
client, plus preload, an idle and a closed boundary), `PassPhase` (the other
states), `Reset` and `LeaveReset`. A clock edge without `phase_advance_i`
changes nothing and is a stuttering step.
In `HaltBusOwner` these are `SampleBothPins`, `CompleteOwnedCycle`,
`IssueOwnedCycle`, `PassOwnedPhase`, `ResetOwner` and `LeaveOwnerReset`, since
one proof module extends it and the other bus modules.

## 3. Runs

| run | module | states | question |
|---|---|---|---|
| `reset_phase` | `ResetPhase` | 308 | Is every release from RESET earned, and on the right polarity? |
| `owner_bus` | `ProgramOwnerBusControl` | 2,338 | Is BR/BG the two-sample arbiter, over a bus that is idle when handed over? |
| `halt_bus` | `HaltBusOwner` | 6,720 | Do HALT and BR keep out of each other's way? |
| `cache` | `InstructionCache` | 961 | Is the ring the window of the last unbroken run of fetches? |
| `clients` | `MCProgramClients` | 34,848 | Does the composition run the program? |
| `program_flow` | `MCProgramFlow` | 52,456 | Do loops, calls, stack words and interrupts keep out of each other's way, and do the separate slices follow the same rules? |
| `linear` | `LinearAttachments` | 63,052 | Does the core lose nothing in a wait, a TRAP, a grant or a lost slot? |
| `datapath` | `DatapathPrograms` | 422,616 | Do the sequences the units are made for compute what they should? |
| `architecture` | `MCArchitecture` | 583,420 | Is what the model claims to know true, and does a cycle commit at once? |
| `data_memory` | `MCDataMemoryClient` | 36,331 | Is a data-memory instruction one step, whatever DMACK does? |
| `program_memory` | `MCProgramMemoryClient` | 579,182 | Is a PM-data instruction one step, and its successor the word in memory? |
| `programming_tools` | `ProgrammingTools` | 264,280 | Do machine, disassembler and assembler read a word alike? |

*reset_phase.* No bound: the block is finite. `samples`, a history of the last
six RESET samples, is the only variable that is not in the code; it lets
`ReleaseEarned` say "four asserted, then two released, without a gap".
`CadenceAligned` ties the ring to the CLKIN level after any RESET.
`ReleaseEnds` says that RESET ends, except for the case the code documents, an
assertion that was too short.

*owner_bus.* Two addresses and two words, enough to tell the descriptor of one
transaction from that of the next; every subset of owners may ask. The pins and
requests are free. `GrantedBusIsIdle` and `CompletionNotLost` are about a BR
that arrives mid-cycle, `StrobeNotCut` about the direct path from BR to BG in
RESET, `ArbiterSpec` about the order of the five modes. The arbiter shares the
pin and the reset flag with the sequencer, so only a real RESET excuses a
release that no two samples asked for. `BusFollowsRequest` says that a request
held is granted and one withdrawn gives the bus back.

*halt_bus.* One address and one word: the properties look at modes, phases and
whether the transaction changes. `OneControllerActive` is the purpose of the
masks. That the bus is idle when granted, and that the owner of a pin used alone
is kept (`OwnerKept`), is proved here, not run again.
`ForcedFetchNotBlocked` and `StoppedBusIsFrozen` are the two promises of
HALT to its surroundings. `PinsObeyed` joins four liveness properties: each
request, held alone, is served, and each stop or grant ends with its request.

*cache.* Four slots in eight addresses: every slot is shared by two addresses,
and runs cross both the end of the ring and the end of the address space; two
words are enough to tell a stale word from a fresh one. `WindowSpec` is the
refinement of a specification without slots, operation by operation: a fill must
be the window's fill of the same address and word, not of just any other one, as
the bare refinement would allow. `AnswersAreFresh` connects the window to the
code's own lookup and says why no word comes back to life: no slot outside the
region keeps its validity bit.

*clients.* Four addresses, a two-word cache, one interrupt level, a data
address that is known or unknown, and two programs chosen so that the cases
occur: a loop in which a PM-data instruction's successor is cached on later
rounds and missing on the first; two PM-data instructions in a row, the second
with its successor across the address wrap; a word that is not executed; and
both jump outcomes. `StreamSpec` is the main result. `OpcodeMatchesPc` relates
four places that compute the next address. `StopFindsSuccessor` explains what
HALT forces: the one fetch an interrupted PM-data instruction needs, presented
alone, and its address on PMA while the machine is stopped. `OneMachine` is
about the registers. The Python composition keeps three copies of them
(`linear`, `type5`, `type13`) and hands one copy to the others at every edge; so
does the RTL, through its shared set-up ports. The model keeps of the copies
only which of them are current, and offers the set-up ports of one client, of
the other, or those that both have, at every issue boundary. The data address is
one address because no property reads data; `Unknown` is there because the
descriptor keeps its own validity.

*program_flow.* Four programs of 26 words, each interrupted at every boundary
by an edge-sensitive IRQ3 and a level-sensitive IRQ1, whose services hold a
counted loop of their own and a level of nesting. `NestedLoops` (with nesting on
and off) sets up an inner loop in every round of the outer one and calls a
subroutine from it; `OtherWords` has a count of zero, a loop left by a jump on
its last word, a loop on a flag, a jump on the counter, and status words kept
by hand while the mask changes; `Overflows` nests loops beyond their stack and
calls itself. Depths are 6 (PC), 3 (loop), 2 (status) and 2 (count) for the
code's 16, 4, 4 and 4, and CNTR counts modulo 3: the smallest in which the
programs that keep the rules just fit together with the services, so that every
push at the limit, a wrap of the counter, and an overflow of each kind that the
programs can cause all happen. The status stack has room for exactly the two
levels in use, as the code's has for its four.

`InterruptTransparent` compares the whole context at an RTI with the context at
its entry. `LoopsKeepTheirOwn` compares a loop with what its own DO set up, its
start and its count, however many loops, calls and services have used the same
stacks in between. `StacksSuffice` says that a machine which stops for a missing
stack entry has its overflow bit set, and that interrupts alone never set it on
the status stack. Its first conjunct, `KeepsTheRules`, says what kind of program
the four are: a service pops nothing below its own entries and ends with the
stacks as high as it found them (`ServicesKeepTheirPlace`), it enables no level
its entry disabled (`ServicesKeepTheirMask`), and the body of a loop takes away
what it puts on a stack (`LoopsKeepTheirPlace`). The rules speak of heights only,
which a programmer can count, never of what the entries hold. They are the
hypotheses of the theorems in section 5, and this run shows that programs which
call, loop, return, overflow and are interrupted keep them. `PriorityNesting` and `InterruptsTakeTurns` are about storms:
who interrupts whom, that the highest pin is served, and that the interrupted
code gets on. The two liveness properties have RESET in them as any other step;
the one about the pin excludes overflow, after which a lost return address may
leave the machine refusing to go on.

`SlicesAgree` compares the core with the sequencer slice and with the six slices
of Types 10, 11, 19, 20, 22, 26 and of TRAP. In every reachable state a slice
is reset and brought to that state through its own ports, each input
preceded by the same input in conflict with another; then it is offered each of
the probe words, and must refuse it or make of it what the core would. The
parts of the state a slice lacks are not compared, nor words on which a loop
ends, of which the flow slices know nothing.

*linear.* All four attachments, the interrupt pins 1 and 3 in any pattern, two
masks, IRQ3 edge- or level-sensitive, and one data access that reads and one
that writes. `PairedCompletion` says that the extension ends for the fetch and
the access at one edge. `EdgeRemembered` compares the latches with a history of
the edges the board made, in extensions too. `TrapAnsweredFirst` follows a TRAP
through its handoff to HALT, with a HALT that came at the same edge.
`PendingFetchEnds` is the liveness of all four.

*datapath.* Words of four bits with two guard bits, sums and buffers of up to
three terms or moves: small enough to take every operand and every sequence of
them, large enough for each overflow, carry and rounding case. The properties
are stated in exact arithmetic: the quotient of DIVS and DIVQ, the double word
normalised by EXP, NORM, EXP and NORM and the block exponent (`ScalingExact`),
multiply-accumulate with rounding and saturation and double-precision addition
(`SumsExact`), and the pointer of a circular buffer.

*architecture.* A program for every register-to-register type and for each
source of doubt the code knows, on the slices and on the core; two values for
each register, every choice of up to seven registers unknown, two instructions. A
second machine that knows its registers runs beside: `UnknownsAreHonest` says
that a value the model shows is the value that machine has. The rounds of the
program show a doubt handed on. `CyclesCommitAtOnce` joins four comparisons of
one cycle: the clauses of Type 8 with the two instructions it could be split
into, the decoders with the write ports of the register banks, the mode slice
with the core, and an interrupt's entry with its return. The behaviours end after
`MaxCycles`, so deadlock is not checked; neither is it in *datapath* and
*programming_tools*, whose sequences end.

*data_memory*, *program_memory.* One program for each type and direction, with
index registers known and unknown, both banks, collisions of the loaded with the
computed register, and a set-up of its own; three and two issues or set-ups in a
behaviour. `AtomicSpec` is the refinement of `AtomicInstructions`, in which an
instruction is one step at its completion, from the registers at its issue. It
counts no steps: an access done twice is seen where it moves an index register or
computes, not in a direct read of the same word. In
program memory the instructions write the words they run from, and `DeliveredWord`
says when the word handed on may be an old one: when the cache held it before
the write and nothing forced a fetch. Two words of cache are enough for a hit, a
miss and a word that is replaced.

*programming_tools.* Every high byte, which holds the type, with 16 middle and
10 low bytes that reach every field's ends; the words with four of these in each
place are edited too, in any one token. `ToolsAgree` says that what the
disassembler lists as a statement assembles to the same word and is executed by
the machine as that statement, and that an edited statement that assembles
decodes to what it says. Stack-control words the machine executes are
listed as data by the disassembler and have no statement; the property excepts
them.

`TypeOK` of the first three modules and `OwnerKept` are proved (section 5), and
their runs leave them out. `TypeOK` of the other modules holds as well; it is
not run, for the properties above fail long before a register has left its type.

Every property of a passing run has a mutant in `PROJECT.json`: a plausible
bug in a mapped definition under which TLC finds the property violated. The
mutated forms stand in the modules, marked "Mutant:", before the definition they
replace. No specification uses them.

## 4. Fairness

`FairSpec` adds one conjunct to each machine:

- `WF_vars(Edge)` in `ResetPhase`: CLKIN keeps toggling, the one thing the
  block cannot do without.
- `WF_vars(ClockEdge)` elsewhere: `phase_advance_i` recurs. `reset_phase`
  asserts it at every CLKIN edge while the machine is out of reset and not held.

- `WF_vars(Advance)` in `ProgramFlow`: some cycle retires an instruction or
  enters a service. Between them there may be any number of wait cycles, but
  granted and stopped buses are given back (`BusFollowsRequest`, `PinsObeyed`),
  and a PM-data instruction takes two cycles (`HeldWorkFinishes`).
- `SF_vars(InProgress /\ SampleAck(TRUE))` in `LinearAttachments`: a data memory
  that is asked again and again acknowledges at last. The code has no timeout;
  a memory that never answers stops the processor, as the manual says.

No other pin gets fairness. A liveness property states what it needs of the pins as
its hypothesis (`<>[](brLow /\ ~resetActive) => …`); a RESET that comes for
ever is excluded the same way. Clients get none either: the liveness of
`HeldWorkFinishes` rests on the code's own choice at each boundary.

In `ProgramClients` the pins are read inside the actions, without variables of
their own, because each is read at few edges. A stopped machine may then
stay stopped for ever, which its liveness property excludes by hypothesis.

## 5. Proofs

TLAPS proves the following for all constants, that is, for every address and
word set and with no bound on the number of steps.

| theorem | module | statement |
|---|---|---|
| `ResetTypeCorrect` | `PinProofs` | `SpecReset => []TypeOKReset` |
| `CadenceKept` | | `SpecReset => []CadenceAligned` |
| `ReleaseIsEarned` | | `SpecReset => ReleaseEarned` |
| `ImplementsPhaseSource` | | `SpecReset => PhaseSpec` |
| `BusTypeCorrect` | | `SpecBus => []TypeOKBus` |
| `BusGrantSafe` | | `SpecBus => []GrantedBusIsIdle` |
| `CompletionKept` | | `SpecBus => []CompletionNotLost` |
| `StrobeKept` | | `SpecBus => StrobeNotCut` |
| `ImplementsArbiter` | | `SpecBus => ArbiterSpec` |
| `OwnerTypeCorrect` | | `SpecOwner => []TypeOKOwner` |
| `ControllersExclusive` | | `SpecOwner => []OneControllerActive` |
| `OwnerGrantSafe` | | `SpecOwner => []GrantedBusIsIdle` |
| `ForcedFetchOpen` | | `SpecOwner => []ForcedFetchNotBlocked` |
| `StoppedFrozen` | | `SpecOwner => StoppedBusIsFrozen` |
| `OwnerKeptAlone` | | `SpecOwner => OwnerKept` |
| `TypeCorrect` | `InstructionCacheProofs` | `Spec => []TypeOK` |
| `SlotsBelong` | | `Spec => []NoStaleSlot` |
| `AnswersFresh` | | `Spec => []AnswersAreFresh` |
| `ImplementsWindow` | | `Spec => WindowSpec` |
| `TypeCorrect` | `ProgramClientsProofs` | `Spec /\ ~SetupWrites => []TypeOK` |
| `OpcodeRight` | | `Spec /\ ~SetupWrites => []OpcodeMatchesPc` |
| `MachineIsOne` | | `Spec /\ ~SetupWrites => []OneMachine` |
| `StopFinds` | | `Spec /\ ~SetupWrites => []StopFindsSuccessor` |
| `ImplementsStream` | | `Spec /\ ~SetupWrites => StreamSpec` |
| `TypeCorrect` | `LinearAttachmentsProofs` | `Spec => []TypeOK` |
| `PairsEndTogether` | | `Spec => []PairedCompletion` |
| `EdgesKept` | | `Spec => []EdgeRemembered` |
| `TrapsWait` | | `Spec => TrapAnsweredFirst` |
| `TypeCorrect` | `ProgramFlowProofs` | `Spec => []TypeOK` |
| `ReturnGivesBack` | | `Spec /\ []ServicesKeepTheirPlace => InterruptTransparent` |
| `HigherLevelsOnly` | | `Spec /\ []ServicesKeepTheirPlace /\ []ServicesKeepTheirMask => []PriorityNesting` |
| `LoopsRunAsSetUp` | | `Spec /\ []LoopsKeepTheirPlace => LoopsKeepTheirOwn` |
| `NestedContextsAlwaysFit` | | `StatusDepth >= 4`: under the hypotheses of `HigherLevelsOnly`, `[]StatusFits` |
| `DataMemoryAtomic` | `MemoryClientProofs` | `SpecData => AtomicSpec` |
| `ProgramMemoryAtomic` | | `Spec => AtomicSpec` |
| `WordHandedOn` | | `Spec => DeliveredWord` |
| `UnknownsStayHonest` | `ArchitectureProofs` | `Spec /\ []CounterLoaded => []UnknownsAreHonest` |
| `SlicesStayHonest` | | `Spec /\ Slice => []UnknownsAreHonest` |
| `ClausesAreAtOnce` | | `Spec => []ClausesActAtOnce` |
| `SupportedFits` | | `Spec => []SupportedWritesFit` |
| `CyclesAreAtOnce` | | `Spec => []CyclesCommitAtOnce` |
| `BufferStaysCircular` | `DatapathProofs` | `Spec => []BufferCircular` |
| `DivisionIsExact` | | `Spec => []QuotientExact` |
| `SumsAreExact` | | `Spec => []SumsExact` |
| `ScalingIsExact` | | `Spec => []ScalingExact` |

The `Spec`s without a name of their own are those of the module the proofs
extend; in `MemoryClientProofs` that is the program-memory client.
`ProgramClientsProofs` extends `PinProofs`, which has the lemmas about the bus and
the two controllers that both need.

*Assumptions.* `ProgramBusConstants` (`Unknown` is no address or word,
`NoTransaction` no request) and `NoResponseOutside`. `ResetPhase` has none. For
the cache, `CacheGeometry`: the slot is the low bits of the address, so the size
of the ring divides that of the address space. For the composition,
`LinearFetchConstants` and `ProgramClientsConstants` (which include that
geometry), and `~SetupWrites`: with set-up writes while flow depends on the
registers `OneMachine` and `OpcodeMatchesPc` are false (section 7). For the
linear core, `LinearCoreConstants` and `LinearAttachmentsConstants`: masks, edge
masks and pins are sets of levels, and "none" is no owner and no instruction. For the program flow, `CounterConstants`,
`InterruptConstants` and `ProgramFlowConstants`: the addresses are `0 .. n - 1`,
vectors and jump targets are addresses, and CNTR has at least two values. The
depths are any naturals, and a program any function from addresses to words.
Three theorems have rules of the program as hypotheses, because the machine keeps
its promise only to programs that keep theirs: a service that pops once too often
returns somewhere else, on the chip as here. For the registers,
`DatapathConstants` (the widths are positive, which is all that the exactness of
the datapath assumes), `DataBusConstants` ("no access" is no
request) and, for the memory clients, `DataClientConstants` and
`ProgramClientConstants`: a program's words are of the types the client executes and its
machine has all its registers. `ArchitectureConstants` asks the same of the
programs of the slices and of the core, and that `Unknown` is no truth value.
`CounterLoaded` is the one rule for these programs: as long as one of its words tests
NOT CE, CNTR is known (a RESET forgets it). Without it `UnknownsAreHonest` is false on the core (section
7); a slice, which is told the answer, needs no such rule.

*The reset block.* `ReleaseEarned` speaks of six samples, the state only of a
count and two flags. `CountInv` connects them: while an assertion is
uninterrupted the last `assertedEdges` samples were asserted, and once
`releaseSeen` is set they were four asserted and one released. The refinement maps `resetActive`
of the abstract phase source to `resetActive \/ ~phaseValid`: a machine that
never saw RESET is held as well. `CadenceAligned` is inductive with the type
invariant: every way into a state is an edge of known direction, the release
included, which moves the ring to the state that fits the edge.

*The bus.* `GrantedBusIsIdle` is not inductive: the grant is decided at state 3,
but what makes it safe is the state-8 boundary before, which issued nothing
because the request was already known. `BusInv` carries
that over: `AwayIsIdle` covers the modes in which the processor has given the
bus away, `RequestedIsIdle` the phases 1–3 after an inhibited boundary, and
`ReacquireWindow` bounds the mode in which issue resumes. Both bus owners use
the same four lemmas, one per kind of edge; `IssueKeepsBusInv` asks only that
the issue gate be at least as closed as BR/BG wants, so it serves with and
without HALT. `ProgramOwnerBusControl` adds what it needs about the response.

*HALT.* `HaltWindows` says in which phases a stop or a forced fetch can be
pending; `ResetHolds` what RESET leaves behind. `SampleExcludes` is the heart of
mutual exclusion: of the two masked pins, sampled at the same edge, at most one
can take its controller out of idle.

*The cache.* The argument is about offsets: how far an address lies past the
start of the region, modulo the address space. The appended address has the
region's length as its offset (`AppendOffset`), and when a full region moves on,
every offset but the first falls by one (`OffsetAfterStep`). `SlotsApart` is where
the divisibility is used: two addresses less than a ring past the same start that
share a slot are equal, so the word a fill writes is never one the region still
needs, wherever the region crosses the top of the address space.
`LookupAnswersWindow` holds in every well-typed state; `NoStaleSlot` is inductive
with `TypeOK`.

*The composition.* `OpcodeMatchesPc` compares the register with `pc` in every
state, but what decides it was fixed eight phases earlier, when the address went
on the bus. `Inv` says what stays true in between. `HeldWork`: a client that
holds a transaction holds it for the instruction in the register, and what it
captured at issue is the successor's address and that address's word, or no
word. `OnBus` and `FetchOnBus`: from issue to completion the transaction on the
bus is what its owner would present again, so a completion is never taken for
another's. `HaltInv`: a stop is pending only over an instruction read, and a
forced fetch over a data access that turns into a recovery, which is why the
stop finds the successor's address on PMA. `OneHolds` and `OneExecutes` then
give that fetch, data access, recovery and repetition exclude each other, and
`CopiesFollow` that a current copy of the registers is handed to all at every
edge. `CacheIsFaithful` (the cache answers an address with that address's word)
comes from the proofs of the cache alone: `FillAnswersFrom` of
`InstructionCacheProofs`, instantiated. Two lemmas, `CompleteKeeps` and
`IssueKeeps`, say what any completion and any issue boundary have to see to;
each kind of completion and of issue then has a lemma of its own.

*The linear core.* `PairedCompletion` compares two buses at one state 7 that took
their transactions at a state 8 long before. `FetchInv` and `AccessInv` say what
each keeps in the meantime: a fetch under way owns the bus until it completes and
reaches state 8 only in an extension, and a data access lives inside a fetch with
its stage fixed by the phase. `EdgeInv` says that the controller compares the very
samples that the history of the board compares; the work is in the one sample at
which a level is recognised and its latch cleared while another edge arrives
(`SampleRemembers`). `TrapInv` is the missing half of `TrapAnsweredFirst`: before
HALT answers, the stop is in the one state that no release leaves.

*The program flow.* A rule bounds how high a stack is when a word pops it; the
theorems are about what the entries hold. The invariants make the connection.
`FrameInv`: below the entries of a service lies, untouched, all that its
interrupt found, and the same holds between the contexts of any two services
that are nested, which is what an RTI needs to make the outer service the
current one again. For the counter the comparison is of `AllCounts`, the
count stack with CNTR as its last entry, because a service that loads CNTR pushes
the interrupted count and gets it back by ending its own. `MaskInv`: the mask
now, and every mask that the service has pushed since, enables no level that its
entry disabled, so neither a POP STS nor a nested RTI can let one in.
`LoopInv`: each loop that is set up has an entry of its own on the loop stack
and on the PC stack, and, once its count is loaded, in `AllCounts`, where what is
left is what the tests so far have not used (`Left`, with zero as the full
range). A DO may come before its count is loaded, and a jump may leave a loop, so
`LoopInv` says which of the three entries exist when. `DepthInv` counts: the
levels of nested services rise, so with four levels there are never more than
four of them, and the status stack holds one entry for each. Its conclusion,
`StatusFits`, is `NestedContextsFit` up to the overflow of another stack, after
which the history is forgotten and the machine's returns are lost.

Every invariant of `ProgramFlowProofs` was checked by TLC in every state of
*program_flow* before it was proved.

*The memory clients.* Between the issue and the completion of an access nothing
writes the registers, so a pending access is what the machine would prepare now
(`DataInv`, `ProgramInv`), and the completion, which commits what was captured, is
one execution of the instruction from the registers at its issue. It takes the
shape lemmas, which say that every operation leaves a machine with all its
registers. `DeliveryInv` carries `DeliveredWord`: every word that the cache, its
window or a pending access holds is the one in memory, or data was written there
since (`rewritten`), and a forced fetch goes to memory itself.

*What a model knows.* `Sees(v, a, exact)` relates two machines: what `v` shows
is what `a` holds, and `v` knows the modes in `exact` as well as `a` does. A lemma
for each operator, from the ports of a bank up to `Retired`, says that it keeps the
relation. The work is in the cases in which the two take different branches: a
test that `v` cannot decide must make unknown all that either outcome could write
(`KnowsMore`, `ClauseUnknownSees`, `ShifterUnknownSees`), and an instruction that
touches a bank must know which one. Where the host reports that it does not,
nothing is claimed (`HonestInv`).

*At once.* `Type8AtOnce` needs two facts about a bank: a computation reads only its
operands and, in the MAC, the accumulator (`ComputeReads`), and stores to
registers that share no storage commute (`StoresCommute`; MR1 takes MR2 with it).
`SupportedFits` goes through the destinations of the two decoders and of the write
ports. That a machine holds all its registers comes from `ActualInv`, which is
`Sees` of the machine with itself.
`ModesOfCycleStart` follows because the modes, the status and the bank that a
cycle writes are separate parts of the machine, of which a computation writes
only the last two (`ModesWait`, `StatusOfCompute`). Its hypothesis `AluKnown` is
the slice's own: `mode_slice.py` raises an error for an AC or AV that is unknown,
and even the processor can come to that, since a buffer that the model does not
define leaves I unknown and a move may copy it. `StatusSurvivesEntry` is about the bits that an
entry's mask keeps (`EntryMaskBits`, by `WordOfBits` of the datapath proofs).

*Exact arithmetic.* The provers know no law of powers of two and cannot use the
library's induction theorems. `PowerCounts` gives the first: `2 ^ n` is the number
of subsets of `n` elements, about which the theorems on finite sets say enough
for sums and order of exponents. `LeastNatural`, that every set of naturals has a least element, follows
from a well-founded order on them, and with it `Induction` for a *set* of
numbers, which is all that the bits of a word or the places of a number need.
`WordOfBits` then says that every set of bits spells one word, by showing that
the fold that adds them up exists and is unique (`FoldExists`), and `OrAdds` that a word or-ed with
one that ends below it is their sum.
`BufferInv` is inductive because a legal move leaves the buffer by less than a
length, so that one correction brings it back, and because no carry leaves the
bits that the buffer's alignment fixes. `DivideInv` is the classical one of a non-restoring division: after `k`
bits the upper word is the remainder, too small by one divisor where AQ is set,
and AY0 holds `k` quotient bits over the bits of the dividend not yet used
(`PartiallyDivided`); the upper word may have wrapped, but twice the remainder
never does. `AccumulateInv` says that MR always is the low bits of the sum,
wrapped or not, so that it is exact whenever the sum fits; rounding to even
agrees with the nearest number at the one tie. `DoubleInv` takes a
double sum as a high sum above a low word. The exponent detector counts
redundant sign bits (`HiExponentCounts`, `LoExponentCounts`): the highest bit that
differs from the sign bounds the word on both sides (`HighestBit`), so that many
places fit (`WordFits`) and one more does not (`WordFills`). `BlockInv` is the maximum of
the exponents so far, `NormalizeInv` what each of the four instructions
has left: NORM HI and NORM LO put disjoint parts into SR.

*Refinement.* `ImplementsStream` maps a completed fetch or recovery, and a data
access that needs no recovery, to `Retire`, a data access that needs one to
`Perform`, a vector fetch to `TakeVector`, and every phase, pin and issue step
to a stutter: nothing HALT, BR or the cache does is an instruction.
`ImplementsArbiter` and `ImplementsPhaseSource` map initial states
to initial states and each step to a step or a stutter, action by action.
`ImplementsWindow` shows more: `FillAgrees` proves of each of the four kinds of
fill that it is the window's own fill with the same address and word.

Left to TLC:

- all liveness: fairness and ENABLED are out of the prover's reach;
- of `ProgramFlow`, `RefusalIsExplained` and `NestedContextsFit` after another
  stack has overflowed. That a program is never refused without an overflow also
  rests on its foreground code (no return without a call, no test of a count that
  was never loaded), for which there is no rule as short as the three above;
- `SlicesAgree` and `ToolsAgree`, which compare results over whole sequences, of
  set-up words and of tokens.

## 6. Assumptions of the model

- Words are named by the address that holds them, so "the right word" is
  "opcode = pc". No executed word is overwritten by a PM-data write: the
  repository leaves self-modifying program memory open
  (`src/docs/research/open_questions.md`, OQ-008).
- The condition a jump tests is one Boolean, which any instruction with an ALU,
  MAC or status effect may change. Its validity sidecar is up, as it is once
  ASTAT has been written.
- In `ProgramClients` an interrupt may be recognised at any retirement; which
  one, and when the controller would really raise it, is the subject of
  `ProgramFlow`.
- In `ProgramFlow` the issue of a fetch and the retirement of the instruction
  that issued it are one step: what `sequencer_flow` reads does not change in
  between, set-up writes aside (section 7).
- `astat` is one flag and stands for every condition on ASTAT. MSTAT is stacked
  with it and is not a variable; a word that writes it is, for interrupts, a
  word that writes IMASK.
- Words that the code refuses because their operand is not valid (a mask from an
  unwritten register, an indirect jump, a condition on an unwritten ASTAT) are
  not in the programs. A count that is not loaded is.
- A TRAP goes on at its successor: the halt it asks for and the HALT pin that
  ends it are not in `ProgramFlow`.
- After RESET the machine starts at `ResetVector`, where the slice preloads.
- `automatic_pm_flow_i` is high, the mode in which the slice drives itself.
- In `ProgramClients` a set-up is offered at an issue boundary, and not at the
  one at which an interrupt's vector is fetched; the instruction preload is
  modelled too. `SetupWrites` lifts this and lets a set-up change the
  condition of a jump (section 7); it is off in the run. The preload places the
  word that memory holds at that address.
- A fetch returns the word of its address or an invalid one; the latter stops
  the instruction stream until a preload, interrupt or RESET, as in the code.
- The program is fixed at `Init`; DAG addresses come from `DataAddresses`.
- RESET is a step that may come between any two edges; its timing against CLKIN
  is the subject of `ResetPhase`.
- The behaviours of `LinearAttachments` abstract the instruction in the register
  to what its attachment sees of it: a TRAP, a write of an interrupt or mode
  register, a word it does not execute, or any other. Any ordinary fetch may carry
  a data access: the slices issue both at one edge.
- One I, one M and one L register stand for the eight of each; which DAG the
  register belongs to is kept where its bit reversal or its addressing differs.
- In `ProgramMemoryClient` the HALT controller of the two `…_halt` modules is an
  input that forces the fetch at any time, and the accesses of the other owners
  are reads.
- The modules about data have words of `W` bits for the code's 16, with the
  guard bits, exponents and shift counts scaled along; the shape of each
  operation (which bit is sign, carry or rounding position) is given in terms of `W`.
- A statement of `ProgrammingTools` is a sequence of clauses of tokens: labels,
  comments, spelling variants and numeral syntax are left to the assembler's
  tests.

## 7. Where the code, its tests and its documentation differ

None of these is a run. Each of the first five shows with the changes it names
to the run's configuration, the set-ups of the Python composition by a test of
it, and its preload by its guard.

*Overlapping HALT and BR* (`HaltBusOwner.cfg`, with `ActiveOwnerKept` as a
PROPERTY). The comment at
`src/rtl/core/adsp2100_program_clients_owner_control_slice.sv:562` says that only
the already active owner is admitted. In the code the mask of each pin
reads the other *pin* as well as the other mode, so asserting BR while HALT
holds the machine hides the HALT pin from its own controller, which resumes; and
asserting HALT while BG is granted hides BR, and the sequencer takes the bus
back. `OwnerKept`, the same property for one pin at a time, holds and is proved.

*Set-up writes at an issue boundary* (`ProgramClients.cfg`, with
`SetupWrites = TRUE` and `OpcodeMatchesPc` alone). A jump's target is
computed when its fetch is issued and again when it retires, from live ASTAT. A
set-up write accepted at the very boundary at which the fetch is presented makes
the two differ: `pc_q` takes one target, `opcode_q` the word of the other.

*A restored mask* (`ProgramFlow.cfg`, with `AdjacentWriteDefersService` as a
PROPERTY). `src/docs/architecture/interrupts.md:45` says that interrupts adjacent
to an effective write of MSTAT, ICNTL or IMASK are kept and not serviced. RTI and
POP STS write IMASK from the status stack, and the code recognises an interrupt
in the same cycle, against the mask they replace. No context is lost
(`InterruptTransparent` holds over it): it is the deferral that the sentence
promises and these words do not have.

*The completion of a vector fetch* (`LinearAttachments.cfg`, with
`CompletedFetchRetires` as a PROPERTY).
`src/formal/harnesses/adsp2100_linear_owner_control_formal.sv:157` asserts that
the core's completion comes with a retirement, and
`linear_owner_control.py:120` counts the lack of one as a conflict of the
attachment. The fetch of an interrupt vector completes and retires nothing, so an
ordinary interrupt entry is reported as a conflict.

*A counter nobody loaded* (`Architecture.cfg`, with
`Programs <- MCCounterPrograms` and `UnknownsAreHonest` alone). `model.py:501`
and `:755` pass `not_counter_expired=False` to Types 9 and 16 while CNTR is
unknown, so IF NOT CE is certainly false and the registers it may have written
stay known. `src/docs/architecture/conditions.md:15` says that an invalid counter
gives no predicate.

*A set-up out of phase* (the Python composition only). A set-up port is ignored
by the clients away from an issue boundary, but lines 615–637 of
`program_clients_owner_control.py` look at the port alone. With, say, `setup_px`
at the state 7 at which the linear client retires, the registers of the
Type 5 client are copied over the result of the instruction, and the write is
lost without a conflict being reported. The RTL has the test
(`shared_setup_accept`, line 603 of the slice). The model offers set-ups at issue
boundaries.

*A preload beside a vector* (the Python composition only). `linear_core.py:342`
accepts an instruction set-up while the vector of an interrupt waits to be fetched
and reports a conflict; the RTL (`adsp2100_linear_fetch_client.sv:557`) refuses it.
`LinearCore` and `LinearFetch` follow the RTL.

*A set-up beside an interrupt entry* (the Python composition only;
`ProgramClients.cfg`, with `SetupWrites = TRUE` and `OneMachine` alone). At the
boundary at which the fetch of a vector is issued the linear client sets the
entry mask. A set-up accepted there copies the registers of a PM-data client over
it, and IMASK is what it was before the entry. The RTL refuses the set-up.

## 8. What is not modelled

- *RTL instruction decoders and the synthesis files*: combinational tables. The
  Python decoders, which the generated vectors compare with them, are in
  `ProgrammingTools`.
- *Vector generators* (`src/tools/generators`) and `__init__.py`: they run the
  model on chosen stimuli, print vectors and re-export names. They keep no state.
- *SymbiYosys harnesses*: properties of single blocks for another checker. Their
  assertions about the modelled blocks were read, and one is in section 7.
- *The manual PM flow* (`automatic_pm_flow_i` low): the surrounding test bench
  chooses the client at each boundary, so the order of instructions is not the code's.
- *`mstat_client_conflict`*, which keeps a PM-data instruction from an unknown
  MSTAT: `ProgramClients` has no MSTAT, and takes it as known.
- *The pins of the data bus*: `DataBus` keeps the descriptor and the stage, not
  the strobes DMRD and DMWR that are decoded from them.
- *The trace and memory log of* `ADSP2100Model`: output only.
- *The choice among the eight registers of a DAG*, and the errors Python raises
  for operands of the wrong Python type.
- Reading of files, command lines and source text in the tools.

## 9. What is left

- `ProgramFlow` as an implementation of an abstract machine in which each call,
  loop and service has a frame of its own, which would say in one property what
  `InterruptTransparent` and `LoopsKeepTheirOwn` say in two.
- `LinearAttachments` with `ProgramFlow` in place of its free choice of
  instructions.
- A rule for foreground code, and with it a proof of `RefusalIsExplained`.
