# A TLA+ verification of parallel-rsp

parallel-rsp emulates the Reality Signal Processor of the Nintendo 64 as a
plugin of an emulator. The RSP has 4 KB of instruction memory (IMEM), 4 KB of
data memory (DMEM), a scalar MIPS core with branch delay slots, a coprocessor 0
(status, DMA) and a vector unit. The plugin compiles IMEM into host code with
GNU lightning and runs it until the microcode stops. This directory models the
parts of it that carry state, checks them with TLC on small instances and
proves with TLAPS, for every size and every program, what the runs check of
safety: the refinements of the guest's control flow (for the reference CPU, but
for finding 4) and of the DMA engine, and the invariants and action properties
of all modules. Liveness stays with TLC.

All paths below are relative to `src/`.

## 1. Inventory

| Component | State | Operations | Correct when |
|---|---|---|---|
| Region analysis (`rsp_jit.cpp`: `analyze_static_end`, `jit_mark_block_entries`, `get_jit_block`) | none, a function of IMEM | where a region ends, which of its words are labels | both passes agree: every local goto has a label, a region fits the arrays |
| Branch code (`jit_region`, `jit_instruction`, the delay-slot handlers, the thunks) | `has_delay_slot`, `branch_target`, `COND_BRANCH_TAKEN`, frame slots, indirect-PC register | one per branch class, end of block, exit, enter | the guest's control flow is preserved however IMEM is cut into regions |
| Register cache (`RegisterCache`) | per host register: MIPS register, locks, sign state, modified, timestamp | load (three extensions), modify, immediate, unlock, three flushes | no operand is lost, stale or wrongly extended; three host registers suffice |
| Compiled-code cache (`invalidate_imem`, `invalidate_code`, `get_jit_block`) | `cached_imem`, `dirty_blocks`, `blocks`, `cached_blocks` | task start, run, enter, DMA into IMEM | code that runs was compiled from what is in IMEM |
| Allocator (`jit_allocator.cpp`) | lists of reserved blocks | `allocate_code`, `allocate_data` | no page twice, inside the reservation, within jump reach |
| Plugin interface and task loop (`parallel.cpp`) | `SP_STATUS`, `MI_INTR`, `MFC0_count`, `SP_STATUS_TIMEOUT`, `graphics_hle` | `InitiateRSP`, `RomClosed`, `DoRspCycles` | halt, interrupt and BREAK are seen by the right side; a waiting task yields |
| Coprocessor 0 (`rsp/cp0.cpp`) | the CP0 registers, memories | MFC0, MTC0, DMA | as above; DMA moves the right words and marks what it changes |
| Loads and stores (`rsp/ls.cpp`, `rsp_jit.cpp`) | DMEM, vector registers | 11 vector loads, 12 vector stores, 8 scalar ones | every path (byte, half, word, eight and sixteen bytes at once) sees the same big-endian memory and stays in it |
| Coprocessor 2 moves (`rsp/cp2.cpp`, `arch/simd/rsp/rsp_core.cpp`) | vector and flag registers | MTC2, MFC2, CTC2, CFC2, VMOV, the operand shuffle | the bytes named move; the two builds of the shuffle agree |
| Vector unit (`rsp/vfunctions.cpp`, `arch/simd/rsp/v*.h`) | accumulator, VCO, VCC, VCE | one per instruction | saturating 16-bit pieces add up to the exact result; flags connect the right instructions |
| Divisions (`vfunctions.cpp`, `vrcpsq.h`, `vdivh.h`, `rsp/reciprocal.cpp`) | `div_in`, `div_out`, `dp_flag` | VRCP, VRCPL, VRCPH, VRSQ, VRSQL, VRSQH | a quotient is that of the operand the program put together |
| Reference CPU (`debug_rsp.cpp`, `debug_rsp.hpp`, with `llvm_jit.cpp`) | `CPUState`, call stack, one C function per region | `run`, `enter`, `call`, `ret`, the code it emits | the same control flow as the guest: the tests compare the JIT with it |
| Disassembler, test driver, fuzzer, lightning, SSE2NEON | - | - | tools and vendored code |

How they interact. The emulator calls `DoRspCycles`; it marks changed IMEM,
then calls `CPU::run` until the microcode has halted or raised an interrupt.
`CPU::run` drops stale table entries and enters compiled code through the enter
thunk, which calls back into `get_jit_block` for every region. Compiled code
calls C++ for coprocessor and vector instructions; those calls read and write
`CPUState` behind the register cache, and MFC0/MTC0 may make the compiled code
return. Registers and memories are shared with the emulator. Everything runs on
one thread: concurrency here is the alternation of emulator, C++ and compiled
code, each of which changes state the others keep copies of.

What is hard. (1) A branch, its delay slot and its target may be compiled in
three different regions, and a delay slot may hold another branch, be a label,
or stop the RSP. (2) IMEM changes under the table of compiled code, from both
sides. (3) Host registers are copies of memory that C++ code changes. (4) With
one thread, microcode that waits for the CPU waits forever unless the poll
counter gives up. (5) A computation wider than an element is several
instructions that talk through flags, `div_in` and the accumulator, and
anything may stand between them. (6) The same bytes are reached through
word-swapped, half-word-swapped and vector accesses. PROJECT.json lists each
such hazard at its line.

## 2. Modules

| Module | Models | State and actions |
|---|---|---|
| `RegionAnalysis` | region analysis | operators on a program: `AnalyzeStaticEnd`, `RegionEnd`, `BlockEntries` |
| `RspIsa` | what both CPUs promise: the guest's control flow | `pc`, one pending branch; `Execute`, `Leave`, `Resume` |
| `RspJit` | what `jit_region` emits | variables are `CPUState` fields, frame slots and reserved registers; an action per kind of step (`Instruction`, `EndOfBlock`, `Exit`, `EnterThunk`, `Resume`), the delay-slot handlers are operators named as in the code |
| `DebugJit` | the C code that the reference CPU emits, and `run`, `enter`, `call`, `ret` | a stack of active C functions next to the call stack; an action per guest instruction with the glue after it |
| `RegisterCache` | class `RegisterCache` and its callers | compile-time entries and run-time contents change together; an action per operation of the class, driven by one script per family of instructions |
| `CodeCache` | compiled-code cache | an action per entry point: `HostWrite`, `DoRspCycles`, `Run`, `Enter`, `DmaRead`, `Leave`, `Return`, `Initiate` |
| `Allocator` | `jit_allocator.cpp` | `AllocateCode`, `AllocateData` |
| `RspPlugin` | task loop and SP_STATUS | emulator actions, microcode actions (`MFC0_Status`, `MTC0_Status`, `Break`, ...), `RunAgain`, `EndTask` |
| `DmaEngine` | the MTC0 writes to the DMA registers, `rsp_dma_read`, `rsp_dma_write` | the loops' local variables; one step per word copied, and `Run`, where the task loop clears the marks |
| `LoadStore` | vector and scalar loads and stores | DMEM and registers as the host's bytes; one operator per instruction, one action per family |
| `VectorUnit` | one lane of every computational vector instruction | accumulator words, flags, destination; one action per instruction, built from operators named after the SSE operations |
| `ReciprocalRom`, `Divider` | `rsp_reciprocal_rom`, the six divisions | `div_in`, `div_out`, `dp_flag`; one action per instruction, full width |
| `Cop2` | moves, flag packing, VMOV, both bodies of the shuffle | registers as elements, flag registers as masks |
| `CodeCacheProofs`, `RspPluginProofs`, `RspJitProofs`, `DebugJitProofs`, `AllocatorProofs`, `RegisterCacheProofs`, `MemoryProofs` (of `DmaEngine` and `LoadStore`), `Coprocessor2Proofs` (of `VectorUnit`, `Divider` and `Cop2`) | theorems, with their inductive invariants and lemmas | |
| `MC*` | values of the constants for TLC | `MCCoprocessor2` puts `VectorUnit`, `Divider` and `Cop2`, which share no state, next to each other, and `MCMemory` does so with `Allocator` and `LoadStore` |

What composes what. `RspJit`, `DebugJit` and `MCCodeCache` share
`RegionAnalysis`. `RspJit` and `DebugJit` are both compared with `RspIsa`, which
the first implements and the second implements but for finding 4,
under the mappings at their ends (the instance `Guest`): the program counter is
`pc`, `NEXT_PC` or the position in the region; the pending branch is in `CPUState` at the start of a
region and in the condition registers (or the pipe variables) inside it.
`CodeCache` takes the region analysis as a parameter with three assumptions;
`MCCodeCache` instantiates it with the translation of the code, so that TLC
checks the assumptions for it. `CodeCache` treats a DMA into IMEM as one step;
`DmaEngine` instantiates it (the instance `CC`) and states that a transfer,
which takes one step per word and clips, skips and wraps, is such a step, or
`invalidate_code`, or changes nothing `CodeCache` sees (`ImplementsDmaRead`).

Abstractions. An instruction is its control-flow class and target. In
`RspJit` a condition is any Boolean; that its register is not lost is
`RegisterCache`'s business. In `RegisterCache` a value is reduced to whose
current value it is, and to how it is extended above bit 31 (the 64-bit build;
the 32-bit build needs no extension). A hash is any injective function of the
region. In `VectorUnit` an element has `2 * H` values, `H` being 32768 in the
code; one lane stands for eight, because lanes meet only in the shuffle. A word
of `DmaEngine` is an opaque value. The emulator (stores, register writes) is
external and does anything the shared registers allow while the RSP does not
run. Operators whose names carry a suffix (`MoveToOp_NoFlush`) are deliberately
wrong variants that show that the properties can fail; no specification uses
them.

## 3. Runs

| Run | Shows |
|---|---|
| `jit` | programs of six words in three blocks: refinement of `RspIsa`; every goto has a label; regions fit the arrays; no jump through an unwritten register |
| `jit_static_pair` | violation: see finding 1 |
| `jit_blez_entry` | violation: see finding 2 |
| `debug` | the call stack of the reference CPU mirrors the host's stack as long as it has room; it implements `RspIsa` too, but for returns `CPU::ret` did not answer for |
| `debug_return` | violation: see finding 4 |
| `regs` | three host registers, all lost in calls (32-bit builds) or only one of them (64-bit builds): the assertions of the class hold, operands are in place, nothing is stale or lost across calls, sign states are true |
| `cache_coherence` | emulator and DMA rewriting a three-block IMEM: only current code runs |
| `plugin` | halt, interrupt, BREAK and poll counters under every order of emulator and microcode steps; a polling task returns to the emulator |
| `plugin_timeout` | violation: see finding 3 |
| `dma` | two DMAs in a row and the task loop between: rows land where the request says, a clipped read keeps to its memory, a read can be written back, changes of IMEM are marked at every word, and a transfer is `CodeCache`'s `DmaRead` |
| `memory` | the allocator, 32 and 64 bits: pages are disjoint and reserved; on 64 bits code stays in jump reach. Or every load and store at every address and element: bytes in order, big-endian, unaligned pairs, packing and transposition; which stores pass the end of DMEM |
| `cop2` | flag chains give the exact double-width sum, comparison, minimum, maximum and clip, with no carry left over; multiplications treat the three accumulator words as one number; quotients belong to their operands; moves and shuffles are exact |

Bounds and why they are enough.

* JIT: what matters is the order of branch, delay slot, label, region end and
  wrap from the last word to the first. Three blocks of two words give regions
  that end at the limit with a block after them, regions that overlap, and the
  wrap. All eleven classes stand in the last three words, the classes with the
  most delicate glue in the middle four; two link values, one inside and one
  at the end, for indirect jumps. Programs with the two mistranslated shapes
  (findings 1 and 2) are left out by `Translated` in `RspJit`, and only those;
  the theorems use the same `Translated`.
* Reference CPU: four words, a call stack of two and at most three active
  functions, so that it fills up; calls beyond its size stop the behaviour
  (`MaxFrames`). The result of `RSP_RETURN` is either answer at every return,
  as the code leaves it undefined. Two local branches in a row in one region are left out:
  `debug-toolchain/beq-impossible-delay-slot-both-taken.s` says of them that
  they hang the reference (`debug_rsp.cpp:409`). `Translated` in `DebugJit`
  leaves them out, and the JALRs whose link register is their target.
* Register cache: two general registers, `$0`, the condition and two scratch
  registers compete for three host registers, so every eviction happens.
  Registers are interchangeable, hence the symmetry. The sequences of
  instructions are unbounded: the state space is finite.
* Code cache: three blocks, so that a block has a neighbour on each side;
  `FewRegions` bounds the regions ever compiled by four, one more than there
  are words. Since the theorem covers every size, the run's purpose is to find
  mistakes in the model.
* Allocator: pages of four bytes, blocks of two pages, requests of zero bytes,
  less than a page, a page, more than a page and more than a block; four
  requests, enough to fill a block and go on in another. The run stops there
  or when the process aborts, so deadlock is not checked.
* Plugin: timeouts of 3 and 2 stand for 0x7fff and 16, with the counter's type
  as wide as the long timeout, as in the code; two registers to poll into.
* DMA: DMEM and IMEM of four words each, IMEM in two blocks; lengths that do
  and do not need rounding, addresses at the start, unaligned to eight and at
  the last words, up to three rows and three skips; every word is different,
  so that a word in the wrong place shows. Two transfers: the second finds the
  registers and marks the first left.
* Loads and stores: 128 bytes of DMEM stand for 4096: eight rows of sixteen,
  the smallest memory in which a transposition has room; all addresses and a
  few above it. One instruction, the pairs that belong together, and the
  fourteen instructions of a transposition, through rows aligned to sixteen
  bytes and from several of them first. The run is finite, hence no
  deadlock check.
* Coprocessor 2: eight values per element (`H = 4`) with operands at and around
  zero, the sign and the extremes; sequences of lane instructions are
  unbounded. Divisions are at full
  width with the real table, for operands around the changes of exponent; moves
  are sequences of two, at every element, since a move is undone or read by one
  other, and end there. The theorems cover every width, every operand and every
  program.

Fairness. Only `plugin` needs it: weak fairness of `RunAgain` and
`EndTask`, because `DoRspCycles` is a loop that executes, and of the poll while
the microcode is in a wait loop, because compiled code keeps running. Nothing
is assumed of the emulator or of the microcode outside its wait loop.

Findings.

1. `rsp_jit.cpp:567`: when a taken unconditional branch has a conditional
   branch in its delay slot in the same region, the register that holds the
   second condition is used as a scratch register first, and the second branch
   is lost. For a conditional first branch, the case the test in
   `debug-toolchain` exercises, the code does the right thing.
2. `rsp_jit.cpp:1358`: `BLEZ $0` is compiled as unconditional without asking
   whether its delay slot is a label, unlike J, JAL, JR and JALR; a goto to the
   delay slot then takes the branch it jumped past.
3. `parallel.cpp:195`: the shorter timeout that the comment announces is never
   installed, because the poll that times out sets HALT, and HALT returns
   before it.
4. `debug_rsp.cpp:1331`: `RSP_RETURN` is defined `void` and drops what `CPU::ret`
   answers, while the emitted code declares it `int` (line 1136) and returns
   when its result is not zero (line 398). The result is whatever the compiler
   left in the return register. `Return` in `DebugJit` allows both outcomes;
   with the wrong one a JR that does not go to the caller returns to it, or to
   `CPU::run`, which enters the old PC again. `RefinesUnlessMisled` says that
   this is the only step that leaves the guest's control flow, and that what
   follows it is again what the guest does from there. Unwinding where
   returning was possible is harmless.

Facts worth knowing that contradict no document. SLV, SHV, SFV, SWV and STV
mask the address once and add to it afterwards, so in the last bytes of DMEM
they write past its end; `MayPass` in `LoadStore` says exactly when, and
`StaysInDmem` that nothing else does. A DMA clips its first row only, so later
rows may reach the other memory (the precondition of `StaysInBank`), and a
write aligns its address to four bytes where a read aligns to eight (that of
`RoundTrip`). STV and LTV undo each other only in rows aligned to sixteen
bytes: STV rotates a row by the low three bits of its address, LTV by bit three
(a precondition of `TransposeCorrect`, which the proof attempt brought to
light). In the reference CPU a JALR whose link register is its target
register writes the link first; the refinement is about the other JALRs
(`JALR0`). Its call stack forgets calls beyond 32.

## 4. Proofs

Every theorem is about the specification the runs check, with its constants
arbitrary (`MCCoprocessor2` and `MCMemory` run theirs next to each other). Each proof is
an inductive invariant, one lemma per action, and a last step that combines
them. TLC checked the invariants under the run's constants before they were
proved, except `CacheInv`, which quantifies over annotations.

`CodeCacheProofs` proves for every IMEM size, block size and word set, any
region analysis satisfying `StaticEndAssumption` and any hash satisfying
`HashAssumption`:

* `Coherence`: `CoherenceInv` is an invariant;
* `NeverStale`, `TableAlwaysCurrent`: code that runs, and code the table would
  hand out, was compiled from the words in IMEM.

That the compiled code which issued a DMA is left when IMEM was marked is part of
`DmaRead` here, and shown of the DMA engine by `OneStepPerTransfer` below.

"Running code is current" is not inductive: the table is compared with
`cached_imem`, not with IMEM, and may be stale while the emulator has control.
`CoherenceInv` therefore says that each table entry matches `cached_imem`, that
outside the emulator every word that differs from `cached_imem` has marked its
block and the block before it, and that each entry of a hash map is the region
with that hash. The step that matters is `InvalidateCode`: an entry it keeps
belongs to an unmarked block; by `RegionReach` its region lies in that block
and the next, and a difference in either would have marked the entry's block.
This is where the code's `(0x3 << block) >> 1` and the two-block limit of
`get_jit_block` meet. The assumptions: a region is not empty, ends within the
second block boundary, and its end depends only on its own words (evaluated by
TLC for the translation of `analyze_static_end`); the 64-bit hash has no
collisions (which the code trusts as well).

`RspPluginProofs` proves for every register set and every pair of timeouts
that registers keep their types (`TypeCorrect`), that a poll counter never
wraps (`NoWrap`) and that nothing runs while halted (`HaltStops`). The
inductive invariant `PollInv` adds where counts can be: below the timeout
while code runs or the loop is about to go on, and anything non-negative once
a timeout has halted the RSP, because the next task starts from zero.
A second invariant, `ReportInv`, is about what the emulator gets to see:

* `InterruptNotLost`: whenever `DoRspCycles` is back, an interrupt the microcode
  raised has been reported, or BROKE is set and tells the emulator to look;
* `BreakSeen`: after BREAK the emulator finds HALT and BROKE, and with INTR_BREAK
  the interrupt, until it writes SP_STATUS.

It holds only together with the strengthening `BreakStays`, which follows the
bits through the loop, where nobody looks at them yet.

`RspJitProofs` proves for every block size, number of blocks and set of programs
(`BlockAssumption`, `ProgramAssumption`):

* `TypeCorrect`: whatever the program, control never goes to a register or frame
  slot that was not written, and no region is longer than the arrays of
  `jit_region`;
* `GotosHaveLabels`: a goto that the code generator records inside a region meets
  a label that the marking pass asked for;
* `Refinement`: for every program in `Translated`, the generated code implements
  `RspIsa`. A run behaves the same whether a branch, its delay slot and its target
  are compiled in one region or in three.

The inductive invariant `JitInv` ties the region that runs to the program it was
compiled from, says that a branch is latent in `CPUState` only before the first
instruction of a region, and that whoever is going to branch through the
indirect register finds it written. The refinement is one lemma per action and,
inside an instruction, one per delay-slot handler; the two exclusions of
`Translated` are used in one place each, where the condition register is the
scratch register and where BLEZ on `$0` falls into a label. The length of a region
needs what the loop of `analyze_static_end` computes. That loop is a recursive
function; that it exists and stays within its bounds is proved from its
least counterexample (`LeastNatural`), since the library's induction theorems
take operators the provers cannot instantiate.

`DebugJitProofs` proves for every size of IMEM, its blocks and the call stack,
and every set of programs (`DebugAssumption`):

* `TypeCorrect`: locals and the call stack keep their types, and no more calls are
  remembered than there is room for;
* `CallStackExact`: the call stack mirrors the functions active on the host's stack;
* `Refinement`: for every program in its `Translated`, and whatever the emitted
  code makes of the result `RSP_RETURN` drops, a return although `CPU::ret`
  answered no (`Misled`) is the only step that is not one of the guest or
  invisible to it;
* `RefinementWithAnswer`: when that does not happen, the reference CPU implements
  `RspIsa`; both CPUs then promise the same control flow, which is what the
  comparison in the test driver relies on.

The last three assume `[](Len(frames) <= CALL_STACK_SIZE + 1)`, that no call has to go
unrecorded. Without it they are false: `CPU::call` does not push onto a full
stack, and a later return may then take the wrong entry for its own. (In the run
the bound `MaxFrames` implies it.) The invariant `DebugInv` says that each active
function is the region compiled for its first word, that functions waiting for a
callee are past their first instruction with no branch pending, and that an
inherited branch is there only at the first instruction of the only function;
`MirrorInv` adds, for as long as calls are recorded, where each waiting function
goes on.

`AllocatorProofs` proves for every page size, block size, address space and set of
requests, and whatever addresses the system answers with:

* `InsideMemory`: an allocation lies inside a reserved block, also when it fills
  the block or is larger than `block_size`;
* `PagesNotShared`: no page belongs to two allocations;
* `CodeTogether`: on 64 bits all code is in jump reach.

None of them is inductive: an allocation is remembered by its address only.
`AllocInv` adds that blocks do not meet, that what was handed out from a block is
below its offset, that offsets are whole pages, and that on 64 bits there is one
block of code.

`RegisterCacheProofs` proves for every number of host registers from three on,
every number of them that a call destroys and every set of MIPS registers
(`RegisterAssumption`), whatever instructions follow each other:

* `OperandsAlwaysInPlace`: each emitted instruction finds its operands where the
  cache said, extended as it needs them, and each call finds its operand in `sr[]`;
* `FileCoherent`: no value is lost, stale or live twice;
* `SignsTrue`: the extension that the cache believes in is the true one;
* `AssertionsNeverFail`: a register to evict is always found, what is unlocked was
  locked, and no locked register is flushed.

Between two instructions this is a plain invariant (`Always`). Inside one it
depends on what the rest of the instruction's script will do, so the invariant
has the form of an annotated program: `CacheInv` says that there is an
annotation `A`, of which registers are locked, whose value a host register
holds and which MIPS registers are cached, that is true now (`Matches(A)`), and
from which the rest of the script is safe (`Safe(todo, A)`): each of its calls
finds what it needs annotated. One lemma per operation of the class shows that
it makes the next annotation true, and one per instruction gives the annotations
of its script. Three host registers are enough because no script keeps more than
three registers locked at a time.

`MemoryProofs` proves of `DmaEngine`, for memories, blocks, rows, skips and
contents of every size (`DmaAssumption`):

* `MarksComplete`: at every word, what changed in IMEM since the marks were cleared
  is marked, with the block before it;
* `TransferCorrect`: a finished transfer moved what was asked for, in order, and
  nothing else;
* `ReadsStayInBank`: a clipped read does not reach the other memory;
* `WriteUndoesRead`: a read can be written back;
* `OneStepPerTransfer`: a read is one `DmaRead` step of `CodeCache`, which may
  therefore treat a DMA as one step.

`DmaInv` counts the words moved so far and says of each memory that it is what it
was when the transfer began, overwritten by that many words of the request in
their order. It is needed because the code keeps running addresses and counters
per row, never a word number; the arithmetic of rows, words and the wrap at the
end of a memory is in lemmas of its own. For the refinement `MarkInv` adds that
exactly the words written so far are marked, and that none are marked when
compiled code goes on; the words of IMEM a whole read writes are then shown to
be an interval of the ring that `DmaRead` allows for.

And of `LoadStore`, for every DMEM of a multiple of sixteen bytes, at least 128
(`SizeAssumption`), every contents (`ContentsAssumption`) and every program:

* `NoStoreLeavesDmem`: registers and memory stay bytes, and nothing is written past
  DMEM but where `MayPass` says;
* `BytesMoveInOrder`, `ScalarsAreBigEndian`: every path of an instruction moves the
  same bytes in order, wraps at the end, and touches no other;
* `UnalignedQuads`: LQV and LRV, or SQV and SRV, together move sixteen bytes, at
  every address, across the end of DMEM too;
* `PackedBytesComeBack`: the packed stores undo the packed loads;
* `TransposesRegisters`: seven STV and seven LTV transpose eight registers, whatever
  the order of the rows.

`PairInv` says what the first instruction of a pair has left for the second, and
`TransposeInv` which rows hold which diagonals and which elements are back, for
each prefix of a transposition. One lemma per instruction says which bytes it
moves; the address arithmetic (word and half-word swaps, masks, rows) is under it.

`Coprocessor2Proofs` proves of `VectorUnit`, for every element width
(`LaneAssumption`), every set of operands (`OperandAssumption`) and any bitwise operation that yields
elements (`BitAndAssumption`):

* `FlagsBelong`: `ChainInv` is an invariant;
* `CarryIsConsumed`: VCO is clear except between the halves of a computation;
* `SumsAreExact`: VADDC and VADD, or VSUBC and VSUB, give the double-width
  sum or difference, saturated once;
* `ComparesExactly`: VEQ, VNE, VGE and VLT after VSUBC compare double-width
  numbers;
* `MergesExactly`: VMRG after them leaves the double-width minimum or maximum;
* `ClipsAreExact`: VCH and VCL make the double-width clip test, and VCH and VCR
  clip an element to its bounds;
* `TypeCorrect`: whatever runs, each word written is an element again;
* `MultipliesAreExact`: the multiplications and multiply-accumulates set the
  accumulator to the exact number, or add to it, wrapping at three words, and their
  results are clamps of it; VMACQ settles without crossing zero.

`ChainInv` is needed because the last instruction of a chain sees only flags:
it says that the flags are the carry, borrow or comparison of exactly the
operands that the history variable `chain` remembers, whatever instructions
that keep the flags were executed since. For VCH it says (`ClipFlags`) which of
the flags decide the comparison of the high halves, and that VCO and VCE single
out the two sums of high halves, 0 and -1, that leave the decision to the low
halves. The arithmetic is in lemmas of their own: `SaturatedSum` and
`SaturatedDifference` that adding the carry to the operand the code picks does not saturate twice, `CarryIsExact` and
`ComparesDouble` that two halves and a carry are one number.

Of the multiplications, the code only ever has words, so the proof names for each
one the number that its high word stands for before it wraps; the words then make
up the exact product or sum (`ThreeWords`, `Holding`). What is left is where the
hand-made carries could go wrong, and each has its lemma: the upper word of a
signed by unsigned product leaves room for a carry (`MixedWords`), twice a product
plus a carry wraps its middle word only from all ones to zero (`VmacExact`), and
only the square of the smallest element leaves the range of a rounded product,
which is why VMULF may test `vs = vt` (`VmulExact`).

Of `Divider` it proves, for every set of 16-bit elements (`ElementAssumption`) and
every program:

* `DividesItsOperand`: the two halves of a quotient, one in `div_out` and one
  written, belong to the operand the program put together, and the quotient is as
  precise as the table, for every 32-bit operand (a root for operands below 4096).

`DivInv` says that `dp_flag` and `div_in` are what the H instruction just before
gave, if there was one, and that `div_out` and the low half are the quotient of
the last division. That the quotient is precise rests on three facts about the
1024 entries of the table, which the SMT solver checks entry by entry (`RomNear`,
`RomRootOdd`, `RomRootEven`: entry times index is within bounds); the shifts of
`rsp_vrcp_vrsq`, as inequalities about powers of two, carry them to all operands.

Of `Cop2` it proves, for any registers, contents and programs (`MoveAssumption`):

* `MovesAreExact`: MTC2 and MFC2 move the bytes they name, and no other, and CFC2
  returns what CTC2 last wrote, eight bits of it for VCE;
* `BuildsShuffleAlike`: the key table of the SSSE3 build and the four cases of the
  SSE2 build load the lanes that the specifier names.

`MoveInv` says that the masks of a flag register are those `rsp_set_flags` makes of
what CTC2 last wrote; that `rsp_get_flags` undoes them is a lemma (`FlagsBack`).

Only model-checked: `PollingYields`, since liveness under fairness is outside the
prover's reach, and that the translation of `analyze_static_end` satisfies
`StaticEndAssumption` of `CodeCache` for IMEM of other sizes than the runs'. (The
violations of section 3 are TLC's as well.)

## 5. Not modelled

* What scalar ALU instructions compute: one lightning instruction each.
* The RDP command registers, which store a value and call the emulator, and
  SP_SEMAPHORE: its acquisition on read (`rsp/cp0.cpp:58`) is compiled out in
  the plugin build, so reading it changes nothing. The value left in a DMA length
  register for a later read.
* `LWV`: it has a body, but the decoder (`rsp_jit.cpp:1685`) does not reach it.
* Page protections: `commit` (`jit_allocator.cpp:89`) never calls mprotect, so
  it changes nothing. Freeing: code memory and `cached_blocks` only grow.
* The compilation of the reference CPU's C text and the bodies of its
  instructions; a call stack beyond its size.
* Lane instructions of the NEON build: SSE2NEON maps the same intrinsics.
* The disassembler, the dialogs of the plugin, the test driver and fuzzer, GNU
  lightning and SSE2NEON: formatting, tools, or vendored code.

## 6. Plan

Modelling is complete up to section 5, and every safety property the passing runs
check is a theorem. Left: a composition of `RspPlugin` and `CodeCache`, one task
loop with DMA, halts and IMEM changes together.
