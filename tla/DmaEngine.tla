------------------------------ MODULE DmaEngine -----------------------------
(***************************************************************************)
(* The DMA engine of coprocessor 0 (rsp/cp0.cpp): the MTC0 writes to the   *)
(* four DMA registers, and the loops of rsp_dma_read and rsp_dma_write     *)
(* that copy rows of words between RDRAM and the RSP's own memory, one     *)
(* step per word.  Around it stands as much of the task loop as decides    *)
(* what becomes of the marks: compiled code runs until a write returns     *)
(* MODE_CHECK_FLAGS, and CPU::run clears the marks (invalidate_code).      *)
(*                                                                         *)
(* DMEM and IMEM are one memory of words, as the engine addresses them     *)
(* (bit 0x1000 selects IMEM).  Registers, rows and skips are in bytes.     *)
(***************************************************************************)
EXTENDS Integers

CONSTANTS
  BlockWords,    \* CODE_BLOCK_WORDS
  CodeBlocks,    \* CODE_BLOCKS
  RdramWords,    \* the words the address mask 0x7FFFFC reaches
  Value,         \* what a word can hold
  CacheInputs, DramInputs,                \* values written to the address registers
  LengthInputs, CountInputs, SkipInputs,  \* the fields of a length register
  MaxDma,        \* bound on the transfers of a behaviour
  InitSpMem, InitRdram

BankWords == BlockWords * CodeBlocks      \* DMEM, or IMEM
Bank  == 4 * BankWords                    \* 0x1000
Word  == 0 .. 2 * BankWords - 1
Rword == 0 .. RdramWords - 1
ImemWord == BankWords .. 2 * BankWords - 1
Block == 0 .. CodeBlocks - 1
LengthReg == [len : LengthInputs, count : CountInputs, skip : SkipInputs]

ASSUME DmaAssumption ==
  /\ BlockWords \in Nat \ {0} /\ CodeBlocks \in Nat \ {0} /\ RdramWords \in Nat \ {0}
  /\ CacheInputs \subseteq Nat /\ DramInputs \subseteq Nat /\ MaxDma \in Nat
  /\ LengthInputs \subseteq Nat /\ CountInputs \subseteq Nat /\ SkipInputs \subseteq Nat
  /\ InitSpMem \in [Word -> Value] /\ InitRdram \in [Rword -> Value]

VARIABLES
  spmem, rdram,               \* the two memories
  DMA_CACHE, DMA_DRAM,        \* the address registers
  dirty_blocks,               \* CPUState.dirty_blocks, a set of blocks of IMEM
  mode,                       \* what MTC0 returned last to the compiled code
  op,                         \* "idle", "read" or "write": the loop that is running
  length, skip, count, i, j, source, dest,   \* its local variables
  shadow,                     \* history: the memory when dirty_blocks was last cleared
  last, prior,                \* history: the last transfer and the one before it
  transfers                   \* the number of transfers so far

addrRegs == <<DMA_CACHE, DMA_DRAM>>
locals   == <<length, skip, count, i, j, source, dest>>
history  == <<shadow, last, prior>>
vars == <<spmem, rdram, addrRegs, dirty_blocks, mode, op, locals, history, transfers>>

Align(x, n) == x - (x % n)
SpWord(x) == (x \div 4) % (2 * BankWords)     \* (x & 0x1FFC) >> 2
RdWord(x) == (x \div 4) % RdramWords          \* (x & 0x7FFFFC) >> 2

\* Mutant: only the block that was written is marked.
DirtyMask_OneBlock(w) == {(w - BankWords) \div BlockWords}

\* (0x3 << block) >> 1 for the block of IMEM word w.
DirtyMask(w) ==
  {(w - BankWords) \div BlockWords, (w - BankWords) \div BlockWords - 1} \cap Block

\* Mutant: the length is not clipped.
RowLength_Unclipped(cache, len) == Align(len + 1 + 7, 8)

\* The bytes of a row: rounded up to 8 and clipped at the end of the bank.
RowLength(cache, len) ==
  LET rounded == Align(len + 1 + 7, 8)
  IN  IF (cache % Bank) + rounded > Bank THEN Bank - (cache % Bank) ELSE rounded

-----------------------------------------------------------------------------
(***************************************************************************)
(* MTC0 to an address register.                                            *)
(***************************************************************************)
Mtc0Cache(v) ==
  /\ op = "idle" /\ mode = "MODE_CONTINUE"
  /\ DMA_CACHE' = v % (2 * Bank)
  /\ UNCHANGED <<spmem, rdram, DMA_DRAM, dirty_blocks, mode, op, locals, history, transfers>>

Mtc0Dram(v) ==
  /\ op = "idle" /\ mode = "MODE_CONTINUE"
  /\ DMA_DRAM' = v
  /\ UNCHANGED <<spmem, rdram, DMA_CACHE, dirty_blocks, mode, op, locals, history, transfers>>

\* What both transfers do with the length register and the aligned addresses.
Begin(kind, reg, cache, dram) ==
  /\ op = "idle" /\ mode = "MODE_CONTINUE" /\ transfers < MaxDma
  /\ op' = kind
  /\ DMA_CACHE' = cache /\ DMA_DRAM' = dram
  /\ length' = RowLength(cache, reg.len)
  /\ skip' = reg.skip /\ count' = reg.count
  /\ i' = 0 /\ j' = 0
  /\ transfers' = transfers + 1
  /\ prior' = last
  /\ last' = [kind |-> kind, reg |-> reg, set |-> addrRegs, cache |-> cache, dram |-> dram,
              length |-> length', spmem |-> spmem, rdram |-> rdram]
  /\ UNCHANGED <<spmem, rdram, dirty_blocks, mode, shadow>>

\* MTC0 to DMA_READ_LENGTH, up to the loop of rsp_dma_read.
StartRead(reg) ==
  LET cache == Align(DMA_CACHE, 8)
      dram  == Align(DMA_DRAM, 8)
  IN  Begin("read", reg, cache, dram) /\ source' = dram /\ dest' = cache

\* Mutant: DMA_DRAM is aligned like DMA_CACHE.
StartWrite_AlignsLess(reg) ==
  LET cache == Align(DMA_CACHE, 4)
      dram  == Align(DMA_DRAM, 4)
  IN  Begin("write", reg, cache, dram) /\ source' = cache /\ dest' = dram

\* MTC0 to DMA_WRITE_LENGTH: DMA_CACHE is aligned to 4, not to 8.
StartWrite(reg) ==
  LET cache == Align(DMA_CACHE, 4)
      dram  == Align(DMA_DRAM, 8)
  IN  Begin("write", reg, cache, dram) /\ source' = cache /\ dest' = dram

(***************************************************************************)
(* The ends of the two do-while loops: the next word, the next row, or the *)
(* registers as the transfer leaves them, unmasked.                        *)
(***************************************************************************)
NextWord ==
  /\ j + 4 < length
  /\ j' = j + 4
  /\ UNCHANGED <<i, source, dest, op, addrRegs, mode>>

NextRow(sourceStep, destStep) ==
  /\ j + 4 >= length /\ i + 1 <= count
  /\ j' = 0 /\ i' = i + 1
  /\ source' = source + sourceStep /\ dest' = dest + destStep
  /\ UNCHANGED <<op, addrRegs, mode>>

LastRow(sourceStep, destStep) ==
  /\ j + 4 >= length /\ i + 1 > count
  /\ j' = 0 /\ i' = i + 1
  /\ source' = source + sourceStep /\ dest' = dest + destStep
  /\ op' = "idle"

\* Mutant: the code is left also when IMEM was not touched.
ReadWord_Leaves ==
  LET w == SpWord(dest + j)
  IN  /\ op = "read"
      /\ spmem' = [spmem EXCEPT ![w] = rdram[RdWord(source + j)]]
      /\ dirty_blocks' = dirty_blocks \cup (IF w \in ImemWord THEN DirtyMask(w) ELSE {})
      /\ \/ NextWord
         \/ NextRow(length + skip, length)
         \/ /\ LastRow(length + skip, length)
            /\ DMA_DRAM' = source' /\ DMA_CACHE' = dest'
            /\ mode' = "MODE_CHECK_FLAGS"
      /\ UNCHANGED <<rdram, length, skip, count, history, transfers>>

\* One word of rsp_dma_read.
ReadWord ==
  LET w == SpWord(dest + j)
  IN  /\ op = "read"
      /\ spmem' = [spmem EXCEPT ![w] = rdram[RdWord(source + j)]]
      /\ dirty_blocks' = dirty_blocks \cup (IF w \in ImemWord THEN DirtyMask(w) ELSE {})
      /\ \/ NextWord
         \/ NextRow(length + skip, length)
         \/ /\ LastRow(length + skip, length)
            /\ DMA_DRAM' = source' /\ DMA_CACHE' = dest'
            /\ mode' = IF dirty_blocks' # {} THEN "MODE_CHECK_FLAGS" ELSE "MODE_CONTINUE"
      /\ UNCHANGED <<rdram, length, skip, count, history, transfers>>

\* Mutant: the skip is applied on the wrong side.
WriteWord_SkipsSource ==
  /\ op = "write"
  /\ rdram' = [rdram EXCEPT ![RdWord(dest + j)] = spmem[SpWord(source + j)]]
  /\ \/ NextWord
     \/ NextRow(length + skip, length)
     \/ /\ LastRow(length + skip, length)
        /\ DMA_CACHE' = source' /\ DMA_DRAM' = dest'
        /\ mode' = "MODE_CONTINUE"
  /\ UNCHANGED <<spmem, dirty_blocks, length, skip, count, history, transfers>>

\* One word of rsp_dma_write, which is always followed by MODE_CONTINUE.
WriteWord ==
  /\ op = "write"
  /\ rdram' = [rdram EXCEPT ![RdWord(dest + j)] = spmem[SpWord(source + j)]]
  /\ \/ NextWord
     \/ NextRow(length, length + skip)
     \/ /\ LastRow(length, length + skip)
        /\ DMA_CACHE' = source' /\ DMA_DRAM' = dest'
        /\ mode' = "MODE_CONTINUE"
  /\ UNCHANGED <<spmem, dirty_blocks, length, skip, count, history, transfers>>

\* DoRspCycles calls CPU::run again, whose invalidate_code clears the marks
\* and copies IMEM.
Run ==
  /\ op = "idle" /\ mode = "MODE_CHECK_FLAGS"
  /\ dirty_blocks' = {}
  /\ shadow' = spmem
  /\ mode' = "MODE_CONTINUE"
  /\ UNCHANGED <<spmem, rdram, addrRegs, op, locals, last, prior, transfers>>

NoTransfer == [kind |-> "none"]

Init ==
  /\ spmem = InitSpMem /\ rdram = InitRdram
  /\ DMA_CACHE = 0 /\ DMA_DRAM = 0
  /\ dirty_blocks = {}
  /\ mode = "MODE_CONTINUE" /\ op = "idle"
  /\ length = 0 /\ skip = 0 /\ count = 0 /\ i = 0 /\ j = 0 /\ source = 0 /\ dest = 0
  /\ shadow = spmem
  /\ last = NoTransfer /\ prior = NoTransfer
  /\ transfers = 0

Next ==
  \/ \E v \in CacheInputs : Mtc0Cache(v)
  \/ \E v \in DramInputs : Mtc0Dram(v)
  \/ \E reg \in LengthReg : StartRead(reg) \/ StartWrite(reg)
  \/ ReadWord
  \/ WriteWord
  \/ Run

Spec == Init /\ [][Next]_vars

-----------------------------------------------------------------------------
(***************************************************************************)
(* Properties.                                                             *)
(***************************************************************************)
\* The memories keep their shape (no index leaves them), the registers and
\* loop variables are naturals.
TypeOK ==
  /\ spmem \in [Word -> Value] /\ shadow \in [Word -> Value]
  /\ rdram \in [Rword -> Value]
  /\ DMA_CACHE \in Nat /\ DMA_DRAM \in Nat
  /\ dirty_blocks \subseteq Block
  /\ mode \in {"MODE_CONTINUE", "MODE_CHECK_FLAGS"}
  /\ op \in {"idle", "read", "write"}
  /\ length \in Nat /\ skip \in Nat /\ count \in Nat
  /\ i \in Nat /\ j \in Nat /\ source \in Nat /\ dest \in Nat

\* The k-th word of the last transfer, counted over all rows.
Progress == 0 .. (last.reg.count + 1) * (last.length \div 4) - 1
SpEnd(k) == SpWord(last.cache + 4 * k)
RdEnd(k) ==
  LET perRow == last.length \div 4
  IN  RdWord(last.dram + (k \div perRow) * (last.length + last.reg.skip) + 4 * (k % perRow))

\* A memory is what it was before, with each word set by the last k that goes there.
Filled(new, old, To(_), From(_)) ==
  \A w \in DOMAIN old :
    \/ new[w] = old[w] /\ \A k \in Progress : To(k) # w
    \/ \E k \in Progress :
         /\ To(k) = w /\ new[w] = From(k)
         /\ \A l \in Progress : l > k => To(l) # w

(***************************************************************************)
(* A finished transfer has moved every row, each of its words, to where    *)
(* the request says, in order, and nothing else: count + 1 rows of the     *)
(* clipped length, consecutive in the RSP's memory and "skip" apart in     *)
(* RDRAM (rsp_dma_read, rsp_dma_write).                                    *)
(***************************************************************************)
TransferExact ==
  op = "idle" =>
    CASE last.kind = "read" ->
           /\ rdram = last.rdram
           /\ Filled(spmem, last.spmem, SpEnd, LAMBDA k : last.rdram[RdEnd(k)])
      [] last.kind = "write" ->
           /\ spmem = last.spmem
           /\ Filled(rdram, last.rdram, RdEnd, LAMBDA k : last.spmem[SpEnd(k)])
      [] OTHER -> TRUE

(***************************************************************************)
(* A read whose request is one row, or whose rows fit together between     *)
(* DMA_CACHE and the end of the bank, leaves the other bank alone: a DMA   *)
(* to DMEM does not reach the program (the clipping in rsp_dma_read, which *)
(* looks at the first row only).                                           *)
(***************************************************************************)
InOtherBank(w) == w \div BankWords # SpWord(last.cache) \div BankWords

StaysInBank ==
  (last.kind = "read"
   /\ (last.reg.count = 0
       \/ (last.cache % Bank) + (last.reg.count + 1) * last.length <= Bank))
  => \A w \in Word : InOtherBank(w) => spmem[w] = last.spmem[w]

(***************************************************************************)
(* At every moment a word of IMEM that differs from what invalidate_code   *)
(* last saw has its block and the block before it marked: whoever returns  *)
(* to the task loop finds all that has to be dropped.  No index leaves the *)
(* memories and no mark the blocks (TypeOK).                               *)
(***************************************************************************)
MarksCoverChanges ==
  /\ TypeOK
  /\ \A w \in ImemWord : spmem[w] # shadow[w] =>
       \A b \in Block : (w - BankWords) \div BlockWords \in {b, b + 1} => b \in dirty_blocks

(***************************************************************************)
(* What was read in can be written back: a write with the registers of the *)
(* read before it changes nothing in RDRAM, if DMA_CACHE was a multiple of *)
(* 8 (a write aligns it to 4 only) and the rows fit into the 8 KB.         *)
(***************************************************************************)
RoundTrip ==
  (/\ op = "idle" /\ last.kind = "write" /\ prior.kind = "read"
   /\ last.reg = prior.reg /\ last.set = prior.set /\ last.set[1] % 8 = 0
   /\ (last.reg.count + 1) * last.length <= 2 * Bank)
  => rdram = last.rdram

-----------------------------------------------------------------------------
(***************************************************************************)
(* CodeCache, for which a transfer is one step that happens when it ends.  *)
(* What is compiled and how code is named does not matter to a transfer:   *)
(* regions are one word, the hash of code is the code.                     *)
(***************************************************************************)
OneWord(m, pc) == pc + 1
CodeItself(code) == code

CC == INSTANCE CodeCache WITH
        Zero <- InitSpMem[0], NoCode <- "no code", StaticEnd <- OneWord, Hash <- CodeItself,
        imem <- [a \in 0 .. BankWords - 1 |->
                   IF op = "read" THEN last.spmem[BankWords + a] ELSE spmem[BankWords + a]],
        cached_imem <- [a \in 0 .. BankWords - 1 |-> shadow[BankWords + a]],
        dirty_blocks <- IF op = "read" THEN {} ELSE dirty_blocks,
        blocks <- [a \in 0 .. BankWords - 1 |-> "no code"],
        cached_blocks <- [a \in 0 .. BankWords - 1 |-> [h \in {} |-> "no code"]],
        phase <- IF mode = "MODE_CONTINUE" THEN "exec" ELSE "loop",
        entry <- 0,
        running <- IF mode = "MODE_CONTINUE" THEN "code" ELSE "no code"

\* CodeCache!DmaRead of n + 1 words to IMEM word a, whatever the words are.
DmaReadTo(a, n) ==
  CC!DmaRead(a, [k \in 0 .. n |-> spmem'[BankWords + ((a + k) % BankWords)]])

IsDmaRead == \E a \in 0 .. BankWords - 1, n \in 0 .. BankWords - 1 : DmaReadTo(a, n)

(***************************************************************************)
(* Nothing the engine does is more than CodeCache allows for: a step is    *)
(* CodeCache!DmaRead (the IMEM words a whole read writes, through whatever *)
(* bank and however often it wraps, are a cyclic interval; they are all    *)
(* marked and nothing else is; the code is left), or invalidate_code in    *)
(* CPU::run, for which copying the marked blocks is as good as copying     *)
(* IMEM, or changes nothing that CodeCache sees.                           *)
(***************************************************************************)
ImplementsDmaRead ==
  [][UNCHANGED CC!vars \/ IsDmaRead \/ (Run /\ CC!InvalidateCode)]_vars

=============================================================================
