----------------------------- MODULE CodeCache ------------------------------
(***************************************************************************)
(* The compiled-code cache of CPU (rsp_jit.cpp): the table "blocks" from   *)
(* IMEM words to compiled regions, the per-word hash maps "cached_blocks"  *)
(* that survive invalidation, and the bookkeeping that keeps the table in  *)
(* step with an IMEM that the emulator writes between tasks and that the   *)
(* RSP overwrites by DMA while compiled code is running.                   *)
(*                                                                         *)
(* Compiled code is represented by what it was compiled from: the function *)
(* that gives the IMEM word at each address of the region.                 *)
(***************************************************************************)
EXTENDS Integers

CONSTANTS
  BlockWords,         \* CODE_BLOCK_WORDS
  CodeBlocks,         \* CODE_BLOCKS
  Value,              \* what an IMEM word can hold
  Zero,               \* the word 0, what cached_imem is initialised with
  StaticEnd(_, _),    \* analyze_static_end(pc, ...) on an IMEM: the end of the region
  Hash(_),            \* hash_imem of the region's words
  NoCode              \* nullptr

ASSUME SizeAssumption ==
  /\ BlockWords \in Nat \ {0}
  /\ CodeBlocks \in Nat \ {0}
  /\ Zero \in Value

ImemWords == BlockWords * CodeBlocks
Word  == 0 .. ImemWords - 1
Block == 0 .. CodeBlocks - 1
Imem  == [Word -> Value]

BlockOf(a) == a \div BlockWords

\* The words of the region get_jit_block compiles at pc, and their contents.
Region(m, pc)  == pc .. StaticEnd(m, pc) - 1
JitRegion(m, pc) == [a \in Region(m, pc) |-> m[a]]

(***************************************************************************)
(* What the cache relies on.  A region starts at pc, is not empty and ends *)
(* before the second block boundary after pc (get_jit_block's "end");      *)
(* where it ends depends on the words inside it only, so the same words    *)
(* give the same region.  Module MCCodeCache instantiates StaticEnd with   *)
(* the translation of analyze_static_end, for which TLC evaluates these.   *)
(***************************************************************************)
ASSUME StaticEndAssumption ==
  \A m \in Imem, pc \in Word :
    /\ StaticEnd(m, pc) \in pc + 1 .. ImemWords
    /\ StaticEnd(m, pc) <= (BlockOf(pc) + 2) * BlockWords
    /\ \A n \in Imem :
         (\A a \in Region(m, pc) : n[a] = m[a]) => StaticEnd(n, pc) = StaticEnd(m, pc)

(***************************************************************************)
(* cached_blocks is keyed by a 64-bit FNV-1 of pc, count and words: the    *)
(* code trusts that different regions have different hashes.               *)
(***************************************************************************)
ASSUME HashAssumption ==
  \A m, n \in Imem, pc \in Word :
    /\ Hash(JitRegion(m, pc)) = Hash(JitRegion(n, pc)) => JitRegion(m, pc) = JitRegion(n, pc)
    /\ JitRegion(m, pc) # NoCode

VARIABLES
  imem,            \* the memory the emulator and the RSP share
  cached_imem,     \* the contents the table was last brought in step with
  dirty_blocks,    \* CPUState.dirty_blocks, as a set of block numbers
  blocks,          \* word -> compiled code or NoCode
  cached_blocks,   \* word -> (hash -> compiled code)
  phase,           \* "host"; "loop": DoRspCycles, between two calls of CPU::run;
                   \* "exec": in compiled code called from CPU::run
  entry, running   \* the word last entered and the code it runs, or NoCode

memVars   == <<imem, cached_imem, dirty_blocks>>
tableVars == <<blocks, cached_blocks>>
execVars  == <<phase, entry, running>>
vars == <<imem, cached_imem, dirty_blocks, blocks, cached_blocks, phase, entry, running>>

-----------------------------------------------------------------------------
\* (0x3 << i) >> 1: block i and the block before it, whose regions reach into i.
DirtyMask(i) == {i, i - 1} \cap Block

InvalidateImem ==
  dirty_blocks' = dirty_blocks \cup
    UNION {DirtyMask(BlockOf(a)) : a \in {w \in Word : cached_imem[w] # imem[w]}}

\* Mutant: cached_imem is not brought in step.
InvalidateCode_StaleCopy ==
  /\ blocks' = [a \in Word |-> IF BlockOf(a) \in dirty_blocks THEN NoCode ELSE blocks[a]]
  /\ dirty_blocks' = {}
  /\ UNCHANGED cached_imem

\* Mutant: the table entries are kept.
InvalidateCode_KeepsTable ==
  /\ cached_imem' = [a \in Word |-> IF BlockOf(a) \in dirty_blocks
                                    THEN imem[a] ELSE cached_imem[a]]
  /\ dirty_blocks' = {}
  /\ UNCHANGED blocks

InvalidateCode ==
  /\ blocks' = [a \in Word |-> IF BlockOf(a) \in dirty_blocks THEN NoCode ELSE blocks[a]]
  /\ cached_imem' = [a \in Word |-> IF BlockOf(a) \in dirty_blocks
                                    THEN imem[a] ELSE cached_imem[a]]
  /\ dirty_blocks' = {}

\* The code for pc in the hash map, compiled now if it is not there.
LookupOrCompile(pc) ==
  LET code == JitRegion(imem, pc)
      hash == Hash(code)
  IN  IF hash \in DOMAIN cached_blocks[pc] THEN cached_blocks[pc][hash] ELSE code

GetJitBlock(pc) ==
  IF blocks[pc] # NoCode
  THEN running' = blocks[pc] /\ UNCHANGED tableVars
  ELSE /\ running' = LookupOrCompile(pc)
       /\ blocks' = [blocks EXCEPT ![pc] = LookupOrCompile(pc)]
       /\ cached_blocks' = [cached_blocks EXCEPT ![pc] =
            [h \in DOMAIN cached_blocks[pc] \cup {Hash(JitRegion(imem, pc))} |->
               IF h \in DOMAIN cached_blocks[pc] THEN cached_blocks[pc][h]
               ELSE JitRegion(imem, pc)]]

-----------------------------------------------------------------------------
\* The emulator stores to IMEM, or runs a DMA of its own, while the RSP waits.
HostWrite(a, v) ==
  /\ phase = "host"
  /\ imem' = [imem EXCEPT ![a] = v]
  /\ UNCHANGED <<cached_imem, dirty_blocks, tableVars, execVars>>

\* DoRspCycles up to its loop.
DoRspCycles ==
  /\ phase = "host"
  /\ phase' = "loop"
  /\ InvalidateImem
  /\ UNCHANGED <<imem, cached_imem, tableVars, entry, running>>

\* CPU::run up to the call of the enter thunk.
Run ==
  /\ phase = "loop"
  /\ phase' = "exec"
  /\ InvalidateCode
  /\ running' = NoCode
  /\ UNCHANGED <<imem, cached_blocks, entry>>

\* The enter thunk, with control arriving at word pc.
Enter(pc) ==
  /\ phase = "exec"
  /\ entry' = pc
  /\ GetJitBlock(pc)
  /\ UNCHANGED <<memVars, phase>>

(***************************************************************************)
(* MTC0 SP_RD_LEN: rsp_dma_read copies data to consecutive words of IMEM   *)
(* starting at a, marks their blocks, and makes the compiled code return   *)
(* to DoRspCycles because dirty_blocks is not zero.  Rows follow each other*)
(* without a gap and addresses wrap at 0x2000, so what a DMA writes in     *)
(* IMEM, going through DMEM or not, is a cyclic interval of words.         *)
(***************************************************************************)
DmaRead(a, data) ==
  LET dest == {(a + k) % ImemWords : k \in DOMAIN data}
  IN  /\ phase = "exec" /\ running # NoCode
      /\ imem' = [w \in Word |-> IF w \in dest THEN data[(w - a) % ImemWords] ELSE imem[w]]
      /\ dirty_blocks' = dirty_blocks \cup UNION {DirtyMask(BlockOf(w)) : w \in dest}
      /\ phase' = "loop"
      /\ running' = NoCode
      /\ UNCHANGED <<cached_imem, tableVars, entry>>

\* CPU::run returns for any other reason: BREAK, a halt, a flag to be checked.
Leave ==
  /\ phase = "exec" /\ running # NoCode
  /\ phase' = "loop"
  /\ running' = NoCode
  /\ UNCHANGED <<memVars, tableVars, entry>>

\* DoRspCycles leaves its loop: halted, or an interrupt to deliver.
Return ==
  /\ phase = "loop"
  /\ phase' = "host"
  /\ UNCHANGED <<memVars, tableVars, entry, running>>

\* RomClosed and InitiateRSP: a new CPU, on the same IMEM.
Initiate ==
  /\ phase = "host"
  /\ cached_imem' = [a \in Word |-> Zero]
  /\ dirty_blocks' = {}
  /\ blocks' = [a \in Word |-> NoCode]
  /\ cached_blocks' = [a \in Word |-> [h \in {} |-> NoCode]]
  /\ UNCHANGED <<imem, execVars>>

\* The words a DMA brings: at least one and at most the whole of IMEM.
DmaData == UNION {[0 .. n -> Value] : n \in 0 .. ImemWords - 1}

Init ==
  /\ imem \in Imem
  /\ cached_imem = [a \in Word |-> Zero]
  /\ dirty_blocks = {}
  /\ blocks = [a \in Word |-> NoCode]
  /\ cached_blocks = [a \in Word |-> [h \in {} |-> NoCode]]
  /\ phase = "host"
  /\ entry = 0
  /\ running = NoCode

Next ==
  \/ \E a \in Word, v \in Value : HostWrite(a, v)
  \/ DoRspCycles
  \/ Run
  \/ \E pc \in Word : Enter(pc)
  \/ \E a \in Word, data \in DmaData : DmaRead(a, data)
  \/ Leave
  \/ Return
  \/ Initiate

Spec == Init /\ [][Next]_vars

-----------------------------------------------------------------------------
(***************************************************************************)
(* Properties.                                                             *)
(***************************************************************************)
Code == {JitRegion(m, pc) : m \in Imem, pc \in Word}

\* The table and the hash maps hold compiled regions or nothing.
TypeOK ==
  /\ imem \in Imem /\ cached_imem \in Imem
  /\ dirty_blocks \subseteq Block
  /\ blocks \in [Word -> Code \cup {NoCode}]
  /\ DOMAIN cached_blocks = Word
  /\ phase \in {"host", "loop", "exec"}
  /\ entry \in Word
  /\ running \in Code \cup {NoCode}

(***************************************************************************)
(* The code that runs was compiled from the words that are in IMEM now, at *)
(* the address it was entered at, whatever the emulator and earlier DMA    *)
(* wrote and however often the words changed back and forth                *)
(* (invalidate_imem, invalidate_code, rsp_dma_read, get_jit_block).        *)
(***************************************************************************)
RunsCurrentCode == running # NoCode => running = JitRegion(imem, entry)

(***************************************************************************)
(* When compiled code is about to run, everything the table can hand out   *)
(* without looking at IMEM again is up to date.                            *)
(***************************************************************************)
TableIsCurrent ==
  phase = "exec" => \A pc \in Word : blocks[pc] # NoCode => blocks[pc] = JitRegion(imem, pc)

(***************************************************************************)
(* The parts of the inductive invariant.  Each table entry matches         *)
(* cached_imem; outside "host" a word that differs from cached_imem has    *)
(* marked its block and the one before; a hash map entry is the region     *)
(* with that hash.                                                         *)
(***************************************************************************)
TableMatchesCache ==
  \A pc \in Word : blocks[pc] # NoCode => blocks[pc] = JitRegion(cached_imem, pc)

ChangesAreMarked ==
  phase # "host" =>
    \A a \in Word : imem[a] # cached_imem[a] => DirtyMask(BlockOf(a)) \subseteq dirty_blocks

HashMapsSound ==
  \A pc \in Word : \A h \in DOMAIN cached_blocks[pc] :
    \E m \in Imem : cached_blocks[pc][h] = JitRegion(m, pc) /\ h = Hash(JitRegion(m, pc))

CoherenceInv ==
  /\ TypeOK
  /\ TableMatchesCache
  /\ ChangesAreMarked
  /\ HashMapsSound
  /\ phase = "exec" => dirty_blocks = {}
  /\ phase # "exec" => running = NoCode
  /\ RunsCurrentCode

=============================================================================
