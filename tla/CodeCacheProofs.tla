-------------------------- MODULE CodeCacheProofs ---------------------------
(***************************************************************************)
(* Compiled code is coherent with IMEM, for every block size, number of    *)
(* blocks, instruction set and region analysis that satisfy the            *)
(* assumptions of CodeCache.                                               *)
(***************************************************************************)
EXTENDS CodeCache, TLAPS

\* Integer division by the block size rounds down.
LEMMA DivBounds ==
  ASSUME NEW a \in Nat
  PROVE  /\ BlockOf(a) \in Nat
         /\ BlockOf(a) * BlockWords <= a
         /\ a < (BlockOf(a) + 1) * BlockWords
BY SizeAssumption DEF BlockOf

\* Multiplication by the block size preserves order.
LEMMA BlockStartsMonotone ==
  ASSUME NEW x \in Int, NEW y \in Int, x <= y
  PROVE  x * BlockWords <= y * BlockWords
BY SizeAssumption

\* Every word of IMEM lies in one of the code blocks.
LEMMA BlockOfWord ==
  ASSUME NEW a \in Word
  PROVE  a \in Nat /\ BlockOf(a) \in Block
<1>1. a \in Nat /\ a < CodeBlocks * BlockWords
  BY SizeAssumption DEF Word, ImemWords
<1>2. BlockOf(a) \in Nat /\ BlockOf(a) * BlockWords <= a
  BY <1>1, DivBounds
<1>3. BlockOf(a) < CodeBlocks
  <2>1. SUFFICES ASSUME CodeBlocks <= BlockOf(a) PROVE FALSE
    BY <1>2, SizeAssumption
  <2>2. CodeBlocks * BlockWords <= BlockOf(a) * BlockWords
    BY <1>2, <2>1, BlockStartsMonotone, SizeAssumption
  <2>3. CodeBlocks * BlockWords \in Int /\ BlockOf(a) * BlockWords \in Int
    BY <1>2, SizeAssumption
  <2> QED  BY <1>1, <1>2, <2>2, <2>3
<1> QED  BY <1>1, <1>2, <1>3, SizeAssumption DEF Block

(***************************************************************************)
(* A region reaches at most into the block after the one it starts in:     *)
(* this is why (0x3 << i) >> 1 marks enough.                               *)
(***************************************************************************)
LEMMA RegionReach ==
  ASSUME NEW m \in Imem, NEW pc \in Word, NEW a \in Region(m, pc)
  PROVE  a \in Word /\ BlockOf(a) \in {BlockOf(pc), BlockOf(pc) + 1}
<1>1. /\ StaticEnd(m, pc) \in pc + 1 .. ImemWords
      /\ StaticEnd(m, pc) <= (BlockOf(pc) + 2) * BlockWords
  BY StaticEndAssumption
<1>2. ImemWords \in Nat
  BY SizeAssumption DEF ImemWords
<1>3. pc \in Nat /\ BlockOf(pc) \in Nat
  BY BlockOfWord, DivBounds
<1>4. a \in Word /\ pc <= a /\ a < (BlockOf(pc) + 2) * BlockWords
  <2>1. (BlockOf(pc) + 2) * BlockWords \in Int
    BY <1>3, SizeAssumption
  <2> QED  BY <1>1, <1>2, <1>3, <2>1 DEF Region, Word
<1>5. /\ a \in Nat /\ BlockOf(a) \in Nat
      /\ BlockOf(a) * BlockWords <= a /\ a < (BlockOf(a) + 1) * BlockWords
      /\ BlockOf(pc) * BlockWords <= pc /\ pc < (BlockOf(pc) + 1) * BlockWords
  BY <1>3, <1>4, BlockOfWord, DivBounds
<1> DEFINE p == BlockOf(pc)
           q == BlockOf(a)
<1>6. /\ p \in Nat /\ q \in Nat
      /\ q * BlockWords <= a /\ a < (q + 1) * BlockWords
      /\ p * BlockWords <= pc /\ a < (p + 2) * BlockWords
  BY <1>3, <1>4, <1>5
<1>7. BlockWords \in Nat
  BY SizeAssumption
<1> HIDE DEF p, q
<1>8. q < p + 2
  <2>1. SUFFICES ASSUME p + 2 <= q PROVE FALSE  BY <1>6
  <2>2. (p + 2) * BlockWords <= q * BlockWords
    BY <1>6, <2>1, BlockStartsMonotone
  <2> QED  BY <1>5, <1>6, <1>7, <2>2
<1>9. p < q + 1
  <2>1. SUFFICES ASSUME q + 1 <= p PROVE FALSE  BY <1>6
  <2>2. (q + 1) * BlockWords <= p * BlockWords
    BY <1>6, <2>1, BlockStartsMonotone
  <2> QED  BY <1>3, <1>4, <1>5, <1>6, <1>7, <2>2
<1>10. q \in {p, p + 1}
  BY <1>6, <1>8, <1>9
<1> QED  BY <1>4, <1>10 DEF p, q

\* The same words in a region give the same compiled region.
LEMMA SameWordsSameRegion ==
  ASSUME NEW m \in Imem, NEW n \in Imem, NEW pc \in Word,
         \A a \in Region(m, pc) : n[a] = m[a]
  PROVE  JitRegion(n, pc) = JitRegion(m, pc)
<1>1. StaticEnd(n, pc) = StaticEnd(m, pc)
  BY StaticEndAssumption
<1>2. Region(n, pc) = Region(m, pc)
  BY <1>1 DEF Region
<1> QED  BY <1>2 DEF JitRegion

\* A word marks its own block, and the block before it when there is one.
LEMMA MaskContents ==
  ASSUME NEW i \in Block
  PROVE  i \in DirtyMask(i) /\ DirtyMask(i) \subseteq Block /\ (i - 1 \in Block => i - 1 \in DirtyMask(i))
BY DEF DirtyMask

-----------------------------------------------------------------------------
(***************************************************************************)
(* When nothing is marked outside "host", IMEM is what cached_imem says.   *)
(***************************************************************************)
LEMMA CleanMeansEqual ==
  ASSUME TypeOK, ChangesAreMarked, phase # "host", dirty_blocks = {}
  PROVE  cached_imem = imem
<1>1. ASSUME NEW a \in Word PROVE imem[a] = cached_imem[a]
  <2>1. BlockOf(a) \in DirtyMask(BlockOf(a))
    BY BlockOfWord, MaskContents
  <2> QED  BY <2>1 DEF ChangesAreMarked
<1> QED  BY <1>1 DEF TypeOK, Imem

(***************************************************************************)
(* invalidate_code keeps the entries of the blocks that are not marked,    *)
(* and they still match the updated cached_imem: a region that reaches     *)
(* into a marked block from an unmarked one has none of its words changed. *)
(***************************************************************************)
LEMMA InvalidateCodeKeepsMatch ==
  ASSUME TypeOK, TableMatchesCache, ChangesAreMarked, phase = "loop", InvalidateCode
  PROVE  TableMatchesCache' /\ cached_imem' = imem
<1>1. cached_imem \in Imem /\ imem \in Imem
  BY DEF TypeOK
<1>2. ASSUME NEW a \in Word PROVE cached_imem'[a] = imem[a]
  <2>1. BlockOf(a) \in DirtyMask(BlockOf(a))
    BY BlockOfWord, MaskContents
  <2>2. BlockOf(a) \notin dirty_blocks => imem[a] = cached_imem[a]
    BY <2>1 DEF ChangesAreMarked
  <2> QED  BY <2>2 DEF InvalidateCode
<1>3. cached_imem' = imem
  BY <1>1, <1>2 DEF InvalidateCode, Imem
<1>4. ASSUME NEW pc \in Word, blocks'[pc] # NoCode
      PROVE  blocks'[pc] = JitRegion(imem, pc)
  <2>1. BlockOf(pc) \notin dirty_blocks /\ blocks'[pc] = blocks[pc]
    BY <1>4 DEF InvalidateCode
  <2>2. blocks[pc] = JitRegion(cached_imem, pc)
    BY <1>4, <2>1 DEF TableMatchesCache
  <2>3. ASSUME NEW a \in Region(cached_imem, pc) PROVE imem[a] = cached_imem[a]
    <3>1. a \in Word /\ BlockOf(a) \in {BlockOf(pc), BlockOf(pc) + 1}
      BY <1>1, RegionReach
    <3>2. BlockOf(a) \in Block /\ BlockOf(pc) \in Block
      BY <3>1, BlockOfWord
    <3>3. BlockOf(pc) \in DirtyMask(BlockOf(a))
      BY <3>1, <3>2 DEF DirtyMask, Block
    <3> QED  BY <2>1, <3>1, <3>3 DEF ChangesAreMarked
  <2>4. JitRegion(imem, pc) = JitRegion(cached_imem, pc)
    BY <1>1, <2>3, SameWordsSameRegion
  <2> QED  BY <2>1, <2>2, <2>4
<1> QED  BY <1>3, <1>4 DEF TableMatchesCache

\* A hit in the hash map is the region that would be compiled now.
LEMMA LookupIsCurrent ==
  ASSUME TypeOK, HashMapsSound, NEW pc \in Word
  PROVE  LookupOrCompile(pc) = JitRegion(imem, pc)
<1> DEFINE h == Hash(JitRegion(imem, pc))
<1>1. CASE h \in DOMAIN cached_blocks[pc]
  <2>1. PICK m \in Imem : /\ cached_blocks[pc][h] = JitRegion(m, pc)
                          /\ h = Hash(JitRegion(m, pc))
    BY <1>1 DEF HashMapsSound
  <2>2. JitRegion(m, pc) = JitRegion(imem, pc)
    BY <2>1, HashAssumption DEF TypeOK
  <2> QED  BY <1>1, <2>1, <2>2 DEF LookupOrCompile
<1>2. CASE h \notin DOMAIN cached_blocks[pc]
  BY <1>2 DEF LookupOrCompile
<1> QED  BY <1>1, <1>2

-----------------------------------------------------------------------------
\* A freshly created CPU is coherent: its table is empty.
LEMMA CoherenceInit == Init => CoherenceInv
<1> SUFFICES ASSUME Init PROVE CoherenceInv
  OBVIOUS
<1>1. TypeOK
  <2>1. 0 \in Word
    BY SizeAssumption DEF Word, ImemWords
  <2> QED  BY <2>1, SizeAssumption DEF Init, TypeOK, Imem
<1>2. TableMatchesCache /\ ChangesAreMarked /\ HashMapsSound /\ RunsCurrentCode
  BY DEF Init, TableMatchesCache, ChangesAreMarked, HashMapsSound, RunsCurrentCode
<1> QED  BY <1>1, <1>2 DEF Init, CoherenceInv

\* The emulator may change any word: the table does not depend on imem.
LEMMA HostWriteStep ==
  ASSUME CoherenceInv, NEW a \in Word, NEW v \in Value, HostWrite(a, v)
  PROVE  CoherenceInv'
<1>1. TypeOK'
  BY DEF CoherenceInv, TypeOK, HostWrite, tableVars, execVars, Imem, Code, JitRegion, Region
<1>2. TableMatchesCache' /\ ChangesAreMarked' /\ HashMapsSound' /\ RunsCurrentCode'
  BY DEF CoherenceInv, HostWrite, tableVars, execVars,
         TableMatchesCache, ChangesAreMarked, HashMapsSound, RunsCurrentCode
<1> QED  BY <1>1, <1>2 DEF CoherenceInv, HostWrite, execVars

\* invalidate_imem marks every block that differs, and its predecessor.
LEMMA DoRspCyclesStep ==
  ASSUME CoherenceInv, DoRspCycles
  PROVE  CoherenceInv'
<1> USE DEF CoherenceInv, DoRspCycles, tableVars
<1>1. dirty_blocks' \subseteq Block
  <2>1. ASSUME NEW a \in Word PROVE DirtyMask(BlockOf(a)) \subseteq Block
    BY DEF DirtyMask
  <2> QED  BY <2>1 DEF InvalidateImem, TypeOK
<1>2. TypeOK'
  BY <1>1 DEF TypeOK, Code
<1>3. ChangesAreMarked'
  <2> SUFFICES ASSUME NEW a \in Word, imem[a] # cached_imem[a]
               PROVE  DirtyMask(BlockOf(a)) \subseteq dirty_blocks'
    BY DEF ChangesAreMarked
  <2> QED  BY DEF InvalidateImem
<1>4. TableMatchesCache' /\ HashMapsSound' /\ RunsCurrentCode'
  BY DEF TableMatchesCache, HashMapsSound, RunsCurrentCode
<1> QED  BY <1>2, <1>3, <1>4

\* CPU::run brings table and cached_imem in step before anything executes.
LEMMA RunStep ==
  ASSUME CoherenceInv, Run
  PROVE  CoherenceInv'
<1> USE DEF CoherenceInv, Run
<1>1. TableMatchesCache' /\ cached_imem' = imem
  BY InvalidateCodeKeepsMatch
<1>2. TypeOK'
  <2>1. blocks' \in [Word -> Code \cup {NoCode}]
    BY DEF InvalidateCode, TypeOK
  <2> QED  BY <1>1, <2>1 DEF InvalidateCode, TypeOK, Code
<1>3. ChangesAreMarked' /\ HashMapsSound' /\ RunsCurrentCode'
  BY <1>1 DEF ChangesAreMarked, HashMapsSound, RunsCurrentCode
<1> QED  BY <1>1, <1>2, <1>3 DEF InvalidateCode

\* get_jit_block hands out, and files, code compiled from the IMEM of now.
LEMMA EnterStep ==
  ASSUME CoherenceInv, NEW pc \in Word, Enter(pc)
  PROVE  CoherenceInv'
<1> USE DEF CoherenceInv, Enter, memVars
<1>1. cached_imem = imem /\ imem \in Imem
  BY CleanMeansEqual DEF TypeOK
<1>2. JitRegion(imem, pc) \in Code
  BY <1>1 DEF Code
<1>3. CASE blocks[pc] # NoCode
  <2>1. running' = JitRegion(imem, pc) /\ UNCHANGED tableVars
    BY <1>1, <1>3 DEF GetJitBlock, TableMatchesCache
  <2>2. TypeOK'
    BY <1>2, <2>1 DEF TypeOK, tableVars, Code
  <2>3. TableMatchesCache' /\ ChangesAreMarked' /\ HashMapsSound' /\ RunsCurrentCode'
    BY <2>1 DEF TableMatchesCache, ChangesAreMarked, HashMapsSound, RunsCurrentCode, tableVars
  <2> QED  BY <2>2, <2>3
<1>4. CASE blocks[pc] = NoCode
  <2>1. /\ running' = JitRegion(imem, pc)
        /\ blocks' = [blocks EXCEPT ![pc] = JitRegion(imem, pc)]
    BY <1>4, LookupIsCurrent DEF GetJitBlock
  <2>2. blocks' \in [Word -> Code \cup {NoCode}]
    BY <1>2, <2>1 DEF TypeOK
  <2>3. DOMAIN cached_blocks' = Word
    BY <1>4 DEF GetJitBlock, TypeOK
  <2>4. TypeOK'
    BY <1>2, <2>1, <2>2, <2>3 DEF TypeOK, Code
  <2>5. TableMatchesCache' /\ ChangesAreMarked' /\ RunsCurrentCode'
    BY <1>1, <2>1 DEF TypeOK, TableMatchesCache, ChangesAreMarked, RunsCurrentCode
  <2>6. HashMapsSound'
    <3> DEFINE new == Hash(JitRegion(imem, pc))
    <3> SUFFICES ASSUME NEW q \in Word, NEW h \in DOMAIN cached_blocks'[q]
                 PROVE  \E m \in Imem : /\ cached_blocks'[q][h] = JitRegion(m, q)
                                        /\ h = Hash(JitRegion(m, q))
      BY DEF HashMapsSound
    <3>1. CASE q # pc
      BY <1>4, <3>1 DEF GetJitBlock, TypeOK, HashMapsSound
    <3>2. CASE q = pc
      <4>1. cached_blocks'[pc] = [k \in DOMAIN cached_blocks[pc] \cup {new} |->
                IF k \in DOMAIN cached_blocks[pc] THEN cached_blocks[pc][k]
                ELSE JitRegion(imem, pc)]
        BY <1>4 DEF GetJitBlock, TypeOK
      <4>2. CASE h \in DOMAIN cached_blocks[pc]
        BY <3>2, <4>1, <4>2 DEF HashMapsSound
      <4>3. CASE h = new /\ h \notin DOMAIN cached_blocks[pc]
        BY <1>1, <3>2, <4>1, <4>3
      <4> QED  BY <3>2, <4>1, <4>2, <4>3
    <3> QED  BY <3>1, <3>2
  <2> QED  BY <2>4, <2>5, <2>6
<1> QED  BY <1>3, <1>4

\* The k-th word of a wrapping copy is found k words after its start.
LEMMA RowOffset ==
  ASSUME NEW N \in Nat, NEW a \in 0 .. N - 1, NEW k \in 0 .. N - 1
  PROVE  (((a + k) % N) - a) % N = k
<1>1. CASE a + k < N
  <2>1. (a + k) % N = a + k  BY <1>1
  <2> QED  BY <2>1
<1>2. CASE a + k >= N
  <2>1. (a + k) % N = a + k - N  BY <1>2
  <2>2. (k - N) % N = k  OBVIOUS
  <2> QED  BY <2>1, <2>2
<1> QED  BY <1>1, <1>2

\* rsp_dma_read marks the blocks it writes before the code is left.
LEMMA DmaReadStep ==
  ASSUME CoherenceInv, NEW a \in Word, NEW data \in DmaData, DmaRead(a, data)
  PROVE  CoherenceInv'
<1> DEFINE dest == {(a + k) % ImemWords : k \in DOMAIN data}
<1> USE DEF CoherenceInv, tableVars
<1>1. /\ phase = "exec" /\ phase' = "loop" /\ running' = NoCode
      /\ imem' = [w \in Word |-> IF w \in dest THEN data[(w - a) % ImemWords] ELSE imem[w]]
      /\ dirty_blocks' = dirty_blocks \cup UNION {DirtyMask(BlockOf(w)) : w \in dest}
      /\ UNCHANGED <<cached_imem, blocks, cached_blocks, entry>>
  BY DEF DmaRead
<1>2. imem' \in Imem
  <2> SUFFICES ASSUME NEW w \in Word, w \in dest
               PROVE  data[(w - a) % ImemWords] \in Value
    BY <1>1 DEF TypeOK, Imem
  <2>1. PICK n \in 0 .. ImemWords - 1 : data \in [0 .. n -> Value]
    BY DEF DmaData
  <2>2. PICK k \in 0 .. n : w = (a + k) % ImemWords
    BY <2>1
  <2>3. ImemWords \in Nat /\ a \in 0 .. ImemWords - 1 /\ k \in 0 .. ImemWords - 1
    BY <2>1, SizeAssumption DEF Word, ImemWords
  <2>4. (w - a) % ImemWords = k
    BY <2>2, <2>3, RowOffset
  <2> QED  BY <2>1, <2>4
<1>3. dirty_blocks' \subseteq Block
  BY <1>1 DEF TypeOK, DirtyMask
<1>4. TypeOK'
  BY <1>1, <1>2, <1>3 DEF TypeOK, Code
<1>5. ChangesAreMarked'
  <2> SUFFICES ASSUME NEW w \in Word, imem'[w] # cached_imem[w]
               PROVE  DirtyMask(BlockOf(w)) \subseteq dirty_blocks'
    BY <1>1 DEF ChangesAreMarked
  <2>1. CASE w \in dest
    BY <1>1, <2>1
  <2>2. CASE w \notin dest
    BY <1>1, <2>2 DEF ChangesAreMarked
  <2> QED  BY <2>1, <2>2
<1>6. TableMatchesCache' /\ HashMapsSound' /\ RunsCurrentCode'
  BY <1>1 DEF TableMatchesCache, HashMapsSound, RunsCurrentCode
<1> QED  BY <1>1, <1>4, <1>5, <1>6

\* Leaving compiled code and the loop of DoRspCycles disturbs nothing.
LEMMA LeaveStep ==
  ASSUME CoherenceInv, Leave \/ Return \/ UNCHANGED vars
  PROVE  CoherenceInv'
<1> USE DEF CoherenceInv, Leave, Return, vars, memVars, tableVars
<1>1. TypeOK'
  BY DEF TypeOK, Code
<1>2. TableMatchesCache' /\ ChangesAreMarked' /\ HashMapsSound' /\ RunsCurrentCode'
  BY DEF TableMatchesCache, ChangesAreMarked, HashMapsSound, RunsCurrentCode
<1> QED  BY <1>1, <1>2

\* Replacing the CPU empties the table and forgets what it matched.
LEMMA InitiateStep ==
  ASSUME CoherenceInv, Initiate
  PROVE  CoherenceInv'
<1> USE DEF CoherenceInv, Initiate, execVars
<1>1. TypeOK'
  BY SizeAssumption DEF TypeOK, Imem, Code
<1>2. TableMatchesCache' /\ ChangesAreMarked' /\ HashMapsSound' /\ RunsCurrentCode'
  BY DEF TableMatchesCache, ChangesAreMarked, HashMapsSound, RunsCurrentCode
<1> QED  BY <1>1, <1>2

\* CoherenceInv is inductive, hence an invariant: in every reachable state
\* the table matches cached_imem and every change of IMEM that the table
\* does not reflect is marked.
THEOREM Coherence == Spec => []CoherenceInv
<1>1. CoherenceInv /\ [Next]_vars => CoherenceInv'
  BY HostWriteStep, DoRspCyclesStep, RunStep, EnterStep, DmaReadStep, LeaveStep, InitiateStep
     DEF Next
<1> QED  BY CoherenceInit, <1>1, PTL DEF Spec

\* Compiled code never runs on behalf of IMEM words it was not compiled
\* from: get_jit_block, invalidate_imem, invalidate_code and rsp_dma_read
\* together keep stale code from being entered.
THEOREM NeverStale == Spec => []RunsCurrentCode
BY Coherence, PTL DEF CoherenceInv

\* While compiled code may be entered, every entry of the table is current.
THEOREM TableAlwaysCurrent == Spec => []TableIsCurrent
<1>1. CoherenceInv => TableIsCurrent
  <2> SUFFICES ASSUME CoherenceInv, phase = "exec" PROVE TableIsCurrent
    BY DEF TableIsCurrent
  <2>1. cached_imem = imem
    BY CleanMeansEqual DEF CoherenceInv
  <2> QED  BY <2>1 DEF CoherenceInv, TableMatchesCache, TableIsCurrent
<1> QED  BY Coherence, <1>1, PTL

=============================================================================
