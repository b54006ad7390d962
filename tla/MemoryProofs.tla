---------------------------- MODULE MemoryProofs ----------------------------
(***************************************************************************)
(* Proofs about the memory of the RSP: DmaEngine and LoadStore.            *)
(*                                                                         *)
(* DmaEngine, for memories, blocks, rows and skips of every size and for   *)
(* every contents: the marks of dirty_blocks cover all that changed, a     *)
(* finished transfer moved exactly what was asked for, a read stays in its *)
(* bank, what was read in can be written back, and the loops implement the *)
(* one-step DMA of CodeCache.  The loops of rsp_dma_read and rsp_dma_write *)
(* keep the number of the row, the offset in it and two running addresses. *)
(* The inductive invariant counts the words moved so far, Done, and says   *)
(* of each memory that it is what it was when the transfer began,          *)
(* overwritten by the first Done words of the request in their order.      *)
(*                                                                         *)
(* LoadStore, for DMEM of every size that is a number of rows of sixteen   *)
(* bytes, every contents and every program: which bytes each instruction   *)
(* moves, whichever of its paths it takes, and that none leaves DMEM but   *)
(* by a mask that the code applies too early; then what pairs of           *)
(* instructions and a transposition make of memory and registers, from     *)
(* invariants that say what the first instructions have left.              *)
(***************************************************************************)
EXTENDS DmaEngine, LoadStore, FiniteSetTheorems, TLAPS


(***************************************************************************)
(* A transfer as Begin records it, its number of words, and where its k-th *)
(* word is on each side.                                                   *)
(***************************************************************************)
Transfer ==
  [kind : {"read", "write"}, reg : LengthReg, set : Nat \X Nat, cache : Nat, dram : Nat,
   length : Nat, spmem : [Word -> Value], rdram : [Rword -> Value]]

PerRow(t) == t.length \div 4
Total(t)  == (t.reg.count + 1) * PerRow(t)
SpOf(t)   == [k \in Nat |-> SpWord(t.cache + 4 * k)]
RdOf(t)   == [k \in Nat |-> RdWord(t.dram + (k \div PerRow(t)) * (t.length + t.reg.skip)
                                   + 4 * (k % PerRow(t)))]

WellBegun(t) ==
  /\ t \in Transfer
  /\ t.cache = Align(t.set[1], IF t.kind = "read" THEN 8 ELSE 4)
  /\ t.dram = Align(t.set[2], 8)
  /\ t.length = RowLength(t.cache, t.reg.len)

\* "new" is "old" after the words to[0], ..., to[n - 1] were set in this order.
FilledBy(n, new, old, to, from) ==
  \A w \in DOMAIN old :
    \/ new[w] = old[w] /\ \A k \in 0 .. n - 1 : to[k] # w
    \/ \E k \in 0 .. n - 1 :
         /\ to[k] = w /\ new[w] = from[k]
         /\ \A l \in 0 .. n - 1 : l > k => to[l] # w

\* The first n words of a read, or of a write, have been moved.
ReadDone(t, n, sp, rd) ==
  rd = t.rdram /\ FilledBy(n, sp, t.spmem, SpOf(t), [k \in Nat |-> t.rdram[RdOf(t)[k]]])
WriteDone(t, n, sp, rd) ==
  sp = t.spmem /\ FilledBy(n, rd, t.rdram, RdOf(t), [k \in Nat |-> t.spmem[SpOf(t)[k]]])

-----------------------------------------------------------------------------
(***************************************************************************)
(* The inductive invariant.                                                *)
(***************************************************************************)
Records ==
  /\ last = NoTransfer \/ WellBegun(last)
  /\ prior = NoTransfer \/ WellBegun(prior)

\* The local variables of a loop that is running.
InLoop ==
  op # "idle" =>
    /\ last.kind = op
    /\ length = last.length /\ skip = last.reg.skip /\ count = last.reg.count
    /\ i <= count /\ j < length /\ j % 4 = 0
    /\ LET sp == last.cache + i * length
           rd == last.dram + i * (length + skip)
       IN  IF op = "read" THEN dest = sp /\ source = rd ELSE source = sp /\ dest = rd

Done == IF op = "idle" THEN Total(last) ELSE i * PerRow(last) + (j \div 4)

Moved ==
  /\ last.kind = "read"  => ReadDone(last, Done, spmem, rdram)
  /\ last.kind = "write" => WriteDone(last, Done, spmem, rdram)
  /\ prior.kind = "read" => ReadDone(prior, Total(prior), last.spmem, last.rdram)

DmaInv == MarksCoverChanges /\ Records /\ InLoop /\ Moved

-----------------------------------------------------------------------------
(***************************************************************************)
(* Arithmetic of the addresses.                                            *)
(***************************************************************************)

\* Quotient and rest.
LEMMA DivMod ==
  ASSUME NEW n \in Nat \ {0}, NEW x \in Nat
  PROVE  x \div n \in Nat /\ x % n \in Nat /\ x % n \in 0 .. n - 1 /\ x = n * (x \div n) + (x % n)
OBVIOUS

\* They are the only ones.
LEMMA DivModUnique ==
  ASSUME NEW n \in Nat \ {0}, NEW x, NEW q \in Nat, NEW r \in 0 .. n - 1, x = n * q + r
  PROVE  x \div n = q /\ x % n = r
OBVIOUS

\* DMEM and IMEM have the same, positive, size.
LEMMA BankSize ==
  BankWords \in Nat \ {0} /\ Bank \in Nat \ {0} /\ Bank = 4 * BankWords
BY DmaAssumption DEF BankWords, Bank

\* Masked addresses are inside the memories ("& 0x1FFC", "& 0x7FFFFC").
LEMMA MaskedAddress ==
  ASSUME NEW x \in Nat
  PROVE  SpWord(x) \in Word /\ RdWord(x) \in Rword
<1>1. x \div 4 \in Nat /\ 2 * BankWords \in Nat \ {0} /\ RdramWords \in Nat \ {0}
  BY BankSize, DmaAssumption
<1>2. (x \div 4) % (2 * BankWords) \in 0 .. 2 * BankWords - 1
  BY <1>1, DivMod
<1>3. (x \div 4) % RdramWords \in 0 .. RdramWords - 1
  BY <1>1, DivMod
<1> QED
  BY <1>2, <1>3 DEF SpWord, RdWord, Word, Rword

\* What "& ~7" and "& ~3" do.
LEMMA Aligned ==
  ASSUME NEW x \in Nat
  PROVE  /\ Align(x, 8) \in Nat /\ Align(x, 8) % 8 = 0 /\ Align(x, 8) % 4 = 0
         /\ Align(x, 4) \in Nat /\ Align(x, 4) % 4 = 0
         /\ x >= 8 => Align(x, 8) > 0
         /\ x % 8 = 0 => Align(x, 8) = x /\ Align(x, 4) = x
BY DEF Align

\* The offset of an address in its bank, in words.
LEMMA BankOffset ==
  ASSUME NEW x \in Nat, x % 4 = 0
  PROVE  x % Bank = 4 * ((x \div 4) % BankWords)
<1> DEFINE c == x \div 4
<1>1. x = 4 * c /\ c \in Nat
  OBVIOUS
<1> HIDE DEF c
<1>2. c \div BankWords \in Nat /\ c % BankWords \in 0 .. BankWords - 1
      /\ c = BankWords * (c \div BankWords) + (c % BankWords)
  BY <1>1, BankSize, DivMod
<1>3. x = Bank * (c \div BankWords) + 4 * (c % BankWords)
      /\ 4 * (c % BankWords) \in 0 .. Bank - 1
  BY <1>1, <1>2, BankSize
<1>4. x % Bank = 4 * (c % BankWords)
  BY <1>2, <1>3, BankSize, DivModUnique
<1> QED
  BY <1>4 DEF c

\* A row has at least one word, only whole words, and ends inside its bank.
LEMMA RowLengths ==
  ASSUME NEW cache \in Nat, cache % 4 = 0, NEW len \in Nat
  PROVE  /\ RowLength(cache, len) \in Nat \ {0}
         /\ RowLength(cache, len) % 4 = 0
         /\ (cache % Bank) + RowLength(cache, len) <= Bank
<1> DEFINE o == (cache \div 4) % BankWords
           rounded == Align(len + 1 + 7, 8)
<1>1. o \in 0 .. BankWords - 1 /\ cache % Bank = 4 * o
  <2>1. cache \div 4 \in Nat
    OBVIOUS
  <2> QED
    BY <2>1, BankOffset, BankSize, DivMod
<1>2. rounded \in Nat \ {0} /\ rounded % 4 = 0
  BY Aligned
<1>3. RowLength(cache, len) = IF 4 * o + rounded > Bank THEN Bank - 4 * o ELSE rounded
  BY <1>1 DEF RowLength
<1> HIDE DEF o, rounded
<1> QED
  BY <1>1, <1>2, <1>3, BankSize

\* The numbers of a transfer that Begin recorded.
LEMMA TransferNumbers ==
  ASSUME NEW t, WellBegun(t)
  PROVE  /\ t.cache \in Nat /\ t.cache % 4 = 0 /\ t.dram \in Nat
         /\ t.reg.count \in Nat /\ t.reg.skip \in Nat /\ t.reg.len \in Nat
         /\ t.length \in Nat \ {0} /\ (t.cache % Bank) + t.length <= Bank
         /\ PerRow(t) \in Nat \ {0} /\ t.length = 4 * PerRow(t)
         /\ Total(t) \in Nat \ {0}
<1>1. /\ t.cache \in Nat /\ t.dram \in Nat /\ t.set[1] \in Nat
      /\ t.reg.count \in Nat /\ t.reg.skip \in Nat /\ t.reg.len \in Nat
  BY DmaAssumption DEF WellBegun, Transfer, LengthReg
<1>2. t.cache % 4 = 0
  BY <1>1, Aligned DEF WellBegun
<1>3. t.length \in Nat \ {0} /\ t.length % 4 = 0 /\ (t.cache % Bank) + t.length <= Bank
  BY <1>1, <1>2, RowLengths DEF WellBegun
<1>4. PerRow(t) \in Nat \ {0} /\ t.length = 4 * PerRow(t)
  BY <1>3 DEF PerRow
<1>5. Total(t) \in Nat \ {0}
  BY <1>1, <1>4 DEF Total
<1> QED
  BY <1>1, <1>2, <1>3, <1>4, <1>5

\* The words of a transfer are inside the memories.
LEMMA WordsInside ==
  ASSUME NEW t, WellBegun(t), NEW k \in Nat
  PROVE  SpOf(t)[k] \in Word /\ RdOf(t)[k] \in Rword
<1>1. /\ t.cache \in Nat /\ t.dram \in Nat /\ t.reg.skip \in Nat /\ t.length \in Nat
      /\ PerRow(t) \in Nat \ {0}
  BY TransferNumbers
<1>2. k \div PerRow(t) \in Nat /\ k % PerRow(t) \in Nat
  BY <1>1, DivMod
<1>3. (k \div PerRow(t)) * (t.length + t.reg.skip) \in Nat
  BY <1>1, <1>2
<1>4. t.dram + (k \div PerRow(t)) * (t.length + t.reg.skip) + 4 * (k % PerRow(t)) \in Nat
      /\ t.cache + 4 * k \in Nat
  BY <1>1, <1>2, <1>3
<1> QED
  BY <1>4, MaskedAddress DEF SpOf, RdOf

-----------------------------------------------------------------------------
(***************************************************************************)
(* Filling a memory word by word.                                          *)
(***************************************************************************)

\* Before the first word a memory is what it was.
LEMMA FillStart ==
  ASSUME NEW old, NEW to, NEW from
  PROVE  FilledBy(0, old, old, to, from)
BY DEF FilledBy

\* One more word.
LEMMA FillWord ==
  ASSUME NEW n \in Nat, NEW D, NEW V, NEW new \in [D -> V], NEW old \in [D -> V],
         NEW to, NEW from, to[n] \in D,
         FilledBy(n, new, old, to, from)
  PROVE  FilledBy(n + 1, [new EXCEPT ![to[n]] = from[n]], old, to, from)
<1> DEFINE after == [new EXCEPT ![to[n]] = from[n]]
<1> SUFFICES ASSUME NEW w \in D
             PROVE  \/ after[w] = old[w] /\ \A k \in 0 .. n : to[k] # w
                    \/ \E k \in 0 .. n :
                         /\ to[k] = w /\ after[w] = from[k]
                         /\ \A l \in 0 .. n : l > k => to[l] # w
  BY DEF FilledBy
<1>1. CASE w = to[n]
  <2>1. after[w] = from[n] /\ to[n] = w
    BY <1>1
  <2>2. \A l \in 0 .. n : ~(l > n)
    OBVIOUS
  <2>3. n \in 0 .. n
    OBVIOUS
  <2> QED
    BY <2>1, <2>2, <2>3
<1>2. CASE w # to[n]
  <2>1. after[w] = new[w]
    BY <1>2
  <2>2. \/ new[w] = old[w] /\ \A k \in 0 .. n - 1 : to[k] # w
        \/ \E k \in 0 .. n - 1 :
             /\ to[k] = w /\ new[w] = from[k]
             /\ \A l \in 0 .. n - 1 : l > k => to[l] # w
    BY DEF FilledBy
  <2>3. \A l \in 0 .. n : l = n \/ l \in 0 .. n - 1
    OBVIOUS
  <2> QED
    BY <1>2, <2>1, <2>2, <2>3
<1> QED
  BY <1>1, <1>2

-----------------------------------------------------------------------------
(***************************************************************************)
(* The running loops.                                                      *)
(***************************************************************************)

\* The word a loop is about to move is word Done of the request: row i, and
\* j bytes into it, on both sides.
LEMMA LoopPosition ==
  ASSUME DmaInv, op # "idle"
  PROVE  /\ WellBegun(last) /\ last.kind = op
         /\ Done \in Nat
         /\ SpOf(last)[Done] = SpWord(last.cache + i * length + j)
         /\ RdOf(last)[Done] = RdWord(last.dram + i * (length + skip) + j)
<1>1. WellBegun(last) /\ last.kind = op
  BY DEF DmaInv, Records, InLoop, NoTransfer, MarksCoverChanges, TypeOK
<1> DEFINE p == PerRow(last)
           q == j \div 4
<1>2. /\ last.cache \in Nat /\ last.dram \in Nat /\ p \in Nat \ {0} /\ last.length = 4 * p
      /\ last.reg.skip \in Nat
  BY <1>1, TransferNumbers
<1>3. /\ i \in Nat /\ j \in Nat /\ length = last.length /\ skip = last.reg.skip
      /\ j < length /\ j % 4 = 0
  BY DEF DmaInv, InLoop, MarksCoverChanges, TypeOK
<1>4. q \in 0 .. p - 1 /\ j = 4 * q
  BY <1>2, <1>3
<1>5. Done = i * p + q
  BY DEF Done
<1> HIDE DEF p, q
<1>6. Done = p * i + q /\ Done \in Nat
  BY <1>2, <1>3, <1>4, <1>5
<1>7. Done \div p = i /\ Done % p = q
  BY <1>2, <1>3, <1>4, <1>6, DivModUnique
<1>8. 4 * Done = i * length + j
  BY <1>2, <1>3, <1>4, <1>6
<1>9. last.cache + 4 * Done = last.cache + i * length + j
  <2>1. i * length \in Nat
    BY <1>2, <1>3
  <2> QED
    BY <1>2, <1>3, <1>8, <2>1
<1>10. SpOf(last)[Done] = SpWord(last.cache + i * length + j)
  BY <1>6, <1>9 DEF SpOf
<1>11. RdOf(last)[Done] = RdWord(last.dram + i * (length + skip) + j)
  BY <1>3, <1>4, <1>6, <1>7 DEF RdOf, p
<1> QED
  BY <1>1, <1>6, <1>10, <1>11

\* The end of a round of the loop counts one word: to the next word of the row,
\* to the next row, or to the end of the transfer.
LEMMA OneWordOn ==
  ASSUME DmaInv, op # "idle", NEW a, NEW b, UNCHANGED last,
         NextWord \/ NextRow(a, b) \/ LastRow(a, b)
  PROVE  Done' = Done + 1
<1>1. WellBegun(last)
  BY LoopPosition
<1> DEFINE p == PerRow(last)
           q == j \div 4
<1>2. p \in Nat \ {0} /\ last.length = 4 * p /\ PerRow(last)' = p /\ Total(last) = (count + 1) * p
      /\ Total(last)' = Total(last)
  BY <1>1, TransferNumbers DEF PerRow, Total, DmaInv, InLoop
<1>3. /\ i \in Nat /\ j \in Nat /\ count \in Nat /\ length = last.length
      /\ i <= count /\ j < length /\ j % 4 = 0
  BY DEF DmaInv, InLoop, MarksCoverChanges, TypeOK
<1>4. q \in 0 .. p - 1 /\ j = 4 * q /\ Done = i * p + q
  BY <1>2, <1>3 DEF Done
<1>5. CASE NextWord
  <2>1. i' = i /\ j' = j + 4 /\ op' = op /\ j' \div 4 = q + 1
    BY <1>3, <1>4, <1>5 DEF NextWord
  <2>2. Done' = i * p + (q + 1)
    BY <2>1, <1>2 DEF Done
  <2> HIDE DEF p, q
  <2>3. i * p \in Nat
    BY <1>2, <1>3
  <2> QED
    BY <2>2, <2>3, <1>4
<1>6. CASE NextRow(a, b) \/ LastRow(a, b)
  <2>1. i' = i + 1 /\ j' = 0 /\ j + 4 >= length
    BY <1>6 DEF NextRow, LastRow
  <2>2. q = p - 1
    <3> HIDE DEF p, q
    <3>1. 4 * q + 4 >= 4 * p /\ p \in Nat /\ q \in 0 .. p - 1
      BY <2>1, <1>2, <1>3, <1>4
    <3> QED
      BY <3>1
  <2>3. CASE NextRow(a, b)
    <3>1. Done' = (i + 1) * p + (0 \div 4)
      BY <2>1, <2>3, <1>2 DEF NextRow, Done
    <3>2. 0 \div 4 = 0
      OBVIOUS
    <3> HIDE DEF p, q
    <3> QED
      BY <3>1, <3>2, <2>2, <1>2, <1>3, <1>4
  <2>4. CASE LastRow(a, b)
    <3>1. Done' = (count + 1) * p /\ i + 1 > count
      BY <2>4, <1>2 DEF LastRow, Done
    <3>2. i = count
      BY <3>1, <1>3
    <3> HIDE DEF p, q
    <3> QED
      BY <3>1, <3>2, <2>2, <1>2, <1>3, <1>4
  <2> QED
    BY <1>6, <2>3, <2>4
<1> QED
  BY <1>5, <1>6

\* The local variables of a loop stay in step.
LEMMA LoopLocals ==
  ASSUME DmaInv, op # "idle", UNCHANGED <<length, skip, count, last>>,
         \/ NextWord
         \/ op = "read" /\ (NextRow(length + skip, length) \/ LastRow(length + skip, length))
         \/ op = "write" /\ (NextRow(length, length + skip) \/ LastRow(length, length + skip))
  PROVE  /\ InLoop'
         /\ i' \in Nat /\ j' \in Nat /\ source' \in Nat /\ dest' \in Nat
         /\ op' \in {"idle", "read", "write"}
<1>1. /\ op \in {"read", "write"} /\ length \in Nat \ {0} /\ skip \in Nat /\ count \in Nat
      /\ i \in Nat /\ j \in Nat /\ source \in Nat /\ dest \in Nat
      /\ last.cache \in Nat /\ last.dram \in Nat
  BY LoopPosition, TransferNumbers DEF DmaInv, InLoop, MarksCoverChanges, TypeOK
<1>2. /\ last.kind = op
      /\ length = last.length /\ skip = last.reg.skip /\ count = last.reg.count
      /\ i <= count /\ j < length /\ j % 4 = 0
      /\ op = "read" => dest = last.cache + i * length /\ source = last.dram + i * (length + skip)
      /\ op = "write" => source = last.cache + i * length /\ dest = last.dram + i * (length + skip)
  BY DEF DmaInv, InLoop
<1>3. CASE NextWord
  BY <1>1, <1>2, <1>3 DEF NextWord, InLoop
<1>4. last.cache + i * length + length = last.cache + (i + 1) * length
      /\ last.dram + i * (length + skip) + (length + skip) = last.dram + (i + 1) * (length + skip)
  BY <1>1
<1>5. CASE op = "read" /\ (NextRow(length + skip, length) \/ LastRow(length + skip, length))
  <2>1. i' = i + 1 /\ j' = 0 /\ source' = source + (length + skip) /\ dest' = dest + length
    BY <1>5 DEF NextRow, LastRow
  <2>2. op' = "idle" \/ (op' = op /\ i + 1 <= count)
    BY <1>5 DEF NextRow, LastRow
  <2>3. dest' = last.cache + i' * length /\ source' = last.dram + i' * (length + skip)
    BY <2>1, <1>2, <1>4, <1>5
  <2> QED
    BY <2>1, <2>2, <2>3, <1>1, <1>2, <1>5 DEF InLoop
<1>6. CASE op = "write" /\ (NextRow(length, length + skip) \/ LastRow(length, length + skip))
  <2>1. i' = i + 1 /\ j' = 0 /\ source' = source + length /\ dest' = dest + (length + skip)
    BY <1>6 DEF NextRow, LastRow
  <2>2. op' = "idle" \/ (op' = op /\ i + 1 <= count)
    BY <1>6 DEF NextRow, LastRow
  <2>3. source' = last.cache + i' * length /\ dest' = last.dram + i' * (length + skip)
    BY <2>1, <1>2, <1>4, <1>6
  <2> QED
    BY <2>1, <2>2, <2>3, <1>1, <1>2, <1>6 DEF InLoop
<1> QED
  BY <1>3, <1>5, <1>6

-----------------------------------------------------------------------------
(***************************************************************************)
(* Every action preserves the invariant.                                   *)
(***************************************************************************)

\* One word of rsp_dma_read: it is set in the RSP's memory and, in IMEM, marked.
LEMMA ReadWordStep ==
  ASSUME DmaInv, ReadWord
  PROVE  DmaInv'
<1> DEFINE w == SpWord(dest + j)
           v == RdWord(source + j)
<1>1. /\ op = "read" /\ op # "idle"
      /\ spmem' = [spmem EXCEPT ![w] = rdram[v]]
      /\ dirty_blocks' = dirty_blocks \cup (IF w \in ImemWord THEN DirtyMask(w) ELSE {})
      /\ rdram' = rdram /\ UNCHANGED <<length, skip, count, last>>
      /\ shadow' = shadow /\ prior' = prior
      /\ NextWord \/ NextRow(length + skip, length) \/ LastRow(length + skip, length)
  BY DEF ReadWord, history
<1>2. TypeOK
  BY DEF DmaInv, MarksCoverChanges
<1>3. /\ InLoop' /\ i' \in Nat /\ j' \in Nat /\ source' \in Nat /\ dest' \in Nat
      /\ op' \in {"idle", "read", "write"}
  BY <1>1, LoopLocals
<1>4. w \in Word /\ v \in Rword
  BY <1>2, MaskedAddress DEF TypeOK
<1>5. spmem' \in [Word -> Value]
  BY <1>1, <1>2, <1>4 DEF TypeOK
<1>6. TypeOK'
  <2>1. DMA_CACHE' \in Nat /\ DMA_DRAM' \in Nat /\ mode' \in {"MODE_CONTINUE", "MODE_CHECK_FLAGS"}
    BY <1>2, <1>3 DEF TypeOK, ReadWord, NextWord, NextRow, addrRegs
  <2>2. dirty_blocks' \subseteq Block
    BY <1>1, <1>2 DEF TypeOK, DirtyMask
  <2> QED
    BY <1>1, <1>2, <1>3, <1>5, <2>1, <2>2 DEF TypeOK
<1>7. MarksCoverChanges'
  <2> SUFFICES ASSUME NEW x \in ImemWord, spmem'[x] # shadow'[x],
                      NEW b \in Block, (x - BankWords) \div BlockWords \in {b, b + 1}
               PROVE  b \in dirty_blocks'
    BY <1>6 DEF MarksCoverChanges
  <2>1. CASE x = w
    <3>1. \/ b = (w - BankWords) \div BlockWords
          \/ b = (w - BankWords) \div BlockWords - 1
      BY <2>1 DEF Block
    <3> QED
      BY <1>1, <2>1, <3>1 DEF DirtyMask
  <2>2. CASE x # w
    <3>1. spmem'[x] = spmem[x] /\ x \in Word
      BY <1>1, <1>2, <2>2, BankSize DEF TypeOK, Word, ImemWord
    <3> QED
      BY <1>1, <3>1 DEF DmaInv, MarksCoverChanges
  <2> QED
    BY <2>1, <2>2
<1>8. Records'
  BY <1>1 DEF DmaInv, Records
<1>9. Moved'
  <2>1. /\ WellBegun(last) /\ last.kind = op /\ Done \in Nat
        /\ SpOf(last)[Done] = SpWord(last.cache + i * length + j)
        /\ RdOf(last)[Done] = RdWord(last.dram + i * (length + skip) + j)
    BY <1>1, LoopPosition
  <2>2. SpOf(last)[Done] = w /\ RdOf(last)[Done] = v
    BY <1>1, <2>1 DEF DmaInv, InLoop
  <2>3. Done' = Done + 1
    BY <1>1, OneWordOn
  <2> DEFINE from == [k \in Nat |-> last.rdram[RdOf(last)[k]]]
  <2>4. /\ rdram = last.rdram
        /\ FilledBy(Done, spmem, last.spmem, SpOf(last), from)
    BY <1>1, <2>1 DEF DmaInv, Moved, ReadDone
  <2>5. spmem' = [spmem EXCEPT ![SpOf(last)[Done]] = from[Done]]
    BY <1>1, <2>1, <2>2, <2>4
  <2>6. spmem \in [Word -> Value] /\ last.spmem \in [Word -> Value]
    BY <1>2, <2>1 DEF TypeOK, WellBegun, Transfer
  <2>7. SpOf(last)[Done] \in Word
    BY <1>4, <2>2
  <2> HIDE DEF from
  <2>8. FilledBy(Done + 1, spmem', last.spmem, SpOf(last), from)
    BY <2>1, <2>4, <2>5, <2>6, <2>7, FillWord
  <2>9. FilledBy(Done', spmem', last.spmem, SpOf(last), from)
    BY <2>3, <2>8
  <2>10. ReadDone(last, Done', spmem', rdram')
    BY <1>1, <2>4, <2>9 DEF ReadDone, from
  <2>11. prior.kind = "read" => ReadDone(prior, Total(prior), last.spmem, last.rdram)
    BY DEF DmaInv, Moved
  <2> QED
    BY <1>1, <2>1, <2>10, <2>11 DEF Moved
<1> QED
  BY <1>3, <1>7, <1>8, <1>9 DEF DmaInv

\* One word of rsp_dma_write: only RDRAM changes.
LEMMA WriteWordStep ==
  ASSUME DmaInv, WriteWord
  PROVE  DmaInv'
<1> DEFINE w == SpWord(source + j)
           v == RdWord(dest + j)
<1>1. /\ op = "write" /\ op # "idle"
      /\ rdram' = [rdram EXCEPT ![v] = spmem[w]]
      /\ spmem' = spmem /\ dirty_blocks' = dirty_blocks
      /\ UNCHANGED <<length, skip, count, last>>
      /\ shadow' = shadow /\ prior' = prior
      /\ NextWord \/ NextRow(length, length + skip) \/ LastRow(length, length + skip)
  BY DEF WriteWord, history
<1>2. TypeOK
  BY DEF DmaInv, MarksCoverChanges
<1>3. /\ InLoop' /\ i' \in Nat /\ j' \in Nat /\ source' \in Nat /\ dest' \in Nat
      /\ op' \in {"idle", "read", "write"}
  BY <1>1, LoopLocals
<1>4. w \in Word /\ v \in Rword
  BY <1>2, MaskedAddress DEF TypeOK
<1>5. TypeOK'
  <2>1. DMA_CACHE' \in Nat /\ DMA_DRAM' \in Nat /\ mode' \in {"MODE_CONTINUE", "MODE_CHECK_FLAGS"}
    BY <1>2, <1>3 DEF TypeOK, WriteWord, NextWord, NextRow, addrRegs
  <2> QED
    BY <1>1, <1>2, <1>3, <1>4, <2>1 DEF TypeOK
<1>6. MarksCoverChanges'
  BY <1>1, <1>5 DEF DmaInv, MarksCoverChanges
<1>7. Records'
  BY <1>1 DEF DmaInv, Records
<1>8. Moved'
  <2>1. /\ WellBegun(last) /\ last.kind = op /\ Done \in Nat
        /\ SpOf(last)[Done] = SpWord(last.cache + i * length + j)
        /\ RdOf(last)[Done] = RdWord(last.dram + i * (length + skip) + j)
    BY <1>1, LoopPosition
  <2>2. SpOf(last)[Done] = w /\ RdOf(last)[Done] = v
    BY <1>1, <2>1 DEF DmaInv, InLoop
  <2>3. Done' = Done + 1
    BY <1>1, OneWordOn
  <2> DEFINE from == [k \in Nat |-> last.spmem[SpOf(last)[k]]]
  <2>4. /\ spmem = last.spmem
        /\ FilledBy(Done, rdram, last.rdram, RdOf(last), from)
    BY <1>1, <2>1 DEF DmaInv, Moved, WriteDone
  <2>5. rdram' = [rdram EXCEPT ![RdOf(last)[Done]] = from[Done]]
    BY <1>1, <2>1, <2>2, <2>4
  <2>6. rdram \in [Rword -> Value] /\ last.rdram \in [Rword -> Value]
    BY <1>2, <2>1 DEF TypeOK, WellBegun, Transfer
  <2>7. RdOf(last)[Done] \in Rword
    BY <1>4, <2>2
  <2> HIDE DEF from
  <2>8. FilledBy(Done + 1, rdram', last.rdram, RdOf(last), from)
    BY <2>1, <2>4, <2>5, <2>6, <2>7, FillWord
  <2>9. FilledBy(Done', rdram', last.rdram, RdOf(last), from)
    BY <2>3, <2>8
  <2>10. WriteDone(last, Done', spmem', rdram')
    BY <1>1, <2>4, <2>9 DEF WriteDone, from
  <2>11. prior.kind = "read" => ReadDone(prior, Total(prior), last.spmem, last.rdram)
    BY DEF DmaInv, Moved
  <2> QED
    BY <1>1, <2>1, <2>10, <2>11 DEF Moved
<1> QED
  BY <1>3, <1>6, <1>7, <1>8 DEF DmaInv

\* A transfer begins: nothing is moved yet, and the one before it is complete.
LEMMA BeginStep ==
  ASSUME DmaInv, NEW reg \in LengthReg, StartRead(reg) \/ StartWrite(reg)
  PROVE  DmaInv'
<1> DEFINE kind  == IF StartRead(reg) THEN "read" ELSE "write"
           cache == IF StartRead(reg) THEN Align(DMA_CACHE, 8) ELSE Align(DMA_CACHE, 4)
           dram  == Align(DMA_DRAM, 8)
<1>1. /\ Begin(kind, reg, cache, dram)
      /\ IF kind = "read" THEN source' = dram /\ dest' = cache
                          ELSE source' = cache /\ dest' = dram
      /\ cache = Align(DMA_CACHE, IF kind = "read" THEN 8 ELSE 4)
      /\ kind \in {"read", "write"}
  BY DEF StartRead, StartWrite
<1>2. TypeOK
  BY DEF DmaInv, MarksCoverChanges
<1>3. cache \in Nat /\ cache % 4 = 0 /\ dram \in Nat
  BY <1>2, Aligned DEF TypeOK
<1> HIDE DEF kind, cache, dram
<1>4. reg.len \in Nat /\ reg.count \in Nat /\ reg.skip \in Nat
  BY DmaAssumption DEF LengthReg
<1>5. length' \in Nat \ {0}
  BY <1>1, <1>3, <1>4, RowLengths DEF Begin
<1>6. MarksCoverChanges'
  <2>1. TypeOK'
    BY <1>1, <1>2, <1>3, <1>4, <1>5 DEF TypeOK, Begin
  <2> QED
    BY <1>1, <2>1 DEF DmaInv, MarksCoverChanges, Begin
<1>7. /\ last' = [kind |-> kind, reg |-> reg, set |-> <<DMA_CACHE, DMA_DRAM>>, cache |-> cache,
                  dram |-> dram, length |-> RowLength(cache, reg.len),
                  spmem |-> spmem, rdram |-> rdram]
      /\ prior' = last /\ op' = kind
      /\ i' = 0 /\ j' = 0 /\ skip' = reg.skip /\ count' = reg.count
      /\ length' = RowLength(cache, reg.len) /\ spmem' = spmem /\ rdram' = rdram /\ op = "idle"
  BY <1>1 DEF Begin, addrRegs
<1>8. WellBegun(last')
  <2>1. last' \in Transfer
    BY <1>1, <1>2, <1>3, <1>5, <1>7 DEF Transfer, TypeOK
  <2> QED
    BY <2>1, <1>1, <1>7 DEF WellBegun, dram
<1>9. Records'
  BY <1>7, <1>8 DEF DmaInv, Records
<1>10. InLoop'
  <2>1. 0 * length' = 0 /\ 0 * (length' + skip') = 0 /\ 0 % 4 = 0
    BY <1>4, <1>5, <1>7
  <2>2. cache + 0 = cache /\ dram + 0 = dram
    BY <1>3
  <2> QED
    BY <1>1, <1>4, <1>5, <1>7, <2>1, <2>2 DEF InLoop
<1>11. Moved'
  <2>1. Done' = 0
    <3>1. PerRow(last') \in Nat
      BY <1>8, TransferNumbers
    <3>2. 0 * PerRow(last') + (0 \div 4) = 0
      BY <3>1
    <3>3. op' # "idle"
      BY <1>1, <1>7
    <3> QED
      BY <1>7, <3>2, <3>3 DEF Done
  <2>2. last'.spmem = spmem' /\ last'.rdram = rdram'
    BY <1>7
  <2>3. ReadDone(last', 0, spmem', rdram') /\ WriteDone(last', 0, spmem', rdram')
    BY <2>2, FillStart DEF ReadDone, WriteDone
  <2>4. last.kind = "read" => ReadDone(last, Total(last), spmem, rdram)
    BY <1>7 DEF DmaInv, Moved, Done
  <2>5. prior'.kind = "read" => ReadDone(prior', Total(prior'), last'.spmem, last'.rdram)
    BY <1>7, <2>4
  <2> QED
    BY <2>1, <2>3, <2>5 DEF Moved
<1> QED
  BY <1>6, <1>9, <1>10, <1>11 DEF DmaInv

\* Between two transfers the memories do not change.
LEMMA IdleStep ==
  ASSUME DmaInv,
         \/ \E v \in CacheInputs : Mtc0Cache(v)
         \/ \E v \in DramInputs : Mtc0Dram(v)
         \/ Run
         \/ UNCHANGED vars
  PROVE  DmaInv'
<1>1. /\ UNCHANGED <<spmem, rdram, op, locals, last, prior>>
  BY DEF Mtc0Cache, Mtc0Dram, Run, vars, history
<1>2. MarksCoverChanges'
  <2>1. CASE \E v \in CacheInputs : Mtc0Cache(v)
    <3>1. \A v \in CacheInputs : v % (2 * Bank) \in Nat
      BY DmaAssumption, BankSize, DivMod
    <3> QED
      BY <2>1, <3>1 DEF DmaInv, MarksCoverChanges, TypeOK, Mtc0Cache, locals, history
  <2>2. CASE \E v \in DramInputs : Mtc0Dram(v)
    BY <2>2, DmaAssumption DEF DmaInv, MarksCoverChanges, TypeOK, Mtc0Dram, locals, history
  <2>3. CASE Run
    BY <2>3 DEF DmaInv, MarksCoverChanges, TypeOK, Run, locals, addrRegs
  <2>4. CASE UNCHANGED vars
    BY <2>4 DEF DmaInv, MarksCoverChanges, TypeOK, vars, locals, addrRegs, history
  <2> QED
    BY <2>1, <2>2, <2>3, <2>4
<1>3. Records' /\ InLoop'
  BY <1>1 DEF DmaInv, Records, InLoop, locals
<1>4. Done' = Done
  BY <1>1 DEF Done, locals, Total, PerRow
<1>5. Moved'
  BY <1>1, <1>4 DEF DmaInv, Moved
<1> QED
  BY <1>2, <1>3, <1>5 DEF DmaInv

\* The invariant holds in every reachable state.
LEMMA DmaInvariance == Spec => []DmaInv
<1>1. Init => DmaInv
  <2> SUFFICES ASSUME Init PROVE DmaInv
    OBVIOUS
  <2>1. MarksCoverChanges
    BY DmaAssumption DEF Init, MarksCoverChanges, TypeOK
  <2> QED
    BY <2>1 DEF Init, DmaInv, Records, InLoop, Moved, NoTransfer
<1>2. DmaInv /\ [Next]_vars => DmaInv'
  BY ReadWordStep, WriteWordStep, BeginStep, IdleStep DEF Next
<1> QED
  BY <1>1, <1>2, PTL DEF Spec

-----------------------------------------------------------------------------
(***************************************************************************)
(* The theorems.                                                           *)
(***************************************************************************)

\* Whoever returns to the task loop finds every changed word of IMEM marked, with
\* the block before it; no index leaves a memory and no mark the blocks
\* (rsp_dma_read, "dirty_blocks |= (0x3 << block) >> 1").
THEOREM MarksComplete == Spec => []MarksCoverChanges
  BY DmaInvariance, PTL DEF DmaInv

\* A finished transfer has moved each word of each row to where the request says,
\* in order, and changed nothing else (rsp_dma_read, rsp_dma_write).
THEOREM TransferCorrect == Spec => []TransferExact
<1>1. DmaInv => TransferExact
  <2> SUFFICES ASSUME DmaInv, op = "idle"
               PROVE  /\ last.kind = "read" =>
                           /\ rdram = last.rdram
                           /\ Filled(spmem, last.spmem, SpEnd, LAMBDA k : last.rdram[RdEnd(k)])
                      /\ last.kind = "write" =>
                           /\ spmem = last.spmem
                           /\ Filled(rdram, last.rdram, RdEnd, LAMBDA k : last.spmem[SpEnd(k)])
    BY DEF TransferExact
  <2>1. Progress = 0 .. Total(last) - 1
    BY DEF Progress, Total, PerRow
  <2>2. ASSUME last.kind \in {"read", "write"}
        PROVE  \A k \in Progress : k \in Nat /\ SpOf(last)[k] = SpEnd(k) /\ RdOf(last)[k] = RdEnd(k)
    <3>1. Total(last) \in Nat
      BY <2>2, TransferNumbers DEF DmaInv, Records, NoTransfer
    <3> QED
      BY <2>1, <3>1 DEF SpOf, RdOf, SpEnd, RdEnd, PerRow
  <2>3. Done = Total(last)
    BY DEF Done
  <2>4. ASSUME last.kind = "read"
        PROVE  rdram = last.rdram
               /\ Filled(spmem, last.spmem, SpEnd, LAMBDA k : last.rdram[RdEnd(k)])
    <3>1. rdram = last.rdram /\ FilledBy(Total(last), spmem, last.spmem, SpOf(last),
                                         [k \in Nat |-> last.rdram[RdOf(last)[k]]])
      BY <2>3, <2>4 DEF DmaInv, Moved, ReadDone
    <3> QED
      BY <2>1, <2>2, <2>4, <3>1 DEF Filled, FilledBy
  <2>5. ASSUME last.kind = "write"
        PROVE  spmem = last.spmem
               /\ Filled(rdram, last.rdram, RdEnd, LAMBDA k : last.spmem[SpEnd(k)])
    <3>1. spmem = last.spmem /\ FilledBy(Total(last), rdram, last.rdram, RdOf(last),
                                         [k \in Nat |-> last.spmem[SpOf(last)[k]]])
      BY <2>3, <2>5 DEF DmaInv, Moved, WriteDone
    <3> QED
      BY <2>1, <2>2, <2>5, <3>1 DEF Filled, FilledBy
  <2> QED
    BY <2>4, <2>5
<1> QED
  BY <1>1, DmaInvariance, PTL

\* A word up to the end of the bank that "cache" is in, is in that bank.
LEMMA SameBank ==
  ASSUME NEW cache \in Nat, cache % 4 = 0, NEW k \in Nat, (cache % Bank) + 4 * k < Bank
  PROVE  SpWord(cache + 4 * k) \div BankWords = SpWord(cache) \div BankWords
<1> DEFINE c == cache \div 4
           B == BankWords
           o == c % B
<1>1. c \in Nat /\ cache = 4 * c /\ B \in Nat \ {0} /\ (cache + 4 * k) \div 4 = c + k
  BY BankSize
<1>2. cache % Bank = 4 * o
  BY BankOffset
<1> HIDE DEF c, B
<1>3. o \in 0 .. B - 1 /\ c \div B \in Nat /\ c = B * (c \div B) + o
  BY <1>1, DivMod
<1>4. o + k \in 0 .. B - 1
  BY <1>1, <1>2, <1>3, BankSize DEF B
<1> HIDE DEF o
<1> DEFINE h == (c \div B) \div 2
           b == (c \div B) % 2
<1>5. h \in Nat /\ b \in 0 .. 1 /\ c \div B = 2 * h + b
  BY <1>3
<1> HIDE DEF h, b
<1>6. B * b \in {0, B}
  BY <1>1, <1>5
<1>7. c = (2 * B) * h + (B * b + o) /\ c + k = (2 * B) * h + (B * b + (o + k))
  <2>1. B * (2 * h + b) = (2 * B) * h + B * b
    BY <1>1, <1>5
  <2>2. B * b \in Nat /\ (2 * B) * h \in Nat
    BY <1>1, <1>5
  <2> QED
    BY <1>1, <1>3, <1>5, <2>1, <2>2
<1>8. c % (2 * B) = B * b + o /\ (c + k) % (2 * B) = B * b + (o + k)
  <2>1. 2 * B \in Nat \ {0} /\ B * b + o \in 0 .. 2 * B - 1 /\ B * b + (o + k) \in 0 .. 2 * B - 1
    BY <1>1, <1>3, <1>4, <1>6
  <2>2. c % (2 * B) = B * b + o
    BY <1>5, <1>7, <2>1, DivModUnique
  <2>3. (c + k) % (2 * B) = B * b + (o + k)
    <3> DEFINE x == c + k
               r == B * b + (o + k)
    <3>1. x = (2 * B) * h + r /\ r \in 0 .. 2 * B - 1
      BY <1>7, <2>1
    <3> HIDE DEF x, r
    <3>2. x % (2 * B) = r
      BY <1>5, <2>1, <3>1, DivModUnique
    <3> QED
      BY <3>2 DEF x, r
  <2> QED
    BY <2>2, <2>3
<1>9. (B * b + o) \div B = b /\ (B * b + (o + k)) \div B = b
  BY <1>1, <1>3, <1>4, <1>5, DivModUnique
<1>10. SpWord(cache) = c % (2 * B) /\ SpWord(cache + 4 * k) = (c + k) % (2 * B)
  BY <1>1 DEF SpWord, c, B
<1> QED
  BY <1>8, <1>9, <1>10 DEF B

\* A read of one row, or of rows that fit together before the end of the bank,
\* leaves the other bank alone at every moment: a DMA to DMEM does not reach the
\* program (the clipping in rsp_dma_read).
THEOREM ReadsStayInBank == Spec => []StaysInBank
<1>1. DmaInv => StaysInBank
  <2> SUFFICES ASSUME DmaInv, last.kind = "read",
                      \/ last.reg.count = 0
                      \/ (last.cache % Bank) + (last.reg.count + 1) * last.length <= Bank,
                      NEW w \in Word, InOtherBank(w), spmem[w] # last.spmem[w]
               PROVE  FALSE
    BY DEF StaysInBank
  <2>1. WellBegun(last)
    BY DEF DmaInv, Records, NoTransfer
  <2>2. /\ last.cache \in Nat /\ last.cache % 4 = 0 /\ last.reg.count \in Nat
        /\ last.length \in Nat \ {0} /\ (last.cache % Bank) + last.length <= Bank
        /\ PerRow(last) \in Nat \ {0} /\ last.length = 4 * PerRow(last)
    BY <2>1, TransferNumbers
  <2>3. (last.cache % Bank) + (last.reg.count + 1) * last.length <= Bank
    BY <2>2
  <2>4. Done \in Nat /\ Done <= Total(last)
    <3>1. CASE op = "idle"
      BY <2>1, <3>1, TransferNumbers DEF Done
    <3>2. CASE op # "idle"
      <4>1. Done \in Nat
        BY <3>2, LoopPosition
      <4>2. /\ i \in Nat /\ j \in Nat /\ i <= last.reg.count /\ j < last.length
        BY <3>2 DEF DmaInv, InLoop, MarksCoverChanges, TypeOK
      <4> DEFINE p == PerRow(last)
                 q == j \div 4
                 c == last.reg.count
      <4>3. q \in 0 .. p - 1 /\ Done = i * p + q /\ Total(last) = (c + 1) * p
        BY <2>2, <3>2, <4>2 DEF Done, Total
      <4> HIDE DEF p, q, c
      <4>4. p \in Nat /\ c \in Nat /\ i <= c
        BY <2>2, <4>2 DEF p, c
      <4>5. (c - i) * p >= 0 /\ (c - i) * p = c * p - i * p /\ (c + 1) * p = c * p + p
            /\ c * p \in Nat /\ i * p \in Nat
        BY <4>2, <4>4
      <4> QED
        BY <4>1, <4>3, <4>4, <4>5
    <3> QED
      BY <3>1, <3>2
  <2>5. PICK k \in 0 .. Done - 1 : SpOf(last)[k] = w
    <3>1. FilledBy(Done, spmem, last.spmem, SpOf(last), [n \in Nat |-> last.rdram[RdOf(last)[n]]])
      BY DEF DmaInv, Moved, ReadDone
    <3>2. DOMAIN last.spmem = Word
      BY <2>1 DEF WellBegun, Transfer
    <3> QED
      BY <3>1, <3>2 DEF FilledBy
  <2>6. k \in Nat /\ w = SpWord(last.cache + 4 * k)
    BY <2>4, <2>5 DEF SpOf
  <2>7. 4 * k < (last.reg.count + 1) * last.length
    <3>1. 4 * Total(last) = (last.reg.count + 1) * last.length /\ Total(last) \in Nat
      BY <2>2 DEF Total
    <3>2. k < Total(last)
      BY <2>4, <2>5, <3>1
    <3> QED
      BY <2>6, <3>1, <3>2
  <2>8. (last.cache % Bank) + 4 * k < Bank
    <3>1. last.cache % Bank \in Nat
      BY <2>2, BankSize, DivMod
    <3>2. (last.reg.count + 1) * last.length \in Nat
      BY <2>2
    <3> QED
      BY <2>3, <2>6, <2>7, <3>1, <3>2, BankSize
  <2> QED
    BY <2>2, <2>6, <2>8, SameBank DEF InOtherBank
<1> QED
  BY <1>1, DmaInvariance, PTL

\* Up to 2 * BankWords consecutive words do not meet.
LEMMA WordsDiffer ==
  ASSUME NEW c \in Nat, NEW k \in Nat, NEW l \in Nat,
         k < 2 * BankWords, l < 2 * BankWords,
         SpWord(c + 4 * k) = SpWord(c + 4 * l)
  PROVE  k = l
<1> DEFINE d == c \div 4
           n == 2 * BankWords
<1>1. d \in Nat /\ (c + 4 * k) \div 4 = d + k /\ (c + 4 * l) \div 4 = d + l /\ n \in Nat \ {0}
  BY BankSize
<1>2. (d + k) % n = (d + l) % n /\ k < n /\ l < n
  BY <1>1 DEF SpWord
<1> HIDE DEF d, n
<1> DEFINE q1 == (d + k) \div n
           q2 == (d + l) \div n
           r == (d + k) % n
<1>3. q1 \in Nat /\ r \in Nat /\ d + k = n * q1 + r
  <2>1. d + k \in Nat
    BY <1>1
  <2> QED
    BY <1>1, <2>1, DivMod
<1>4. q2 \in Nat /\ d + l = n * q2 + r
  <2>1. d + l \in Nat
    BY <1>1
  <2> QED
    BY <1>1, <1>2, <2>1, DivMod
<1> HIDE DEF q1, q2, r
<1>5. k - l = n * (q1 - q2)
  BY <1>1, <1>3, <1>4
<1>6. q1 = q2
  <2>1. n * (q1 - q2) < n /\ n * (q1 - q2) > -n
    BY <1>1, <1>2, <1>5
  <2>2. CASE q1 - q2 >= 1
    BY <1>1, <1>3, <1>4, <2>1, <2>2
  <2>3. CASE q1 - q2 <= -1
    BY <1>1, <1>3, <1>4, <2>1, <2>3
  <2> QED
    BY <1>3, <1>4, <2>2, <2>3
<1>7. n * (q1 - q2) = 0
  BY <1>1, <1>3, <1>6
<1> QED
  BY <1>5, <1>7

\* What was read in can be written back: a write with the registers of the read
\* before it changes nothing in RDRAM (the register updates of the two transfers
\* mirror each other), if DMA_CACHE was a multiple of 8 and the rows fit.
THEOREM WriteUndoesRead == Spec => []RoundTrip
<1>1. DmaInv => RoundTrip
  <2> SUFFICES ASSUME DmaInv, op = "idle", last.kind = "write", prior.kind = "read",
                      last.reg = prior.reg, last.set = prior.set, last.set[1] % 8 = 0,
                      (last.reg.count + 1) * last.length <= 2 * Bank
               PROVE  rdram = last.rdram
    BY DEF RoundTrip
  <2>1. WellBegun(last) /\ WellBegun(prior)
    BY DEF DmaInv, Records, NoTransfer
  <2>2. /\ last.cache = prior.cache /\ last.dram = prior.dram /\ last.length = prior.length
    <3>1. last.set[1] \in Nat
      BY <2>1 DEF WellBegun, Transfer
    <3>2. Align(last.set[1], 8) = Align(last.set[1], 4)
      BY <3>1, Aligned
    <3> QED
      BY <2>1, <3>2 DEF WellBegun
  <2>3. SpOf(last) = SpOf(prior) /\ RdOf(last) = RdOf(prior) /\ Total(last) = Total(prior)
    BY <2>2 DEF SpOf, RdOf, Total, PerRow
  <2>4. FilledBy(Total(last), rdram, last.rdram, RdOf(last),
                 [k \in Nat |-> last.spmem[SpOf(last)[k]]])
    BY DEF DmaInv, Moved, WriteDone, Done
  <2>5. /\ last.rdram = prior.rdram
        /\ FilledBy(Total(last), last.spmem, prior.spmem, SpOf(last),
                    [k \in Nat |-> last.rdram[RdOf(last)[k]]])
    BY <2>3 DEF DmaInv, Moved, ReadDone
  <2>6. /\ rdram \in [Rword -> Value] /\ last.rdram \in [Rword -> Value]
        /\ prior.spmem \in [Word -> Value]
    BY <2>1 DEF DmaInv, MarksCoverChanges, TypeOK, WellBegun, Transfer
  <2>7. Total(last) \in Nat /\ Total(last) <= 2 * BankWords
    BY <2>1, TransferNumbers, BankSize DEF Total
  <2>8. ASSUME NEW w \in Rword PROVE rdram[w] = last.rdram[w]
    <3>1. SUFFICES ASSUME NEW k \in 0 .. Total(last) - 1, RdOf(last)[k] = w,
                          rdram[w] = last.spmem[SpOf(last)[k]]
                   PROVE  rdram[w] = last.rdram[w]
      BY <2>4, <2>6, <2>7 DEF FilledBy
    <3>2. SpOf(last)[k] \in Word
      BY <2>1, <2>7, WordsInside
    <3>3. PICK l \in 0 .. Total(last) - 1 :
            SpOf(last)[l] = SpOf(last)[k]
            /\ last.spmem[SpOf(last)[k]] = last.rdram[RdOf(last)[l]]
      BY <2>5, <2>6, <2>7, <3>2 DEF FilledBy
    <3>4. SpWord(last.cache + 4 * k) = SpWord(last.cache + 4 * l)
      BY <2>7, <3>3 DEF SpOf
    <3>5. last.cache \in Nat /\ k \in Nat /\ l \in Nat /\ k < 2 * BankWords /\ l < 2 * BankWords
      BY <2>1, <2>7, TransferNumbers, BankSize
    <3>6. k = l
      BY <3>4, <3>5, WordsDiffer
    <3> QED
      BY <3>1, <3>3, <3>6
  <2> QED
    BY <2>6, <2>8
<1> QED
  BY <1>1, DmaInvariance, PTL

-----------------------------------------------------------------------------
(***************************************************************************)
(* A transfer is one step of CodeCache.  What has to be known besides      *)
(* DmaInv is that the marks are exactly those of the words that were       *)
(* written: none are left over when compiled code goes on.                 *)
(***************************************************************************)
Marked(t, n) ==
  {b \in Block : \E k \in 0 .. n - 1 : SpOf(t)[k] \in ImemWord /\ b \in DirtyMask(SpOf(t)[k])}

MarkInv ==
  /\ op # "idle" => mode = "MODE_CONTINUE"
  /\ op # "read" /\ mode = "MODE_CONTINUE" => dirty_blocks = {}
  /\ op = "read" => dirty_blocks = Marked(last, Done)

\* A word of a read adds its marks.
LEMMA ReadWordMarks ==
  ASSUME DmaInv, MarkInv, ReadWord
  PROVE  /\ last' = last /\ Done' = Done + 1 /\ Done \in Nat
         /\ dirty_blocks' = Marked(last, Done + 1)
         /\ MarkInv'
<1> DEFINE w == SpWord(dest + j)
<1>1. /\ op = "read" /\ mode = "MODE_CONTINUE" /\ last' = last
      /\ dirty_blocks' = dirty_blocks \cup (IF w \in ImemWord THEN DirtyMask(w) ELSE {})
      /\ NextWord \/ NextRow(length + skip, length) \/ LastRow(length + skip, length)
  BY DEF ReadWord, history, MarkInv
<1>2. Done \in Nat /\ SpOf(last)[Done] = w /\ Done' = Done + 1
  <2>1. Done \in Nat /\ SpOf(last)[Done] = SpWord(last.cache + i * length + j)
    BY <1>1, LoopPosition
  <2>2. dest = last.cache + i * length
    BY <1>1 DEF DmaInv, InLoop
  <2> QED
    BY <1>1, <2>1, <2>2, OneWordOn
<1>3. \A k : k \in 0 .. (Done + 1) - 1 <=> k \in 0 .. Done - 1 \/ k = Done
  BY <1>2
<1>4. DirtyMask(w) \subseteq Block
  BY DEF DirtyMask
<1> HIDE DEF w
<1>5. dirty_blocks = Marked(last, Done)
  BY <1>1 DEF MarkInv
<1>6. dirty_blocks' = Marked(last, Done + 1)
  BY <1>1, <1>2, <1>3, <1>4, <1>5 DEF Marked
<1>7. MarkInv'
  <2>1. CASE NextWord \/ NextRow(length + skip, length)
    <3>1. op' = "read" /\ mode' = "MODE_CONTINUE"
      BY <1>1, <2>1 DEF NextWord, NextRow
    <3>2. Marked(last', Done') = Marked(last, Done + 1)
      BY <1>1, <1>2
    <3> QED
      BY <1>6, <3>1, <3>2 DEF MarkInv
  <2>2. CASE ~(NextWord \/ NextRow(length + skip, length))
    <3>1. op' = "idle"
      BY <1>1, <2>2 DEF LastRow
    <3>2. mode' = IF dirty_blocks' # {} THEN "MODE_CHECK_FLAGS" ELSE "MODE_CONTINUE"
      BY <2>2 DEF ReadWord
    <3> QED
      BY <3>1, <3>2 DEF MarkInv
  <2> QED
    BY <2>1, <2>2
<1> QED
  BY <1>1, <1>2, <1>6, <1>7

LEMMA MarkInvariance == Spec => []MarkInv
<1>1. Init => MarkInv
  BY DEF Init, MarkInv
<1>2. DmaInv /\ MarkInv /\ [Next]_vars => MarkInv'
  <2> SUFFICES ASSUME DmaInv, MarkInv, [Next]_vars PROVE MarkInv'
    OBVIOUS
  <2>1. ASSUME NEW v \in CacheInputs, Mtc0Cache(v) PROVE MarkInv'
    BY <2>1 DEF Mtc0Cache, MarkInv
  <2>2. ASSUME NEW v \in DramInputs, Mtc0Dram(v) PROVE MarkInv'
    BY <2>2 DEF Mtc0Dram, MarkInv
  <2>3. ASSUME NEW reg \in LengthReg, StartRead(reg) PROVE MarkInv'
    <3>1. op' = "read" /\ mode' = "MODE_CONTINUE" /\ dirty_blocks' = {}
      BY <2>3 DEF StartRead, Begin, MarkInv
    <3>2. Done' = 0
      <4>1. DmaInv'
        BY <2>3, BeginStep
      <4>2. PerRow(last') \in Nat /\ i' = 0 /\ j' = 0
        BY <2>3, <3>1, <4>1, TransferNumbers DEF DmaInv, Records, InLoop, NoTransfer, StartRead, Begin
      <4>3. 0 * PerRow(last') + (0 \div 4) = 0
        BY <4>2
      <4> QED
        BY <3>1, <4>2, <4>3 DEF Done
    <3>3. \A k : k \notin 0 .. 0 - 1
      OBVIOUS
    <3>4. Marked(last', 0) = {}
      BY <3>3 DEF Marked
    <3> QED
      BY <3>1, <3>2, <3>4 DEF MarkInv
  <2>4. ASSUME NEW reg \in LengthReg, StartWrite(reg) PROVE MarkInv'
    BY <2>4 DEF StartWrite, Begin, MarkInv
  <2>5. CASE ReadWord
    BY <2>5, ReadWordMarks
  <2>6. CASE WriteWord
    BY <2>6 DEF WriteWord, NextWord, NextRow, LastRow, MarkInv
  <2>7. CASE Run
    BY <2>7 DEF Run, MarkInv
  <2>8. CASE UNCHANGED vars
    <3>1. UNCHANGED <<op, mode, dirty_blocks, last>> /\ Done' = Done
      BY <2>8 DEF vars, history, locals, Done, Total, PerRow
    <3> QED
      BY <3>1 DEF MarkInv, Marked
  <2> QED
    BY <2>1, <2>2, <2>3, <2>4, <2>5, <2>6, <2>7, <2>8 DEF Next
<1> QED
  BY <1>1, <1>2, DmaInvariance, PTL DEF Spec

(***************************************************************************)
(* Words on a circle of n words: how far u is behind c.                    *)
(***************************************************************************)
Distance(n, c, u) == IF u >= c THEN u - c ELSE u - c + n

\* Which of the p words from c on are u.
LEMMA OnCircle ==
  ASSUME NEW n \in Nat \ {0}, NEW c \in 0 .. n - 1, NEW u \in 0 .. n - 1
  PROVE  /\ Distance(n, c, u) \in 0 .. n - 1
         /\ (c + Distance(n, c, u)) % n = u
         /\ \A k \in Nat : (c + k) % n = u => k >= Distance(n, c, u)
<1> DEFINE d == Distance(n, c, u)
<1>1. d \in 0 .. n - 1 /\ (c + d = u \/ c + d = n + u)
  BY DEF Distance
<1>2. c + d \in Nat /\ (c + d = n * 0 + u \/ c + d = n * 1 + u)
  BY <1>1
<1>3. (c + d) % n = u
  BY <1>2, DivModUnique
<1>4. ASSUME NEW k \in Nat, (c + k) % n = u PROVE k >= d
  <2> DEFINE q == (c + k) \div n
  <2>1. q \in Nat /\ c + k = n * q + u
    BY <1>4, DivMod
  <2> HIDE DEF q
  <2>2. q = 0 \/ n * q >= n
    BY <2>1
  <2> QED
    BY <2>1, <2>2 DEF Distance
<1> HIDE DEF d
<1> QED
  BY <1>1, <1>3, <1>4 DEF d

LEMMA Reached ==
  ASSUME NEW n \in Nat \ {0}, NEW c \in 0 .. n - 1, NEW u \in 0 .. n - 1, NEW p \in Nat
  PROVE  (\E k \in 0 .. p - 1 : (c + k) % n = u) <=> Distance(n, c, u) < p
<1>1. /\ Distance(n, c, u) \in 0 .. n - 1 /\ (c + Distance(n, c, u)) % n = u
      /\ \A k \in Nat : (c + k) % n = u => k >= Distance(n, c, u)
  BY OnCircle
<1>2. ASSUME NEW k \in 0 .. p - 1, (c + k) % n = u PROVE Distance(n, c, u) < p
  <2>1. k \in Nat /\ k < p
    OBVIOUS
  <2> QED
    BY <1>1, <1>2, <2>1
<1>3. ASSUME Distance(n, c, u) < p PROVE Distance(n, c, u) \in 0 .. p - 1
  BY <1>1, <1>3
<1> QED
  BY <1>1, <1>2, <1>3

\* The words of the second bank among p words from word c on, of both; and m + 1
\* words of the second bank from its word a on.
Offset == 0 .. BankWords - 1
Met(c, p) == {w \in Offset : Distance(2 * BankWords, c, BankWords + w) < p}
Arc(a, m) == {w \in Offset : Distance(BankWords, a, w) < m + 1}

\* What a walk around both banks meets in the second one is met by a walk around
\* the second one alone, unless it is nothing.
LEMMA SecondHalf ==
  ASSUME NEW c \in 0 .. 2 * BankWords - 1, NEW p \in Nat
  PROVE  Met(c, p) = {} \/ \E a \in Offset, m \in Offset : Met(c, p) = Arc(a, m)
<1> DEFINE n == BankWords
<1>1. n \in Nat \ {0}
  BY BankSize
<1>2. /\ Met(c, p) = {w \in 0 .. n - 1 : Distance(2 * n, c, n + w) < p}
      /\ \A a, m : Arc(a, m) = {w \in 0 .. n - 1 : Distance(n, a, w) < m + 1}
      /\ Offset = 0 .. n - 1 /\ c \in 0 .. 2 * n - 1
  BY DEF Met, Arc, Offset
<1> HIDE DEF n
<1>3. CASE c < n /\ p <= n - c
  BY <1>1, <1>2, <1>3 DEF Distance
<1>4. CASE c < n /\ p > n - c
  <2> DEFINE m == (IF p - (n - c) < n THEN p - (n - c) ELSE n) - 1
  <2>1. m \in 0 .. n - 1 /\ 0 \in 0 .. n - 1
    BY <1>1, <1>2, <1>4
  <2>2. \A w \in 0 .. n - 1 : Distance(2 * n, c, n + w) < p <=> Distance(n, 0, w) < m + 1
    BY <1>1, <1>2, <1>4 DEF Distance
  <2> HIDE DEF m
  <2>3. Met(c, p) = Arc(0, m)
    BY <1>2, <2>2
  <2> QED
    BY <1>2, <2>1, <2>3
<1>5. CASE c >= n /\ p = 0
  BY <1>1, <1>2, <1>5 DEF Distance
<1>6. CASE c >= n /\ p > 0
  <2> DEFINE a == c - n
             m == (IF p <= n - a THEN p ELSE IF p <= 2 * n - a THEN n - a
                   ELSE IF p - n < n THEN p - n ELSE n) - 1
  <2>1. m \in 0 .. n - 1 /\ a \in 0 .. n - 1
    BY <1>1, <1>2, <1>6
  <2>2. \A w \in 0 .. n - 1 : Distance(2 * n, c, n + w) < p <=> Distance(n, a, w) < m + 1
    BY <1>1, <1>2, <1>6 DEF Distance
  <2> HIDE DEF a, m
  <2>3. Met(c, p) = Arc(a, m)
    BY <1>2, <2>2
  <2> QED
    BY <1>2, <2>1, <2>3
<1> QED
  BY <1>1, <1>2, <1>3, <1>4, <1>5, <1>6

\* Word k of a transfer is k words on from the first one.
LEMMA WalkOfTransfer ==
  ASSUME NEW t, WellBegun(t)
  PROVE  /\ SpWord(t.cache) \in 0 .. 2 * BankWords - 1
         /\ \A k \in Nat : SpOf(t)[k] = (SpWord(t.cache) + k) % (2 * BankWords)
<1> DEFINE c == t.cache \div 4
           n == 2 * BankWords
<1>1. t.cache \in Nat /\ c \in Nat /\ n \in Nat \ {0}
  BY TransferNumbers, BankSize
<1>2. c % n \in 0 .. n - 1 /\ c \div n \in Nat /\ c = n * (c \div n) + (c % n)
  BY <1>1, DivMod
<1>3. ASSUME NEW k \in Nat PROVE SpOf(t)[k] = ((c % n) + k) % n
  <2>1. SpOf(t)[k] = (c + k) % n
    <3>1. (t.cache + 4 * k) \div 4 = c + k
      BY <1>1
    <3> QED
      BY <3>1 DEF SpOf, SpWord
  <2> DEFINE x == (c % n) + k
  <2> HIDE DEF c, n
  <2>2. x \in Nat
    BY <1>2
  <2>3. x \div n \in Nat /\ x % n \in 0 .. n - 1 /\ x = n * (x \div n) + (x % n)
    BY <1>1, <2>2, DivMod
  <2> DEFINE q == c \div n + x \div n
  <2>4. c + k = n * q + (x % n) /\ q \in Nat
    BY <1>1, <1>2, <2>3 DEF x
  <2> HIDE DEF x, q
  <2>5. (c + k) % n = x % n
    BY <1>1, <2>3, <2>4, DivModUnique
  <2> QED
    BY <2>1, <2>5 DEF x, c, n
<1> QED
  BY <1>2, <1>3 DEF SpWord

\* The words of IMEM among the first p words of a transfer, and a cyclic interval.
Written(t, p) == {w \in Offset : \E k \in 0 .. p - 1 : SpOf(t)[k] = BankWords + w}
Interval(a, m) == {(a + k) % BankWords : k \in 0 .. m}

LEMMA IntervalIsArc ==
  ASSUME NEW a \in Offset, NEW m \in Offset
  PROVE  Interval(a, m) = Arc(a, m) /\ Interval(a, m) # {}
<1>1. BankWords \in Nat \ {0} /\ a \in 0 .. BankWords - 1 /\ m \in Nat
  BY BankSize DEF Offset
<1>2. \A k \in 0 .. m : (a + k) % BankWords \in Offset
  <2>1. \A k \in 0 .. m : a + k \in Nat
    BY <1>1
  <2> QED
    BY <1>1, <2>1, DivMod DEF Offset
<1>3. ASSUME NEW w \in Offset PROVE w \in Interval(a, m) <=> w \in Arc(a, m)
  <2>1. w \in 0 .. BankWords - 1 /\ m + 1 \in Nat /\ 0 .. (m + 1) - 1 = 0 .. m
    BY <1>1 DEF Offset
  <2>2. (\E k \in 0 .. (m + 1) - 1 : (a + k) % BankWords = w) <=> Distance(BankWords, a, w) < m + 1
    BY <1>1, <2>1, Reached
  <2> QED
    BY <2>1, <2>2 DEF Interval, Arc
<1>4. Interval(a, m) \subseteq Offset /\ Arc(a, m) \subseteq Offset
  BY <1>2 DEF Interval, Arc
<1>5. 0 \in 0 .. m
  BY <1>1
<1> QED
  BY <1>3, <1>4, <1>5 DEF Interval

\* The words of IMEM that a transfer writes are none or a cyclic interval of IMEM.
LEMMA ImemInterval ==
  ASSUME NEW t, WellBegun(t), NEW p \in Nat
  PROVE  Written(t, p) = {} \/ \E a \in Offset, m \in Offset : Written(t, p) = Interval(a, m)
<1> DEFINE c == SpWord(t.cache)
<1>1. /\ c \in 0 .. 2 * BankWords - 1
      /\ \A k \in 0 .. p - 1 : SpOf(t)[k] = (c + k) % (2 * BankWords)
  BY WalkOfTransfer
<1> HIDE DEF c
<1>2. BankWords \in Nat \ {0} /\ 2 * BankWords \in Nat \ {0}
  BY BankSize
<1>3. ASSUME NEW w \in Offset PROVE w \in Written(t, p) <=> w \in Met(c, p)
  <2>1. BankWords + w \in 0 .. 2 * BankWords - 1
    BY <1>2 DEF Offset
  <2>2. (\E k \in 0 .. p - 1 : (c + k) % (2 * BankWords) = BankWords + w)
          <=> Distance(2 * BankWords, c, BankWords + w) < p
    BY <1>1, <1>2, <2>1, Reached
  <2> QED
    BY <1>1, <2>2 DEF Written, Met
<1>4. Written(t, p) = Met(c, p)
  BY <1>3 DEF Written, Met
<1>5. Met(c, p) = {} \/ \E a \in Offset, m \in Offset : Met(c, p) = Arc(a, m)
  BY <1>1, SecondHalf
<1> QED
  BY <1>4, <1>5, IntervalIsArc

\* CodeCache's memory and blocks are the second bank.
LEMMA CacheTerms ==
  /\ CC!ImemWords = BankWords /\ CC!Word = 0 .. BankWords - 1 /\ CC!Block = Block
  /\ \A w \in 0 .. BankWords - 1 : CC!DirtyMask(CC!BlockOf(w)) = DirtyMask(BankWords + w)
<1>1. CC!ImemWords = BankWords /\ CC!Word = 0 .. BankWords - 1 /\ CC!Block = Block
  BY DEF CC!ImemWords, CC!Word, CC!Block, BankWords, Block
<1>2. ASSUME NEW w \in 0 .. BankWords - 1
      PROVE  CC!DirtyMask(CC!BlockOf(w)) = DirtyMask(BankWords + w)
  <2>1. (BankWords + w) - BankWords = w
    BY BankSize
  <2>2. DirtyMask(BankWords + w) = {w \div BlockWords, w \div BlockWords - 1} \cap Block
    BY <2>1, Zenon DEF DirtyMask
  <2>3. CC!DirtyMask(CC!BlockOf(w)) = {w \div BlockWords, w \div BlockWords - 1} \cap CC!Block
    BY Zenon DEF CC!DirtyMask, CC!BlockOf
  <2> QED
    BY <1>1, <2>2, <2>3
<1> QED
  BY <1>1, <1>2

\* A word of IMEM, counted from its begin, has a block, which its marks include.
LEMMA MarksOfWord ==
  ASSUME NEW w \in Offset
  PROVE  BankWords + w \in ImemWord /\ DirtyMask(BankWords + w) # {}
<1>1. w \in Nat /\ w < BlockWords * CodeBlocks /\ BankWords + w \in ImemWord
      /\ (BankWords + w) - BankWords = w
  BY BankSize DEF Offset, ImemWord, BankWords
<1>2. w \div BlockWords \in Nat /\ w = BlockWords * (w \div BlockWords) + (w % BlockWords)
      /\ w % BlockWords \in Nat
  BY <1>1, DmaAssumption, DivMod
<1>3. w \div BlockWords < CodeBlocks
  BY <1>1, <1>2, DmaAssumption
<1>4. w \div BlockWords \in Block
  BY <1>2, <1>3, DmaAssumption DEF Block
<1>5. w \div BlockWords \in DirtyMask(BankWords + w)
  BY <1>1, <1>4 DEF DirtyMask
<1> QED
  BY <1>1, <1>5

\* The last word of a read: the whole of it is a step of CodeCache.
LEMMA ReadIsOneStep ==
  ASSUME DmaInv, MarkInv, ReadWord, op' = "idle"
  PROVE  UNCHANGED CC!vars \/ IsDmaRead
<1> DEFINE p == Total(last)
<1>1. /\ op = "read" /\ mode = "MODE_CONTINUE" /\ shadow' = shadow
      /\ mode' = IF dirty_blocks' # {} THEN "MODE_CHECK_FLAGS" ELSE "MODE_CONTINUE"
  BY DEF ReadWord, NextWord, NextRow, history, MarkInv
<1>2. WellBegun(last) /\ last.kind = "read" /\ last' = last
  BY <1>1, LoopPosition, ReadWordMarks
<1>3. p \in Nat /\ Done' = p /\ Done + 1 = p
  BY <1>2, ReadWordMarks, TransferNumbers DEF Done, Total, PerRow
<1>4. dirty_blocks' = Marked(last, p)
  BY <1>3, ReadWordMarks
<1>5. FilledBy(p, spmem', last.spmem, SpOf(last), [k \in Nat |-> last.rdram[RdOf(last)[k]]])
  <2>1. DmaInv'
    BY ReadWordStep
  <2> QED
    BY <1>2, <1>3, <2>1 DEF DmaInv, Moved, ReadDone
<1> HIDE DEF p
<1>6. ASSUME NEW w \in Offset \ Written(last, p)
      PROVE  spmem'[BankWords + w] = last.spmem[BankWords + w]
  <2>1. BankWords + w \in DOMAIN last.spmem
    BY <1>2, BankSize DEF WellBegun, Transfer, Word, Offset
  <2>2. \A k \in 0 .. p - 1 : SpOf(last)[k] # BankWords + w
    BY <1>6 DEF Written
  <2> QED
    BY <1>5, <2>1, <2>2 DEF FilledBy
<1>7. dirty_blocks' = UNION {DirtyMask(BankWords + w) : w \in Written(last, p)}
  <2>1. ASSUME NEW x \in ImemWord PROVE \E w \in Offset : x = BankWords + w
    <3>1. x - BankWords \in Offset /\ x = BankWords + (x - BankWords)
      BY BankSize DEF Offset, ImemWord
    <3> QED
      BY <3>1
  <2>2. ASSUME NEW b \in Marked(last, p)
        PROVE  \E w \in Written(last, p) : b \in DirtyMask(BankWords + w)
    <3>1. PICK k \in 0 .. p - 1 : SpOf(last)[k] \in ImemWord /\ b \in DirtyMask(SpOf(last)[k])
      BY <2>2 DEF Marked
    <3>2. PICK w \in Offset : SpOf(last)[k] = BankWords + w
      BY <2>1, <3>1
    <3> QED
      BY <3>1, <3>2 DEF Written
  <2>3. ASSUME NEW w \in Written(last, p), NEW b \in DirtyMask(BankWords + w)
        PROVE  b \in Marked(last, p)
    <3>1. PICK k \in 0 .. p - 1 : SpOf(last)[k] = BankWords + w
      BY DEF Written
    <3>2. BankWords + w \in ImemWord
      BY MarksOfWord DEF Written
    <3>3. b \in Block
      BY DEF DirtyMask
    <3> QED
      BY <3>1, <3>2, <3>3 DEF Marked
  <2> QED
    BY <1>4, <2>2, <2>3
<1>8. CASE Written(last, p) = {}
  <2>1. dirty_blocks' = {} /\ mode' = mode
    BY <1>1, <1>7, <1>8
  <2>2. \A w \in 0 .. BankWords - 1 : spmem'[BankWords + w] = last.spmem[BankWords + w]
    BY <1>6, <1>8 DEF Offset
  <2> QED
    BY <1>1, <2>1, <2>2 DEF CC!vars
<1>9. ASSUME NEW a \in Offset, NEW m \in Offset, Written(last, p) = Interval(a, m)
      PROVE  IsDmaRead
  <2> DEFINE data == [k \in 0 .. m |-> spmem'[BankWords + ((a + k) % BankWords)]]
             hit  == {(a + k) % CC!ImemWords : k \in DOMAIN data}
  <2>1. hit = Interval(a, m) /\ hit = Written(last, p)
    BY <1>9, CacheTerms DEF Interval
  <2>2. hit \subseteq Offset /\ hit # {}
    BY <2>1, IntervalIsArc DEF Written
  <2>3. \A k \in 0 .. m : data[k] = spmem'[BankWords + ((a + k) % BankWords)]
    OBVIOUS
  <2> HIDE DEF data, hit
  <2>4. ASSUME NEW w \in hit PROVE data[(w - a) % CC!ImemWords] = spmem'[BankWords + w]
    <3>1. PICK k \in 0 .. m : w = (a + k) % BankWords
      BY <2>1 DEF Interval
    <3> DEFINE n == BankWords
    <3>2. /\ n \in Nat \ {0} /\ a \in 0 .. n - 1 /\ m \in 0 .. n - 1
          /\ w = (a + k) % n /\ CC!ImemWords = n
      BY <3>1, BankSize, CacheTerms DEF Offset
    <3> HIDE DEF n
    <3>3. a + k \in Nat /\ (a + k = n * 0 + (a + k) \/ a + k = n * 1 + (a + k - n))
      BY <3>2
    <3>4. w = a + k \/ w = a + k - n
      <4>1. CASE a + k < n
        BY <3>2, <3>3, <4>1, DivModUnique
      <4>2. CASE a + k >= n
        <5>1. a + k - n \in 0 .. n - 1 /\ a + k = n * 1 + (a + k - n)
          BY <3>2, <4>2
        <5> QED
          BY <3>2, <3>3, <5>1, DivModUnique
      <4> QED
        BY <3>2, <4>1, <4>2
    <3>5. (w - a) % n = k
      BY <3>2, <3>4
    <3> QED
      BY <2>3, <3>1, <3>2, <3>5
  <2>5. dirty_blocks' = UNION {CC!DirtyMask(CC!BlockOf(w)) : w \in hit}
    <3>1. \A w \in hit : CC!DirtyMask(CC!BlockOf(w)) = DirtyMask(BankWords + w)
      BY <2>2, CacheTerms DEF Offset
    <3> QED
      BY <1>7, <2>1, <3>1
  <2>6. dirty_blocks' # {}
    BY <1>7, <2>1, <2>2, MarksOfWord
  <2>7. mode' = "MODE_CHECK_FLAGS"
    BY <1>1, <2>6
  <2>8. \A w \in Offset \ hit : spmem'[BankWords + w] = last.spmem[BankWords + w]
    BY <1>6, <2>1
  <2>9. [x \in 0 .. BankWords - 1 |-> IF op' = "read" THEN last'.spmem[BankWords + x]
                                                      ELSE spmem'[BankWords + x]]
          = [w \in CC!Word |->
               IF w \in hit THEN data[(w - a) % CC!ImemWords]
               ELSE [x \in 0 .. BankWords - 1 |->
                       IF op = "read" THEN last.spmem[BankWords + x]
                                      ELSE spmem[BankWords + x]][w]]
    BY <1>1, <2>4, <2>8, CacheTerms DEF Offset
  <2>10. CC!DmaRead(a, data)
    BY <1>1, <2>5, <2>7, <2>9 DEF CC!DmaRead, CC!tableVars, hit
  <2>11. DmaReadTo(a, m)
    BY <2>10 DEF DmaReadTo, data
  <2> QED
    BY <2>11 DEF IsDmaRead, Offset
<1> QED
  BY <1>2, <1>3, <1>8, <1>9, ImemInterval

\* invalidate_code copies the marked blocks only; as all changes are marked, this
\* is the copy of IMEM that Run makes.
LEMMA RunInvalidates ==
  ASSUME DmaInv, Run
  PROVE  CC!InvalidateCode
<1>1. /\ op = "idle" /\ op' = "idle" /\ dirty_blocks' = {} /\ shadow' = spmem /\ spmem' = spmem
  BY DEF Run
<1>2. ASSUME NEW w \in 0 .. BankWords - 1, CC!BlockOf(w) \notin dirty_blocks
      PROVE  shadow[BankWords + w] = spmem[BankWords + w]
  <2>1. BankWords + w \in ImemWord /\ DirtyMask(BankWords + w) # {}
        /\ (BankWords + w) - BankWords = w
    BY MarksOfWord, BankSize DEF Offset
  <2>2. w \in Nat /\ w < BlockWords * CodeBlocks
    BY BankSize DEF BankWords
  <2>3. w \div BlockWords \in Nat /\ w = BlockWords * (w \div BlockWords) + (w % BlockWords)
        /\ w % BlockWords \in Nat
    BY <2>2, DmaAssumption, DivMod
  <2>4. w \div BlockWords < CodeBlocks
    BY <2>2, <2>3, DmaAssumption
  <2>5. w \div BlockWords \in Block
    BY <2>3, <2>4, DmaAssumption DEF Block
  <2>6. w \div BlockWords \notin dirty_blocks
    BY <1>2 DEF CC!BlockOf
  <2> QED
    BY <2>1, <2>5, <2>6 DEF DmaInv, MarksCoverChanges
<1>3. [a \in 0 .. BankWords - 1 |-> shadow'[BankWords + a]]
        = [a \in CC!Word |->
             IF CC!BlockOf(a) \in dirty_blocks
             THEN [x \in 0 .. BankWords - 1 |-> IF op = "read" THEN last.spmem[BankWords + x]
                                                               ELSE spmem[BankWords + x]][a]
             ELSE [x \in 0 .. BankWords - 1 |-> shadow[BankWords + x]][a]]
  BY <1>1, <1>2, CacheTerms
<1>4. [a \in 0 .. BankWords - 1 |-> "no code"]
        = [a \in CC!Word |-> IF CC!BlockOf(a) \in dirty_blocks THEN "no code"
                             ELSE [x \in 0 .. BankWords - 1 |-> "no code"][a]]
  BY CacheTerms
<1> QED
  BY <1>1, <1>3, <1>4 DEF CC!InvalidateCode

\* Every step of the engine is a step of CodeCache's, or changes nothing there.
LEMMA StepOfCodeCache ==
  ASSUME DmaInv, MarkInv, [Next]_vars
  PROVE  UNCHANGED CC!vars \/ IsDmaRead \/ (Run /\ CC!InvalidateCode)
<1>1. CASE \/ \E v \in CacheInputs : Mtc0Cache(v)
           \/ \E v \in DramInputs : Mtc0Dram(v)
           \/ UNCHANGED vars
  <2>1. UNCHANGED <<spmem, shadow, last, op, mode, dirty_blocks>>
    BY <1>1 DEF Mtc0Cache, Mtc0Dram, vars, history
  <2> QED
    BY <2>1 DEF CC!vars
<1>2. ASSUME NEW reg \in LengthReg, StartRead(reg) \/ StartWrite(reg)
      PROVE  UNCHANGED CC!vars
  <2>1. /\ op = "idle" /\ dirty_blocks = {} /\ last'.spmem = spmem
        /\ UNCHANGED <<spmem, shadow, mode, dirty_blocks>>
    BY <1>2 DEF StartRead, StartWrite, Begin, MarkInv
  <2> QED
    BY <2>1 DEF CC!vars
<1>3. CASE ReadWord
  <2>1. CASE op' = "idle"
    BY <1>3, <2>1, ReadIsOneStep
  <2>2. CASE op' # "idle"
    <3>1. op = "read" /\ op' = op /\ UNCHANGED <<shadow, last, mode>>
      BY <1>3, <2>2 DEF ReadWord, NextWord, NextRow, LastRow, history
    <3> QED
      BY <3>1 DEF CC!vars
  <2> QED
    BY <2>1, <2>2
<1>4. CASE WriteWord
  <2>1. /\ op = "write" /\ op' # "read" /\ mode = "MODE_CONTINUE" /\ mode' = mode
        /\ UNCHANGED <<spmem, shadow, dirty_blocks>>
    BY <1>4 DEF WriteWord, NextWord, NextRow, LastRow, history, MarkInv
  <2> QED
    BY <2>1 DEF CC!vars
<1>5. CASE Run
  BY <1>5, RunInvalidates
<1> QED
  BY <1>1, <1>2, <1>3, <1>4, <1>5 DEF Next

\* Whatever the DMA engine does, word by word and row by row, is to the code cache
\* one DmaRead, the copy of invalidate_code or nothing (rsp_dma_read marks and
\* MODE_CHECK_FLAGS, rsp_dma_write, CPU::invalidate_code).
THEOREM OneStepPerTransfer == Spec => ImplementsDmaRead
<1>1. DmaInv /\ MarkInv /\ [Next]_vars
        => [UNCHANGED CC!vars \/ IsDmaRead \/ (Run /\ CC!InvalidateCode)]_vars
  BY StepOfCodeCache
<1> QED
  BY <1>1, DmaInvariance, MarkInvariance, PTL DEF Spec, ImplementsDmaRead

-----------------------------------------------------------------------------
(***************************************************************************)
(* Arithmetic of the addresses.                                            *)
(***************************************************************************)
LEMMA ZDivMod ==
  ASSUME NEW n \in Nat \ {0}, NEW x \in Int
  PROVE  x \div n \in Int /\ x % n \in 0 .. n - 1 /\ x = n * (x \div n) + (x % n)
OBVIOUS

LEMMA ZDivModUnique ==
  ASSUME NEW n \in Nat \ {0}, NEW x, NEW q \in Int, NEW r \in 0 .. n - 1, x = n * q + r
  PROVE  x \div n = q /\ x % n = r
OBVIOUS

\* DMEM is a number of rows of sixteen bytes.
LEMMA SizeFacts ==
  Size \in Nat /\ Size >= 128 /\ Size % 16 = 0 /\ Size % 8 = 0 /\ Size % 4 = 0
  /\ \E rows \in Nat : Size = 16 * rows
<1>1. Size \in Nat /\ Size >= 128 /\ Size % 16 = 0
  BY SizeAssumption
<1>2. Size = 16 * (Size \div 16) /\ Size \div 16 \in Nat
  BY <1>1
<1>3. ASSUME NEW q \in Nat  PROVE (16 * q) % 8 = 0 /\ (16 * q) % 4 = 0
  OBVIOUS
<1>4. Size % 8 = 0 /\ Size % 4 = 0
  BY <1>2, <1>3
<1> QED
  BY <1>1, <1>2, <1>4

LEMMA WholeTurns ==
  ASSUME NEW a \in Nat
  PROVE  \E q \in Int : a = Size * q + Masked(a) /\ Masked(a) \in 0 .. Size - 1
<1>1. Size \in Nat \ {0} /\ a \in Int
  BY SizeFacts
<1>2. a \div Size \in Int /\ a % Size \in 0 .. Size - 1 /\ a = Size * (a \div Size) + (a % Size)
  BY <1>1, ZDivMod
<1> QED
  BY <1>2 DEF Masked

\* "& 0xfff" keeps the offset in a row of sixteen bytes.
LEMMA MaskFacts ==
  ASSUME NEW a \in Nat
  PROVE  /\ Masked(a) \in 0 .. Size - 1 /\ Masked(a) \in Nat /\ Masked(a) = a % Size
         /\ Masked(a) % 16 = a % 16 /\ Masked(a) % 8 = a % 8
         /\ Masked(a) % 4 = a % 4 /\ Masked(a) % 2 = a % 2
<1>1. PICK rows \in Nat : Size = 16 * rows
  BY SizeFacts
<1>2. PICK q \in Int : a = Size * q + Masked(a) /\ Masked(a) \in 0 .. Size - 1
  BY WholeTurns
<1>3. a = 16 * (rows * q) + Masked(a) /\ rows * q \in Int
  BY <1>1, <1>2
<1>4. Masked(a) \in Nat
  BY <1>2
<1>5. PICK m \in Int : a = 16 * m + Masked(a)
  BY <1>3
<1>6. Masked(a) % 16 = a % 16 /\ Masked(a) % 8 = a % 8
      /\ Masked(a) % 4 = a % 4 /\ Masked(a) % 2 = a % 2
  BY <1>4, <1>5
<1> QED
  BY <1>2, <1>4, <1>6 DEF Masked

\* An address that goes on past the end of DMEM starts again at its beginning.
LEMMA MaskStep ==
  ASSUME NEW a \in Nat, NEW k \in 0 .. Size - 1
  PROVE  Masked(a + k) = IF Masked(a) + k < Size THEN Masked(a) + k ELSE Masked(a) + k - Size
<1>1. PICK q \in Int : a = Size * q + Masked(a) /\ Masked(a) \in 0 .. Size - 1
  BY WholeTurns
<1>2. Size \in Nat \ {0} /\ k \in Nat
  BY SizeFacts
<1>3. CASE Masked(a) + k < Size
  <2>1. a + k = Size * q + (Masked(a) + k) /\ Masked(a) + k \in 0 .. Size - 1 /\ a + k \in Int
    BY <1>1, <1>2, <1>3
  <2>2. (a + k) % Size = Masked(a) + k
    BY <1>2, <2>1, ZDivModUnique
  <2> QED
    BY <1>3, <2>2 DEF Masked
<1>4. CASE ~(Masked(a) + k < Size)
  <2> DEFINE m == Masked(a) + k - Size
  <2>1. a + k = Size * (q + 1) + m /\ m \in 0 .. Size - 1 /\ q + 1 \in Int /\ a + k \in Int
    BY <1>1, <1>2, <1>4
  <2>2. (a + k) % Size = m
    <3> HIDE DEF m
    <3> QED  BY <1>2, <2>1, ZDivModUnique
  <2> QED
    BY <1>4, <2>2 DEF Masked
<1> QED
  BY <1>3, <1>4

\* The flips are their own inverses and stay in the word, or half-word.
LEMMA Flips ==
  ASSUME NEW x \in Nat
  PROVE  /\ BES(x) \in Nat /\ BES(BES(x)) = x /\ BES(x) \div 4 = x \div 4
         /\ HES(x) \in Nat /\ HES(HES(x)) = x /\ HES(x) \div 4 = x \div 4
         /\ MES(x) \in Nat /\ MES(MES(x)) = x /\ MES(x) \div 2 = x \div 2
         /\ HES(x) % 2 = x % 2
BY DEF BES, HES, MES

LEMMA FlipSteps ==
  ASSUME NEW x \in Nat
  PROVE  BES(x) = HES(MES(x)) /\ BES(x) = MES(HES(x))
BY DEF BES, HES, MES

\* The bytes of DMEM, and of a register, flip among themselves.
LEMMA FlipRanges ==
  /\ \A x \in 0 .. Size - 1 : BES(x) \in 0 .. Size - 1 /\ HES(x) \in 0 .. Size - 1
  /\ \A x \in Nat : x >= Size => BES(x) >= Size
  /\ \A x \in Host : BES(x) \in Host
  /\ \A x \in Lane : MES(x) \in Lane
<1>1. PICK rows \in Nat : Size = 16 * rows
  BY SizeFacts
<1> QED
  BY <1>1, SizeFacts DEF BES, HES, MES, Host, Lane, Margin

\* Bytes and half-words.
Halfword == {v \in Nat : v < 65536}

LEMMA ByteIs ==
  ASSUME NEW v
  PROVE  v \in Byte <=> v \in Nat /\ v < 256
BY DEF Byte

LEMMA Halves ==
  /\ \A v \in Halfword : v % 256 \in Byte /\ v \div 256 \in Byte /\ v \div 128 \in Nat
  /\ \A low, high \in Byte :
       /\ low + 256 * high \in Halfword
       /\ (low + 256 * high) % 256 = low /\ (low + 256 * high) \div 256 = high
<1>1. ASSUME NEW v \in Nat  PROVE v % 256 \in Nat /\ v % 256 < 256 /\ v \div 128 \in Nat
  OBVIOUS
<1>2. ASSUME NEW v \in Nat, v < 65536  PROVE v \div 256 \in Nat /\ v \div 256 < 256
  BY <1>2
<1>3. ASSUME NEW v \in Halfword
      PROVE  v % 256 \in Byte /\ v \div 256 \in Byte /\ v \div 128 \in Nat
  <2>1. v \in Nat /\ v < 65536
    BY DEF Halfword
  <2> QED
    BY <1>1, <1>2, <2>1, ByteIs
<1>4. ASSUME NEW low \in Byte, NEW high \in Byte
      PROVE  /\ low + 256 * high \in Nat /\ low + 256 * high < 65536
             /\ (low + 256 * high) % 256 = low /\ (low + 256 * high) \div 256 = high
  BY ByteIs
<1>5. ASSUME NEW low \in Byte, NEW high \in Byte  PROVE low + 256 * high \in Halfword
  BY <1>4 DEF Halfword
<1> QED
  BY <1>3, <1>4, <1>5

\* The two bytes of an element.
LEMMA BytePairs ==
  /\ \A b \in Lane : b \in Nat /\ b < 16 /\ b \div 2 \in 0 .. 7 /\ b % 2 \in {0, 1}
  /\ \A k \in 0 .. 7 : /\ 2 * k \in Lane /\ (2 * k) % 2 = 0 /\ (2 * k) \div 2 = k
                       /\ 2 * k + 1 \in Lane /\ (2 * k + 1) % 2 = 1 /\ (2 * k + 1) \div 2 = k
BY DEF Lane

-----------------------------------------------------------------------------
(***************************************************************************)
(* What the helpers of the loads and stores do to the bytes the RSP sees.  *)
(***************************************************************************)
LEMMA BytesRead ==
  ASSUME HoldsBytes
  PROVE  /\ \A x \in 0 .. Size - 1 : READ_MEM_U8(x) = Mem(dmem, x) /\ READ_MEM_U8(x) \in Byte
         /\ \A b \in Lane : READ_VEC_U8(Rt, b) = Vec(regs, b) /\ READ_VEC_U8(Rt, b) \in Byte
         /\ \A r \in Reg, b \in Lane : READ_VEC_U8(r, b) \in Byte
         /\ Rt \in Reg
<1>1. ASSUME NEW x \in 0 .. Size - 1  PROVE READ_MEM_U8(x) = Mem(dmem, x) /\ READ_MEM_U8(x) \in Byte
  <2>1. BES(x) \in Host
    BY FlipRanges, SizeFacts DEF Host, Margin
  <2> QED
    BY <2>1 DEF READ_MEM_U8, Mem, HoldsBytes
<1>2. ASSUME NEW r \in Reg, NEW b \in Lane  PROVE READ_VEC_U8(r, b) \in Byte
  <2>1. MES(b) \in Lane
    BY FlipRanges
  <2> QED
    BY <2>1 DEF READ_VEC_U8, HoldsBytes
<1>3. Rt \in Reg /\ \A b : READ_VEC_U8(Rt, b) = Vec(regs, b)
  BY DEF Rt, Reg, READ_VEC_U8, Vec
<1> QED
  BY <1>1, <1>2, <1>3

LEMMA ElementRange ==
  ASSUME HoldsBytes, NEW r \in Reg, NEW k \in 0 .. 7
  PROVE  /\ Element(r, k) \in Halfword
         /\ Element(r, k) % 256 = regs[r][2 * k] /\ Element(r, k) \div 256 = regs[r][2 * k + 1]
<1>1. regs[r][2 * k] \in Byte /\ regs[r][2 * k + 1] \in Byte
  BY BytePairs DEF HoldsBytes
<1> QED
  BY <1>1, Halves DEF Element

\* A load of bytes changes those bytes of its register.
LEMMA BytesLoaded ==
  ASSUME HoldsBytes, NEW S \in SUBSET Lane, NEW From \in [S -> Byte]
  PROVE  /\ LoadBytes(Rt, From) \in [Reg -> [Lane -> Byte]]
         /\ \A b \in Lane : Vec(LoadBytes(Rt, From), b) = IF b \in S THEN From[b] ELSE Vec(regs, b)
<1> DEFINE row == [b \in Lane |-> IF MES(b) \in DOMAIN From THEN From[MES(b)] ELSE regs[Rt][b]]
<1>1. row \in [Lane -> Byte]
  BY BytesRead DEF HoldsBytes
<1>2. LoadBytes(Rt, From) = [regs EXCEPT ![Rt] = row]
  BY DEF LoadBytes
<1>3. LoadBytes(Rt, From) \in [Reg -> [Lane -> Byte]] /\ LoadBytes(Rt, From)[Rt] = row
  <2> HIDE DEF row
  <2> QED  BY <1>1, <1>2, BytesRead DEF HoldsBytes
<1>4. ASSUME NEW b \in Lane
      PROVE  Vec(LoadBytes(Rt, From), b) = IF b \in S THEN From[b] ELSE Vec(regs, b)
  <2>1. MES(b) \in Lane /\ MES(MES(b)) = b
    BY FlipRanges, Flips, BytePairs
  <2>2. row[MES(b)] = IF b \in S THEN From[b] ELSE regs[Rt][MES(b)]
    BY <2>1
  <2> QED
    BY <1>3, <2>2 DEF Vec
<1> QED
  BY <1>3, <1>4

\* A load of elements changes the bytes of its register, in pairs.
LEMMA ElementsLoaded ==
  ASSUME HoldsBytes, NEW Of \in [0 .. 7 -> Halfword]
  PROVE  /\ LoadElements(Rt, Of) \in [Reg -> [Lane -> Byte]]
         /\ \A k \in 0 .. 7 : /\ LoadElements(Rt, Of)[Rt][2 * k] = Of[k] % 256
                              /\ LoadElements(Rt, Of)[Rt][2 * k + 1] = Of[k] \div 256
<1> DEFINE row == [b \in Lane |-> IF b % 2 = 0 THEN Of[b \div 2] % 256 ELSE Of[b \div 2] \div 256]
<1>1. row \in [Lane -> Byte]
  <2>1. ASSUME NEW b \in Lane  PROVE row[b] \in Byte
    <3>1. Of[b \div 2] \in Halfword
      BY BytePairs
    <3> QED
      BY <3>1, Halves
  <2> QED
    BY <2>1
<1>2. LoadElements(Rt, Of) = [regs EXCEPT ![Rt] = row]
  BY DEF LoadElements
<1>3. ASSUME NEW k \in 0 .. 7
      PROVE  row[2 * k] = Of[k] % 256 /\ row[2 * k + 1] = Of[k] \div 256
  BY BytePairs
<1> HIDE DEF row
<1>4. LoadElements(Rt, Of) \in [Reg -> [Lane -> Byte]] /\ LoadElements(Rt, Of)[Rt] = row
  BY <1>1, <1>2, BytesRead DEF HoldsBytes
<1> QED
  BY <1>3, <1>4

\* A store of bytes sets the bytes at its addresses and no others.
LEMMA BytesStored ==
  ASSUME HoldsBytes, NEW S, NEW A \in [S -> Nat], NEW V \in [S -> Byte]
  PROVE  /\ StoreBytes(A, V) \in [Host -> Byte]
         /\ \A h \in Host : (\A k \in S : A[k] # BES(h)) => StoreBytes(A, V)[h] = dmem[h]
         /\ \A h \in Host, k \in S :
              (A[k] = BES(h) /\ \A m \in S : A[m] = A[k] => m = k) => StoreBytes(A, V)[h] = V[k]
         /\ (\A k \in S : \A h \in Host : A[k] = BES(h) => V[k] = dmem[h]) => StoreBytes(A, V) = dmem
<1> DEFINE at(h) == CHOOSE k \in DOMAIN A : A[k] = BES(h)
<1>1. ASSUME NEW h \in Host, NEW k \in S, A[k] = BES(h)
      PROVE  at(h) \in S /\ A[at(h)] = BES(h) /\ StoreBytes(A, V)[h] = V[at(h)]
  <2>1. at(h) \in S /\ A[at(h)] = BES(h)
    BY <1>1
  <2> QED
    BY <1>1, <2>1 DEF StoreBytes
<1>2. ASSUME NEW h \in Host, \A k \in S : A[k] # BES(h)  PROVE StoreBytes(A, V)[h] = dmem[h]
  BY <1>2 DEF StoreBytes
<1>3. StoreBytes(A, V) \in [Host -> Byte]
  <2>1. StoreBytes(A, V) = [h \in Host |-> StoreBytes(A, V)[h]]
    BY DEF StoreBytes
  <2>2. ASSUME NEW h \in Host  PROVE StoreBytes(A, V)[h] \in Byte
    <3> HIDE DEF at
    <3> QED  BY <1>1, <1>2 DEF HoldsBytes
  <2> HIDE DEF at
  <2> QED
    BY <2>1, <2>2
<1>4. ASSUME NEW h \in Host, NEW k \in S, A[k] = BES(h), \A m \in S : A[m] = A[k] => m = k
      PROVE  StoreBytes(A, V)[h] = V[k]
  <2> HIDE DEF at
  <2> QED  BY <1>1, <1>4
<1>5. ASSUME \A k \in S : \A h \in Host : A[k] = BES(h) => V[k] = dmem[h]
      PROVE  StoreBytes(A, V) = dmem
  <2>1. ASSUME NEW h \in Host  PROVE StoreBytes(A, V)[h] = dmem[h]
    <3> HIDE DEF at
    <3> QED  BY <1>1, <1>2, <1>5
  <2> QED
    BY <1>3, <2>1 DEF HoldsBytes
<1> QED
  BY <1>2, <1>3, <1>4, <1>5

\* The same in terms of the addresses of the RSP, inside DMEM.
MemSet(d, S, A, V) ==
  /\ d \in [Host -> Byte]
  /\ \A h \in Size .. Size + Margin - 1 : d[h] = dmem[h]
  /\ \A x \in 0 .. Size - 1 : (\A k \in S : A[k] # x) => Mem(d, x) = Mem(dmem, x)
  /\ \A k \in S : (\A m \in S : A[m] = A[k] => m = k) => Mem(d, A[k]) = V[k]
  /\ (\A k \in S : V[k] = Mem(dmem, A[k])) => d = dmem

LEMMA MemStored ==
  ASSUME HoldsBytes, NEW S, NEW A \in [S -> 0 .. Size - 1], NEW V \in [S -> Byte]
  PROVE  MemSet(StoreBytes(A, V), S, A, V)
<1>0. A \in [S -> Nat] /\ \A x \in 0 .. Size - 1 : x \in Nat /\ x \in Host
  BY SizeFacts DEF Host, Margin
<1>1. /\ StoreBytes(A, V) \in [Host -> Byte]
      /\ \A h \in Host : (\A k \in S : A[k] # BES(h)) => StoreBytes(A, V)[h] = dmem[h]
      /\ \A h \in Host, k \in S :
              (A[k] = BES(h) /\ \A m \in S : A[m] = A[k] => m = k) => StoreBytes(A, V)[h] = V[k]
      /\ (\A k \in S : \A h \in Host : A[k] = BES(h) => V[k] = dmem[h]) => StoreBytes(A, V) = dmem
  BY <1>0, BytesStored
<1>2. ASSUME NEW h \in Size .. Size + Margin - 1  PROVE StoreBytes(A, V)[h] = dmem[h]
  <2>1. h \in Host /\ BES(h) \in Nat /\ BES(h) >= Size /\ h \in Nat
    BY FlipRanges, Flips, SizeFacts DEF Host, Margin
  <2>2. ASSUME NEW k \in S  PROVE A[k] # BES(h)
    BY <2>1, SizeFacts
  <2> QED
    BY <1>1, <2>1, <2>2
<1>3. ASSUME NEW x \in 0 .. Size - 1  PROVE BES(x) \in Host /\ BES(BES(x)) = x
  BY <1>0, FlipRanges, Flips
<1>4. ASSUME \A k \in S : V[k] = Mem(dmem, A[k])  PROVE StoreBytes(A, V) = dmem
  <2>1. ASSUME NEW k \in S, NEW h \in Host, A[k] = BES(h)  PROVE V[k] = dmem[h]
    <3>1. h \in Nat
      BY SizeFacts DEF Host, Margin
    <3>2. BES(A[k]) = h
      BY <2>1, <3>1, Flips
    <3> QED
      BY <1>4, <3>2 DEF Mem
  <2> QED
    BY <1>1, <2>1
<1>5. ASSUME NEW x \in 0 .. Size - 1, \A k \in S : A[k] # x
      PROVE  Mem(StoreBytes(A, V), x) = Mem(dmem, x)
  BY <1>1, <1>3, <1>5 DEF Mem
<1>6. ASSUME NEW k \in S, \A m \in S : A[m] = A[k] => m = k
      PROVE  Mem(StoreBytes(A, V), A[k]) = V[k]
  BY <1>1, <1>3, <1>6 DEF Mem
<1> QED
  BY <1>1, <1>2, <1>4, <1>5, <1>6 DEF MemSet

-----------------------------------------------------------------------------
(***************************************************************************)
(* The loads and stores that only move bytes.                              *)
(***************************************************************************)
\* r is the registers after n bytes from address a on have been moved to byte e
\* of Rt and the ones after it, as far as the register goes.
Loaded(r, e, n, a) ==
  /\ r \in [Reg -> [Lane -> Byte]]
  /\ \A b \in Lane : Vec(r, b) = IF e <= b /\ b < e + n THEN Mem(dmem, Masked(a + (b - e)))
                                 ELSE Vec(regs, b)

\* The byte loop of a load, clipped at the end of the register.
LEMMA RunLoaded ==
  ASSUME HoldsBytes, NEW e \in Lane, NEW a \in Nat, NEW n \in Nat
  PROVE  Loaded(LoadRun(Rt, e, ClipEnd(e + n), a), e, n, a)
<1> DEFINE end  == ClipEnd(e + n)
           From == [b \in e .. end - 1 |-> READ_MEM_U8(Masked(a + b - e))]
<1>1. /\ e \in Nat /\ e < 16 /\ end \in Nat /\ end <= 16
      /\ \A b \in Lane : b \in Nat /\ b < 16 /\ (b < end <=> b < e + n)
  BY BytePairs DEF ClipEnd
<1> HIDE DEF end
<1>2. e .. end - 1 \in SUBSET Lane
  BY <1>1 DEF Lane
<1>3. ASSUME NEW b \in e .. end - 1
      PROVE  From[b] \in Byte /\ From[b] = Mem(dmem, Masked(a + (b - e)))
  <2>1. a + b - e \in Nat /\ a + b - e = a + (b - e)
    BY <1>1
  <2>2. Masked(a + b - e) \in 0 .. Size - 1
    BY <2>1, MaskFacts
  <2> QED
    BY <2>1, <2>2, BytesRead
<1>4. From \in [e .. end - 1 -> Byte] /\ LoadRun(Rt, e, end, a) = LoadBytes(Rt, From)
  BY <1>3 DEF LoadRun
<1> HIDE DEF From
<1>5. /\ LoadBytes(Rt, From) \in [Reg -> [Lane -> Byte]]
      /\ \A b \in Lane : Vec(LoadBytes(Rt, From), b)
                         = IF b \in e .. end - 1 THEN From[b] ELSE Vec(regs, b)
  BY <1>2, <1>4, BytesLoaded
<1>6. \A b \in Lane : b \in e .. end - 1 <=> e <= b /\ b < e + n
  BY <1>1
<1> QED
  BY <1>3, <1>4, <1>5, <1>6 DEF Loaded, end

\* The shuffle moves the same bytes, between even addresses.
LEMMA ShuffleLoaded ==
  ASSUME HoldsBytes, NEW e \in Lane, NEW a \in Nat, NEW n \in Nat,
         e % 2 = 0, n % 2 = 0, a % 2 = 0, e + n <= 16, Masked(a) + n <= Size
  PROVE  Loaded(LoadShuffled(Rt, e, n, Masked(a)), e, n, a)
<1> DEFINE at == Masked(a)
           row == [b \in Lane |-> IF b \in e .. e + n - 1 THEN dmem[HES(at + b - e)] ELSE regs[Rt][b]]
<1>1. /\ e \in Nat /\ at \in Nat /\ at % 2 = 0 /\ at + n <= Size
      /\ \A b \in Lane : b \in Nat /\ b < 16
  BY MaskFacts, BytePairs
<1>2. ASSUME NEW k \in 0 .. n - 1  PROVE Masked(a + k) = at + k
  <2>1. at + k < Size /\ k \in 0 .. Size - 1
    BY <1>1, SizeFacts
  <2> QED
    BY <2>1, MaskStep
<1>3. LoadShuffled(Rt, e, n, at) = [regs EXCEPT ![Rt] = row]
  BY DEF LoadShuffled
<1>4. ASSUME NEW b \in Lane, b \in e .. e + n - 1
      PROVE  at + b - e \in 0 .. Size - 1 /\ HES(at + b - e) \in Host
  <2>1. at + b - e \in 0 .. Size - 1
    BY <1>1, <1>4, SizeFacts
  <2> QED
    BY <2>1, FlipRanges, SizeFacts DEF Host, Margin
<1>5. ASSUME NEW b \in Lane
      PROVE  row[MES(b)] = IF e <= b /\ b < e + n THEN Mem(dmem, Masked(a + (b - e)))
                           ELSE regs[Rt][MES(b)]
  <2>1. MES(b) \in Lane /\ b \in Nat
    BY FlipRanges, <1>1
  <2>2. MES(b) \in e .. e + n - 1 <=> e <= b /\ b < e + n
    BY <1>1, <2>1 DEF MES
  <2>3. CASE e <= b /\ b < e + n
    <3> DEFINE x == at + (b - e)
    <3>1. x \in Nat /\ b - e \in 0 .. n - 1
      BY <1>1, <2>1, <2>3
    <3>2. at + MES(b) - e = MES(x)
      BY <1>1, <2>1, <2>3 DEF MES
    <3>3. HES(MES(x)) = BES(x)
      <4> HIDE DEF x
      <4> QED  BY <3>1, FlipSteps
    <3>4. Masked(a + (b - e)) = x
      BY <1>2, <3>1
    <3>5. row[MES(b)] = dmem[BES(x)]
      BY <2>1, <2>2, <2>3, <3>2, <3>3
    <3> QED
      BY <2>3, <3>4, <3>5 DEF Mem
  <2>4. CASE ~(e <= b /\ b < e + n)
    BY <2>1, <2>2, <2>4
  <2> QED
    BY <2>3, <2>4
<1>6. row \in [Lane -> Byte]
  BY <1>4, BytesRead DEF HoldsBytes
<1> HIDE DEF row
<1>7. LoadShuffled(Rt, e, n, at) \in [Reg -> [Lane -> Byte]] /\ LoadShuffled(Rt, e, n, at)[Rt] = row
  BY <1>3, <1>6, BytesRead DEF HoldsBytes
<1> QED
  BY <1>5, <1>7 DEF Loaded, Vec

\* Aligned accesses do not go over the end of DMEM.
LEMMA AlignedFits ==
  ASSUME NEW a \in Nat
  PROVE  /\ a % 2 = 0 => Masked(a) + 2 <= Size
         /\ a % 4 = 0 => Masked(a) + 4 <= Size /\ a % 2 = 0
         /\ a % 8 = 0 => Masked(a) + 8 <= Size /\ a % 2 = 0
         /\ a % 16 = 0 => Masked(a) + 16 <= Size /\ a % 2 = 0
         /\ Masked(a) - (a % 16) \in Nat /\ Masked(a) - (a % 16) + 16 <= Size
         /\ Masked(a) - (a % 8) \in Nat /\ Masked(a) - (a % 8) + 8 <= Size
<1>1. PICK rows \in Nat : Size = 16 * rows
  BY SizeFacts
<1> DEFINE m == Masked(a)
<1>2. m \in Nat /\ m % 16 = a % 16 /\ m % 8 = a % 8 /\ m % 4 = a % 4 /\ m % 2 = a % 2
  BY MaskFacts
<1>9. m \in 0 .. Size - 1
  BY MaskFacts
<1> HIDE DEF m
<1>10. m < 16 * rows
  BY <1>1, <1>2, <1>9
<1>3. a % 2 = 0 => m + 2 <= 16 * rows
  BY <1>2, <1>10
<1>4. a % 4 = 0 => m + 4 <= 16 * rows /\ a % 2 = 0
  BY <1>2, <1>10
<1>5. a % 8 = 0 => m + 8 <= 16 * rows /\ a % 2 = 0
  BY <1>2, <1>10
<1>6. a % 16 = 0 => m + 16 <= 16 * rows /\ a % 2 = 0
  BY <1>2, <1>10
<1>7. m - (m % 16) \in Nat /\ m - (m % 16) + 16 <= 16 * rows
  BY <1>2, <1>10
<1>8. m - (m % 8) \in Nat /\ m - (m % 8) + 8 <= 16 * rows
  BY <1>2, <1>10
<1> QED
  BY <1>1, <1>2, <1>3, <1>4, <1>5, <1>6, <1>7, <1>8 DEF m

\* LBV, LSV, LLV, LDV and LQV, on all their paths.
LEMMA MoversLoad ==
  ASSUME HoldsBytes, NEW e \in Lane, NEW a \in Nat
  PROVE  /\ Loaded(LBV(Rt, e, a), e, 1, a)
         /\ Loaded(LSV(Rt, e, a), e, 2, a)
         /\ Loaded(LLV(Rt, e, a), e, 4, a)
         /\ Loaded(LDV(Rt, e, a), e, 8, a)
         /\ Loaded(LQV(Rt, e, a), e, 16 - (a % 16), a)
<1>1. e \in Nat /\ e < 16 /\ a % 16 \in 0 .. 15 /\ \A b \in Lane : b \in Nat
  BY BytePairs
<1>2. Loaded(LBV(Rt, e, a), e, 1, a)
  <2> DEFINE From == [b \in {e} |-> READ_MEM_U8(Masked(a))]
  <2>1. From \in [{e} -> Byte] /\ From[e] = Mem(dmem, Masked(a)) /\ {e} \in SUBSET Lane
    BY MaskFacts, BytesRead
  <2>2. LBV(Rt, e, a) = LoadBytes(Rt, From)
    BY DEF LBV
  <2> HIDE DEF From
  <2>3. /\ LBV(Rt, e, a) \in [Reg -> [Lane -> Byte]]
        /\ \A b \in Lane : Vec(LBV(Rt, e, a), b) = IF b \in {e} THEN From[b] ELSE Vec(regs, b)
    BY <2>1, <2>2, BytesLoaded
  <2>4. \A b \in Lane : (b = e <=> e <= b /\ b < e + 1) /\ (b = e => a + (b - e) = a)
    BY <1>1
  <2> QED
    BY <2>1, <2>3, <2>4 DEF Loaded
<1>3. Loaded(LSV(Rt, e, a), e, 2, a)
  BY RunLoaded DEF LSV
<1>4. Loaded(LLV(Rt, e, a), e, 4, a)
  <2>1. CASE VecOpts /\ e % 4 = 0 /\ a % 4 = 0
    <3>1. e % 2 = 0 /\ e + 4 <= 16
      BY <1>1, <2>1
    <3>2. a % 2 = 0 /\ Masked(a) + 4 <= Size
      BY <2>1, AlignedFits
    <3> QED
      BY <2>1, <3>1, <3>2, ShuffleLoaded DEF LLV
  <2>2. CASE ~(VecOpts /\ e % 4 = 0 /\ a % 4 = 0)
    BY <2>2, RunLoaded DEF LLV
  <2> QED
    BY <2>1, <2>2
<1>5. Loaded(LDV(Rt, e, a), e, 8, a)
  <2>1. CASE VecOpts /\ e \in {0, 8} /\ a % 8 = 0
    <3>1. e % 2 = 0 /\ e + 8 <= 16
      BY <2>1
    <3>2. a % 2 = 0 /\ Masked(a) + 8 <= Size
      BY <2>1, AlignedFits
    <3> QED
      BY <2>1, <3>1, <3>2, ShuffleLoaded DEF LDV
  <2>2. CASE ~(VecOpts /\ e \in {0, 8} /\ a % 8 = 0)
    BY <2>2, RunLoaded DEF LDV
  <2> QED
    BY <2>1, <2>2
<1>6. Loaded(LQV(Rt, e, a), e, 16 - (a % 16), a)
  <2>1. CASE a % 16 = 0 /\ VecOpts /\ e = 0
    <3>1. a % 2 = 0 /\ Masked(a) + 16 <= Size
      BY <2>1, AlignedFits
    <3>2. Loaded(LoadShuffled(Rt, e, 16, Masked(a)), e, 16, a)
      BY <2>1, <3>1, ShuffleLoaded
    <3>3. 16 - (a % 16) = 16
      BY <2>1
    <3> QED
      BY <2>1, <3>2, <3>3 DEF LQV
  <2>2. CASE ~(a % 16 = 0 /\ VecOpts /\ e = 0)
    <3>1. 16 + e - (a % 16) = e + (16 - (a % 16)) /\ 16 - (a % 16) \in Nat
      BY <1>1
    <3>2. Loaded(LoadRun(Rt, e, ClipEnd(16 + e - (a % 16)), a), e, 16 - (a % 16), a)
      BY <3>1, RunLoaded
    <3> QED
      BY <2>2, <3>2 DEF LQV
  <2> QED
    BY <2>1, <2>2
<1> QED
  BY <1>2, <1>3, <1>4, <1>5, <1>6

\* d is the memory after n bytes from byte e of Rt on, going round in the register,
\* have been moved to address a and the ones after it, going round in DMEM.
Stored(d, e, n, a) ==
  /\ d \in [Host -> Byte]
  /\ \A h \in Size .. Size + Margin - 1 : d[h] = dmem[h]
  /\ \A k \in 0 .. n - 1 : Mem(d, Masked(a + k)) = Vec(regs, (e + k) % 16)
  /\ \A x \in 0 .. Size - 1 : (\A k \in 0 .. n - 1 : Masked(a + k) # x) => Mem(d, x) = Mem(dmem, x)

\* Addresses less than Size apart are different.
LEMMA DistinctAll ==
  ASSUME NEW a \in Nat, NEW k \in 0 .. Size - 1, NEW l \in 0 .. Size - 1,
         Masked(a + k) = Masked(a + l)
  PROVE  k = l
<1>1. /\ Masked(a + k) = IF Masked(a) + k < Size THEN Masked(a) + k ELSE Masked(a) + k - Size
      /\ Masked(a + l) = IF Masked(a) + l < Size THEN Masked(a) + l ELSE Masked(a) + l - Size
  BY MaskStep
<1> DEFINE at == Masked(a)
<1>2. at \in 0 .. Size - 1 /\ Size \in Nat /\ Size >= 128
  BY MaskFacts, SizeFacts
<1>3. (IF at + k < Size THEN at + k ELSE at + k - Size)
      = (IF at + l < Size THEN at + l ELSE at + l - Size)
  BY <1>1
<1> HIDE DEF at
<1> QED
  BY <1>2, <1>3

LEMMA Distinct ==
  ASSUME NEW a \in Nat, NEW k \in 0 .. 15, NEW l \in 0 .. 15, Masked(a + k) = Masked(a + l)
  PROVE  k = l
<1>1. k \in 0 .. Size - 1 /\ l \in 0 .. Size - 1
  BY SizeFacts
<1> QED
  BY <1>1, DistinctAll

\* How far an address of DMEM is from a, going round.
LEMMA OffsetBack ==
  ASSUME NEW a \in Nat, NEW x \in 0 .. Size - 1
  PROVE  (x - a) % Size \in 0 .. Size - 1 /\ Masked(a + ((x - a) % Size)) = x
<1> DEFINE q == (x - a) % Size
           d == (x - a) \div Size
<1>1. Size \in Nat \ {0} /\ x - a \in Int /\ x \in Nat
  BY SizeFacts
<1>2. d \in Int /\ q \in 0 .. Size - 1 /\ x - a = Size * d + q
  BY <1>1, ZDivMod
<1> HIDE DEF d, q
<1>3. a + q = Size * (0 - d) + x /\ 0 - d \in Int /\ a + q \in Int
  BY <1>1, <1>2
<1>4. (a + q) % Size = x
  BY <1>1, <1>3, ZDivModUnique
<1> QED
  BY <1>2, <1>4 DEF Masked, q

\* The byte loop of a store, with the address masked or where masking changes nothing.
LEMMA RunStored ==
  ASSUME HoldsBytes, NEW e \in Lane, NEW a \in Nat, NEW n \in 0 .. 16,
         NEW A, A = [k \in 0 .. n - 1 |-> Masked(a + k)]
  PROVE  Stored(StoreBytes(A, [k \in 0 .. n - 1 |-> READ_VEC_U8(Rt, (e + k) % 16)]), e, n, a)
<1> DEFINE S == 0 .. n - 1
           V == [k \in S |-> READ_VEC_U8(Rt, (e + k) % 16)]
<1>1. ASSUME NEW k \in S
      PROVE  /\ k \in 0 .. 15 /\ A[k] = Masked(a + k) /\ A[k] \in 0 .. Size - 1
             /\ V[k] = Vec(regs, (e + k) % 16) /\ V[k] \in Byte
  <2>1. k \in 0 .. 15 /\ k \in Nat /\ a + k \in Nat /\ (e + k) % 16 \in Lane
    BY BytePairs DEF Lane
  <2> QED
    BY <2>1, MaskFacts, BytesRead
<1>2. A \in [S -> 0 .. Size - 1] /\ V \in [S -> Byte]
  BY <1>1
<1>3. \A k, l \in S : A[k] = A[l] => k = l
  BY <1>1, Distinct
<1> HIDE DEF S, V
<1>4. MemSet(StoreBytes(A, V), S, A, V)
  BY <1>2, MemStored
<1>5. Stored(StoreBytes(A, V), e, n, a)
  BY <1>1, <1>3, <1>4 DEF Stored, MemSet, S
<1> QED
  BY <1>5 DEF S, V

\* The shuffle stores the same bytes, between aligned words.
LEMMA ShuffleStored ==
  ASSUME HoldsBytes, NEW e \in Lane, NEW a \in Nat, NEW n \in 0 .. 16,
         e % 2 = 0, n % 4 = 0, a % 4 = 0, e + n <= 16, Masked(a) + n <= Size
  PROVE  Stored(StoreShuffled(Rt, e, n, Masked(a)), e, n, a)
<1> DEFINE at == Masked(a)
           d  == StoreShuffled(Rt, e, n, at)
<1>1. e \in Nat /\ at \in Nat /\ at % 4 = 0 /\ at + n <= Size /\ \A b \in Lane : b \in Nat /\ b < 16
  BY MaskFacts, BytePairs
<1>2. ASSUME NEW k \in 0 .. n - 1  PROVE Masked(a + k) = at + k
  <2>1. at + k < Size /\ k \in 0 .. Size - 1
    BY <1>1, SizeFacts
  <2> QED
    BY <2>1, MaskStep
<1>3. ASSUME NEW h \in Host
      PROVE  d[h] = IF h \in at .. at + n - 1 THEN regs[Rt][e + HES(h) - at] ELSE dmem[h]
  BY DEF StoreShuffled
<1>4. d = [h \in Host |-> d[h]]
  BY DEF StoreShuffled
<1> HIDE DEF d, at
<1>5. ASSUME NEW h \in Host, h \in at .. at + n - 1  PROVE e + HES(h) - at \in Lane
  <2>1. h \in Nat
    BY <1>1, <1>5
  <2>2. HES(h) >= at /\ HES(h) <= at + n - 1 /\ HES(h) \in Nat
    BY <1>1, <1>5, <2>1 DEF HES
  <2> QED
    BY <1>1, <2>2 DEF Lane
<1>6. d \in [Host -> Byte]
  <2>1. ASSUME NEW h \in Host  PROVE d[h] \in Byte
    BY <1>3, <1>5, BytesRead DEF HoldsBytes
  <2> QED
    BY <1>4, <2>1
<1>7. ASSUME NEW h \in Size .. Size + Margin - 1  PROVE d[h] = dmem[h]
  <2>1. h \in Host /\ h \notin at .. at + n - 1
    BY <1>1, SizeFacts DEF Host, Margin
  <2> QED
    BY <1>3, <2>1
<1>8. ASSUME NEW x \in 0 .. Size - 1
      PROVE  Mem(d, x) = IF x \in at .. at + n - 1 THEN Vec(regs, e + (x - at)) ELSE Mem(dmem, x)
  <2>1. x \in Nat /\ BES(x) \in Host
    BY SizeFacts, FlipRanges DEF Host, Margin
  <2>2. BES(x) \in at .. at + n - 1 <=> x \in at .. at + n - 1
    BY <1>1, <2>1 DEF BES
  <2>3. CASE x \in at .. at + n - 1
    <3>1. e + HES(BES(x)) - at = MES(e + (x - at))
      <4>1. HES(BES(x)) = MES(x)
        BY <2>1, FlipSteps, Flips
      <4>2. e + MES(x) - at = MES(e + (x - at))
        BY <1>1, <2>1, <2>3 DEF MES
      <4> QED
        BY <4>1, <4>2
    <3> QED
      BY <1>3, <2>1, <2>2, <2>3, <3>1 DEF Mem, Vec
  <2>4. CASE x \notin at .. at + n - 1
    BY <1>3, <2>1, <2>2, <2>4 DEF Mem
  <2> QED
    BY <2>3, <2>4
<1>9. ASSUME NEW k \in 0 .. n - 1
      PROVE  at + k \in 0 .. Size - 1 /\ at + k \in at .. at + n - 1 /\ (e + k) % 16 = e + k
  BY <1>1, SizeFacts
<1>10. ASSUME NEW x \in 0 .. Size - 1, \A k \in 0 .. n - 1 : Masked(a + k) # x
       PROVE  Mem(d, x) = Mem(dmem, x)
  <2>1. x \notin at .. at + n - 1
    <3>1. SUFFICES ASSUME x \in at .. at + n - 1  PROVE FALSE
      OBVIOUS
    <3>2. x - at \in 0 .. n - 1 /\ at + (x - at) = x
      BY <1>1, <3>1
    <3> QED
      BY <1>2, <1>10, <3>2
  <2> QED
    BY <1>8, <2>1
<1>11. ASSUME NEW k \in 0 .. n - 1  PROVE Mem(d, Masked(a + k)) = Vec(regs, (e + k) % 16)
  <2>1. PICK x \in 0 .. Size - 1 : x = at + k
    BY <1>9
  <2>2. x \in at .. at + n - 1 /\ x - at = k /\ Masked(a + k) = x
    BY <1>1, <1>2, <1>9, <2>1
  <2>3. Mem(d, x) = Vec(regs, e + (x - at))
    BY <1>8, <2>2
  <2> QED
    BY <1>9, <2>2, <2>3
<1> QED
  BY <1>6, <1>7, <1>10, <1>11 DEF Stored, d, at

\* Four half-words, each to the flipped half of its word.
LEMMA HalvesStored ==
  ASSUME HoldsBytes, NEW e \in Lane, NEW a \in Nat, e <= 8, e % 2 = 0, a % 2 = 0
  PROVE  Stored(StoreHalves([k \in 0 .. 3 |-> Masked(a + 2 * k)],
                            [k \in 0 .. 3 |-> Element(Rt, (e \div 2) + k)]), e, 8, a)
<1> DEFINE A == [k \in 0 .. 3 |-> Masked(a + 2 * k)]
           V == [k \in 0 .. 3 |-> Element(Rt, (e \div 2) + k)]
           d == StoreHalves(A, V)
           byte(v, h) == IF h % 2 = 0 THEN v % 256 ELSE v \div 256
           at(h) == CHOOSE k \in DOMAIN A : HES(A[k]) = h - (h % 2)
<1>1. ASSUME NEW k \in 0 .. 3
      PROVE  /\ A[k] \in Nat /\ A[k] < Size /\ A[k] % 2 = 0
             /\ A[k] = Masked(a + 2 * k) /\ A[k] + 1 = Masked(a + (2 * k + 1)) /\ A[k] + 1 < Size
  <2>1. a + 2 * k \in Nat /\ (a + 2 * k) % 2 = 0
    OBVIOUS
  <2>2. A[k] \in 0 .. Size - 1 /\ A[k] % 2 = 0 /\ A[k] \in Nat /\ A[k] + 2 <= Size
    BY <2>1, MaskFacts, AlignedFits
  <2>3. Masked((a + 2 * k) + 1) = A[k] + 1
    BY <2>1, <2>2, MaskStep, SizeFacts
  <2>4. (a + 2 * k) + 1 = a + (2 * k + 1)
    OBVIOUS
  <2> QED
    BY <2>2, <2>3, <2>4, SizeFacts
<1>2. ASSUME NEW k \in 0 .. 3
      PROVE  /\ V[k] \in Halfword
             /\ V[k] % 256 = regs[Rt][e + 2 * k] /\ V[k] \div 256 = regs[Rt][e + 2 * k + 1]
  <2>1. (e \div 2) + k \in 0 .. 7 /\ 2 * ((e \div 2) + k) = e + 2 * k
    BY BytePairs
  <2> QED
    BY <2>1, ElementRange, BytesRead
<1>3. ASSUME NEW k \in 0 .. 3, NEW l \in 0 .. 3, HES(A[k]) = HES(A[l])  PROVE k = l
  <2>1. A[k] = A[l]
    BY <1>1, <1>3, Flips
  <2>2. 2 * k = 2 * l
    <3>1. 2 * k \in 0 .. 15 /\ 2 * l \in 0 .. 15
      OBVIOUS
    <3> QED
      BY <1>1, <2>1, <3>1, Distinct
  <2> QED
    BY <2>2
<1>4. ASSUME NEW h \in Host, NEW k \in 0 .. 3, HES(A[k]) = h - (h % 2)
      PROVE  d[h] = byte(V[k], h)
  <2>1. at(h) \in 0 .. 3 /\ HES(A[at(h)]) = h - (h % 2)
    BY <1>4
  <2>2. at(h) = k
    <3> HIDE DEF at, A
    <3> QED  BY <1>3, <1>4, <2>1
  <2>3. d[h] = byte(V[at(h)], h)
    BY <1>4 DEF StoreHalves
  <2> QED
    BY <2>2, <2>3
<1>5. ASSUME NEW h \in Host, \A k \in 0 .. 3 : HES(A[k]) # h - (h % 2)  PROVE d[h] = dmem[h]
  BY <1>5 DEF StoreHalves
<1>6. d = [h \in Host |-> d[h]]
  BY DEF StoreHalves
<1> HIDE DEF A, V, d, at
<1>7. ASSUME NEW h \in Host  PROVE h \in Nat
  BY SizeFacts DEF Host, Margin
<1>8. d \in [Host -> Byte]
  <2>1. ASSUME NEW h \in Host  PROVE d[h] \in Byte
    <3>1. CASE \E k \in 0 .. 3 : HES(A[k]) = h - (h % 2)
      BY <1>2, <1>4, <3>1, Halves
    <3>2. CASE \A k \in 0 .. 3 : HES(A[k]) # h - (h % 2)
      BY <1>5, <3>2 DEF HoldsBytes
    <3> QED
      BY <3>1, <3>2
  <2> QED
    BY <1>6, <2>1
<1>9. ASSUME NEW h \in Size .. Size + Margin - 1  PROVE d[h] = dmem[h]
  <2>1. h \in Host /\ h \in Nat /\ h >= Size /\ h - (h % 2) >= Size
    <3>1. h \in Host /\ h \in Nat /\ h >= Size
      BY SizeFacts DEF Host, Margin
    <3>2. Size \in Nat /\ Size % 4 = 0
      BY SizeFacts
    <3> QED
      BY <3>1, <3>2
  <2>2. ASSUME NEW k \in 0 .. 3  PROVE HES(A[k]) # h - (h % 2)
    <3>1. HES(A[k]) < Size
      BY <1>1, FlipRanges, SizeFacts
    <3> QED
      BY <2>1, <3>1, <1>1, Flips, SizeFacts
  <2> QED
    BY <1>5, <2>1, <2>2
<1>10. ASSUME NEW x \in 0 .. Size - 1
       PROVE  /\ x \in Nat /\ BES(x) \in Host
              /\ \A k \in 0 .. 3 : HES(A[k]) = BES(x) - (BES(x) % 2) <=> x = A[k] \/ x = A[k] + 1
  <2>1. x \in Nat /\ BES(x) \in Host
    BY SizeFacts, FlipRanges DEF Host, Margin
  <2>2. ASSUME NEW y \in Nat, y % 2 = 0
        PROVE  HES(y) = BES(x) - (BES(x) % 2) <=> x = y \/ x = y + 1
    BY <2>1, <2>2 DEF HES, BES
  <2> QED
    BY <1>1, <2>1, <2>2
<1>11. ASSUME NEW k \in 0 .. 3, NEW x \in 0 .. Size - 1, x = A[k] \/ x = A[k] + 1
       PROVE  Mem(d, x) = Vec(regs, e + 2 * k + (x - A[k]))
  <2>1. Mem(d, x) = byte(V[k], BES(x))
    BY <1>4, <1>10, <1>11 DEF Mem
  <2>2. /\ x = A[k] => BES(x) % 2 = 1 /\ x - A[k] = 0
        /\ x = A[k] + 1 => BES(x) % 2 = 0 /\ x - A[k] = 1
    BY <1>1, <1>10 DEF BES
  <2>3. e + 2 * k \in Nat /\ MES(e + 2 * k) = e + 2 * k + 1 /\ MES(e + 2 * k + 1) = e + 2 * k
    BY BytePairs DEF MES
  <2>4. CASE x = A[k]
    <3>1. Mem(d, x) = regs[Rt][e + 2 * k + 1]
      <4>1. BES(x) % 2 = 1
        BY <2>2, <2>4
      <4>2. Mem(d, x) = V[k] \div 256
        BY <2>1, <4>1
      <4> QED
        BY <1>2, <4>2
    <3>2. e + 2 * k + (x - A[k]) = e + 2 * k
      BY <2>2, <2>3, <2>4
    <3> QED
      BY <2>3, <3>1, <3>2 DEF Vec
  <2>5. CASE x = A[k] + 1
    <3>1. Mem(d, x) = regs[Rt][e + 2 * k] /\ e + 2 * k + (x - A[k]) = e + 2 * k + 1
      BY <1>2, <2>1, <2>2, <2>3, <2>5
    <3> QED
      BY <2>3, <3>1 DEF Vec
  <2> QED
    BY <1>11, <2>4, <2>5
<1>12. ASSUME NEW l \in 0 .. 7  PROVE Mem(d, Masked(a + l)) = Vec(regs, (e + l) % 16)
  <2>1. PICK k \in 0 .. 3 : l = 2 * k \/ l = 2 * k + 1
    <3>1. l \div 2 \in 0 .. 3 /\ (l = 2 * (l \div 2) \/ l = 2 * (l \div 2) + 1)
      OBVIOUS
    <3> QED
      BY <3>1
  <2>2. PICK x \in 0 .. Size - 1 : x = Masked(a + l)
    <3>1. a + l \in Nat
      OBVIOUS
    <3>2. Masked(a + l) \in 0 .. Size - 1
      BY <3>1, MaskFacts
    <3> QED
      BY <3>2
  <2>3. x = A[k] + (l - 2 * k) /\ (x = A[k] \/ x = A[k] + 1)
    BY <1>1, <2>1, <2>2
  <2>4. Mem(d, x) = Vec(regs, e + 2 * k + (x - A[k]))
    BY <1>11, <2>3
  <2>5. e + 2 * k + (x - A[k]) = (e + l) % 16
    <3>1. x - A[k] = l - 2 * k
      BY <1>1, <2>3
    <3>2. e \in 0 .. 15
      BY DEF Lane
    <3>3. (e + l) % 16 = e + l /\ e + 2 * k + (l - 2 * k) = e + l
      BY <3>2
    <3> QED
      BY <3>1, <3>3
  <2> QED
    BY <2>2, <2>4, <2>5
<1>13. ASSUME NEW x \in 0 .. Size - 1, \A l \in 0 .. 7 : Masked(a + l) # x
       PROVE  Mem(d, x) = Mem(dmem, x)
  <2>1. ASSUME NEW k \in 0 .. 3  PROVE x # A[k] /\ x # A[k] + 1
    <3>1. 2 * k \in 0 .. 7 /\ 2 * k + 1 \in 0 .. 7
      OBVIOUS
    <3> QED
      BY <1>1, <1>13, <3>1
  <2> QED
    BY <1>5, <1>10, <2>1 DEF Mem
<1>14. Stored(d, e, 8, a)
  <2>1. 8 - 1 = 7
    OBVIOUS
  <2> QED
    BY <1>8, <1>9, <1>12, <1>13, <2>1 DEF Stored
<1> QED
  BY <1>14 DEF d, A, V

\* SBV, SSV, SDV and SQV, on all their paths, and SLV where it stays in DMEM.
LEMMA MoversStore ==
  ASSUME HoldsBytes, NEW e \in Lane, NEW a \in Nat
  PROVE  /\ Stored(SBV(Rt, e, a), e, 1, a)
         /\ Stored(SSV(Rt, e, a), e, 2, a)
         /\ Masked(a) <= Size - 4 => Stored(SLV(Rt, e, a), e, 4, a)
         /\ Stored(SDV(Rt, e, a), e, 8, a)
         /\ Stored(SQV(Rt, e, a), e, 16 - (a % 16), a)
<1>1. e \in Nat /\ e < 16 /\ Masked(a) \in Nat /\ Size \in Nat
  BY BytePairs, MaskFacts, SizeFacts
<1>2. ASSUME NEW n \in 0 .. 16  PROVE Stored(StoreRun(n, Rt, e, a), e, n, a)
  BY RunStored DEF StoreRun
<1>3. ASSUME NEW n \in 0 .. 16, Masked(a) + n <= Size
      PROVE  [k \in 0 .. n - 1 |-> Masked(a) + k] = [k \in 0 .. n - 1 |-> Masked(a + k)]
  <2>1. ASSUME NEW k \in 0 .. n - 1  PROVE Masked(a + k) = Masked(a) + k
    <3>1. Masked(a) + k < Size /\ k \in 0 .. Size - 1
      BY <1>1, <1>3
    <3> QED
      BY <3>1, MaskStep
  <2> QED
    BY <2>1
<1>4. Stored(SBV(Rt, e, a), e, 1, a) /\ Stored(SSV(Rt, e, a), e, 2, a)
  BY <1>2 DEF SBV, SSV
<1>5. ASSUME Masked(a) <= Size - 4  PROVE Stored(SLV(Rt, e, a), e, 4, a)
  <2>1. Masked(a) + 4 <= Size /\ 4 \in 0 .. 16 /\ 4 - 1 = 3
    BY <1>1, <1>5
  <2>2. [k \in 0 .. 4 - 1 |-> Masked(a) + k] = [k \in 0 .. 4 - 1 |-> Masked(a + k)]
    BY <1>3, <2>1
  <2>3. Stored(StoreBytes([k \in 0 .. 4 - 1 |-> Masked(a) + k],
                          [k \in 0 .. 4 - 1 |-> READ_VEC_U8(Rt, (e + k) % 16)]), e, 4, a)
    BY <2>1, <2>2, RunStored
  <2> QED
    BY <2>1, <2>3 DEF SLV
<1>6. Stored(SDV(Rt, e, a), e, 8, a)
  <2>1. CASE e > 8 \/ e % 2 = 1 \/ a % 2 = 1
    BY <1>2, <2>1 DEF SDV
  <2>2. CASE ~(e > 8 \/ e % 2 = 1 \/ a % 2 = 1) /\ VecOpts /\ e \in {0, 8} /\ a % 8 = 0
    <3>1. e + 8 <= 16 /\ e % 2 = 0 /\ 8 % 4 = 0 /\ a % 4 = 0
      BY <2>2
    <3>2. Masked(a) + 8 <= Size
      BY <2>2, AlignedFits
    <3>3. Stored(StoreShuffled(Rt, e, 8, Masked(a)), e, 8, a)
      BY <3>1, <3>2, ShuffleStored
    <3> QED
      BY <2>2, <3>3 DEF SDV
  <2>3. CASE ~(e > 8 \/ e % 2 = 1 \/ a % 2 = 1) /\ ~(VecOpts /\ e \in {0, 8} /\ a % 8 = 0)
    <3>1. e <= 8 /\ e % 2 = 0 /\ a % 2 = 0
      BY <1>1, <2>3
    <3> QED
      BY <2>3, <3>1, HalvesStored DEF SDV
  <2> QED
    BY <2>1, <2>2, <2>3
<1>7. Stored(SQV(Rt, e, a), e, 16 - (a % 16), a)
  <2>1. CASE a % 16 = 0 /\ VecOpts /\ e = 0
    <3>1. e + 16 <= 16 /\ e % 2 = 0 /\ 16 % 4 = 0 /\ a % 4 = 0 /\ 16 - (a % 16) = 16
      BY <2>1
    <3>2. Masked(a) + 16 <= Size
      BY <2>1, AlignedFits
    <3>3. Stored(StoreShuffled(Rt, e, 16, Masked(a)), e, 16, a)
      BY <3>1, <3>2, ShuffleStored
    <3> QED
      BY <2>1, <3>1, <3>3 DEF SQV
  <2>2. CASE ~(a % 16 = 0 /\ VecOpts /\ e = 0)
    <3> DEFINE n == 16 - (a % 16)
    <3>1. n \in 0 .. 16 /\ 15 - (a % 16) = n - 1
      OBVIOUS
    <3>2. Masked(a) + n <= Size
      <4>1. Masked(a) - (a % 16) + 16 <= Size
        BY AlignedFits
      <4>2. a % 16 \in Nat
        OBVIOUS
      <4> QED
        BY <1>1, <4>1, <4>2
    <3> HIDE DEF n
    <3>3. [k \in 0 .. n - 1 |-> Masked(a) + k] = [k \in 0 .. n - 1 |-> Masked(a + k)]
      BY <1>3, <3>1, <3>2
    <3>4. Stored(StoreBytes([k \in 0 .. n - 1 |-> Masked(a) + k],
                            [k \in 0 .. n - 1 |-> READ_VEC_U8(Rt, (e + k) % 16)]), e, n, a)
      BY <3>1, <3>3, RunStored
    <3> QED
      BY <2>2, <3>1, <3>4 DEF SQV, n
  <2> QED
    BY <2>1, <2>2
<1> QED
  BY <1>4, <1>5, <1>6, <1>7

-----------------------------------------------------------------------------
(***************************************************************************)
(* Nothing is written outside DMEM.                                        *)
(***************************************************************************)
Inside(d) == \A h \in Size .. Size + Margin - 1 : d[h] = dmem[h]

\* The address of SHV, SFV, SWV and STV, which is not masked again.
LEMMA PastFacts ==
  ASSUME NEW a \in Nat, NEW k \in Int
  PROVE  /\ Past(a, k) \in Nat
         /\ ((a % 8) + k) % 16 \in 0 .. 15
         /\ a % Size < Size - 8 => Past(a, k) \in 0 .. Size - 1
<1>1. PICK rows \in Nat : Size = 16 * rows
  BY SizeFacts
<1> DEFINE m == Masked(a)
           o == ((a % 8) + k) % 16
<1>2. m \in Nat /\ m = a % Size
  BY MaskFacts
<1>3. o \in 0 .. 15 /\ Past(a, k) = m - (m % 8) + o
  BY DEF Past, Row8
<1> HIDE DEF m, o
<1>4. m < Size - 8 => m - (m % 8) + o < Size
  BY <1>1, <1>2, <1>3
<1>5. m - (m % 8) + o \in Nat
  BY <1>2, <1>3
<1> QED
  BY <1>2, <1>3, <1>4, <1>5, SizeFacts DEF o

\* What the stores that change the elements write is bytes.
LEMMA ValuesStored ==
  ASSUME HoldsBytes, NEW e \in Lane
  PROVE  /\ Shifted(Rt, e, 256, 128) \in [0 .. 7 -> Byte]
         /\ Shifted(Rt, e, 128, 256) \in [0 .. 7 -> Byte]
         /\ \A k \in 0 .. 7 :
              (READ_VEC_U8(Rt, (e + 2 * k) % 16) * 2
               + (READ_VEC_U8(Rt, (e + 2 * k + 1) % 16) \div 128)) % 256 \in Byte
         /\ \A k \in 0 .. 3 : SFVElements(e) # <<>> =>
              (Element(Rt, SFVElements(e)[k + 1]) \div 128) % 256 \in Byte
<1>1. ASSUME NEW v \in Nat, NEW n \in {128, 256}  PROVE (v \div n) % 256 \in Byte
  <2>1. (v \div n) % 256 \in Nat /\ (v \div n) % 256 < 256
    OBVIOUS
  <2> QED
    BY <2>1, ByteIs
<1>2. ASSUME NEW k \in 0 .. 7  PROVE Element(Rt, k) \in Nat
  BY ElementRange, BytesRead DEF Halfword
<1>3. ASSUME NEW low \in {128, 256}, NEW high \in {128, 256}
      PROVE  Shifted(Rt, e, low, high) \in [0 .. 7 -> Byte]
  <2>1. ASSUME NEW k \in 0 .. 7
        PROVE  (Element(Rt, (e + k) % 8) \div (IF (e + k) % 16 < 8 THEN low ELSE high)) % 256 \in Byte
    <3>1. (e + k) % 8 \in 0 .. 7
      BY DEF Lane
    <3> QED
      BY <1>1, <1>2, <3>1
  <2> QED
    BY <2>1 DEF Shifted
<1>4. ASSUME NEW k \in 0 .. 7
      PROVE  (READ_VEC_U8(Rt, (e + 2 * k) % 16) * 2
               + (READ_VEC_U8(Rt, (e + 2 * k + 1) % 16) \div 128)) % 256 \in Byte
  <2>1. (e + 2 * k) % 16 \in Lane /\ (e + 2 * k + 1) % 16 \in Lane
    BY DEF Lane
  <2>2. READ_VEC_U8(Rt, (e + 2 * k) % 16) \in Byte /\ READ_VEC_U8(Rt, (e + 2 * k + 1) % 16) \in Byte
    BY <2>1, BytesRead
  <2>3. ASSUME NEW v \in Byte, NEW w \in Byte  PROVE (v * 2 + (w \div 128)) % 256 \in Byte
    <3>1. v * 2 + (w \div 128) \in Nat
      BY ByteIs
    <3>2. (v * 2 + (w \div 128)) % 256 \in Nat /\ (v * 2 + (w \div 128)) % 256 < 256
      BY <3>1
    <3> QED
      BY <3>2, ByteIs
  <2> QED
    BY <2>2, <2>3
<1>5. ASSUME NEW k \in 0 .. 3, SFVElements(e) # <<>>
      PROVE  (Element(Rt, SFVElements(e)[k + 1]) \div 128) % 256 \in Byte
  <2>1. SFVElements(e)[k + 1] \in 0 .. 7
    BY <1>5 DEF SFVElements, Lane
  <2> QED
    BY <1>1, <1>2, <2>1
<1> QED
  BY <1>3, <1>4, <1>5

\* The vector stores keep the memory bytes, and its margin, but for the five.
LEMMA StoresInside ==
  ASSUME HoldsBytes, NEW e \in Lane, NEW a \in Nat
  PROVE  /\ \A d \in {SBV(Rt, e, a), SSV(Rt, e, a), SDV(Rt, e, a), SPV(Rt, e, a), SUV(Rt, e, a),
                      SQV(Rt, e, a), SRV(Rt, e, a)} : d \in [Host -> Byte] /\ Inside(d)
         /\ SLV(Rt, e, a) \in [Host -> Byte] /\ (a % Size <= Size - 4 => Inside(SLV(Rt, e, a)))
         /\ \A d \in {SHV(Rt, e, a), SFV(Rt, e, a), SWV(Rt, e, a), STV(Rt, e, a)} :
              d \in [Host -> Byte] /\ (a % Size < Size - 8 => Inside(d))
<1>1. e \in Nat /\ e < 16 /\ Masked(a) \in Nat /\ Size \in Nat /\ Masked(a) = a % Size
  BY BytePairs, MaskFacts, SizeFacts
<1>2. \A d \in {SBV(Rt, e, a), SSV(Rt, e, a), SDV(Rt, e, a), SQV(Rt, e, a)} :
        d \in [Host -> Byte] /\ Inside(d)
  <2>1. ASSUME NEW d, NEW n, Stored(d, e, n, a)  PROVE d \in [Host -> Byte] /\ Inside(d)
    BY <2>1 DEF Stored, Inside
  <2>2. /\ Stored(SBV(Rt, e, a), e, 1, a) /\ Stored(SSV(Rt, e, a), e, 2, a)
        /\ Stored(SDV(Rt, e, a), e, 8, a) /\ Stored(SQV(Rt, e, a), e, 16 - (a % 16), a)
    BY MoversStore
  <2> QED
    BY <2>1, <2>2
<1>3. ASSUME NEW S, NEW A \in [S -> 0 .. Size - 1], NEW V \in [S -> Byte]
      PROVE  StoreBytes(A, V) \in [Host -> Byte] /\ Inside(StoreBytes(A, V))
  BY MemStored DEF MemSet, Inside
<1>4. ASSUME NEW S, NEW A \in [S -> Nat], NEW V \in [S -> Byte]
      PROVE  StoreBytes(A, V) \in [Host -> Byte]
  BY BytesStored
<1>5. ASSUME NEW d \in {SPV(Rt, e, a), SUV(Rt, e, a)}  PROVE d \in [Host -> Byte] /\ Inside(d)
  <2> DEFINE A == [k \in 0 .. 7 |-> Masked(a + k)]
  <2>1. A \in [0 .. 7 -> 0 .. Size - 1]
    <3>1. ASSUME NEW k \in 0 .. 7  PROVE Masked(a + k) \in 0 .. Size - 1
      <4>1. a + k \in Nat
        OBVIOUS
      <4> QED
        BY <4>1, MaskFacts
    <3> QED
      BY <3>1
  <2> HIDE DEF A
  <2>2. ASSUME NEW V \in [0 .. 7 -> Byte]
        PROVE  StoreBytes(A, V) \in [Host -> Byte] /\ Inside(StoreBytes(A, V))
    BY <1>3, <2>1
  <2>3. d = StoreBytes(A, Shifted(Rt, e, 256, 128)) \/ d = StoreBytes(A, Shifted(Rt, e, 128, 256))
    BY <1>5 DEF SPV, SUV, StorePacked, A
  <2> QED
    BY <2>2, <2>3, ValuesStored
<1>6. SRV(Rt, e, a) \in [Host -> Byte] /\ Inside(SRV(Rt, e, a))
  <2> DEFINE m == a % 16
             S == 0 .. m - 1
             A == [k \in S |-> Masked(a) - m + k]
             V == [k \in S |-> READ_VEC_U8(Rt, (e + k + 16 - m) % 16)]
  <2>1. m \in 0 .. 15 /\ Masked(a) - m \in Nat /\ Masked(a) - m + 16 <= Size
    <3>1. m \in 0 .. 15
      OBVIOUS
    <3> QED
      BY <3>1, AlignedFits
  <2>2. SRV(Rt, e, a) = StoreBytes(A, V)
    BY DEF SRV
  <2> HIDE DEF m
  <2>3. A \in [S -> 0 .. Size - 1]
    BY <1>1, <2>1
  <2>4. V \in [S -> Byte]
    <3>1. ASSUME NEW k \in 0 .. m - 1  PROVE READ_VEC_U8(Rt, (e + k + 16 - m) % 16) \in Byte
      <4>1. (e + k + 16 - m) % 16 \in Lane
        BY <1>1, <2>1 DEF Lane
      <4> QED
        BY <4>1, BytesRead
    <3> QED
      BY <3>1
  <2> HIDE DEF S, A, V
  <2> QED
    BY <1>3, <2>2, <2>3, <2>4
<1>7. SLV(Rt, e, a) \in [Host -> Byte] /\ (a % Size <= Size - 4 => Inside(SLV(Rt, e, a)))
  <2>1. a % Size <= Size - 4 => Inside(SLV(Rt, e, a))
    BY <1>1, MoversStore DEF Stored, Inside
  <2> DEFINE A == [k \in 0 .. 3 |-> Masked(a) + k]
             V == [k \in 0 .. 3 |-> READ_VEC_U8(Rt, (e + k) % 16)]
  <2>2. A \in [0 .. 3 -> Nat]
    BY <1>1
  <2>3. V \in [0 .. 3 -> Byte]
    <3>1. ASSUME NEW k \in 0 .. 3  PROVE READ_VEC_U8(Rt, (e + k) % 16) \in Byte
      <4>1. (e + k) % 16 \in Lane
        BY <1>1 DEF Lane
      <4> QED
        BY <4>1, BytesRead
    <3> QED
      BY <3>1
  <2>4. SLV(Rt, e, a) = StoreBytes(A, V)
    BY DEF SLV
  <2> HIDE DEF A, V
  <2> QED
    BY <1>4, <2>1, <2>2, <2>3, <2>4
<1>8. ASSUME NEW S, NEW A \in [S -> Nat], NEW V \in [S -> Byte],
             \A k \in S : \E o \in Int : A[k] = Past(a, o)
      PROVE  /\ StoreBytes(A, V) \in [Host -> Byte]
             /\ a % Size < Size - 8 => Inside(StoreBytes(A, V))
  <2>1. ASSUME a % Size < Size - 8  PROVE A \in [S -> 0 .. Size - 1]
    BY <1>8, <2>1, PastFacts
  <2> QED
    BY <1>3, <1>4, <2>1
<1>9. SHV(Rt, e, a) \in [Host -> Byte] /\ (a % Size < Size - 8 => Inside(SHV(Rt, e, a)))
  <2> DEFINE A == [k \in 0 .. 7 |-> Past(a, 2 * k)]
             V == [k \in 0 .. 7 |-> (READ_VEC_U8(Rt, (e + 2 * k) % 16) * 2
                               + (READ_VEC_U8(Rt, (e + 2 * k + 1) % 16) \div 128)) % 256]
  <2>1. A \in [0 .. 7 -> Nat] /\ \A k \in 0 .. 7 : \E o \in Int : A[k] = Past(a, o)
    <3>1. ASSUME NEW k \in 0 .. 7  PROVE 2 * k \in Int /\ Past(a, 2 * k) \in Nat
      <4>1. 2 * k \in Int
        BY DEF Lane
      <4> QED
        BY <4>1, PastFacts
    <3> QED
      BY <3>1
  <2>2. V \in [0 .. 7 -> Byte]
    BY ValuesStored
  <2>3. SHV(Rt, e, a) = StoreBytes(A, V)
    BY DEF SHV
  <2> HIDE DEF A, V
  <2> QED
    BY <1>8, <2>1, <2>2, <2>3
<1>10. SFV(Rt, e, a) \in [Host -> Byte] /\ (a % Size < Size - 8 => Inside(SFV(Rt, e, a)))
  <2> DEFINE A == [k \in 0 .. 3 |-> Past(a, 4 * k)]
             V == [k \in 0 .. 3 |-> IF SFVElements(e) = <<>> THEN 0
                               ELSE (Element(Rt, SFVElements(e)[k + 1]) \div 128) % 256]
  <2>1. A \in [0 .. 3 -> Nat] /\ \A k \in 0 .. 3 : \E o \in Int : A[k] = Past(a, o)
    <3>1. ASSUME NEW k \in 0 .. 3  PROVE 4 * k \in Int /\ Past(a, 4 * k) \in Nat
      <4>1. 4 * k \in Int
        BY DEF Lane
      <4> QED
        BY <4>1, PastFacts
    <3> QED
      BY <3>1
  <2>2. V \in [0 .. 3 -> Byte]
    <3>1. 0 \in Byte
      BY ByteIs
    <3>2. CASE SFVElements(e) = <<>>
      BY <3>1, <3>2
    <3>3. CASE SFVElements(e) # <<>>
      BY <3>3, ValuesStored
    <3> QED
      BY <3>2, <3>3
  <2>3. SFV(Rt, e, a) = StoreBytes(A, V)
    BY DEF SFV
  <2> HIDE DEF A, V
  <2> QED
    BY <1>8, <2>1, <2>2, <2>3
<1>11. SWV(Rt, e, a) \in [Host -> Byte] /\ (a % Size < Size - 8 => Inside(SWV(Rt, e, a)))
  <2> DEFINE A == [k \in Lane |-> Past(a, k)]
             V == [k \in Lane |-> READ_VEC_U8(Rt, (e + k) % 16)]
  <2>1. A \in [Lane -> Nat] /\ \A k \in Lane : \E o \in Int : A[k] = Past(a, o)
    <3>1. ASSUME NEW k \in Lane  PROVE k \in Int /\ Past(a, k) \in Nat
      <4>1. k \in Int
        BY DEF Lane
      <4> QED
        BY <4>1, PastFacts
    <3> QED
      BY <3>1
  <2>2. V \in [Lane -> Byte]
    <3>1. ASSUME NEW k \in Lane  PROVE READ_VEC_U8(Rt, (e + k) % 16) \in Byte
      <4>1. (e + k) % 16 \in Lane
        BY <1>1 DEF Lane
      <4> QED
        BY <4>1, BytesRead
    <3> QED
      BY <3>1
  <2>3. SWV(Rt, e, a) = StoreBytes(A, V)
    BY DEF SWV
  <2> HIDE DEF A, V
  <2> QED
    BY <1>8, <2>1, <2>2, <2>3
<1>12. STV(Rt, e, a) \in [Host -> Byte] /\ (a % Size < Size - 8 => Inside(STV(Rt, e, a)))
  <2> DEFINE even == e - (e % 2)
             A == [k \in Lane |-> Past(a, k - even)]
             V == [k \in Lane |-> READ_VEC_U8(k \div 2, (16 - even + k) % 16)]
  <2>1. even \in 0 .. 15
    BY <1>1
  <2>2. STV(Rt, e, a) = StoreBytes(A, V)
    BY DEF STV
  <2> HIDE DEF even
  <2>3. A \in [Lane -> Nat] /\ \A k \in Lane : \E o \in Int : A[k] = Past(a, o)
    <3>1. ASSUME NEW k \in Lane  PROVE k - even \in Int
      BY <2>1, BytePairs
    <3> QED
      BY <3>1, PastFacts
  <2>4. V \in [Lane -> Byte]
    <3>1. ASSUME NEW k \in Lane  PROVE READ_VEC_U8(k \div 2, (16 - even + k) % 16) \in Byte
      <4>1. (16 - even + k) % 16 \in Lane /\ k \div 2 \in Reg
        BY <2>1 DEF Lane, Reg
      <4> QED
        BY <4>1, BytesRead
    <3> QED
      BY <3>1
  <2> HIDE DEF A, V
  <2> QED
    BY <1>8, <2>2, <2>3, <2>4
<1> QED
  BY <1>2, <1>5, <1>6, <1>7, <1>9, <1>10, <1>11, <1>12

-----------------------------------------------------------------------------
(***************************************************************************)
(* The loads that spread bytes over the elements or the registers.         *)
(***************************************************************************)
\* Masking and rounding down to a row commute.
LEMMA MaskRow ==
  ASSUME NEW a \in Nat
  PROVE  /\ Row8(a) \in Nat /\ Masked(Row8(a)) = Row8(Masked(a)) /\ Row8(Masked(a)) + 8 <= Size
         /\ a - (a % 16) \in Nat /\ Masked(a - (a % 16)) = Masked(a) - (a % 16)
<1>1. ASSUME NEW n \in {8, 16}
      PROVE  /\ a - (a % n) \in Nat /\ Masked(a - (a % n)) = Masked(a) - (a % n)
             /\ Masked(a - (a % n)) + n <= Size
  <2> DEFINE b == a - (a % n)
             l == a % n
  <2>1. b \in Nat /\ b % n = 0 /\ l \in 0 .. n - 1 /\ b + l = a
    OBVIOUS
  <2> HIDE DEF b, l
  <2>2. Masked(b) + n <= Size
    BY <2>1, AlignedFits
  <2>3. Masked(b) \in Nat /\ Size \in Nat /\ Size >= 128
    BY <2>1, MaskFacts, SizeFacts
  <2>4. Masked(b + l) = Masked(b) + l
    <3>1. l \in 0 .. Size - 1 /\ Masked(b) + l < Size
      BY <2>1, <2>2, <2>3
    <3> QED
      BY <2>1, <3>1, MaskStep
  <2> QED
    BY <2>1, <2>2, <2>3, <2>4 DEF b, l
<1>2. Masked(a) % 8 = a % 8
  BY MaskFacts
<1> QED
  BY <1>1, <1>2 DEF Row8

\* The elements of r are the ones in Of.
Spread(r, Of) ==
  /\ r \in [Reg -> [Lane -> Byte]]
  /\ \A k \in 0 .. 7 : r[Rt][2 * k] = Of[k] % 256 /\ r[Rt][2 * k + 1] = Of[k] \div 256

\* The elements LPV, LUV and LHV load.
Unpacked(e, a, n, factor) ==
  [k \in 0 .. 7 |-> Mem(dmem, Masked(Row8(a) + (((a % 8) - e + n * k) % 16))) * factor]

LEMMA PackedLoaded ==
  ASSUME HoldsBytes, NEW e \in Lane, NEW a \in Nat, NEW n \in {1, 2}, NEW factor \in {128, 256}
  PROVE  /\ Unpacked(e, a, n, factor) \in [0 .. 7 -> Halfword]
         /\ Spread(LoadPacked(Rt, e, a, n, factor), Unpacked(e, a, n, factor))
<1> DEFINE at(k) == Masked(Row8(a) + (((a % 8) - e + n * k) % 16))
           Of == [k \in 0 .. 7 |-> Mem(dmem, at(k)) * factor]
<1>1. ASSUME NEW k \in 0 .. 7  PROVE at(k) \in 0 .. Size - 1
  <2>1. ((a % 8) - e + n * k) % 16 \in Nat
    BY DEF Lane
  <2>2. Row8(a) + (((a % 8) - e + n * k) % 16) \in Nat
    BY <2>1, MaskRow
  <2> QED
    BY <2>2, MaskFacts
<1>2. LoadPacked(Rt, e, a, n, factor) =
        LoadElements(Rt, [k \in 0 .. 7 |-> READ_MEM_U8(at(k)) * factor])
  BY DEF LoadPacked
<1> HIDE DEF at
<1>3. [k \in 0 .. 7 |-> READ_MEM_U8(at(k)) * factor] = Of
  BY <1>1, BytesRead
<1>4. Of \in [0 .. 7 -> Halfword]
  <2>1. ASSUME NEW v \in Byte  PROVE v * factor \in Halfword
    BY ByteIs DEF Halfword
  <2>2. \A k \in 0 .. 7 : Mem(dmem, at(k)) \in Byte
    BY <1>1, BytesRead
  <2> QED
    BY <2>1, <2>2
<1> HIDE DEF Of
<1>5. Spread(LoadPacked(Rt, e, a, n, factor), Of)
  BY <1>2, <1>3, <1>4, ElementsLoaded DEF Spread
<1> QED
  BY <1>4, <1>5 DEF Of, at, Unpacked

\* LPV, on both paths.
LEMMA LPVLoaded ==
  ASSUME HoldsBytes, NEW e \in Lane, NEW a \in Nat
  PROVE  /\ LPV(Rt, e, a) \in [Reg -> [Lane -> Byte]]
         /\ e = 0 => Spread(LPV(Rt, e, a), [k \in 0 .. 7 |-> Mem(dmem, Masked(a + k)) * 256])
<1> DEFINE Of == [k \in 0 .. 7 |-> Mem(dmem, Masked(a + k)) * 256]
<1>1. CASE VecOpts /\ e = 0 /\ a % 8 = 0
  <2>1. ASSUME NEW k \in 0 .. 7
        PROVE  /\ dmem[BES(Masked(a) + k)] = Mem(dmem, Masked(a + k))
               /\ Mem(dmem, Masked(a + k)) \in Byte
    <3>1. Masked(a) \in Nat /\ Masked(a) + 8 <= Size /\ Size \in Nat
      BY <1>1, AlignedFits, MaskFacts, SizeFacts
    <3>2. k \in 0 .. Size - 1 /\ Masked(a) + k < Size /\ a + k \in Nat
      BY <3>1
    <3>3. Masked(a + k) = Masked(a) + k /\ Masked(a + k) \in 0 .. Size - 1
      BY <3>2, MaskStep, MaskFacts
    <3> QED
      BY <3>3, BytesRead DEF Mem
  <2>2. LPV(Rt, e, a) = LoadElements(Rt, Of)
    BY <1>1, <2>1 DEF LPV
  <2>3. Of \in [0 .. 7 -> Halfword]
    <3>1. ASSUME NEW v \in Byte  PROVE v * 256 \in Halfword
      BY ByteIs DEF Halfword
    <3> QED
      BY <2>1, <3>1
  <2> HIDE DEF Of
  <2>4. Spread(LPV(Rt, e, a), Of)
    BY <2>2, <2>3, ElementsLoaded DEF Spread
  <2> QED
    BY <2>4 DEF Spread, Of
<1>2. CASE ~(VecOpts /\ e = 0 /\ a % 8 = 0)
  <2>1. PICK n \in {1, 2} : n = 1
    OBVIOUS
  <2>2. LPV(Rt, e, a) = LoadPacked(Rt, e, a, n, 256)
    BY <1>2, <2>1 DEF LPV
  <2>3. Spread(LPV(Rt, e, a), Unpacked(e, a, n, 256))
    BY <2>2, PackedLoaded
  <2>4. ASSUME NEW k \in 0 .. 7, e = 0  PROVE Row8(a) + (((a % 8) - e + n * k) % 16) = a + k
    BY <2>1, <2>4 DEF Row8
  <2>5. e = 0 => Unpacked(e, a, n, 256) = Of
    BY <2>4 DEF Unpacked
  <2> QED
    BY <2>3, <2>5 DEF Spread
<1> QED
  BY <1>1, <1>2

\* LFV: the elements it keeps.
\* The elements LFV loads from every fourth byte.
Fourth(a, k) == Mem(dmem, Masked(Row8(a) + (((a % 8) + 4 * k) % 16))) * 128

LEMMA LFVLoaded ==
  ASSUME HoldsBytes, NEW e \in Lane, NEW a \in Nat
  PROVE  /\ LFV(Rt, e, a) \in [Reg -> [Lane -> Byte]]
         /\ e = 0 => \A k \in 0 .. 3 :
              /\ Fourth(a, k) \in Halfword
              /\ Vec(LFV(Rt, e, a), 2 * k) = Fourth(a, k) \div 256
              /\ Vec(LFV(Rt, e, a), 2 * k + 1) = Fourth(a, k) % 256
<1> DEFINE at(k) == Masked(Row8(a) + (((a % 8) - e + 4 * k + 8 * (k \div 4)) % 16))
           temp(k) == READ_MEM_U8(at(k)) * 128
           end == ClipEnd(e + 8)
           S == e .. end - 1
           From == [b \in S |-> IF b % 2 = 0 THEN temp(b \div 2) \div 256 ELSE temp(b \div 2) % 256]
<1>1. e \in Nat /\ end <= 16 /\ end \in Nat /\ (e = 0 => end = 8)
  BY BytePairs DEF ClipEnd
<1>2. S \in SUBSET Lane
  BY <1>1 DEF Lane
<1>3. ASSUME NEW k \in 0 .. 7
      PROVE  temp(k) \in Halfword /\ temp(k) = Mem(dmem, at(k)) * 128
  <2>1. ((a % 8) - e + 4 * k + 8 * (k \div 4)) % 16 \in Nat
    BY <1>1
  <2>2. Row8(a) + (((a % 8) - e + 4 * k + 8 * (k \div 4)) % 16) \in Nat
    BY <2>1, MaskRow
  <2>3. at(k) \in 0 .. Size - 1
    BY <2>2, MaskFacts
  <2>4. ASSUME NEW v \in Byte  PROVE v * 128 \in Halfword
    BY ByteIs DEF Halfword
  <2> QED
    BY <2>3, <2>4, BytesRead
<1>4. LFV(Rt, e, a) = LoadBytes(Rt, From)
  BY DEF LFV
<1> HIDE DEF temp, end
<1>5. From \in [S -> Byte]
  <2>1. ASSUME NEW b \in S  PROVE From[b] \in Byte
    <3>1. b \div 2 \in 0 .. 7
      BY <1>2, BytePairs
    <3> QED
      BY <1>3, <3>1, Halves
  <2> QED
    BY <2>1
<1>6. ASSUME e = 0, NEW k \in 0 .. 3
      PROVE  /\ 2 * k \in S /\ 2 * k + 1 \in S
             /\ From[2 * k] = temp(k) \div 256 /\ From[2 * k + 1] = temp(k) % 256
  <2>1. 2 * k \in S /\ 2 * k + 1 \in S
    BY <1>1, <1>6
  <2>2. (2 * k) % 2 = 0 /\ (2 * k) \div 2 = k /\ (2 * k + 1) % 2 = 1 /\ (2 * k + 1) \div 2 = k
    BY BytePairs
  <2> QED
    BY <2>1, <2>2
<1>7. ASSUME e = 0, NEW k \in 0 .. 3
      PROVE  at(k) = Masked(Row8(a) + (((a % 8) + 4 * k) % 16))
  <2>1. (a % 8) - e + 4 * k + 8 * (k \div 4) = (a % 8) + 4 * k
    BY <1>7
  <2> QED
    BY <2>1
<1> HIDE DEF at, S, From
<1>8. /\ LoadBytes(Rt, From) \in [Reg -> [Lane -> Byte]]
      /\ \A b \in Lane : Vec(LoadBytes(Rt, From), b) = IF b \in S THEN From[b] ELSE Vec(regs, b)
  BY <1>2, <1>5, BytesLoaded
<1>9. ASSUME e = 0, NEW k \in 0 .. 3
      PROVE  /\ Fourth(a, k) \in Halfword
             /\ Vec(LFV(Rt, e, a), 2 * k) = Fourth(a, k) \div 256
             /\ Vec(LFV(Rt, e, a), 2 * k + 1) = Fourth(a, k) % 256
  <2>1. k \in 0 .. 7 /\ 2 * k \in Lane /\ 2 * k + 1 \in Lane
    BY BytePairs
  <2>2. temp(k) = Fourth(a, k) /\ temp(k) \in Halfword
    BY <1>3, <1>7, <1>9, <2>1 DEF Fourth
  <2>3. /\ Vec(LFV(Rt, e, a), 2 * k) = temp(k) \div 256
        /\ Vec(LFV(Rt, e, a), 2 * k + 1) = temp(k) % 256
    BY <1>4, <1>6, <1>8, <1>9, <2>1
  <2> QED
    BY <2>2, <2>3
<1> QED
  BY <1>4, <1>8, <1>9

\* LRV: the last bytes of the register, from the start of the row.
LEMMA LRVLoaded ==
  ASSUME HoldsBytes, NEW e \in Lane, NEW a \in Nat
  PROVE  /\ LRV(Rt, e, a) \in [Reg -> [Lane -> Byte]]
         /\ e = 0 => \A b \in Lane :
              Vec(LRV(Rt, e, a), b) = IF b >= 16 - (a % 16) THEN Mem(dmem, Masked(a - 16 + b))
                                      ELSE Vec(regs, b)
<1> DEFINE start == 16 - ((a % 16) - e)
           S == start .. 15
           From == [b \in S |-> READ_MEM_U8(Masked(a - (a % 16) + b - start))]
<1>1. start \in Nat /\ a - (a % 16) \in Nat /\ (e = 0 => start = 16 - (a % 16))
  BY BytePairs
<1>2. LRV(Rt, e, a) = LoadBytes(Rt, From)
  BY DEF LRV
<1> HIDE DEF start
<1>3. S \in SUBSET Lane
  BY <1>1 DEF Lane
<1>4. ASSUME NEW b \in S
      PROVE  From[b] = Mem(dmem, Masked(a - (a % 16) + b - start)) /\ From[b] \in Byte
  <2>1. a - (a % 16) + b - start \in Nat
    BY <1>1
  <2>2. Masked(a - (a % 16) + b - start) \in 0 .. Size - 1
    BY <2>1, MaskFacts
  <2> QED
    BY <2>2, BytesRead
<1>5. From \in [S -> Byte]
  BY <1>4
<1> HIDE DEF S, From
<1>6. /\ LRV(Rt, e, a) \in [Reg -> [Lane -> Byte]]
      /\ \A b \in Lane : Vec(LRV(Rt, e, a), b) = IF b \in S THEN From[b] ELSE Vec(regs, b)
  BY <1>2, <1>3, <1>5, BytesLoaded
<1>7. ASSUME e = 0, NEW b \in Lane
      PROVE  Vec(LRV(Rt, e, a), b) = IF b >= 16 - (a % 16) THEN Mem(dmem, Masked(a - 16 + b))
                                     ELSE Vec(regs, b)
  <2>1. b \in S <=> b >= 16 - (a % 16)
    BY <1>1, <1>7 DEF S, Lane
  <2>2. a - (a % 16) + b - start = a - 16 + b
    BY <1>1, <1>7 DEF Lane
  <2> QED
    BY <1>4, <1>6, <2>1, <2>2
<1> QED
  BY <1>6, <1>7

\* The row LTV reads, at an aligned address and at any other.
LEMMA TransposeRow ==
  ASSUME NEW e \in Lane, NEW a \in Nat, NEW b \in Lane
  PROVE  Masked(Row8(a) + ((e + (a % 16) - (a % 8) + b) % 16)) \in 0 .. Size - 1
<1>1. (e + (a % 16) - (a % 8) + b) % 16 \in Nat
  BY BytePairs
<1>2. Row8(a) + ((e + (a % 16) - (a % 8) + b) % 16) \in Nat
  BY <1>1, MaskRow
<1> QED
  BY <1>2, MaskFacts

LEMMA LTVLoaded ==
  ASSUME HoldsBytes, NEW e \in Lane, NEW a \in Nat
  PROVE  LTV(Rt, e, a) \in [Reg -> [Lane -> Byte]]
<1> DEFINE from(b) == Masked(Row8(a) + ((e + (a % 16) - (a % 8) + b) % 16))
           byte(r, b) == IF r = ((e \div 2) + (MES(b) \div 2)) % 8 THEN READ_MEM_U8(from(MES(b)))
                         ELSE regs[r][b]
<1>1. LTV(Rt, e, a) = [r \in Reg |-> [b \in Lane |-> byte(r, b)]]
  BY DEF LTV
<1>2. ASSUME NEW b \in Lane  PROVE from(b) \in 0 .. Size - 1
  BY TransposeRow
<1> HIDE DEF from
<1>3. ASSUME NEW r \in Reg, NEW b \in Lane  PROVE byte(r, b) \in Byte
  BY <1>2, FlipRanges, BytesRead DEF HoldsBytes
<1> HIDE DEF byte
<1> QED
  BY <1>1, <1>3

-----------------------------------------------------------------------------
(***************************************************************************)
(* The scalar loads and stores.                                            *)
(***************************************************************************)
\* Where byte k of n is, aligned or not.
LEMMA ScalarByte ==
  ASSUME NEW n \in {1, 2, 4}, NEW a \in Nat, NEW k \in 0 .. n - 1
  PROVE  /\ Masked(a) % n = 0 =>
              BES(Masked(a + k)) = (IF n = 1 THEN BES(Masked(a))
                                    ELSE IF n = 2 THEN HES(Masked(a)) ELSE Masked(a))
                                   + (n - 1 - k)
         /\ BYTE_ENDIAN_FIXUP(Masked(a), k) = BES(Masked(a + k))
         /\ BES(Masked(a + k)) \in 0 .. Size - 1 /\ BES(Masked(a + k)) \in Host
<1> DEFINE at == Masked(a)
           x  == Masked(a + k)
<1>1. k \in 0 .. Size - 1 /\ k \in 0 .. 3 /\ Size \in Nat /\ Size >= 128 /\ Size % 4 = 0
  BY SizeFacts
<1>2. /\ at \in Nat /\ at < Size /\ x \in 0 .. Size - 1 /\ x \in Nat
      /\ x = IF at + k < Size THEN at + k ELSE at + k - Size
  <2>1. a + k \in Nat
    BY <1>1
  <2>2. x = IF at + k < Size THEN at + k ELSE at + k - Size
    BY <1>1, MaskStep
  <2>3. x \in 0 .. Size - 1 /\ at \in 0 .. Size - 1
    BY <2>1, MaskFacts
  <2> QED
    BY <1>1, <2>2, <2>3
<1>3. BES(x) \in 0 .. Size - 1 /\ BES(x) \in Host
  BY <1>1, <1>2, FlipRanges DEF Host, Margin
<1> HIDE DEF at, x
<1>4. ASSUME at % n = 0
      PROVE  BES(x) = (IF n = 1 THEN BES(at) ELSE IF n = 2 THEN HES(at) ELSE at) + (n - 1 - k)
  <2>1. at + k < Size
    BY <1>1, <1>2, <1>4
  <2>2. x = at + k
    BY <1>2, <2>1
  <2>3. CASE n = 1
    BY <1>1, <1>2, <2>2, <2>3 DEF BES
  <2>4. CASE n = 2
    BY <1>1, <1>2, <1>4, <2>2, <2>4 DEF BES, HES
  <2>5. CASE n = 4
    BY <1>1, <1>2, <1>4, <2>2, <2>5 DEF BES
  <2> QED
    BY <2>3, <2>4, <2>5
<1>5. BYTE_ENDIAN_FIXUP(at, k) = BES(x)
  <2>1. BYTE_ENDIAN_FIXUP(at, k) = Masked(BES(at + k))
    BY DEF BYTE_ENDIAN_FIXUP
  <2>2. ASSUME NEW y \in 0 .. Size - 1  PROVE Masked(y) = y /\ Masked(y + Size) = y
    <3>1. y = Size * 0 + y /\ y + Size = Size * 1 + y /\ Size \in Nat \ {0} /\ y \in Int /\ y + Size \in Int
      BY <1>1
    <3>2. y % Size = y /\ (y + Size) % Size = y
      BY <3>1, ZDivModUnique
    <3> QED
      BY <3>2 DEF Masked
  <2>3. BES(at + k) = BES(x) \/ BES(at + k) = BES(x) + Size
    BY <1>1, <1>2 DEF BES
  <2> QED
    BY <1>3, <2>1, <2>2, <2>3
<1> QED
  BY <1>3, <1>4, <1>5 DEF at, x

LEMMA ScalarLoaded ==
  ASSUME HoldsBytes, NEW n \in {1, 2, 4}, NEW a \in Nat, NEW signed
  PROVE  /\ Extended(LoadScalar(n, a), signed) \in [1 .. 4 -> Byte]
         /\ \A k \in 0 .. n - 1 : Extended(LoadScalar(n, a), signed)[5 - n + k]
                                     = Mem(dmem, Masked(a + k))
<1> DEFINE bytes == LoadScalar(n, a)
           flip == IF n = 1 THEN BES(Masked(a)) ELSE IF n = 2 THEN HES(Masked(a)) ELSE Masked(a)
<1>1. ASSUME NEW k \in 1 .. n
      PROVE  bytes[k] = Mem(dmem, Masked(a + (k - 1))) /\ bytes[k] \in Byte
  <2>1. k - 1 \in 0 .. n - 1 /\ k \in Nat /\ n \in Nat
    OBVIOUS
  <2>2. /\ Masked(a) % n = 0 => BES(Masked(a + (k - 1))) = flip + (n - 1 - (k - 1))
        /\ BYTE_ENDIAN_FIXUP(Masked(a), k - 1) = BES(Masked(a + (k - 1)))
        /\ BES(Masked(a + (k - 1))) \in Host
    BY <2>1, ScalarByte
  <2>3. bytes[k] = IF Masked(a) % n = 0 THEN dmem[flip + n - k]
                   ELSE dmem[BYTE_ENDIAN_FIXUP(Masked(a), k - 1)]
    BY DEF LoadScalar
  <2>4. flip \in Nat
    BY MaskFacts, Flips
  <2>5. flip + (n - 1 - (k - 1)) = flip + n - k
    BY <2>1, <2>4
  <2> HIDE DEF bytes, flip
  <2> QED
    BY <2>2, <2>3, <2>5 DEF Mem, HoldsBytes
<1>2. bytes = [k \in 1 .. n |-> bytes[k]]
  BY DEF LoadScalar
<1> HIDE DEF bytes
<1>3. bytes \in Seq(Byte) /\ Len(bytes) = n
  <2>1. bytes \in [1 .. n -> Byte] /\ n \in Nat
    BY <1>1, <1>2
  <2> QED
    BY <2>1
<1> DEFINE fill == IF signed /\ bytes[1] >= 128 THEN 255 ELSE 0
           front == [k \in 1 .. 4 - n |-> fill]
<1>4. fill \in Byte
  BY ByteIs
<1>5. front \in Seq(Byte) /\ Len(front) = 4 - n
  <2>1. front \in [1 .. 4 - n -> Byte] /\ 4 - n \in Nat
    BY <1>4
  <2> QED
    BY <2>1
<1>6. Extended(bytes, signed) = front \o bytes
  BY <1>3 DEF Extended
<1> HIDE DEF front
<1>7. Len(front \o bytes) = 4 /\ front \o bytes \in Seq(Byte)
  BY <1>3, <1>5
<1>8. front \o bytes \in [1 .. 4 -> Byte]
  <2>1. ASSUME NEW t \in Seq(Byte)  PROVE t \in [1 .. Len(t) -> Byte]
    OBVIOUS
  <2> QED
    BY <1>7, <2>1
<1>9. ASSUME NEW k \in 0 .. n - 1  PROVE (front \o bytes)[5 - n + k] = Mem(dmem, Masked(a + k))
  <2>1. k + 1 \in 1 .. n /\ (k + 1) - 1 = k /\ 5 - n + k = (4 - n) + (k + 1) /\ 4 - n \in Nat
    OBVIOUS
  <2>2. (front \o bytes)[(4 - n) + (k + 1)] = bytes[k + 1]
    <3>1. ASSUME NEW s \in Seq(Byte), NEW t \in Seq(Byte), NEW m \in 1 .. Len(t)
          PROVE  (s \o t)[Len(s) + m] = t[m]
      OBVIOUS
    <3>2. k + 1 \in 1 .. Len(bytes)
      BY <1>3, <2>1
    <3>3. (front \o bytes)[Len(front) + (k + 1)] = bytes[k + 1]
      BY <1>3, <1>5, <3>1, <3>2
    <3> QED
      BY <1>5, <3>3
  <2>3. bytes[k + 1] = Mem(dmem, Masked(a + k))
    BY <1>1, <2>1
  <2> QED
    BY <2>1, <2>2, <2>3
<1> QED
  BY <1>6, <1>8, <1>9 DEF bytes

LEMMA ScalarStored ==
  ASSUME HoldsBytes, NEW n \in {1, 2, 4}, NEW a \in Nat
  PROVE  /\ StoreScalar(n, a) \in [Host -> Byte] /\ Inside(StoreScalar(n, a))
         /\ \A x \in 0 .. Size - 1 :
              Mem(StoreScalar(n, a), x) = IF (x - a) % Size < n THEN sr[5 - n + ((x - a) % Size)]
                                          ELSE Mem(dmem, x)
<1> DEFINE d == StoreScalar(n, a)
           at == Masked(a)
           flip == IF n = 1 THEN BES(at) ELSE IF n = 2 THEN HES(at) ELSE at
           byte(k) == sr[5 - n + k]
           wrote(h) == {k \in 0 .. n - 1 : BES(Masked(a + k)) = h}
<1>1. ASSUME NEW k \in 0 .. n - 1
      PROVE  /\ at % n = 0 => BES(Masked(a + k)) = flip + (n - 1 - k)
             /\ BYTE_ENDIAN_FIXUP(at, k) = BES(Masked(a + k))
             /\ BES(Masked(a + k)) \in 0 .. Size - 1
  BY ScalarByte
<1>2. ASSUME NEW k \in 0 .. n - 1  PROVE byte(k) \in Byte
  BY DEF HoldsBytes
<1>3. flip \in Nat
  BY MaskFacts, Flips
<1>4. ASSUME NEW h \in Host, NEW k \in 0 .. n - 1, NEW l \in 0 .. n - 1,
             BES(Masked(a + k)) = h, BES(Masked(a + l)) = h
      PROVE  k = l
  <2>1. /\ k \in 0 .. Size - 1 /\ l \in 0 .. Size - 1
        /\ Masked(a + k) \in Nat /\ Masked(a + l) \in Nat
    <3>1. k \in 0 .. Size - 1 /\ l \in 0 .. Size - 1 /\ a + k \in Nat /\ a + l \in Nat
      BY SizeFacts
    <3> QED
      BY <3>1, MaskFacts
  <2>2. Masked(a + k) = Masked(a + l)
    BY <1>4, <2>1, Flips
  <2> QED
    BY <2>1, <2>2, DistinctAll
<1>5. ASSUME NEW h \in Host
      PROVE  /\ \A k \in 0 .. n - 1 : BES(Masked(a + k)) = h => d[h] = byte(k)
             /\ (\A k \in 0 .. n - 1 : BES(Masked(a + k)) # h) => d[h] = dmem[h]
  <2>0. h \in Nat
    BY SizeFacts DEF Host, Margin
  <2>1. CASE at % n = 0
    <3>1. d[h] = IF h \in flip .. flip + n - 1 THEN sr[4 - (h - flip)] ELSE dmem[h]
      BY <2>1 DEF StoreScalar
    <3> HIDE DEF d, flip, at
    <3>2. ASSUME NEW k \in 0 .. n - 1, BES(Masked(a + k)) = h  PROVE d[h] = byte(k)
      <4>1. h = flip + (n - 1 - k)
        BY <1>1, <2>1, <3>2
      <4>2. h \in flip .. flip + n - 1 /\ 4 - (h - flip) = 5 - n + k
        BY <1>3, <4>1
      <4> QED
        BY <3>1, <4>2
    <3>3. ASSUME \A k \in 0 .. n - 1 : BES(Masked(a + k)) # h  PROVE d[h] = dmem[h]
      <4>1. ASSUME h \in flip .. flip + n - 1  PROVE FALSE
        <5>1. n - 1 - (h - flip) \in 0 .. n - 1 /\ flip + (n - 1 - (n - 1 - (h - flip))) = h
          BY <1>3, <2>0, <4>1
        <5>2. BES(Masked(a + (n - 1 - (h - flip)))) = h
          BY <1>1, <2>1, <5>1
        <5> QED
          BY <3>3, <5>1, <5>2
      <4> QED
        BY <3>1, <4>1
    <3> QED
      BY <3>2, <3>3
  <2>2. CASE at % n # 0
    <3>1. d[h] = LET ks == {k \in 0 .. n - 1 : BYTE_ENDIAN_FIXUP(at, k) = h}
                 IN  IF ks = {} THEN dmem[h] ELSE sr[5 - n + (CHOOSE k \in ks : TRUE)]
      BY <2>2 DEF StoreScalar
    <3>2. {k \in 0 .. n - 1 : BYTE_ENDIAN_FIXUP(at, k) = h} = wrote(h)
      BY <1>1
    <3> HIDE DEF d, at
    <3>3. d[h] = IF wrote(h) = {} THEN dmem[h] ELSE sr[5 - n + (CHOOSE k \in wrote(h) : TRUE)]
      BY <3>1, <3>2
    <3>4. ASSUME NEW k \in 0 .. n - 1, BES(Masked(a + k)) = h  PROVE d[h] = byte(k)
      <4>1. k \in wrote(h)
        BY <3>4
      <4>2. (CHOOSE l \in wrote(h) : TRUE) \in wrote(h)
        BY <4>1
      <4>3. (CHOOSE l \in wrote(h) : TRUE) = k
        BY <1>4, <3>4, <4>2
      <4> QED
        BY <3>3, <4>1, <4>3
    <3>5. ASSUME \A k \in 0 .. n - 1 : BES(Masked(a + k)) # h  PROVE d[h] = dmem[h]
      <4>1. wrote(h) = {}
        BY <3>5
      <4> QED
        BY <3>3, <4>1
    <3> QED
      BY <3>4, <3>5
  <2> QED
    BY <2>1, <2>2
<1>6. d = [h \in Host |-> d[h]]
  BY DEF StoreScalar
<1> HIDE DEF d, flip, at, byte
<1>7. d \in [Host -> Byte]
  <2>1. ASSUME NEW h \in Host  PROVE d[h] \in Byte
    <3>1. CASE \E k \in 0 .. n - 1 : BES(Masked(a + k)) = h
      BY <1>2, <1>5, <3>1
    <3>2. CASE \A k \in 0 .. n - 1 : BES(Masked(a + k)) # h
      BY <1>5, <3>2 DEF HoldsBytes
    <3> QED
      BY <3>1, <3>2
  <2> QED
    BY <1>6, <2>1
<1>8. Inside(d)
  <2>1. ASSUME NEW h \in Size .. Size + Margin - 1  PROVE d[h] = dmem[h]
    <3>1. h \in Host /\ h \in Int /\ h >= Size /\ Size \in Nat
      BY SizeFacts DEF Host, Margin
    <3>2. ASSUME NEW k \in 0 .. n - 1  PROVE BES(Masked(a + k)) # h
      BY <1>1, <3>1
    <3> QED
      BY <1>5, <3>1, <3>2
  <2> QED
    BY <2>1 DEF Inside
<1>9. ASSUME NEW x \in 0 .. Size - 1
      PROVE  Mem(d, x) = IF (x - a) % Size < n THEN sr[5 - n + ((x - a) % Size)] ELSE Mem(dmem, x)
  <2> DEFINE q == (x - a) % Size
  <2>1. q \in 0 .. Size - 1 /\ Masked(a + q) = x /\ Size \in Nat
    BY OffsetBack, SizeFacts
  <2> HIDE DEF q
  <2>2. x \in Nat /\ BES(x) \in Host
    BY <2>1, FlipRanges DEF Host, Margin
  <2>3. CASE q < n
    <3>1. q \in 0 .. n - 1
      BY <2>1, <2>3
    <3>2. d[BES(x)] = byte(q)
      BY <1>5, <2>1, <2>2, <3>1
    <3> QED
      BY <2>3, <3>2 DEF Mem, byte, q
  <2>4. CASE ~(q < n)
    <3>1. ASSUME NEW k \in 0 .. n - 1  PROVE BES(Masked(a + k)) # BES(x)
      <4>1. SUFFICES ASSUME BES(Masked(a + k)) = BES(x)  PROVE FALSE
        OBVIOUS
      <4>2. k \in 0 .. Size - 1 /\ a + k \in Nat /\ k < n
        BY SizeFacts
      <4>3. Masked(a + k) = x
        BY <2>2, <4>1, <4>2, MaskFacts, Flips
      <4>4. k = q
        BY <2>1, <4>2, <4>3, DistinctAll
      <4> QED
        BY <2>4, <4>2, <4>4
    <3> QED
      BY <1>5, <2>2, <2>4, <3>1 DEF Mem, q
  <2> QED
    BY <2>3, <2>4
<1> QED
  BY <1>7, <1>8, <1>9 DEF d

-----------------------------------------------------------------------------
(***************************************************************************)
(* The instructions.                                                       *)
(***************************************************************************)
LEMMA LoadArms ==
  ASSUME NEW mn, NEW e, NEW a, LWC2(mn, e, a)
  PROVE  /\ mn = "LBV" => regs' = LBV(Rt, e, a)
         /\ mn = "LSV" => regs' = LSV(Rt, e, a)
         /\ mn = "LLV" => regs' = LLV(Rt, e, a)
         /\ mn = "LDV" => regs' = LDV(Rt, e, a)
         /\ mn = "LPV" => regs' = LPV(Rt, e, a)
         /\ mn = "LUV" => regs' = LUV(Rt, e, a)
         /\ mn = "LHV" => regs' = LHV(Rt, e, a)
         /\ mn = "LFV" => regs' = LFV(Rt, e, a)
         /\ mn = "LQV" => regs' = LQV(Rt, e, a)
         /\ mn = "LRV" => regs' = LRV(Rt, e, a)
         /\ mn = "LTV" => regs' = LTV(Rt, e, a)
         /\ dmem' = dmem /\ sr' = sr
BY DEF LWC2

LEMMA StoreArms ==
  ASSUME NEW mn, NEW e, NEW a, SWC2(mn, e, a)
  PROVE  /\ mn = "SBV" => dmem' = SBV(Rt, e, a)
         /\ mn = "SSV" => dmem' = SSV(Rt, e, a)
         /\ mn = "SLV" => dmem' = SLV(Rt, e, a)
         /\ mn = "SDV" => dmem' = SDV(Rt, e, a)
         /\ mn = "SPV" => dmem' = SPV(Rt, e, a)
         /\ mn = "SUV" => dmem' = SUV(Rt, e, a)
         /\ mn = "SHV" => dmem' = SHV(Rt, e, a)
         /\ mn = "SFV" => dmem' = SFV(Rt, e, a)
         /\ mn = "SWV" => dmem' = SWV(Rt, e, a)
         /\ mn = "SQV" => dmem' = SQV(Rt, e, a)
         /\ mn = "SRV" => dmem' = SRV(Rt, e, a)
         /\ mn = "STV" => dmem' = STV(Rt, e, a)
         /\ regs' = regs /\ sr' = sr
BY DEF SWC2

\* The four kinds of step, and what is logged.
Executes(in) ==
  /\ in.e \in Lane /\ in.a \in Nat
  /\ prog' = Append(prog, in) /\ prog' \in Seq(Decoded) /\ prog'[Len(prog')] = in
  /\ Len(prog') = Len(prog) + 1
  /\ \A n \in 1 .. Len(prog) : prog'[n] = prog[n]
  /\ \/ in.op \in VectorLoads /\ LWC2(in.op, in.e, in.a)
     \/ in.op \in VectorStores /\ SWC2(in.op, in.e, in.a)
     \/ in.op \in ScalarLoads /\ Load(in.op, in.a)
     \/ in.op \in ScalarStores /\ Store(in.op, in.a)

LEMMA Steps ==
  ASSUME LoadStoreNext, prog \in Seq(Decoded)
  PROVE  \E in \in Decoded : Executes(in)
<1>1. PICK fetched \in Decoded :
        \/ fetched.op \in VectorLoads /\ LWC2(fetched.op, fetched.e, fetched.a)
        \/ fetched.op \in VectorStores /\ SWC2(fetched.op, fetched.e, fetched.a)
        \/ fetched.op \in ScalarLoads /\ Load(fetched.op, fetched.a)
        \/ fetched.op \in ScalarStores /\ Store(fetched.op, fetched.a)
  BY DEF LoadStoreNext
<1>2. ASSUME NEW in \in Decoded, prog' = Append(prog, in)
      PROVE  /\ in.e \in Lane /\ in.a \in Nat
             /\ prog' \in Seq(Decoded) /\ prog'[Len(prog')] = in
             /\ Len(prog') = Len(prog) + 1 /\ \A n \in 1 .. Len(prog) : prog'[n] = prog[n]
  <2>1. in.e \in Lane /\ in.a \in Nat
    BY DEF Decoded, Lane
  <2> QED
    BY <1>2, <2>1
<1>3. fetched = [op |-> fetched.op, e |-> fetched.e, a |-> fetched.a]
  BY DEF Decoded
<1>4. CASE \/ fetched.op \in VectorLoads /\ LWC2(fetched.op, fetched.e, fetched.a)
           \/ fetched.op \in VectorStores /\ SWC2(fetched.op, fetched.e, fetched.a)
  <2>1. prog' = Append(prog, fetched)
    BY <1>3, <1>4 DEF LWC2, SWC2, Log
  <2> QED
    BY <1>2, <1>4, <2>1 DEF Executes
<1>5. CASE \/ fetched.op \in ScalarLoads /\ Load(fetched.op, fetched.a)
           \/ fetched.op \in ScalarStores /\ Store(fetched.op, fetched.a)
  <2> DEFINE in == [op |-> fetched.op, e |-> 0, a |-> fetched.a]
  <2>1. in \in Decoded /\ in.op = fetched.op /\ in.a = fetched.a
    BY DEF Decoded
  <2>2. prog' = Append(prog, in)
    BY <1>5 DEF Load, Store, Log
  <2> HIDE DEF in
  <2> QED
    BY <1>2, <1>5, <2>1, <2>2 DEF Executes
<1> QED
  BY <1>1, <1>4, <1>5

LEMMA ScalarWidths ==
  /\ \A mn \in ScalarLoads \cup ScalarStores : ScalarBytes(mn) \in {1, 2, 4}
BY DEF ScalarLoads, ScalarStores, ScalarBytes

\* A load leaves bytes in the registers.
LEMMA VectorLoadStep ==
  ASSUME HoldsBytes, NEW mn \in VectorLoads, NEW e \in Lane, NEW a \in Nat, LWC2(mn, e, a)
  PROVE  regs' \in [Reg -> [Lane -> Byte]]
<1>1. CASE mn \in {"LBV", "LSV", "LLV", "LDV", "LQV"}
  BY <1>1, LoadArms, MoversLoad DEF Loaded
<1>2. CASE mn \in {"LUV", "LHV"}
  <2>1. LUV(Rt, e, a) = LoadPacked(Rt, e, a, 1, 128) /\ LHV(Rt, e, a) = LoadPacked(Rt, e, a, 2, 128)
    BY DEF LUV, LHV
  <2>2. \A n \in {1, 2} : LoadPacked(Rt, e, a, n, 128) \in [Reg -> [Lane -> Byte]]
    BY PackedLoaded DEF Spread
  <2> QED
    BY <1>2, <2>1, <2>2, LoadArms
<1>3. CASE mn \in {"LPV", "LFV", "LRV", "LTV"}
  <2>1. LPV(Rt, e, a) \in [Reg -> [Lane -> Byte]] /\ LTV(Rt, e, a) \in [Reg -> [Lane -> Byte]]
    BY LPVLoaded, LTVLoaded
  <2>2. LFV(Rt, e, a) \in [Reg -> [Lane -> Byte]]
    BY LFVLoaded
  <2>3. LRV(Rt, e, a) \in [Reg -> [Lane -> Byte]]
    BY LRVLoaded
  <2> QED
    BY <1>3, <2>1, <2>2, <2>3, LoadArms
<1> QED
  BY <1>1, <1>2, <1>3 DEF VectorLoads

\* A store leaves bytes in the memory, and its margin as it was unless it may pass the end.
LEMMA VectorStoreStep ==
  ASSUME HoldsBytes, NEW in \in Decoded, in.op \in VectorStores, SWC2(in.op, in.e, in.a)
  PROVE  dmem' \in [Host -> Byte] /\ (~MayPass(in) => Inside(dmem'))
<1>1. in.e \in Lane /\ in.a \in Nat
  BY DEF Decoded, Lane
<1> DEFINE mn == in.op
           e == in.e
           a == in.a
<1>2. CASE mn \in {"SBV", "SSV", "SDV", "SPV", "SUV", "SQV", "SRV"}
  <2>1. dmem' \in {SBV(Rt, e, a), SSV(Rt, e, a), SDV(Rt, e, a), SPV(Rt, e, a), SUV(Rt, e, a),
                   SQV(Rt, e, a), SRV(Rt, e, a)}
    BY <1>2, StoreArms
  <2> QED
    BY <1>1, <2>1, StoresInside
<1>3. CASE mn = "SLV"
  <2>1. dmem' = SLV(Rt, e, a)
    BY <1>3, StoreArms
  <2>2. ~MayPass(in) => a % Size <= Size - 4
    <3>1. a % Size \in Nat /\ Size \in Nat
      BY <1>1, MaskFacts, SizeFacts
    <3> QED
      BY <1>3, <3>1 DEF MayPass
  <2> QED
    BY <1>1, <2>1, <2>2, StoresInside
<1>4. CASE mn \in {"SHV", "SFV", "SWV", "STV"}
  <2>1. dmem' \in {SHV(Rt, e, a), SFV(Rt, e, a), SWV(Rt, e, a), STV(Rt, e, a)}
    BY <1>4, StoreArms
  <2>2. ~MayPass(in) => a % Size < Size - 8
    <3>1. a % Size \in Nat /\ Size \in Nat
      BY <1>1, MaskFacts, SizeFacts
    <3> QED
      BY <1>4, <3>1 DEF MayPass
  <2> QED
    BY <1>1, <2>1, <2>2, StoresInside
<1> QED
  BY <1>2, <1>3, <1>4 DEF VectorStores

MemoryInv == StaysInDmem /\ prog \in Seq(Decoded)

LEMMA MemoryInvariance == LoadStoreSpec => []MemoryInv
<1>1. LoadStoreInit => MemoryInv
  BY ContentsAssumption DEF LoadStoreInit, MemoryInv, StaysInDmem, HoldsBytes
<1>2. MemoryInv /\ [LoadStoreNext]_lsVars => MemoryInv'
  <2> SUFFICES ASSUME MemoryInv, [LoadStoreNext]_lsVars  PROVE MemoryInv'
    OBVIOUS
  <2>1. CASE UNCHANGED lsVars
    BY <2>1 DEF lsVars, MemoryInv, StaysInDmem, HoldsBytes
  <2>2. CASE LoadStoreNext
    <3>1. HoldsBytes /\ prog \in Seq(Decoded)
      BY DEF MemoryInv, StaysInDmem
    <3>2. PICK in \in Decoded : Executes(in)
      BY <2>2, <3>1, Steps
    <3> USE DEF Executes
    <3>3. HoldsBytes' /\ (~MayPass(in) => Inside(dmem'))
      <4>1. Inside(dmem)
        BY DEF Inside
      <4>2. CASE in.op \in VectorLoads /\ LWC2(in.op, in.e, in.a)
        BY <3>1, <3>2, <4>1, <4>2, VectorLoadStep, LoadArms DEF HoldsBytes
      <4>3. CASE in.op \in VectorStores /\ SWC2(in.op, in.e, in.a)
        BY <3>1, <4>3, VectorStoreStep, StoreArms DEF HoldsBytes
      <4>4. CASE in.op \in ScalarLoads /\ Load(in.op, in.a)
        <5>1. ScalarBytes(in.op) \in {1, 2, 4}
          BY <4>4, ScalarWidths
        <5>2. sr' \in [1 .. 4 -> Byte]
          BY <3>1, <3>2, <4>4, <5>1, ScalarLoaded DEF Load
        <5> QED
          BY <3>1, <4>1, <4>4, <5>2 DEF Load, HoldsBytes
      <4>5. CASE in.op \in ScalarStores /\ Store(in.op, in.a)
        <5>1. ScalarBytes(in.op) \in {1, 2, 4}
          BY <4>5, ScalarWidths
        <5>2. dmem' \in [Host -> Byte] /\ Inside(dmem')
          BY <3>1, <3>2, <4>5, <5>1, ScalarStored DEF Store
        <5> QED
          BY <3>1, <4>5, <5>2 DEF Store, HoldsBytes
      <4> QED
        BY <3>2, <4>2, <4>3, <4>4, <4>5
    <3>4. ASSUME \A n \in DOMAIN prog' : ~MayPass(prog'[n]), NEW h \in Size .. Size + Margin - 1
          PROVE  dmem'[h] = InitDmem[h]
      <4>1. Len(prog) \in Nat /\ DOMAIN prog = 1 .. Len(prog) /\ DOMAIN prog' = 1 .. Len(prog) + 1
        BY <3>1, <3>2
      <4>2. \A n \in DOMAIN prog : ~MayPass(prog[n])
        BY <3>2, <3>4, <4>1
      <4>3. ~MayPass(in)
        BY <3>2, <3>4, <4>1
      <4> QED
        BY <3>3, <4>2, <4>3 DEF MemoryInv, StaysInDmem, Inside
    <3> QED
      BY <3>2, <3>3, <3>4 DEF MemoryInv, StaysInDmem
  <2> QED
    BY <2>1, <2>2
<1> QED
  BY <1>1, <1>2, PTL DEF LoadStoreSpec

\* Only the five stores that do not mask again write past the end of DMEM, and only
\* in its last bytes: for DMEM of every size, contents and program.
THEOREM NoStoreLeavesDmem == LoadStoreSpec => []StaysInDmem
<1>1. MemoryInv => StaysInDmem
  BY DEF MemoryInv
<1> QED
  BY <1>1, MemoryInvariance, PTL

-----------------------------------------------------------------------------
(***************************************************************************)
(* Order: what one instruction moves.                                      *)
(***************************************************************************)
LEMMA MoverOfLoad ==
  ASSUME HoldsBytes, NEW in, in.op \in Movers, in.op \in VectorLoads, in.e \in Lane, in.a \in Nat,
         LWC2(in.op, in.e, in.a)
  PROVE  Loaded(regs', in.e, Width(in.op, in.a), in.a)
<1>1. CASE in.op = "LBV"
  BY <1>1, LoadArms, MoversLoad DEF Width
<1>2. CASE in.op = "LSV"
  BY <1>2, LoadArms, MoversLoad DEF Width
<1>3. CASE in.op = "LLV"
  BY <1>3, LoadArms, MoversLoad DEF Width
<1>4. CASE in.op = "LDV"
  BY <1>4, LoadArms, MoversLoad DEF Width
<1>5. CASE in.op = "LQV"
  BY <1>5, LoadArms, MoversLoad DEF Width
<1> QED
  BY <1>1, <1>2, <1>3, <1>4, <1>5 DEF Movers, VectorLoads

LEMMA MoverOfStore ==
  ASSUME HoldsBytes, NEW in, in.op \in Movers, in.op \in VectorStores, in.e \in Lane, in.a \in Nat,
         SWC2(in.op, in.e, in.a), Wraps(in.op, in.a)
  PROVE  Stored(dmem', in.e, Width(in.op, in.a), in.a)
<1>1. CASE in.op = "SBV"
  BY <1>1, StoreArms, MoversStore DEF Width
<1>2. CASE in.op = "SSV"
  BY <1>2, StoreArms, MoversStore DEF Width
<1>3. CASE in.op = "SLV"
  <2>1. Masked(in.a) <= Size - 4
    BY <1>3, MaskFacts DEF Wraps
  <2> QED
    BY <1>3, <2>1, StoreArms, MoversStore DEF Width
<1>4. CASE in.op = "SDV"
  BY <1>4, StoreArms, MoversStore DEF Width
<1>5. CASE in.op = "SQV"
  BY <1>5, StoreArms, MoversStore DEF Width
<1> QED
  BY <1>1, <1>2, <1>3, <1>4, <1>5 DEF Movers, VectorStores

LEMMA Widths ==
  ASSUME NEW mn, NEW a \in Nat
  PROVE  Width(mn, a) \in 1 .. 16
BY DEF Width

\* Loaded, in terms of the pairs of MovesInOrder.
LEMMA PairsLoaded ==
  ASSUME NEW r, NEW e \in Lane, NEW a \in Nat, NEW mn, Loaded(r, e, Width(mn, a), a)
  PROVE  /\ \A p \in LoadPairs(mn, e, a) : Vec(r, p[1]) = Mem(dmem, p[2])
         /\ \A b \in Lane \ {p[1] : p \in LoadPairs(mn, e, a)} : Vec(r, b) = Vec(regs, b)
<1> DEFINE n == Width(mn, a)
<1>1. n \in 1 .. 16 /\ e \in 0 .. 15 /\ \A b \in Lane : b \in Nat /\ b < 16
  BY Widths, BytePairs DEF Lane
<1>2. \A p : p \in LoadPairs(mn, e, a) <=>
        \E k \in 0 .. n - 1 : e + k < 16 /\ p = <<e + k, (a + k) % Size>>
  BY DEF LoadPairs
<1> HIDE DEF n
<1>3. ASSUME NEW k \in 0 .. n - 1, e + k < 16
      PROVE  Vec(r, e + k) = Mem(dmem, (a + k) % Size)
  <2>1. PICK b \in Lane : b = e + k /\ b - e = k /\ e <= b /\ b < e + n
    <3>1. e + k \in Lane /\ (e + k) - e = k /\ e <= e + k /\ e + k < e + n
      BY <1>1, <1>3 DEF Lane
    <3> QED
      BY <3>1
  <2>2. Vec(r, b) = Mem(dmem, Masked(a + (b - e)))
    BY <2>1 DEF Loaded, n
  <2> QED
    BY <2>1, <2>2 DEF Masked
<1>4. ASSUME NEW b \in Lane, b \notin {p[1] : p \in LoadPairs(mn, e, a)}  PROVE Vec(r, b) = Vec(regs, b)
  <2>1. ASSUME e <= b /\ b < e + n  PROVE FALSE
    <3>1. b - e \in 0 .. n - 1 /\ e + (b - e) = b /\ b < 16
      BY <1>1, <2>1
    <3>2. <<b, (a + (b - e)) % Size>> \in LoadPairs(mn, e, a)
      BY <1>2, <3>1
    <3> QED
      BY <1>4, <3>2
  <2> QED
    BY <2>1 DEF Loaded, n
<1> QED
  BY <1>2, <1>3, <1>4

LEMMA PairsStored ==
  ASSUME NEW d, NEW e \in Lane, NEW a \in Nat, NEW mn, Stored(d, e, Width(mn, a), a)
  PROVE  /\ \A p \in StorePairs(mn, e, a) : Mem(d, p[2]) = Vec(regs, p[1])
         /\ \A x \in (0 .. Size - 1) \ {p[2] : p \in StorePairs(mn, e, a)} : Mem(d, x) = Mem(dmem, x)
<1> DEFINE n == Width(mn, a)
<1>1. \A p : p \in StorePairs(mn, e, a) <=>
        \E k \in 0 .. n - 1 : p = <<(e + k) % 16, Masked(a + k)>>
  BY DEF StorePairs, Masked
<1>2. ASSUME NEW p \in StorePairs(mn, e, a)  PROVE Mem(d, p[2]) = Vec(regs, p[1])
  BY <1>1 DEF Stored
<1>3. ASSUME NEW x \in 0 .. Size - 1, x \notin {p[2] : p \in StorePairs(mn, e, a)}
      PROVE  Mem(d, x) = Mem(dmem, x)
  <2>1. ASSUME NEW k \in 0 .. n - 1  PROVE Masked(a + k) # x
    <3>1. <<(e + k) % 16, Masked(a + k)>> \in StorePairs(mn, e, a)
      BY <1>1
    <3> QED
      BY <1>3, <3>1
  <2> QED
    BY <2>1 DEF Stored
<1> QED
  BY <1>2, <1>3

\* A load or a store that only moves bytes moves them in order and touches no others,
\* on every path of ls.cpp, at every address of a DMEM of any size.
THEOREM BytesMoveInOrder == LoadStoreSpec => MovesInOrder
<1>1. MemoryInv /\ [LoadStoreNext]_lsVars => [prog' # prog => MoveStep]_lsVars
  <2> SUFFICES ASSUME MemoryInv, LoadStoreNext  PROVE MoveStep
    OBVIOUS
  <2>1. HoldsBytes /\ prog \in Seq(Decoded)
    BY DEF MemoryInv, StaysInDmem
  <2>2. PICK in \in Decoded : Executes(in)
    BY <2>1, Steps
  <2> USE DEF Executes
  <2>3. Executed = in
    BY <2>2 DEF Executed
  <2>4. ASSUME in.op \in Movers, Wraps(in.op, in.a), in.op \in VectorLoads  PROVE Move(in)
    <3>1. LWC2(in.op, in.e, in.a)
      BY <2>2, <2>4 DEF VectorLoads, VectorStores, ScalarLoads, ScalarStores
    <3>2. Loaded(regs', in.e, Width(in.op, in.a), in.a)
      BY <2>1, <2>2, <2>4, <3>1, MoverOfLoad
    <3>3. /\ \A p \in LoadPairs(in.op, in.e, in.a) : Vec(regs', p[1]) = Mem(dmem, p[2])
          /\ \A b \in Lane \ {p[1] : p \in LoadPairs(in.op, in.e, in.a)} : Vec(regs', b) = Vec(regs, b)
      BY <2>2, <3>2, PairsLoaded
    <3> QED
      BY <2>4, <3>3 DEF Move
  <2>5. ASSUME in.op \in Movers, Wraps(in.op, in.a), in.op \notin VectorLoads  PROVE Move(in)
    <3>1. in.op \in VectorStores /\ SWC2(in.op, in.e, in.a)
      BY <2>2, <2>5 DEF Movers, VectorLoads, VectorStores, ScalarLoads, ScalarStores
    <3>2. Stored(dmem', in.e, Width(in.op, in.a), in.a)
      BY <2>1, <2>2, <2>5, <3>1, MoverOfStore
    <3>3. /\ \A p \in StorePairs(in.op, in.e, in.a) : Mem(dmem', p[2]) = Vec(regs, p[1])
          /\ \A x \in (0 .. Size - 1) \ {p[2] : p \in StorePairs(in.op, in.e, in.a)} :
               Mem(dmem', x) = Mem(dmem, x)
      BY <2>2, <3>2, PairsStored
    <3> QED
      BY <2>5, <3>3 DEF Move
  <2> QED
    BY <2>3, <2>4, <2>5 DEF MoveStep
<1> QED
  BY <1>1, MemoryInvariance, PTL DEF LoadStoreSpec, MovesInOrder

\* Scalar loads and stores are big-endian and wrap, at every address.
THEOREM ScalarsAreBigEndian == LoadStoreSpec => ScalarIsBigEndian
<1>1. MemoryInv /\ [LoadStoreNext]_lsVars => [prog' # prog => BigEndianStep]_lsVars
  <2> SUFFICES ASSUME MemoryInv, LoadStoreNext  PROVE BigEndianStep
    OBVIOUS
  <2>1. HoldsBytes /\ prog \in Seq(Decoded)
    BY DEF MemoryInv, StaysInDmem
  <2>2. PICK in \in Decoded : Executes(in)
    BY <2>1, Steps
  <2> USE DEF Executes
  <2> DEFINE n == ScalarBytes(in.op)
  <2>3. Executed = in
    BY <2>2 DEF Executed
  <2>4. ASSUME in.op \in ScalarLoads, NEW k \in 0 .. n - 1
        PROVE  sr'[5 - n + k] = Mem(dmem, (in.a + k) % Size)
    <3>1. n \in {1, 2, 4}
      BY <2>4, ScalarWidths
    <3>2. sr' = Extended(LoadScalar(n, in.a), in.op \in {"LB", "LH"})
      BY <2>2, <2>4 DEF VectorLoads, VectorStores, ScalarLoads, ScalarStores, Load
    <3> HIDE DEF n
    <3>3. sr'[5 - n + k] = Mem(dmem, Masked(in.a + k))
      BY <2>1, <2>2, <2>4, <3>1, <3>2, ScalarLoaded
    <3> QED
      BY <3>3 DEF Masked
  <2>5. ASSUME in.op \in ScalarStores, NEW x \in 0 .. Size - 1
        PROVE  Mem(dmem', x) = IF (x - in.a) % Size < n THEN sr[5 - n + ((x - in.a) % Size)]
                               ELSE Mem(dmem, x)
    <3>1. n \in {1, 2, 4}
      BY <2>5, ScalarWidths
    <3>2. dmem' = StoreScalar(n, in.a)
      BY <2>2, <2>5 DEF VectorLoads, VectorStores, ScalarLoads, ScalarStores, Store
    <3> HIDE DEF n
    <3> QED
      BY <2>1, <2>2, <3>1, <3>2, ScalarStored
  <2> QED
    BY <2>3, <2>4, <2>5 DEF BigEndianStep
<1> QED
  BY <1>1, MemoryInvariance, PTL DEF LoadStoreSpec, ScalarIsBigEndian

-----------------------------------------------------------------------------
(***************************************************************************)
(* Pairs: what the second instruction makes of what the first one left.    *)
(* The invariant says what the first one left.                             *)
(***************************************************************************)
Fits(a) == Row8(a % Size) < Size - 8

FirstLeaves(in) ==
  /\ in.op \in VectorLoads => dmem = InitDmem
  /\ in.op \in VectorStores => regs = InitRegs
  /\ in.op = "LQV" /\ in.e = 0 =>
       \A b \in Lane : b < 16 - (in.a % 16) => Vec(regs, b) = Mem(InitDmem, Masked(in.a + b))
  /\ in.op = "SQV" =>
       \A b \in Lane : b < 16 - (in.a % 16) =>
         Mem(dmem, Masked(in.a + b)) = Vec(InitRegs, (in.e + b) % 16)
  /\ in.op = "LPV" /\ in.e = 0 =>
       \A k \in 0 .. 7 : Element(Rt, k) = Mem(InitDmem, Masked(in.a + k)) * 256
  /\ in.op = "LUV" /\ in.e = 0 =>
       \A k \in 0 .. 7 : Element(Rt, k) = Mem(InitDmem, Masked(in.a + k)) * 128
  /\ in.op = "LHV" /\ in.e = 0 /\ Fits(in.a) =>
       \A k \in 0 .. 7 : Element(Rt, k) = Mem(InitDmem, Past(in.a, 2 * k)) * 128
  /\ in.op = "LFV" /\ in.e = 0 /\ Fits(in.a) =>
       \A k \in 0 .. 3 : Element(Rt, k) = Mem(InitDmem, Past(in.a, 4 * k)) * 128

PairInv ==
  /\ Len(prog) = 0 => dmem = InitDmem /\ regs = InitRegs
  /\ Len(prog) = 1 => FirstLeaves(prog[1])
  /\ UnalignedQuad /\ PackedRoundTrip

\* Where the unmasked address does not pass the end, it is the masked one.
LEMMA PastMasked ==
  ASSUME NEW a \in Nat, Fits(a), NEW k \in Int
  PROVE  /\ Masked(Row8(a) + (((a % 8) + k) % 16)) = Past(a, k)
         /\ Past(a, k) \in 0 .. Size - 1
<1> DEFINE o == ((a % 8) + k) % 16
           b == Row8(a)
<1>1. o \in 0 .. 15 /\ Past(a, k) = Row8(Masked(a)) + o
  BY DEF Past
<1>2. Masked(a) \in Nat /\ Masked(a) = a % Size /\ Row8(Masked(a)) < Size - 8
  BY MaskFacts DEF Fits
<1>3. b \in Nat /\ Masked(b) = Row8(Masked(a)) /\ Masked(b) \in 0 .. Size - 1
  BY MaskRow, MaskFacts
<1>4. PICK rows \in Nat : Size = 16 * rows
  BY SizeFacts
<1>5. Masked(b) % 8 = 0
  BY <1>2, <1>3 DEF Row8
<1>6. Size \in Nat /\ Size >= 128
  BY SizeFacts
<1> HIDE DEF o, b
<1>7. Masked(b) + o < Size
  BY <1>1, <1>2, <1>3, <1>4, <1>5
<1>8. Masked(b + o) = Masked(b) + o
  BY <1>1, <1>3, <1>6, <1>7, MaskStep
<1> QED
  BY <1>1, <1>3, <1>6, <1>7, <1>8 DEF o, b

\* The values of packed bytes, in elements and taken apart.
LEMMA PackedByte ==
  ASSUME NEW v \in Byte
  PROVE  /\ v * 256 \in Halfword /\ v * 128 \in Halfword
         /\ ((v * 256) \div 256) % 256 = v /\ ((v * 128) \div 128) % 256 = v
         /\ (((v * 128) \div 256) * 2 + (((v * 128) % 256) \div 128)) % 256 = v
<1>1. v \in Nat /\ v < 256
  BY ByteIs
<1>2. v * 256 \in Nat /\ v * 256 < 65536 /\ v * 128 \in Nat /\ v * 128 < 65536
  BY <1>1
<1>3. (v * 256) \div 256 = v /\ (v * 128) \div 128 = v /\ v % 256 = v
  BY <1>1
<1>4. ((v * 128) \div 256) * 2 + (((v * 128) % 256) \div 128) = v
  BY <1>1
<1> QED
  BY <1>1, <1>2, <1>3, <1>4 DEF Halfword

LEMMA Rejoined ==
  ASSUME NEW v \in Halfword
  PROVE  (v % 256) + 256 * (v \div 256) = v
<1>1. v \in Nat
  BY DEF Halfword
<1> QED
  BY <1>1

\* The rest of an unaligned store: SRV sixteen bytes after SQV.
LEMMA SRVStored ==
  ASSUME HoldsBytes, NEW e \in Lane, NEW a \in Nat
  PROVE  \A b \in Lane :
           Mem(SRV(Rt, e, a + 16), Masked(a + b)) =
             IF b >= 16 - (a % 16) THEN Vec(regs, (e + b) % 16) ELSE Mem(dmem, Masked(a + b))
<1> DEFINE m == a % 16
           p == a + 16
           S == 0 .. m - 1
           A == [k \in S |-> Masked(p) - m + k]
           V == [k \in S |-> READ_VEC_U8(Rt, (e + k + 16 - m) % 16)]
<1>1. m \in 0 .. 15 /\ p \in Nat /\ p % 16 = m /\ e \in 0 .. 15 /\ p - m \in Nat
  BY DEF Lane
<1>2. Masked(p) - m \in Nat /\ Masked(p) - m + 16 <= Size /\ Masked(p - m) = Masked(p) - m
      /\ Size \in Nat
  BY <1>1, AlignedFits, MaskRow, SizeFacts
<1>3. SRV(Rt, e, p) = StoreBytes(A, V)
  BY <1>1 DEF SRV
<1> HIDE DEF m, p
<1>4. ASSUME NEW k \in S
      PROVE  /\ A[k] = Masked(a + (16 - m + k)) /\ A[k] \in 0 .. Size - 1
             /\ V[k] = Vec(regs, (e + (16 - m + k)) % 16) /\ V[k] \in Byte
             /\ 16 - m + k \in 0 .. 15
  <2>1. A[k] \in 0 .. Size - 1 /\ 16 - m + k \in 0 .. 15
    BY <1>1, <1>2
  <2>2. Masked((p - m) + k) = Masked(p - m) + k
    <3>1. k \in 0 .. Size - 1 /\ Masked(p - m) + k < Size
      BY <1>1, <1>2
    <3> QED
      BY <1>1, <3>1, MaskStep
  <2>3. (p - m) + k = a + (16 - m + k)
    BY <1>1 DEF p
  <2>4. V[k] = READ_VEC_U8(Rt, (e + k + 16 - m) % 16)
    OBVIOUS
  <2>5. e + k + 16 - m = e + (16 - m + k) /\ (e + (16 - m + k)) % 16 \in Lane
    BY <1>1 DEF Lane
  <2> HIDE DEF V
  <2>6. V[k] = Vec(regs, (e + (16 - m + k)) % 16) /\ V[k] \in Byte
    BY <2>4, <2>5, BytesRead
  <2>7. A[k] = Masked(a + (16 - m + k))
    BY <1>2, <2>2, <2>3
  <2> QED
    BY <2>1, <2>6, <2>7
<1>5. A \in [S -> 0 .. Size - 1] /\ V \in [S -> Byte]
  BY <1>4
<1>6. ASSUME NEW k \in S, NEW l \in S, A[k] = A[l]  PROVE k = l
  BY <1>1, <1>2, <1>6
<1> HIDE DEF A, V
<1>7. MemSet(StoreBytes(A, V), S, A, V)
  BY <1>5, MemStored
<1>8. ASSUME NEW b \in Lane
      PROVE  Mem(SRV(Rt, e, p), Masked(a + b)) =
               IF b >= 16 - m THEN Vec(regs, (e + b) % 16) ELSE Mem(dmem, Masked(a + b))
  <2>1. b \in 0 .. 15 /\ a + b \in Nat
    BY DEF Lane
  <2>2. CASE b >= 16 - m
    <3>1. PICK k \in S : k = b - (16 - m)
      BY <1>1, <2>1, <2>2
    <3>2. 16 - m + k = b
      BY <1>1, <2>1, <3>1
    <3>3. Mem(StoreBytes(A, V), A[k]) = V[k]
      BY <1>6, <1>7 DEF MemSet
    <3> QED
      BY <1>3, <1>4, <2>2, <3>2, <3>3
  <2>3. CASE ~(b >= 16 - m)
    <3>1. ASSUME NEW k \in S  PROVE A[k] # Masked(a + b)
      <4>1. 16 - m + k \in 0 .. 15 /\ 16 - m + k # b
        BY <1>1, <1>4, <2>1, <2>3
      <4> QED
        BY <1>4, <2>1, <4>1, Distinct
    <3>2. Masked(a + b) \in 0 .. Size - 1
      BY <2>1, MaskFacts
    <3> QED
      BY <1>3, <1>7, <2>3, <3>1, <3>2 DEF MemSet
  <2> QED
    BY <2>2, <2>3
<1> QED
  BY <1>8 DEF m, p

\* The elements a load leaves, as numbers.
LEMMA SpreadElements ==
  ASSUME NEW r, NEW Of, Spread(r, Of), NEW k \in 0 .. 7, Of[k] \in Halfword
  PROVE  r[Rt][2 * k] + 256 * r[Rt][2 * k + 1] = Of[k]
BY Rejoined DEF Spread

\* Element k of a load of bytes n apart, and where its byte is.
Place(a, n, k) == Masked(Row8(a) + (((a % 8) + n * k) % 16))

LEMMA UnpackedElement ==
  ASSUME HoldsBytes, NEW r, NEW a \in Nat, NEW n \in {1, 2}, NEW k \in 0 .. 7,
         Spread(r, Unpacked(0, a, n, 128)), Place(a, n, k) \in 0 .. Size - 1
  PROVE  r[Rt][2 * k] + 256 * r[Rt][2 * k + 1] = Mem(dmem, Place(a, n, k)) * 128
<1>1. Unpacked(0, a, n, 128)[k] = Mem(dmem, Masked(Row8(a) + (((a % 8) - 0 + n * k) % 16))) * 128
  BY DEF Unpacked
<1>2. (a % 8) - 0 + n * k = (a % 8) + n * k
  OBVIOUS
<1>3. Unpacked(0, a, n, 128)[k] = Mem(dmem, Place(a, n, k)) * 128
  BY <1>1, <1>2 DEF Place
<1>4. Mem(dmem, Place(a, n, k)) \in Byte
  BY BytesRead
<1>5. Unpacked(0, a, n, 128)[k] \in Halfword
  BY <1>3, <1>4, PackedByte
<1> QED
  BY <1>3, <1>5, SpreadElements

\* What the first instruction of a pair leaves.
LEMMA FirstLeft ==
  ASSUME HoldsBytes, dmem = InitDmem, regs = InitRegs, prog \in Seq(Decoded),
         NEW in \in Decoded, Executes(in)
  PROVE  FirstLeaves(in)'
<1> DEFINE mn == in.op
           e == in.e
           a == in.a
<1>0. e \in Lane /\ a \in Nat /\ mn = in.op
  BY DEF Executes
<1>1. mn \in VectorLoads => LWC2(mn, e, a)
  BY DEF Executes, VectorLoads, VectorStores, ScalarLoads, ScalarStores
<1>2. mn \in VectorStores => SWC2(mn, e, a)
  BY DEF Executes, VectorLoads, VectorStores, ScalarLoads, ScalarStores
<1> HIDE DEF mn, e, a
<1>3. mn \in VectorLoads => dmem' = InitDmem
  BY <1>1, LoadArms
<1>4. mn \in VectorStores => regs' = InitRegs
  BY <1>2, StoreArms
<1>5. ASSUME NEW k \in Nat  PROVE Mem(dmem, Masked(a + k)) \in Byte
  <2>1. Masked(a + k) \in 0 .. Size - 1
    <3>1. a + k \in Nat
      BY <1>0, <1>5
    <3> QED
      BY <3>1, MaskFacts
  <2> QED
    BY <2>1, BytesRead
<1>6. ASSUME mn = "LQV", NEW b \in Lane, e = 0, b < 16 - (a % 16)
      PROVE  Vec(regs', b) = Mem(InitDmem, Masked(a + b))
  <2>1. regs' = LQV(Rt, e, a)
    BY <1>1, <1>6, LoadArms DEF VectorLoads
  <2>2. Loaded(LQV(Rt, e, a), e, 16 - (a % 16), a)
    BY <1>0, MoversLoad
  <2>3. Vec(regs', b) = IF e <= b /\ b < e + (16 - (a % 16)) THEN Mem(dmem, Masked(a + (b - e)))
                        ELSE Vec(regs, b)
    BY <2>1, <2>2 DEF Loaded
  <2>4. e <= b /\ b < e + (16 - (a % 16)) /\ b - e = b
    BY <1>0, <1>6 DEF Lane
  <2> QED
    BY <2>3, <2>4
<1>7. ASSUME mn = "SQV", NEW b \in Lane, b < 16 - (a % 16)
      PROVE  Mem(dmem', Masked(a + b)) = Vec(InitRegs, (e + b) % 16)
  <2>1. dmem' = SQV(Rt, e, a)
    BY <1>2, <1>7, StoreArms DEF VectorStores
  <2>2. Stored(SQV(Rt, e, a), e, 16 - (a % 16), a)
    BY <1>0, MoversStore
  <2>3. b \in 0 .. 16 - (a % 16) - 1
    BY <1>0, <1>7 DEF Lane
  <2> QED
    BY <2>1, <2>2, <2>3 DEF Stored
<1>8. ASSUME mn = "LPV", NEW k \in 0 .. 7, e = 0
      PROVE  regs'[Rt][2 * k] + 256 * regs'[Rt][2 * k + 1] = Mem(InitDmem, Masked(a + k)) * 256
  <2> DEFINE Of == [l \in 0 .. 7 |-> Mem(dmem, Masked(a + l)) * 256]
  <2>1. regs' = LPV(Rt, e, a)
    BY <1>1, <1>8, LoadArms DEF VectorLoads
  <2>2. Spread(regs', Of)
    BY <1>0, <1>8, <2>1, LPVLoaded
  <2>3. Of[k] = Mem(dmem, Masked(a + k)) * 256
    OBVIOUS
  <2> HIDE DEF Of
  <2>4. Mem(dmem, Masked(a + k)) \in Byte
    BY <1>5
  <2>5. Of[k] \in Halfword
    BY <2>3, <2>4, PackedByte
  <2> QED
    BY <2>2, <2>3, <2>5, SpreadElements
<1>10. ASSUME mn = "LUV", NEW k \in 0 .. 7, e = 0
       PROVE  regs'[Rt][2 * k] + 256 * regs'[Rt][2 * k + 1] = Mem(InitDmem, Masked(a + k)) * 128
  <2>1. regs' = LUV(Rt, e, a)
    BY <1>1, <1>10, LoadArms DEF VectorLoads
  <2>2. Spread(regs', Unpacked(0, a, 1, 128))
    BY <1>0, <1>10, <2>1, PackedLoaded DEF LUV
  <2>3. Row8(a) + (((a % 8) + 1 * k) % 16) = a + k
    BY <1>0 DEF Row8
  <2>4. Masked(a + k) \in 0 .. Size - 1
    <3>1. a + k \in Nat
      BY <1>0
    <3> QED
      BY <3>1, MaskFacts
  <2>5. Place(a, 1, k) = Masked(a + k) /\ Place(a, 1, k) \in 0 .. Size - 1
    BY <2>3, <2>4 DEF Place
  <2>6. regs'[Rt][2 * k] + 256 * regs'[Rt][2 * k + 1] = Mem(dmem, Place(a, 1, k)) * 128
    BY <1>0, <2>2, <2>5, UnpackedElement
  <2> QED
    BY <2>5, <2>6
<1>11. ASSUME mn = "LHV", NEW k \in 0 .. 7, e = 0, Fits(a)
       PROVE  regs'[Rt][2 * k] + 256 * regs'[Rt][2 * k + 1] = Mem(InitDmem, Past(a, 2 * k)) * 128
  <2>1. regs' = LHV(Rt, e, a)
    BY <1>1, <1>11, LoadArms DEF VectorLoads
  <2>2. Spread(regs', Unpacked(0, a, 2, 128))
    BY <1>0, <1>11, <2>1, PackedLoaded DEF LHV
  <2>3. /\ Masked(Row8(a) + (((a % 8) + 2 * k) % 16)) = Past(a, 2 * k)
        /\ Past(a, 2 * k) \in 0 .. Size - 1
    <3>1. 2 * k \in Int
      OBVIOUS
    <3> QED
      BY <1>0, <1>11, <3>1, PastMasked
  <2>4. Place(a, 2, k) = Past(a, 2 * k) /\ Place(a, 2, k) \in 0 .. Size - 1
    BY <2>3 DEF Place
  <2>5. regs'[Rt][2 * k] + 256 * regs'[Rt][2 * k + 1] = Mem(dmem, Place(a, 2, k)) * 128
    BY <1>0, <2>2, <2>4, UnpackedElement
  <2> QED
    BY <2>4, <2>5
<1>12. ASSUME mn = "LFV", NEW k \in 0 .. 3, e = 0, Fits(a)
       PROVE  regs'[Rt][2 * k] + 256 * regs'[Rt][2 * k + 1] = Mem(InitDmem, Past(a, 4 * k)) * 128
  <2>1. regs' = LFV(Rt, e, a)
    BY <1>1, <1>12, LoadArms DEF VectorLoads
  <2>2. /\ Fourth(a, k) \in Halfword
        /\ Vec(regs', 2 * k) = Fourth(a, k) \div 256 /\ Vec(regs', 2 * k + 1) = Fourth(a, k) % 256
    BY <1>0, <1>12, <2>1, LFVLoaded
  <2>3. Fourth(a, k) = Mem(InitDmem, Past(a, 4 * k)) * 128
    <3>1. Masked(Row8(a) + (((a % 8) + 4 * k) % 16)) = Past(a, 4 * k)
      <4>1. 4 * k \in Int
        OBVIOUS
      <4> QED
        BY <1>0, <1>12, <4>1, PastMasked
    <3> QED
      BY <3>1 DEF Fourth
  <2>4. MES(2 * k) = 2 * k + 1 /\ MES(2 * k + 1) = 2 * k
    BY DEF MES
  <2>5. regs'[Rt][2 * k] = Fourth(a, k) % 256 /\ regs'[Rt][2 * k + 1] = Fourth(a, k) \div 256
    BY <2>2, <2>4 DEF Vec
  <2> QED
    BY <2>2, <2>3, <2>5, Rejoined
<1>13. ASSUME mn = "LPV", NEW k \in 0 .. 7, e = 0
       PROVE  Element(Rt, k)' = Mem(InitDmem, Masked(a + k)) * 256
  BY <1>8, <1>13 DEF Element
<1>14. ASSUME mn = "LUV", NEW k \in 0 .. 7, e = 0
       PROVE  Element(Rt, k)' = Mem(InitDmem, Masked(a + k)) * 128
  BY <1>10, <1>14 DEF Element
<1>15. ASSUME mn = "LHV", NEW k \in 0 .. 7, e = 0, Fits(a)
       PROVE  Element(Rt, k)' = Mem(InitDmem, Past(a, 2 * k)) * 128
  BY <1>11, <1>15 DEF Element
<1>16. ASSUME mn = "LFV", NEW k \in 0 .. 3, e = 0, Fits(a)
       PROVE  Element(Rt, k)' = Mem(InitDmem, Past(a, 4 * k)) * 128
  BY <1>12, <1>16 DEF Element
<1> DEFINE Q(b) == Vec(regs, b)' = Mem(InitDmem, Masked(a + b))
           W(b) == Mem(dmem, Masked(a + b))' = Vec(InitRegs, (e + b) % 16)
<1>17. ASSUME mn = "LQV", NEW b \in Lane, e = 0, b < 16 - (a % 16)  PROVE Q(b)
  BY <1>6, <1>17 DEF Vec
<1>18. ASSUME mn = "SQV", NEW b \in Lane, b < 16 - (a % 16)  PROVE W(b)
  BY <1>7, <1>18 DEF Mem
<1>19. (mn \in VectorLoads => dmem = InitDmem)' /\ (mn \in VectorStores => regs = InitRegs)'
  BY <1>3, <1>4
<1>20. (mn = "LQV" /\ e = 0 =>
         \A b \in Lane : b < 16 - (a % 16) => Vec(regs, b) = Mem(InitDmem, Masked(a + b)))'
  BY <1>17
<1>21. (mn = "SQV" =>
         \A b \in Lane : b < 16 - (a % 16) => Mem(dmem, Masked(a + b)) = Vec(InitRegs, (e + b) % 16))'
  BY <1>18
<1>22. (mn = "LPV" /\ e = 0 =>
         \A k \in 0 .. 7 : Element(Rt, k) = Mem(InitDmem, Masked(a + k)) * 256)'
  BY <1>13
<1>23. (mn = "LUV" /\ e = 0 =>
         \A k \in 0 .. 7 : Element(Rt, k) = Mem(InitDmem, Masked(a + k)) * 128)'
  BY <1>14
<1>24. (mn = "LHV" /\ e = 0 /\ Fits(a) =>
         \A k \in 0 .. 7 : Element(Rt, k) = Mem(InitDmem, Past(a, 2 * k)) * 128)'
  BY <1>15
<1>25. (mn = "LFV" /\ e = 0 /\ Fits(a) =>
         \A k \in 0 .. 3 : Element(Rt, k) = Mem(InitDmem, Past(a, 4 * k)) * 128)'
  BY <1>16
<1> QED
  BY <1>19, <1>20, <1>21, <1>22, <1>23, <1>24, <1>25 DEF FirstLeaves, mn, e, a

\* The packed stores write back what the loads spread.
LEMMA PackedStored ==
  ASSUME HoldsBytes, NEW a \in Nat
  PROVE  /\ (\A k \in 0 .. 7 : Element(Rt, k) = Mem(dmem, Masked(a + k)) * 256) => SPV(Rt, 0, a) = dmem
         /\ (\A k \in 0 .. 7 : Element(Rt, k) = Mem(dmem, Masked(a + k)) * 128) => SUV(Rt, 0, a) = dmem
         /\ Fits(a) /\ (\A k \in 0 .. 7 : Element(Rt, k) = Mem(dmem, Past(a, 2 * k)) * 128)
              => SHV(Rt, 0, a) = dmem
         /\ Fits(a) /\ (\A k \in 0 .. 3 : Element(Rt, k) = Mem(dmem, Past(a, 4 * k)) * 128)
              => SFV(Rt, 0, a) = dmem
<1>0. 0 \in Lane /\ Rt \in Reg
  BY DEF Lane, Rt, Reg
<1>1. ASSUME NEW S, NEW A, NEW V, \A k \in S : A[k] \in 0 .. Size - 1 /\ V[k] = Mem(dmem, A[k]),
             A = [k \in S |-> A[k]], V = [k \in S |-> V[k]]
      PROVE  StoreBytes(A, V) = dmem
  <2>1. A \in [S -> 0 .. Size - 1] /\ V \in [S -> Byte]
    BY <1>1, BytesRead
  <2>2. MemSet(StoreBytes(A, V), S, A, V)
    BY <2>1, MemStored
  <2> QED
    BY <1>1, <2>2 DEF MemSet
<1>2. ASSUME NEW k \in 0 .. 7  PROVE Masked(a + k) \in 0 .. Size - 1
  <2>1. a + k \in Nat
    OBVIOUS
  <2> QED
    BY <2>1, MaskFacts
<1>3. ASSUME NEW k \in 0 .. 7
      PROVE  /\ Shifted(Rt, 0, 256, 128)[k] = (Element(Rt, k) \div 256) % 256
             /\ Shifted(Rt, 0, 128, 256)[k] = (Element(Rt, k) \div 128) % 256
  <2>1. (0 + k) % 8 = k /\ (0 + k) % 16 < 8
    OBVIOUS
  <2> QED
    BY <2>1 DEF Shifted
<1>4. ASSUME \A k \in 0 .. 7 : Element(Rt, k) = Mem(dmem, Masked(a + k)) * 256
      PROVE  SPV(Rt, 0, a) = dmem
  <2> DEFINE A == [k \in 0 .. 7 |-> Masked(a + k)]
             V == Shifted(Rt, 0, 256, 128)
  <2>1. ASSUME NEW k \in 0 .. 7  PROVE A[k] \in 0 .. Size - 1 /\ V[k] = Mem(dmem, A[k])
    <3>1. Mem(dmem, Masked(a + k)) \in Byte
      BY <1>2, BytesRead
    <3>2. V[k] = ((Mem(dmem, Masked(a + k)) * 256) \div 256) % 256
      BY <1>3, <1>4
    <3> QED
      BY <1>2, <3>1, <3>2, PackedByte
  <2>2. A = [k \in 0 .. 7 |-> A[k]] /\ V = [k \in 0 .. 7 |-> V[k]]
        /\ SPV(Rt, 0, a) = StoreBytes(A, V)
    BY DEF SPV, StorePacked, Shifted
  <2> HIDE DEF A, V
  <2> QED
    BY <1>1, <2>1, <2>2
<1>5. ASSUME \A k \in 0 .. 7 : Element(Rt, k) = Mem(dmem, Masked(a + k)) * 128
      PROVE  SUV(Rt, 0, a) = dmem
  <2> DEFINE A == [k \in 0 .. 7 |-> Masked(a + k)]
             V == Shifted(Rt, 0, 128, 256)
  <2>1. ASSUME NEW k \in 0 .. 7  PROVE A[k] \in 0 .. Size - 1 /\ V[k] = Mem(dmem, A[k])
    <3>1. Mem(dmem, Masked(a + k)) \in Byte
      BY <1>2, BytesRead
    <3>2. V[k] = ((Mem(dmem, Masked(a + k)) * 128) \div 128) % 256
      BY <1>3, <1>5
    <3> QED
      BY <1>2, <3>1, <3>2, PackedByte
  <2>2. A = [k \in 0 .. 7 |-> A[k]] /\ V = [k \in 0 .. 7 |-> V[k]]
        /\ SUV(Rt, 0, a) = StoreBytes(A, V)
    BY DEF SUV, StorePacked, Shifted
  <2> HIDE DEF A, V
  <2> QED
    BY <1>1, <2>1, <2>2
<1>6. ASSUME Fits(a), NEW k \in Nat
      PROVE  Past(a, k) \in 0 .. Size - 1 /\ Mem(dmem, Past(a, k)) \in Byte
  <2>1. k \in Int
    BY <1>6
  <2>2. Past(a, k) \in 0 .. Size - 1
    BY <1>6, <2>1, PastMasked
  <2> QED
    BY <2>2, BytesRead
<1>7. ASSUME Fits(a), \A k \in 0 .. 7 : Element(Rt, k) = Mem(dmem, Past(a, 2 * k)) * 128
      PROVE  SHV(Rt, 0, a) = dmem
  <2> DEFINE A == [k \in 0 .. 7 |-> Past(a, 2 * k)]
             V == [k \in 0 .. 7 |-> (READ_VEC_U8(Rt, (0 + 2 * k) % 16) * 2
                                    + (READ_VEC_U8(Rt, (0 + 2 * k + 1) % 16) \div 128)) % 256]
  <2>1. ASSUME NEW k \in 0 .. 7  PROVE A[k] \in 0 .. Size - 1 /\ V[k] = Mem(dmem, A[k])
    <3> DEFINE v == Mem(dmem, Past(a, 2 * k))
    <3>1. A[k] = Past(a, 2 * k) /\ A[k] \in 0 .. Size - 1 /\ v \in Byte
      <4>1. 2 * k \in Nat
        OBVIOUS
      <4> QED
        BY <1>6, <1>7, <4>1
    <3>2. (0 + 2 * k) % 16 = 2 * k /\ (0 + 2 * k + 1) % 16 = 2 * k + 1
      OBVIOUS
    <3>3. MES(2 * k) = 2 * k + 1 /\ MES(2 * k + 1) = 2 * k
      BY DEF MES
    <3>4. READ_VEC_U8(Rt, 2 * k) = regs[Rt][2 * k + 1] /\ READ_VEC_U8(Rt, 2 * k + 1) = regs[Rt][2 * k]
      BY <3>3 DEF READ_VEC_U8
    <3>5. regs[Rt][2 * k] = Element(Rt, k) % 256 /\ regs[Rt][2 * k + 1] = Element(Rt, k) \div 256
      BY <1>0, <2>1, ElementRange
    <3>6. Element(Rt, k) = v * 128
      BY <1>7, <2>1
    <3>7. V[k] = (READ_VEC_U8(Rt, 2 * k) * 2 + (READ_VEC_U8(Rt, 2 * k + 1) \div 128)) % 256
      BY <3>2
    <3> HIDE DEF v, V, A
    <3>8. V[k] = (((v * 128) \div 256) * 2 + (((v * 128) % 256) \div 128)) % 256
      BY <3>4, <3>5, <3>6, <3>7
    <3>9. V[k] = v
      BY <3>1, <3>8, PackedByte
    <3> QED
      BY <3>1, <3>9 DEF v
  <2>2. A = [k \in 0 .. 7 |-> A[k]] /\ V = [k \in 0 .. 7 |-> V[k]]
        /\ SHV(Rt, 0, a) = StoreBytes(A, V)
    BY DEF SHV
  <2> HIDE DEF A, V
  <2> QED
    BY <1>1, <2>1, <2>2
<1>8. ASSUME Fits(a), \A k \in 0 .. 3 : Element(Rt, k) = Mem(dmem, Past(a, 4 * k)) * 128
      PROVE  SFV(Rt, 0, a) = dmem
  <2> DEFINE A == [k \in 0 .. 3 |-> Past(a, 4 * k)]
             V == [k \in 0 .. 3 |-> (Element(Rt, k) \div 128) % 256]
  <2>1. ASSUME NEW k \in 0 .. 3  PROVE A[k] \in 0 .. Size - 1 /\ V[k] = Mem(dmem, A[k])
    <3>1. A[k] = Past(a, 4 * k) /\ A[k] \in 0 .. Size - 1 /\ Mem(dmem, Past(a, 4 * k)) \in Byte
      <4>1. 4 * k \in Nat
        OBVIOUS
      <4> QED
        BY <1>6, <1>8, <4>1
    <3>2. V[k] = ((Mem(dmem, Past(a, 4 * k)) * 128) \div 128) % 256
      BY <1>8
    <3> HIDE DEF A, V
    <3> QED
      BY <3>1, <3>2, PackedByte
  <2>2. A = [k \in 0 .. 3 |-> A[k]] /\ V = [k \in 0 .. 3 |-> V[k]]
    OBVIOUS
  <2>3. SFVElements(0) = <<0, 1, 2, 3>> /\ SFVElements(0) # <<>>
    BY DEF SFVElements
  <2>4. \A k \in 0 .. 3 : SFVElements(0)[k + 1] = k
    BY <2>3
  <2>5. SFV(Rt, 0, a) = StoreBytes(A, V)
    BY <2>3, <2>4 DEF SFV
  <2> HIDE DEF A, V
  <2> QED
    BY <1>1, <2>1, <2>2, <2>5
<1> QED
  BY <1>4, <1>5, <1>7, <1>8

\* The second instruction of a pair: p is the first.
LEMMA SecondOfQuad ==
  ASSUME HoldsBytes, NEW p \in Decoded, FirstLeaves(p), NEW in \in Decoded, Executes(in),
         in.a = p.a + 16, in.e = p.e
  PROVE  /\ p.op = "LQV" /\ in.op = "LRV" /\ p.e = 0 =>
              \A b \in Lane : Vec(regs', b) = Mem(InitDmem, (p.a + b) % Size)
         /\ p.op = "SQV" /\ in.op = "SRV" =>
              \A b \in Lane : Mem(dmem', (p.a + b) % Size) = Vec(InitRegs, (p.e + b) % 16)
<1> DEFINE a == p.a
           e == p.e
<1>0. a \in Nat /\ e \in Lane /\ in.a = a + 16 /\ in.a \in Nat /\ (a + 16) % 16 = a % 16
  BY DEF Decoded, Lane
<1>1. ASSUME p.op = "LQV", in.op = "LRV", e = 0, NEW b \in Lane
      PROVE  Vec(regs', b) = Mem(InitDmem, (a + b) % Size)
  <2>1. LWC2(in.op, in.e, in.a)
    BY <1>1 DEF Executes, VectorLoads, VectorStores, ScalarLoads, ScalarStores
  <2>2. regs' = LRV(Rt, e, a + 16)
    BY <1>0, <1>1, <2>1, LoadArms
  <2>3. dmem = InitDmem
    BY <1>1 DEF FirstLeaves, VectorLoads
  <2>4. a + 16 \in Nat /\ (a + 16) - 16 + b = a + b
    BY <1>0 DEF Lane
  <2>5. Vec(LRV(Rt, e, a + 16), b) =
          IF b >= 16 - ((a + 16) % 16) THEN Mem(dmem, Masked((a + 16) - 16 + b)) ELSE Vec(regs, b)
    BY <1>0, <1>1, <2>4, LRVLoaded
  <2>6. b < 16 - (a % 16) => Vec(regs, b) = Mem(InitDmem, Masked(a + b))
    BY <1>1 DEF FirstLeaves
  <2>7. b < 16 - (a % 16) \/ b >= 16 - (a % 16)
    BY <1>0 DEF Lane
  <2>8. Vec(regs', b) = Mem(InitDmem, Masked(a + b))
    BY <1>0, <2>2, <2>3, <2>4, <2>5, <2>6, <2>7
  <2> QED
    BY <2>8 DEF Masked
<1>2. ASSUME p.op = "SQV", in.op = "SRV", NEW b \in Lane
      PROVE  Mem(dmem', (a + b) % Size) = Vec(InitRegs, (e + b) % 16)
  <2>1. SWC2(in.op, in.e, in.a)
    BY <1>2 DEF Executes, VectorLoads, VectorStores, ScalarLoads, ScalarStores
  <2>2. dmem' = SRV(Rt, e, a + 16)
    BY <1>0, <1>2, <2>1, StoreArms
  <2>3. regs = InitRegs
    BY <1>2 DEF FirstLeaves, VectorStores
  <2>4. Mem(SRV(Rt, e, a + 16), Masked(a + b)) =
          IF b >= 16 - (a % 16) THEN Vec(regs, (e + b) % 16) ELSE Mem(dmem, Masked(a + b))
    BY <1>0, SRVStored
  <2>5. b < 16 - (a % 16) => Mem(dmem, Masked(a + b)) = Vec(InitRegs, (e + b) % 16)
    BY <1>2 DEF FirstLeaves
  <2>6. b < 16 - (a % 16) \/ b >= 16 - (a % 16)
    BY <1>0 DEF Lane
  <2>7. Mem(dmem', Masked(a + b)) = Vec(InitRegs, (e + b) % 16)
    BY <2>2, <2>3, <2>4, <2>5, <2>6
  <2> QED
    BY <2>7 DEF Masked
<1> QED
  BY <1>1, <1>2

LEMMA SecondOfPacked ==
  ASSUME HoldsBytes, NEW p \in Decoded, FirstLeaves(p), NEW in \in Decoded, Executes(in),
         <<p.op, in.op>> \in PackedBack, p.e = 0, in.e = 0, in.a = p.a, Fits(p.a)
  PROVE  dmem' = InitDmem
<1> DEFINE a == p.a
<1>0. a \in Nat
  BY DEF Decoded
<1>1. p.op \in VectorLoads /\ in.op \in VectorStores
  BY DEF PackedBack, VectorLoads, VectorStores
<1>2. SWC2(in.op, 0, a)
  BY <1>1 DEF Executes, VectorLoads, VectorStores, ScalarLoads, ScalarStores
<1>3. dmem = InitDmem
  BY <1>1 DEF FirstLeaves
<1>4. CASE p.op = "LPV" /\ in.op = "SPV"
  <2>1. \A k \in 0 .. 7 : Element(Rt, k) = Mem(dmem, Masked(a + k)) * 256
    BY <1>3, <1>4 DEF FirstLeaves
  <2>2. dmem' = SPV(Rt, 0, a)
    BY <1>2, <1>4, StoreArms
  <2> QED
    BY <1>0, <1>3, <2>1, <2>2, PackedStored
<1>5. CASE p.op = "LUV" /\ in.op = "SUV"
  <2>1. \A k \in 0 .. 7 : Element(Rt, k) = Mem(dmem, Masked(a + k)) * 128
    BY <1>3, <1>5 DEF FirstLeaves
  <2>2. dmem' = SUV(Rt, 0, a)
    BY <1>2, <1>5, StoreArms
  <2> QED
    BY <1>0, <1>3, <2>1, <2>2, PackedStored
<1>6. CASE p.op = "LHV" /\ in.op = "SHV"
  <2>1. \A k \in 0 .. 7 : Element(Rt, k) = Mem(dmem, Past(a, 2 * k)) * 128
    BY <1>3, <1>6 DEF FirstLeaves
  <2>2. dmem' = SHV(Rt, 0, a)
    BY <1>2, <1>6, StoreArms
  <2> QED
    BY <1>0, <1>3, <2>1, <2>2, PackedStored
<1>7. CASE p.op = "LFV" /\ in.op = "SFV"
  <2>1. \A k \in 0 .. 3 : Element(Rt, k) = Mem(dmem, Past(a, 4 * k)) * 128
    BY <1>3, <1>7 DEF FirstLeaves
  <2>2. dmem' = SFV(Rt, 0, a)
    BY <1>2, <1>7, StoreArms
  <2> QED
    BY <1>0, <1>3, <2>1, <2>2, PackedStored
<1> QED
  BY <1>4, <1>5, <1>6, <1>7 DEF PackedBack

LEMMA PairInvariance == LoadStoreSpec => []PairInv
<1>1. LoadStoreInit => PairInv
  BY DEF LoadStoreInit, PairInv, UnalignedQuad, PackedRoundTrip, Pair
<1>2. MemoryInv /\ PairInv /\ [LoadStoreNext]_lsVars => PairInv'
  <2> SUFFICES ASSUME MemoryInv, PairInv, [LoadStoreNext]_lsVars  PROVE PairInv'
    OBVIOUS
  <2>1. CASE UNCHANGED lsVars
    BY <2>1 DEF lsVars, PairInv, FirstLeaves, UnalignedQuad, PackedRoundTrip, Pair, Vec, Mem, Element
  <2>2. CASE LoadStoreNext
    <3>1. HoldsBytes /\ prog \in Seq(Decoded) /\ Len(prog) \in Nat
      BY DEF MemoryInv, StaysInDmem
    <3>2. PICK in \in Decoded : Executes(in)
      BY <2>2, <3>1, Steps
    <3>3. prog'[Len(prog')] = in /\ Len(prog') = Len(prog) + 1
          /\ \A n \in 1 .. Len(prog) : prog'[n] = prog[n]
      BY <3>2 DEF Executes
    <3>4. Len(prog') # 0 /\ (Len(prog') = 1 => Len(prog) = 0) /\ (Len(prog') = 2 => Len(prog) = 1)
      <4>1. \A x \in Nat : \A y : y = x + 1 => y # 0 /\ (y = 1 => x = 0) /\ (y = 2 => x = 1)
        OBVIOUS
      <4> QED
        BY <3>1, <3>3, <4>1, Zenon
    <3>5. ASSUME Len(prog') = 1  PROVE FirstLeaves(prog[1])'
      <4>0. Len(prog) = 0
        BY <3>4, <3>5, Zenon
      <4>1. dmem = InitDmem /\ regs = InitRegs
        BY <4>0 DEF PairInv
      <4>2. FirstLeaves(in)'
        BY <3>1, <3>2, <4>1, FirstLeft
      <4>3. prog'[1] = in
        BY <3>3, <3>5
      <4> QED
        BY <4>2, <4>3 DEF FirstLeaves
    <3>6. ASSUME Len(prog') = 2
          PROVE  /\ Len(prog) = 1 /\ prog'[1] = prog[1] /\ prog'[2] = in
                 /\ prog[1] \in Decoded /\ FirstLeaves(prog[1])
      <4>1. Len(prog) = 1
        BY <3>4, <3>6, Zenon
      <4>2. prog'[1] = prog[1] /\ prog'[2] = in
        BY <3>3, <3>6, <4>1
      <4>3. prog[1] \in Decoded
        BY <3>1, <4>1
      <4> QED
        BY <4>1, <4>2, <4>3 DEF PairInv
    <3>7. UnalignedQuad'
      <4> DEFINE p == prog[1]
      <4>1. SUFFICES ASSUME Len(prog') = 2, in.a = p.a + 16, in.e = p.e
                     PROVE  /\ p.op = "LQV" /\ in.op = "LRV" /\ p.e = 0 =>
                                 \A b \in Lane : Vec(regs', b) = Mem(InitDmem, (p.a + b) % Size)
                            /\ p.op = "SQV" /\ in.op = "SRV" =>
                                 \A b \in Lane :
                                   Mem(dmem', (p.a + b) % Size) = Vec(InitRegs, (p.e + b) % 16)
        BY <3>6 DEF UnalignedQuad, Pair, Vec, Mem
      <4>2. p \in Decoded /\ FirstLeaves(p)
        BY <3>6, <4>1
      <4> HIDE DEF p
      <4> QED
        BY <3>1, <3>2, <4>1, <4>2, SecondOfQuad
    <3>8. PackedRoundTrip'
      <4> DEFINE p == prog[1]
      <4>1. SUFFICES ASSUME Len(prog') = 2, <<p.op, in.op>> \in PackedBack, p.e = 0, in.e = 0,
                            p.a = in.a, Row8(p.a % Size) < Size - 8
                     PROVE  dmem' = InitDmem
        BY <3>6 DEF PackedRoundTrip
      <4>2. p \in Decoded /\ FirstLeaves(p) /\ Fits(p.a)
        BY <3>6, <4>1 DEF Fits
      <4> HIDE DEF p
      <4> QED
        BY <3>1, <3>2, <4>1, <4>2, SecondOfPacked
    <3> QED
      BY <3>4, <3>5, <3>7, <3>8 DEF PairInv
  <2> QED
    BY <2>1, <2>2
<1> QED
  BY <1>1, <1>2, MemoryInvariance, PTL DEF LoadStoreSpec

\* LQV with LRV, and SQV with SRV, sixteen bytes further, lose and duplicate nothing at any
\* address, across the end of DMEM as well.
THEOREM UnalignedQuads == LoadStoreSpec => []UnalignedQuad
<1>1. PairInv => UnalignedQuad
  BY DEF PairInv
<1> QED
  BY <1>1, PairInvariance, PTL

\* What LPV, LUV, LHV and LFV spread over the elements, SPV, SUV, SHV and SFV put back.
THEOREM PackedBytesComeBack == LoadStoreSpec => []PackedRoundTrip
<1>1. PairInv => PackedRoundTrip
  BY DEF PairInv
<1> QED
  BY <1>1, PairInvariance, PTL

-----------------------------------------------------------------------------
(***************************************************************************)
(* The transposition.  The instructions so far follow it when the first    *)
(* seven are STV to rows of base and the others LTV from them, in any      *)
(* order; the invariant says which diagonals the rows hold and which       *)
(* elements are where they belong.                                         *)
(***************************************************************************)
Bases == {base \in Int : base % 16 = 0 /\ base >= -16}

Follows(base) ==
  \A n \in 1 .. Len(prog) :
    \E k \in 1 .. 7 : prog[n] = IF n <= 7 THEN STVRow(base, k) ELSE LTVRow(base, k)

Ran(row) == \E n \in 1 .. Len(prog) : prog[n] = row

\* Row k holds element (o \div 2) + k of the register at byte o.
RowHolds(base, k) ==
  \A o \in Lane :
    Mem(dmem, Masked(base + 16 * k) + o) = InitRegs[((o \div 2) + k) % 8][MES(o)]

InPlace(r, h) == HalfOf(regs[r], h) = HalfOf(InitRegs[h], r)

TransposeInv ==
  \A base \in Bases : Follows(base) =>
    /\ Len(prog) <= 7 => regs = InitRegs
    /\ \A k \in 1 .. 7 : Ran(STVRow(base, k)) => RowHolds(base, k)
    /\ Len(prog) >= 7 /\ (\A k \in 1 .. 7 : Ran(STVRow(base, k))) =>
         \A r, h \in Reg : r = h \/ Ran(LTVRow(base, (h - r) % 8)) => InPlace(r, h)

\* Where row k begins.
RowAt(base, k) == Masked(base + 16 * k)

LEMMA RowAddress ==
  ASSUME NEW base \in Bases, NEW k \in 1 .. 7
  PROVE  /\ base + 16 * k \in Nat /\ (base + 16 * k) % 16 = 0 /\ (base + 16 * k) % 8 = 0
         /\ RowAt(base, k) \in Nat /\ RowAt(base, k) % 16 = 0 /\ RowAt(base, k) + 16 <= Size
         /\ \A m \in 1 .. 7 : RowAt(base, m) = RowAt(base, k) => m = k
<1>1. base \in Int /\ base % 16 = 0 /\ base >= -16
  BY DEF Bases
<1>2. /\ base + 16 * k \in Nat /\ (base + 16 * k) % 16 = 0 /\ (base + 16 * k) % 8 = 0
  BY <1>1
<1>3. RowAt(base, k) \in Nat /\ RowAt(base, k) % 16 = 0 /\ RowAt(base, k) + 16 <= Size
  BY <1>2, MaskFacts, AlignedFits DEF RowAt
<1>4. ASSUME NEW m \in 1 .. 7, RowAt(base, m) = RowAt(base, k)  PROVE m = k
  <2>1. Size \in Nat /\ Size >= 128
    BY SizeFacts
  <2>2. base + 16 \in Nat
    BY <1>1
  <2>3. PICK l \in 0 .. Size - 1 : l = 16 * m - 16
    BY <2>1
  <2>4. PICK n \in 0 .. Size - 1 : n = 16 * k - 16
    BY <2>1
  <2>5. (base + 16) + l = base + 16 * m /\ (base + 16) + n = base + 16 * k
    BY <1>1, <2>3, <2>4
  <2>6. Masked((base + 16) + l) = Masked((base + 16) + n)
    BY <1>4, <2>5 DEF RowAt
  <2>7. l = n
    BY <2>2, <2>6, DistinctAll
  <2> QED
    BY <2>3, <2>4, <2>7
<1> QED
  BY <1>2, <1>3, <1>4

\* STV puts diagonal k in row k and touches no other byte.
LEMMA RowStored ==
  ASSUME HoldsBytes, NEW base \in Bases, NEW k \in 1 .. 7
  PROVE  /\ \A o \in Lane : Mem(STV(Rt, 2 * k, base + 16 * k), RowAt(base, k) + o)
                              = regs[((o \div 2) + k) % 8][MES(o)]
         /\ \A x \in 0 .. Size - 1 : (\A o \in Lane : x # RowAt(base, k) + o) =>
              Mem(STV(Rt, 2 * k, base + 16 * k), x) = Mem(dmem, x)
<1> DEFINE a == base + 16 * k
           R == RowAt(base, k)
           A == [m \in Lane |-> Past(a, m - 2 * k)]
           V == [m \in Lane |-> READ_VEC_U8(m \div 2, (16 - 2 * k + m) % 16)]
<1>1. /\ a \in Nat /\ a % 16 = 0 /\ a % 8 = 0 /\ R \in Nat /\ R % 16 = 0 /\ R + 16 <= Size
      /\ R = Masked(a)
  BY RowAddress DEF RowAt
<1>2. STV(Rt, 2 * k, a) = StoreBytes(A, V)
  <2>1. 2 * k - ((2 * k) % 2) = 2 * k
    OBVIOUS
  <2> QED
    BY <2>1 DEF STV
<1> HIDE DEF a
<1>3. ASSUME NEW m \in Lane  PROVE A[m] = R + ((m - 2 * k) % 16) /\ (m - 2 * k) % 16 \in 0 .. 15
  <2>1. m \in 0 .. 15
    BY DEF Lane
  <2>2. A[m] = Past(a, m - 2 * k)
    OBVIOUS
  <2>3. Row8(R) = R
    BY <1>1 DEF Row8
  <2>4. (a % 8) + (m - 2 * k) = m - 2 * k
    BY <1>1, <2>1
  <2> QED
    BY <1>1, <2>1, <2>2, <2>3, <2>4 DEF Past
<1>4. ASSUME NEW m \in Lane
      PROVE  V[m] = READ_VEC_U8(m \div 2, (16 - 2 * k + m) % 16) /\ V[m] \in Byte
  <2>1. m \div 2 \in Reg /\ (16 - 2 * k + m) % 16 \in Lane
    BY DEF Lane, Reg
  <2> QED
    BY <2>1, BytesRead
<1> HIDE DEF R
<1>5. A \in [Lane -> 0 .. Size - 1] /\ V \in [Lane -> Byte]
  <2>1. ASSUME NEW m \in Lane  PROVE A[m] \in 0 .. Size - 1
    <3>1. Size \in Nat
      BY SizeFacts
    <3>2. PICK n \in 0 .. 15 : n = (m - 2 * k) % 16
      BY <1>3
    <3> HIDE DEF A
    <3>3. A[m] = R + n
      BY <1>3, <3>2
    <3> QED
      BY <1>1, <3>1, <3>3
  <2> QED
    BY <1>4, <2>1
<1> HIDE DEF A, V
<1>6. MemSet(StoreBytes(A, V), Lane, A, V)
  BY <1>5, MemStored
<1>7. ASSUME NEW m \in Lane, NEW l \in Lane, A[m] = A[l]  PROVE m = l
  <2>1. m \in 0 .. 15 /\ l \in 0 .. 15
    BY DEF Lane
  <2>2. (m - 2 * k) % 16 = (l - 2 * k) % 16
    <3>1. PICK n \in 0 .. 15 : n = (m - 2 * k) % 16
      BY <1>3
    <3>2. PICK o \in 0 .. 15 : o = (l - 2 * k) % 16
      BY <1>3
    <3>3. R + n = R + o
      BY <1>3, <1>7, <3>1, <3>2
    <3>4. n = o
      <4>1. \A x \in Nat : \A y, z \in 0 .. 15 : x + y = x + z => y = z
        OBVIOUS
      <4> QED
        BY <1>1, <3>1, <3>2, <3>3, <4>1, Zenon
    <3> QED
      BY <3>1, <3>2, <3>4
  <2> QED
    BY <2>1, <2>2
<1>8. ASSUME NEW o \in Lane
      PROVE  /\ Mem(StoreBytes(A, V), R + o) = regs[((o \div 2) + k) % 8][MES(o)]
  <2>1. o \in 0 .. 15
    BY DEF Lane
  <2>2. PICK m \in 0 .. 15 : m = IF o + 2 * k < 16 THEN o + 2 * k ELSE o + 2 * k - 16
    BY <2>1
  <2>3. m \in Lane /\ (m - 2 * k) % 16 = o /\ (16 - 2 * k + m) % 16 = o
    BY <2>1, <2>2 DEF Lane
  <2>4. m \div 2 = ((o \div 2) + k) % 8
    BY <2>1, <2>2
  <2>5. A[m] = R + o
    BY <1>3, <2>3
  <2>6. V[m] = regs[((o \div 2) + k) % 8][MES(o)]
    BY <1>4, <2>3, <2>4 DEF READ_VEC_U8
  <2>7. Mem(StoreBytes(A, V), A[m]) = V[m]
    BY <1>6, <1>7, <2>3 DEF MemSet
  <2> QED
    BY <2>5, <2>6, <2>7
<1>9. ASSUME NEW x \in 0 .. Size - 1, \A o \in Lane : x # R + o
      PROVE  Mem(StoreBytes(A, V), x) = Mem(dmem, x)
  <2>1. ASSUME NEW m \in Lane  PROVE A[m] # x
    BY <1>3, <1>9 DEF Lane
  <2> QED
    BY <1>6, <2>1 DEF MemSet
<1> QED
  BY <1>2, <1>8, <1>9 DEF a, R

\* LTV brings half h of register (h - k) % 8 to its place, and touches no other.
LEMMA RowLoaded ==
  ASSUME HoldsBytes, NEW base \in Bases, NEW k \in 1 .. 7, RowHolds(base, k),
         NEW r \in Reg, NEW h \in Reg
  PROVE  HalfOf(LTV(Rt, 16 - 2 * k, base + 16 * k)[r], h) =
           IF k = (h - r) % 8 THEN HalfOf(InitRegs[h], r) ELSE HalfOf(regs[r], h)
<1> DEFINE a == base + 16 * k
           e == 16 - 2 * k
           R == RowAt(base, k)
           from(l) == Masked(Row8(a) + ((e + (a % 16) - (a % 8) + l) % 16))
<1>1. /\ a \in Nat /\ a % 16 = 0 /\ a % 8 = 0 /\ R \in Nat /\ R % 16 = 0 /\ R + 16 <= Size
      /\ R = Masked(a)
  BY RowAddress DEF RowAt
<1>2. r \in 0 .. 7 /\ h \in 0 .. 7 /\ e \in Nat /\ Size \in Nat
  BY SizeFacts DEF Reg
<1> HIDE DEF a, R
<1>3. ASSUME NEW b \in Lane
      PROVE  LTV(Rt, e, a)[r][b] = IF r = ((e \div 2) + (MES(b) \div 2)) % 8
                                   THEN READ_MEM_U8(from(MES(b))) ELSE regs[r][b]
  BY <1>3 DEF LTV
<1>4. ASSUME NEW l \in 0 .. 15
      PROVE  from(l) = R + ((e + l) % 16) /\ from(l) \in 0 .. Size - 1
  <2>1. Row8(a) = a /\ e + (a % 16) - (a % 8) + l = e + l /\ (e + l) % 16 \in 0 .. 15
    BY <1>1, <1>2 DEF Row8
  <2>2. PICK m \in 0 .. Size - 1 : m = (e + l) % 16
    BY <1>1, <1>2, <2>1
  <2>3. Masked(a + m) = R + m
    <3>1. Masked(a) + m < Size
      BY <1>1, <1>2, <2>1, <2>2
    <3> QED
      BY <1>1, <3>1, MaskStep
  <2>4. from(l) = Masked(a + m)
    BY <2>1, <2>2
  <2>5. R + m \in 0 .. Size - 1
    BY <1>1, <1>2, <2>1, <2>2
  <2> QED
    BY <2>2, <2>3, <2>4, <2>5
<1>5. ASSUME NEW l \in 0 .. 15, NEW o \in 0 .. 15, o = (e + l) % 16
      PROVE  READ_MEM_U8(from(l)) = InitRegs[((o \div 2) + k) % 8][MES(o)]
  <2>1. READ_MEM_U8(from(l)) = Mem(dmem, R + o)
    BY <1>4, <1>5, BytesRead
  <2>2. o \in Lane
    BY DEF Lane
  <2> QED
    BY <2>1, <2>2 DEF RowHolds, R, RowAt
<1>6. 2 * h \in Lane /\ 2 * h + 1 \in Lane /\ MES(2 * h) = 2 * h + 1 /\ MES(2 * h + 1) = 2 * h
      /\ (2 * h + 1) \div 2 = h /\ (2 * h) \div 2 = h
  BY <1>2 DEF Lane, MES
<1>7. (e \div 2) = 8 - k
  OBVIOUS
<1>8. r = ((8 - k) + h) % 8 <=> k = (h - r) % 8
  BY <1>2
<1>9. CASE k = (h - r) % 8
  <2>1. e + 2 * h + 1 \in Nat /\ (e + (2 * h + 1)) % 16 = 2 * r + 1 /\ (e + 2 * h) % 16 = 2 * r
    BY <1>2, <1>9
  <2>2. (2 * r + 1) \div 2 = r /\ (2 * r) \div 2 = r /\ MES(2 * r + 1) = 2 * r /\ MES(2 * r) = 2 * r + 1
        /\ 2 * r \in 0 .. 15 /\ 2 * r + 1 \in 0 .. 15 /\ 2 * h \in 0 .. 15 /\ 2 * h + 1 \in 0 .. 15
    BY <1>2 DEF MES
  <2>3. (r + k) % 8 = h
    BY <1>2, <1>9
  <2> HIDE DEF e, from
  <2>4. READ_MEM_U8(from(2 * h + 1)) = InitRegs[h][2 * r]
    <3>1. PICK l \in 0 .. 15 : l = 2 * h + 1
      BY <2>2
    <3>2. PICK o \in 0 .. 15 : o = 2 * r + 1
      BY <2>2
    <3>3. o = (e + l) % 16 /\ ((o \div 2) + k) % 8 = h /\ MES(o) = 2 * r
      BY <2>1, <2>2, <2>3, <3>1, <3>2
    <3>4. READ_MEM_U8(from(l)) = InitRegs[((o \div 2) + k) % 8][MES(o)]
      BY <1>5, <3>3
    <3> QED
      BY <3>1, <3>3, <3>4
  <2>5. READ_MEM_U8(from(2 * h)) = InitRegs[h][2 * r + 1]
    <3>1. PICK l \in 0 .. 15 : l = 2 * h
      BY <2>2
    <3>2. PICK o \in 0 .. 15 : o = 2 * r
      BY <2>2
    <3>3. o = (e + l) % 16 /\ ((o \div 2) + k) % 8 = h /\ MES(o) = 2 * r + 1
      BY <2>1, <2>2, <2>3, <3>1, <3>2
    <3>4. READ_MEM_U8(from(l)) = InitRegs[((o \div 2) + k) % 8][MES(o)]
      BY <1>5, <3>3
    <3> QED
      BY <3>1, <3>3, <3>4
  <2>6. LTV(Rt, e, a)[r][2 * h] = READ_MEM_U8(from(2 * h + 1))
    BY <1>3, <1>6, <1>7, <1>8, <1>9
  <2>7. LTV(Rt, e, a)[r][2 * h + 1] = READ_MEM_U8(from(2 * h))
    BY <1>3, <1>6, <1>7, <1>8, <1>9
  <2> QED
    BY <1>9, <2>4, <2>5, <2>6, <2>7 DEF HalfOf, a, e
<1>10. CASE k # (h - r) % 8
  <2>1. LTV(Rt, e, a)[r][2 * h] = regs[r][2 * h] /\ LTV(Rt, e, a)[r][2 * h + 1] = regs[r][2 * h + 1]
    BY <1>3, <1>6, <1>7, <1>8, <1>10
  <2> QED
    BY <1>10, <2>1 DEF HalfOf, a
<1> QED
  BY <1>9, <1>10

LEMMA RowsDiffer ==
  ASSUME NEW base \in Bases, NEW k \in Int, NEW m \in Int
  PROVE  /\ STVRow(base, k) # LTVRow(base, m)
         /\ STVRow(base, k) = STVRow(base, m) => k = m
         /\ LTVRow(base, k) = LTVRow(base, m) => k = m
<1>1. STVRow(base, k).op = "STV" /\ LTVRow(base, m).op = "LTV"
  BY DEF STVRow, LTVRow
<1>2. /\ STVRow(base, k).e = 2 * k /\ STVRow(base, m).e = 2 * m
      /\ LTVRow(base, k).e = 16 - 2 * k /\ LTVRow(base, m).e = 16 - 2 * m
  BY DEF STVRow, LTVRow
<1>3. (2 * k = 2 * m => k = m) /\ (16 - 2 * k = 16 - 2 * m => k = m)
  OBVIOUS
<1> QED
  BY <1>1, <1>2, <1>3

\* An STV on the way, to row k.
LEMMA StoresRow ==
  ASSUME HoldsBytes, NEW base \in Bases, NEW k \in 1 .. 7, regs = InitRegs,
         SWC2("STV", 2 * k, base + 16 * k)
  PROVE  /\ regs' = InitRegs /\ RowHolds(base, k)'
         /\ \A m \in 1 .. 7 : m # k /\ RowHolds(base, m) => RowHolds(base, m)'
<1>1. dmem' = STV(Rt, 2 * k, base + 16 * k) /\ regs' = InitRegs
  BY StoreArms
<1>2. RowHolds(base, k)'
  BY <1>1, RowStored DEF RowHolds, RowAt, Mem
<1>3. ASSUME NEW m \in 1 .. 7, m # k, RowHolds(base, m)  PROVE RowHolds(base, m)'
  <2>1. ASSUME NEW o \in Lane  PROVE Mem(dmem', RowAt(base, m) + o) = Mem(dmem, RowAt(base, m) + o)
    <3>1. RowAt(base, m) \in Nat /\ RowAt(base, k) \in Nat
          /\ RowAt(base, m) + 16 <= Size /\ Size \in Nat
      BY RowAddress, SizeFacts
    <3>2. RowAt(base, m) % 16 = 0 /\ RowAt(base, k) % 16 = 0 /\ RowAt(base, m) # RowAt(base, k)
      BY <1>3, RowAddress
    <3>3. ASSUME NEW l \in Lane  PROVE RowAt(base, m) + o # RowAt(base, k) + l
      <4>1. \A x, y \in Nat : \A u, v \in Lane :
              x % 16 = 0 /\ y % 16 = 0 /\ x + u = y + v => x = y
        <5>1. ASSUME NEW x \in Nat, NEW u \in Lane, x % 16 = 0
              PROVE  u \in 0 .. 15 /\ (x + u) - ((x + u) % 16) = x
          BY <5>1 DEF Lane
        <5>2. ASSUME NEW x \in Nat, NEW y \in Nat, NEW u \in Lane, NEW v \in Lane,
                     x % 16 = 0, y % 16 = 0, x + u = y + v
              PROVE  x = y
          <6>1. (x + u) - ((x + u) % 16) = x /\ (y + v) - ((y + v) % 16) = y
            BY <5>1, <5>2
          <6> QED
            BY <5>2, <6>1
        <5> QED
          BY <5>2
      <4> QED
        BY <3>1, <3>2, <4>1
    <3>4. RowAt(base, m) + o \in 0 .. Size - 1
      BY <3>1 DEF Lane
    <3> QED
      BY <1>1, <3>3, <3>4, RowStored
  <2>2. ASSUME NEW o \in Lane
        PROVE  Mem(dmem, RowAt(base, m) + o) = InitRegs[((o \div 2) + m) % 8][MES(o)]
    BY <1>3 DEF RowHolds, RowAt
  <2>3. ASSUME NEW o \in Lane
        PROVE  Mem(dmem, Masked(base + 16 * m) + o)' = InitRegs[((o \div 2) + m) % 8][MES(o)]
    BY <2>1, <2>2 DEF RowAt, Mem
  <2> QED
    BY <2>3 DEF RowHolds
<1> QED
  BY <1>1, <1>2, <1>3

\* An LTV on the way, from row k.
LEMMA LoadsRow ==
  ASSUME HoldsBytes, NEW base \in Bases, NEW k \in 1 .. 7, RowHolds(base, k),
         LWC2("LTV", 16 - 2 * k, base + 16 * k), NEW r \in Reg, NEW h \in Reg
  PROVE  InPlace(r, h)' \/ (k # (h - r) % 8 /\ (InPlace(r, h) => InPlace(r, h)'))
<1>1. regs' = LTV(Rt, 16 - 2 * k, base + 16 * k)
  BY LoadArms
<1>2. HalfOf(regs'[r], h) = IF k = (h - r) % 8 THEN HalfOf(InitRegs[h], r) ELSE HalfOf(regs[r], h)
  BY <1>1, RowLoaded
<1>3. InPlace(r, h)' <=> HalfOf(regs'[r], h) = HalfOf(InitRegs[h], r)
  BY DEF InPlace
<1> QED
  BY <1>2, <1>3 DEF InPlace

LEMMA TransposeInvariance == LoadStoreSpec => []TransposeInv
<1>1. LoadStoreInit => TransposeInv
  BY DEF LoadStoreInit, TransposeInv, Ran
<1>2. MemoryInv /\ TransposeInv /\ [LoadStoreNext]_lsVars => TransposeInv'
  <2> SUFFICES ASSUME MemoryInv, TransposeInv, [LoadStoreNext]_lsVars  PROVE TransposeInv'
    OBVIOUS
  <2>1. CASE UNCHANGED lsVars
    BY <2>1 DEF lsVars, TransposeInv, Follows, Ran, RowHolds, InPlace, Mem
  <2>2. CASE LoadStoreNext
    <3>1. HoldsBytes /\ prog \in Seq(Decoded) /\ Len(prog) \in Nat
      BY DEF MemoryInv, StaysInDmem
    <3>2. PICK in \in Decoded : Executes(in)
      BY <2>2, <3>1, Steps
    <3> DEFINE len == Len(prog)
    <3>3. prog'[Len(prog')] = in /\ Len(prog') = len + 1 /\ \A n \in 1 .. len : prog'[n] = prog[n]
      BY <3>2 DEF Executes
    <3>4. len \in Nat
      BY <3>1
    <3> HIDE DEF len
    <3>5. ASSUME NEW row  PROVE Ran(row)' <=> Ran(row) \/ in = row
      <4>1. \A n : n \in 1 .. len + 1 <=> n \in 1 .. len \/ n = len + 1
        BY <3>4
      <4> QED
        BY <3>3, <4>1, Zenon DEF Ran, len
    <3>6. SUFFICES ASSUME NEW base \in Bases, Follows(base)'
                   PROVE  /\ Len(prog') <= 7 => regs' = InitRegs
                          /\ \A k \in 1 .. 7 : Ran(STVRow(base, k))' => RowHolds(base, k)'
                          /\ Len(prog') >= 7 /\ (\A k \in 1 .. 7 : Ran(STVRow(base, k))') =>
                               \A r, h \in Reg : r = h \/ Ran(LTVRow(base, (h - r) % 8))'
                                  => InPlace(r, h)'
      BY DEF TransposeInv
    <3>7. Follows(base)
      <4>1. \A n \in 1 .. len : n \in 1 .. len + 1
        BY <3>4
      <4> QED
        BY <3>3, <3>6, <4>1, Zenon DEF Follows, len
    <3>8. PICK k \in 1 .. 7 : in = IF len + 1 <= 7 THEN STVRow(base, k) ELSE LTVRow(base, k)
      <4>1. len + 1 \in 1 .. len + 1
        BY <3>4
      <4> QED
        BY <3>3, <3>6, <4>1, Zenon DEF Follows
    <3>9. CASE len + 1 <= 7
      <4>1. in = STVRow(base, k) /\ len <= 7
        BY <3>4, <3>8, <3>9
      <4>2. regs = InitRegs
        BY <3>7, <4>1 DEF TransposeInv, len
      <4>3. SWC2("STV", 2 * k, base + 16 * k)
        <5>1. in.op = "STV" /\ in.e = 2 * k /\ in.a = base + 16 * k
          BY <4>1 DEF STVRow
        <5> QED
          BY <3>2, <5>1 DEF Executes, VectorLoads, VectorStores, ScalarLoads, ScalarStores
      <4>4. /\ regs' = InitRegs /\ RowHolds(base, k)'
            /\ \A m \in 1 .. 7 : m # k /\ RowHolds(base, m) => RowHolds(base, m)'
        BY <3>1, <4>2, <4>3, StoresRow
      <4>5. ASSUME NEW m \in 1 .. 7, Ran(STVRow(base, m))'  PROVE RowHolds(base, m)'
        <5>1. CASE m = k
          BY <4>4, <5>1
        <5>2. CASE m # k
          <6>1. STVRow(base, m) # in
            BY <4>1, <5>2, RowsDiffer
          <6>2. Ran(STVRow(base, m))
            BY <3>5, <4>5, <6>1
          <6> QED
            BY <3>7, <4>4, <5>2, <6>2 DEF TransposeInv
        <5> QED
          BY <5>1, <5>2
      <4>6. ASSUME NEW r \in Reg, NEW h \in Reg, r = h \/ Ran(LTVRow(base, (h - r) % 8))'
            PROVE  InPlace(r, h)'
        <5>1. ASSUME NEW m \in Int  PROVE ~Ran(LTVRow(base, m))'
          <6>1. ASSUME NEW n \in 1 .. Len(prog')  PROVE prog'[n] # LTVRow(base, m)
            <7>1. n <= 7
              BY <3>3, <3>4, <3>9
            <7>2. PICK l \in 1 .. 7 : prog'[n] = STVRow(base, l)
              BY <3>6, <7>1 DEF Follows
            <7> QED
              BY <7>2, RowsDiffer
          <6> QED
            BY <6>1 DEF Ran
        <5>2. (h - r) % 8 \in Int
          BY DEF Reg
        <5>3. r = h
          BY <4>6, <5>1, <5>2
        <5> QED
          BY <4>4, <5>3 DEF InPlace
      <4> QED
        BY <4>4, <4>5, <4>6
    <3>10. CASE ~(len + 1 <= 7)
      <4>1. in = LTVRow(base, k) /\ len >= 7 /\ ~(Len(prog') <= 7)
        BY <3>3, <3>4, <3>8, <3>10
      <4>2. LWC2("LTV", 16 - 2 * k, base + 16 * k)
        <5>1. in.op = "LTV" /\ in.e = 16 - 2 * k /\ in.a = base + 16 * k
          BY <4>1 DEF LTVRow
        <5> QED
          BY <3>2, <5>1 DEF Executes, VectorLoads, VectorStores, ScalarLoads, ScalarStores
      <4>3. dmem' = dmem
        BY <4>2 DEF LWC2
      <4>4. ASSUME NEW m \in 1 .. 7, Ran(STVRow(base, m))'
            PROVE  Ran(STVRow(base, m)) /\ RowHolds(base, m) /\ RowHolds(base, m)'
        <5>1. STVRow(base, m) # in
          BY <4>1, RowsDiffer
        <5>2. Ran(STVRow(base, m))
          BY <3>5, <4>4, <5>1
        <5>3. RowHolds(base, m)
          BY <3>7, <5>2 DEF TransposeInv
        <5> QED
          BY <4>3, <5>2, <5>3 DEF RowHolds, Mem
      <4>5. ASSUME \A m \in 1 .. 7 : Ran(STVRow(base, m))',
                   NEW r \in Reg, NEW h \in Reg, r = h \/ Ran(LTVRow(base, (h - r) % 8))'
            PROVE  InPlace(r, h)'
        <5>1. InPlace(r, h)' \/ (k # (h - r) % 8 /\ (InPlace(r, h) => InPlace(r, h)'))
          BY <3>1, <4>2, <4>4, <4>5, LoadsRow
        <5>2. ASSUME k # (h - r) % 8  PROVE InPlace(r, h)
          <6>1. (h - r) % 8 \in Int
            BY DEF Reg
          <6>2. LTVRow(base, (h - r) % 8) # in
            BY <4>1, <5>2, <6>1, RowsDiffer
          <6>3. r = h \/ Ran(LTVRow(base, (h - r) % 8))
            BY <3>5, <4>5, <6>2
          <6>4. Len(prog) >= 7 /\ \A m \in 1 .. 7 : Ran(STVRow(base, m))
            BY <4>1, <4>4, <4>5 DEF len
          <6> QED
            BY <3>7, <6>3, <6>4 DEF TransposeInv
        <5> QED
          BY <5>1, <5>2
      <4> QED
        BY <4>1, <4>4, <4>5
    <3> QED
      BY <3>9, <3>10
  <2> QED
    BY <2>1, <2>2
<1> QED
  BY <1>1, <1>2, MemoryInvariance, PTL DEF LoadStoreSpec

\* Seven instructions that hold seven rows hold nothing else.
LEMMA NothingElse ==
  ASSUME NEW p, NEW rows, \A k, l \in 1 .. 7 : rows[k] = rows[l] => k = l,
         NEW d \in Int, \A k \in 1 .. 7 : \E n \in 1 .. 7 : p[n + d] = rows[k], NEW n \in 1 .. 7
  PROVE  \E k \in 1 .. 7 : p[n + d] = rows[k]
<1> DEFINE S == 1 .. 7
           f == [k \in S |-> CHOOSE m \in S : p[m + d] = rows[k]]
<1>1. ASSUME NEW k \in S  PROVE f[k] \in S /\ p[f[k] + d] = rows[k]
  OBVIOUS
<1>2. IsFiniteSet(S)
  <2>1. 1 \in Int /\ 7 \in Int
    OBVIOUS
  <2> QED
    BY <2>1, FS_Interval, Zenon
<1> HIDE DEF f
<1>3. f \in [S -> S]
  BY <1>1 DEF f
<1>4. f \in Injection(S, S)
  <2>1. ASSUME NEW k \in S, NEW l \in S, f[k] = f[l]  PROVE k = l
    <3>1. rows[k] = rows[l]
      BY <1>1, <2>1
    <3> QED
      BY <3>1
  <2> QED
    BY <1>3, <2>1, Zenon DEF Injection, IsInjective
<1>5. f \in Surjection(S, S)
  BY <1>2, <1>4, FS_Injection
<1>6. PICK k \in S : f[k] = n
  BY <1>5 DEF Surjection
<1> QED
  BY <1>1, <1>6

\* Seven STV and seven LTV transpose eight registers of eight elements, in whatever order
\* the rows are taken, through any aligned rows of a DMEM of any size.
THEOREM TransposesRegisters == LoadStoreSpec => []TransposeCorrect
<1>1. MemoryInv /\ TransposeInv => TransposeCorrect
  <2> SUFFICES ASSUME MemoryInv, TransposeInv, Transposes(prog), NEW r \in Reg, NEW h \in Reg
               PROVE  HalfOf(regs[r], h) = HalfOf(InitRegs[h], r)
    BY DEF TransposeCorrect
  <2>1. prog \in Seq(Decoded) /\ Len(prog) = 14
    BY DEF MemoryInv, Transposes
  <2>2. PICK base \in {prog[n].a - 16 : n \in 1 .. 7} :
          /\ base % 16 = 0
          /\ \A k \in 1 .. 7 : /\ STVRow(base, k) \in {prog[n] : n \in 1 .. 7}
                               /\ LTVRow(base, k) \in {prog[n] : n \in 8 .. 14}
    BY DEF Transposes
  <2>3. base \in Bases
    <3>1. PICK n \in 1 .. 7 : base = prog[n].a - 16
      BY <2>2
    <3>2. prog[n] \in Decoded
      <4>1. n \in 1 .. Len(prog)
        BY <2>1
      <4>2. \A m \in 1 .. Len(prog) : prog[m] \in Decoded
        BY MemoryInv DEF MemoryInv
      <4> QED
        BY <4>1, <4>2, Zenon
    <3>3. prog[n].a \in Nat
      BY <3>2 DEF Decoded
    <3> QED
      BY <2>2, <3>1, <3>3 DEF Bases
  <2> DEFINE first == [k \in 1 .. 7 |-> STVRow(base, k)]
             second == [k \in 1 .. 7 |-> LTVRow(base, k)]
  <2>4. /\ \A k, l \in 1 .. 7 : first[k] = first[l] => k = l
        /\ \A k, l \in 1 .. 7 : second[k] = second[l] => k = l
    BY <2>3, RowsDiffer
  <2>5. \A k \in 1 .. 7 : \E n \in 1 .. 7 : prog[n + 0] = first[k]
    BY <2>2
  <2>6. \A k \in 1 .. 7 : \E n \in 1 .. 7 : prog[n + 7] = second[k]
    <3>1. ASSUME NEW k \in 1 .. 7  PROVE \E n \in 1 .. 7 : prog[n + 7] = second[k]
      <4>1. PICK m \in 8 .. 14 : prog[m] = LTVRow(base, k)
        BY <2>2
      <4>2. m - 7 \in 1 .. 7 /\ (m - 7) + 7 = m
        OBVIOUS
      <4> QED
        BY <4>1, <4>2
    <3> QED
      BY <3>1
  <2>7. ASSUME NEW n \in 1 .. 7  PROVE \E k \in 1 .. 7 : prog[n] = STVRow(base, k)
    <3> HIDE DEF first
    <3>1. \E k \in 1 .. 7 : prog[n + 0] = first[k]
      BY <2>4, <2>5, NothingElse
    <3> QED
      BY <3>1 DEF first
  <2>8. ASSUME NEW n \in 8 .. 14  PROVE \E k \in 1 .. 7 : prog[n] = LTVRow(base, k)
    <3> PICK m \in 1 .. 7 : m + 7 = n
      <4>1. n - 7 \in 1 .. 7 /\ (n - 7) + 7 = n
        OBVIOUS
      <4> QED
        BY <4>1
    <3> HIDE DEF second
    <3>1. \E k \in 1 .. 7 : prog[m + 7] = second[k]
      BY <2>4, <2>6, NothingElse
    <3> QED
      BY <3>1 DEF second
  <2>9. Follows(base)
    <3>1. ASSUME NEW n \in 1 .. 14
          PROVE  \E k \in 1 .. 7 : prog[n] = IF n <= 7 THEN STVRow(base, k) ELSE LTVRow(base, k)
      <4>1. CASE n <= 7
        BY <2>7, <4>1
      <4>2. CASE ~(n <= 7)
        BY <2>8, <4>2
      <4> QED
        BY <4>1, <4>2
    <3> QED
      BY <2>1, <3>1 DEF Follows
  <2>10. \A k \in 1 .. 7 : Ran(STVRow(base, k)) /\ Ran(LTVRow(base, k))
    BY <2>1, <2>2 DEF Ran
  <2>11. r = h \/ (h - r) % 8 \in 1 .. 7
    BY DEF Reg
  <2>12. InPlace(r, h)
    BY <2>1, <2>3, <2>9, <2>10, <2>11 DEF TransposeInv
  <2> QED
    BY <2>12 DEF InPlace
<1> QED
  BY <1>1, MemoryInvariance, TransposeInvariance, PTL

=============================================================================
