-------------------------- MODULE AllocatorProofs ---------------------------
(***************************************************************************)
(* Proofs about Allocator, for every page size, block size, address space, *)
(* every sequence of requests and every answer of the system: no two       *)
(* allocations share a page, each lies in memory that was reserved, and on *)
(* 64-bit systems all code lies in one block.                              *)
(*                                                                         *)
(* An allocation is remembered by its address only.  That it cannot meet a *)
(* later one rests on three facts about the blocks that the properties do  *)
(* not mention: blocks do not meet, everything handed out from a block is  *)
(* below its offset, and offsets are whole pages.                          *)
(***************************************************************************)
EXTENDS Allocator, TLAPS, WellFoundedInduction

WholePages(x) == x \in Nat /\ x % PageSize = 0

BlockType == [code : Nat, size : Nat, offset : Nat]
AllocationType == [kind : Kinds, at : Nat, want : Nat, size : Nat]

BlockOK(b) ==
  /\ WholePages(b.code) /\ WholePages(b.size) /\ WholePages(b.offset)
  /\ b.size > 0 /\ b.offset <= b.size /\ b.code + b.size <= SpaceEnd

Apart(b, c) == b.code + b.size <= c.code \/ c.code + c.size <= b.code

(***************************************************************************)
(* The parts of the inductive invariant, for lists of blocks bs and a list *)
(* of allocations al.                                                      *)
(***************************************************************************)
BlocksOK(bs) ==
  /\ bs \in [Kinds -> Seq(BlockType)]
  /\ \A k \in Kinds : \A m \in DOMAIN bs[k] : BlockOK(bs[k][m])

BlocksApart(bs) ==
  \A k1, k2 \in Kinds : \A m1 \in DOMAIN bs[k1], m2 \in DOMAIN bs[k2] :
    k1 # k2 \/ m1 # m2 => Apart(bs[k1][m1], bs[k2][m2])

\* An allocation is handed out from a block, below its offset.
HandedOut(a, b) == b.code <= a.at /\ a.at + a.size <= b.code + b.offset

AllocationsOK(bs, al) ==
  /\ al \in Seq(AllocationType)
  /\ \A n \in DOMAIN al :
       /\ WholePages(al[n].at) /\ WholePages(al[n].size)
       /\ al[n].want <= al[n].size
       /\ \E m \in DOMAIN bs[al[n].kind] : HandedOut(al[n], bs[al[n].kind][m])

AllocationsApart(al) ==
  \A n1, n2 \in DOMAIN al : n1 # n2 =>
    al[n1].at + al[n1].size <= al[n2].at \/ al[n2].at + al[n2].size <= al[n1].at

\* The one block of code of a 64-bit system has the usual size, or the size of
\* the request it was reserved for.
OneCodeBlock(bs, al) ==
  huge_va =>
    /\ Len(bs["code"]) <= 1
    /\ Len(bs["code"]) = 1 =>
         \/ bs["code"][1].size = BlockSize
         \/ \E n \in DOMAIN al : bs["code"][1].size = al[n].size

MemoryOK(bs, al) ==
  BlocksOK(bs) /\ BlocksApart(bs) /\ AllocationsOK(bs, al) /\ AllocationsApart(al)

AllocInv == MemoryOK(blocks, allocated) /\ OneCodeBlock(blocks, allocated)

-----------------------------------------------------------------------------
(***************************************************************************)
(* Arithmetic of pages.                                                    *)
(***************************************************************************)

\* Whole pages are multiples of the page size.
LEMMA Multiples ==
  ASSUME NEW x \in Nat
  PROVE  /\ WholePages(x) <=> \E q \in Nat : x = q * PageSize
         /\ x \div PageSize \in Nat
<1>1. PageSize \in Nat \ {0}
  BY AllocatorAssumption
<1>2. ASSUME x % PageSize = 0 PROVE x = (x \div PageSize) * PageSize /\ x \div PageSize \in Nat
  BY <1>1, <1>2
<1>3. ASSUME NEW q \in Nat, x = q * PageSize PROVE x % PageSize = 0
  BY <1>1, <1>3
<1>4. x \div PageSize \in Nat
  BY <1>1
<1> QED
  BY <1>2, <1>3, <1>4 DEF WholePages

\* Whole pages add up to whole pages.
LEMMA PagesAdd ==
  ASSUME NEW x \in Nat, NEW y \in Nat, WholePages(x), WholePages(y)
  PROVE  WholePages(x + y)
<1>1. PICK p \in Nat : x = p * PageSize
  BY Multiples
<1>2. PICK q \in Nat : y = q * PageSize
  BY Multiples
<1>3. x + y = (p + q) * PageSize /\ p + q \in Nat /\ x + y \in Nat
  BY <1>1, <1>2, AllocatorAssumption
<1> QED
  BY <1>3, Multiples

\* align_page rounds up to whole pages and keeps whole pages.
LEMMA Rounding ==
  ASSUME NEW x \in Nat
  PROVE  /\ AlignPage(x) \in Nat /\ WholePages(AlignPage(x)) /\ x <= AlignPage(x)
         /\ WholePages(x) => AlignPage(x) = x
<1> DEFINE q == (x + PageSize - 1) \div PageSize
<1>1. PageSize \in Nat \ {0}
  BY AllocatorAssumption
<1>2. q \in Nat /\ AlignPage(x) = q * PageSize
  BY <1>1 DEF AlignPage
<1>3. x <= q * PageSize
  BY <1>1
<1>4. ASSUME NEW p \in Nat, x = p * PageSize PROVE q = p
  BY <1>1, <1>4
<1> HIDE DEF q
<1>5. AlignPage(x) \in Nat
  BY <1>1, <1>2
<1>6. WholePages(AlignPage(x))
  BY <1>2, <1>5, Multiples
<1> QED
  BY <1>2, <1>3, <1>4, <1>5, <1>6, Multiples

\* Aligning the offset of the last block changes nothing: it is aligned already.
LEMMA OffsetsAligned ==
  ASSUME NEW own \in Seq(BlockType), \A m \in DOMAIN own : BlockOK(own[m])
  PROVE  Aligned(own) = own
<1> SUFFICES ASSUME own # <<>> PROVE [own EXCEPT ![Len(own)].offset = AlignPage(@)] = own
  BY DEF Aligned
<1>1. Len(own) \in DOMAIN own /\ own[Len(own)] \in BlockType
  OBVIOUS
<1>2. AlignPage(own[Len(own)].offset) = own[Len(own)].offset
  BY <1>1, Rounding DEF BlockOK, BlockType
<1>3. [own[Len(own)] EXCEPT !.offset = AlignPage(@)] = own[Len(own)]
  BY <1>1, <1>2 DEF BlockType
<1> QED
  BY <1>1, <1>3

-----------------------------------------------------------------------------
(***************************************************************************)
(* The two things allocate does: reserve a block, take pages from the last *)
(* block.                                                                  *)
(***************************************************************************)

\* The fields of an allocation.
LEMMA AllocationFields ==
  ASSUME NEW al \in Seq(AllocationType), NEW n \in DOMAIN al
  PROVE  al[n].kind \in Kinds /\ al[n].at \in Nat /\ al[n].want \in Nat /\ al[n].size \in Nat
<1>1. al[n] \in AllocationType
  OBVIOUS
<1> QED
  BY <1>1 DEF AllocationType

\* A block the system reserved is added to the blocks of its kind.
LEMMA ReserveStep ==
  ASSUME NEW bs, NEW al, MemoryOK(bs, al), NEW k \in Kinds,
         NEW block \in BlockType, BlockOK(block),
         \A k2 \in Kinds : \A m \in DOMAIN bs[k2] : Apart(block, bs[k2][m])
  PROVE  MemoryOK([bs EXCEPT ![k] = Append(@, block)], al)
<1> DEFINE new == [bs EXCEPT ![k] = Append(@, block)]
<1>1. /\ bs \in [Kinds -> Seq(BlockType)] /\ bs[k] \in Seq(BlockType)
      /\ \A k2 \in Kinds : \A m \in DOMAIN bs[k2] : BlockOK(bs[k2][m])
  BY DEF MemoryOK, BlocksOK
<1>2. /\ new \in [Kinds -> Seq(BlockType)]
      /\ new[k] = Append(bs[k], block)
      /\ \A k2 \in Kinds : k2 # k => new[k2] = bs[k2]
  BY <1>1
<1>3. /\ DOMAIN new[k] = DOMAIN bs[k] \cup {Len(bs[k]) + 1}
      /\ Len(bs[k]) + 1 \notin DOMAIN bs[k]
      /\ new[k][Len(bs[k]) + 1] = block
      /\ \A m \in DOMAIN bs[k] : new[k][m] = bs[k][m]
  BY <1>1, <1>2
<1> HIDE DEF new
<1>4. BlocksOK(new)
  BY <1>1, <1>2, <1>3 DEF BlocksOK
<1>5. BlocksApart(new)
  <2> SUFFICES ASSUME NEW k1 \in Kinds, NEW k2 \in Kinds,
                      NEW m1 \in DOMAIN new[k1], NEW m2 \in DOMAIN new[k2],
                      k1 # k2 \/ m1 # m2
               PROVE  Apart(new[k1][m1], new[k2][m2])
    BY DEF BlocksApart
  <2>1. \/ k1 = k /\ m1 = Len(bs[k]) + 1 /\ new[k1][m1] = block
        \/ m1 \in DOMAIN bs[k1] /\ new[k1][m1] = bs[k1][m1]
    BY <1>2, <1>3
  <2>2. \/ k2 = k /\ m2 = Len(bs[k]) + 1 /\ new[k2][m2] = block
        \/ m2 \in DOMAIN bs[k2] /\ new[k2][m2] = bs[k2][m2]
    BY <1>2, <1>3
  <2>3. \A b, c : Apart(b, c) => Apart(c, b)
    BY DEF Apart
  <2> QED
    BY <2>1, <2>2, <2>3 DEF MemoryOK, BlocksApart
<1>6. AllocationsOK(new, al)
  <2>1. \A k2 \in Kinds : \A m \in DOMAIN bs[k2] : m \in DOMAIN new[k2] /\ new[k2][m] = bs[k2][m]
    BY <1>2, <1>3
  <2>2. \A n \in DOMAIN al : al[n].kind \in Kinds
    BY AllocationFields DEF MemoryOK, AllocationsOK
  <2> QED
    BY <2>1, <2>2 DEF MemoryOK, AllocationsOK
<1> QED
  BY <1>4, <1>5, <1>6 DEF MemoryOK, new

\* An allocation stays below the offset of its block when the offset grows.
LEMMA StillHandedOut ==
  ASSUME NEW a, NEW b, NEW c, HandedOut(a, b), a.at \in Nat, a.size \in Nat,
         b.code \in Nat, b.offset \in Nat, c.offset \in Nat,
         c.code = b.code, c.offset >= b.offset
  PROVE  HandedOut(a, c)
BY DEF HandedOut

\* An allocation of one block does not meet what another block has left.
LEMMA EarlierApart ==
  ASSUME NEW a, NEW b, NEW c, NEW size \in Nat, HandedOut(a, b), Apart(b, c),
         a.at \in Nat, a.size \in Nat,
         b.code \in Nat, b.size \in Nat, b.offset \in Nat, b.offset <= b.size,
         c.code \in Nat, c.size \in Nat, c.offset \in Nat, c.offset + size <= c.size
  PROVE  a.at + a.size <= c.code + c.offset \/ c.code + c.offset + size <= a.at
BY DEF HandedOut, Apart

\* Pages are taken from the last block of a kind, which has room for them.
LEMMA TakeStep ==
  ASSUME NEW bs, NEW al, MemoryOK(bs, al), NEW k \in Kinds, bs[k] # <<>>,
         NEW want \in Nat, NEW size \in Nat, WholePages(size), want <= size,
         Fits(Last(bs[k]), size)
  PROVE  LET block == Last(bs[k])
         IN  MemoryOK([bs EXCEPT ![k] = [bs[k] EXCEPT ![Len(bs[k])].offset = @ + size]],
                      Append(al, [kind |-> k, at |-> block.code + block.offset,
                                  want |-> want, size |-> size]))
<1> DEFINE e == Len(bs[k])
           block == bs[k][e]
           taken == [block EXCEPT !.offset = @ + size]
           new == [bs EXCEPT ![k] = [bs[k] EXCEPT ![e] = taken]]
           a == [kind |-> k, at |-> block.code + block.offset, want |-> want, size |-> size]
           more == Append(al, a)
<1>1. /\ bs \in [Kinds -> Seq(BlockType)] /\ bs[k] \in Seq(BlockType)
      /\ \A k2 \in Kinds : \A m \in DOMAIN bs[k2] : BlockOK(bs[k2][m])
  BY DEF MemoryOK, BlocksOK
<1>2. e \in DOMAIN bs[k] /\ block \in BlockType /\ BlockOK(block) /\ Last(bs[k]) = block
  BY <1>1 DEF Last
<1>3. /\ block.code \in Nat /\ block.size \in Nat /\ block.offset \in Nat
      /\ block.offset + size <= block.size
  BY <1>2 DEF BlockType, Fits
<1>4. /\ taken \in BlockType /\ taken.code = block.code /\ taken.size = block.size
      /\ taken.offset = block.offset + size
  BY <1>2, <1>3 DEF BlockType
<1>5. BlockOK(taken)
  BY <1>2, <1>3, <1>4, PagesAdd DEF BlockOK
<1> HIDE DEF taken
<1>6. /\ new \in [Kinds -> Seq(BlockType)]
      /\ \A k2 \in Kinds : DOMAIN new[k2] = DOMAIN bs[k2]
      /\ \A k2 \in Kinds : \A m \in DOMAIN bs[k2] :
           new[k2][m] = IF k2 = k /\ m = e THEN taken ELSE bs[k2][m]
  <2>1. [bs[k] EXCEPT ![e] = taken] \in Seq(BlockType)
        /\ DOMAIN [bs[k] EXCEPT ![e] = taken] = DOMAIN bs[k]
    BY <1>1, <1>2, <1>4
  <2> QED
    BY <1>1, <1>2, <2>1
<1> HIDE DEF new
<1>7. BlocksOK(new)
  BY <1>1, <1>5, <1>6 DEF BlocksOK
<1>8. \A k2 \in Kinds : \A m \in DOMAIN bs[k2] :
        /\ new[k2][m].code = bs[k2][m].code /\ new[k2][m].size = bs[k2][m].size
        /\ new[k2][m].offset >= bs[k2][m].offset /\ new[k2][m].offset \in Nat
        /\ bs[k2][m].code \in Nat /\ bs[k2][m].size \in Nat /\ bs[k2][m].offset \in Nat
  <2> SUFFICES ASSUME NEW k2 \in Kinds, NEW m \in DOMAIN bs[k2]
               PROVE  /\ new[k2][m].code = bs[k2][m].code /\ new[k2][m].size = bs[k2][m].size
                      /\ new[k2][m].offset >= bs[k2][m].offset /\ new[k2][m].offset \in Nat
                      /\ bs[k2][m].code \in Nat /\ bs[k2][m].size \in Nat
                      /\ bs[k2][m].offset \in Nat
    OBVIOUS
  <2>1. bs[k2][m] \in BlockType
    BY <1>1
  <2>2. bs[k2][m].code \in Nat /\ bs[k2][m].size \in Nat /\ bs[k2][m].offset \in Nat
    BY <2>1 DEF BlockType
  <2>3. CASE k2 = k /\ m = e
    <3>1. new[k2][m] = taken /\ bs[k2][m] = block
      BY <1>6, <2>3
    <3> HIDE DEF block
    <3> QED
      BY <1>3, <1>4, <2>2, <3>1
  <2>4. CASE ~(k2 = k /\ m = e)
    <3>1. new[k2][m] = bs[k2][m]
      BY <1>6, <2>4
    <3> QED
      BY <2>2, <3>1
  <2> QED
    BY <2>3, <2>4
<1>9. BlocksApart(new)
  <2> SUFFICES ASSUME NEW k1 \in Kinds, NEW k2 \in Kinds,
                      NEW m1 \in DOMAIN new[k1], NEW m2 \in DOMAIN new[k2],
                      k1 # k2 \/ m1 # m2
               PROVE  Apart(new[k1][m1], new[k2][m2])
    BY DEF BlocksApart
  <2>1. m1 \in DOMAIN bs[k1] /\ m2 \in DOMAIN bs[k2]
    BY <1>6
  <2>2. Apart(bs[k1][m1], bs[k2][m2])
    BY <2>1 DEF MemoryOK, BlocksApart
  <2> QED
    BY <1>8, <2>1, <2>2 DEF Apart
<1>10. /\ al \in Seq(AllocationType)
       /\ \A n \in DOMAIN al :
            /\ al[n].kind \in Kinds /\ al[n].at \in Nat /\ al[n].size \in Nat
            /\ WholePages(al[n].at) /\ WholePages(al[n].size) /\ al[n].want <= al[n].size
            /\ \E m \in DOMAIN bs[al[n].kind] : HandedOut(al[n], bs[al[n].kind][m])
  BY AllocationFields DEF MemoryOK, AllocationsOK
<1>11. a \in AllocationType /\ a.kind = k /\ a.at = block.code + block.offset
       /\ a.want = want /\ a.size = size
  BY <1>3 DEF AllocationType
<1>12. WholePages(a.at)
  BY <1>2, <1>3, PagesAdd DEF BlockOK
<1>13. HandedOut(a, new[k][e])
  <2>1. new[k][e] = taken
    BY <1>2, <1>6
  <2> HIDE DEF a, block
  <2> QED
    BY <1>3, <1>4, <1>11, <2>1 DEF HandedOut
<1> HIDE DEF a
<1>14. /\ more \in Seq(AllocationType)
       /\ DOMAIN more = DOMAIN al \cup {Len(al) + 1} /\ Len(al) + 1 \notin DOMAIN al
       /\ more[Len(al) + 1] = a
       /\ \A n \in DOMAIN al : more[n] = al[n]
  BY <1>10, <1>11
<1> HIDE DEF more
<1>15. \A n \in DOMAIN al : \E m \in DOMAIN new[al[n].kind] : HandedOut(al[n], new[al[n].kind][m])
  <2> SUFFICES ASSUME NEW n \in DOMAIN al
               PROVE  \E m \in DOMAIN new[al[n].kind] : HandedOut(al[n], new[al[n].kind][m])
    OBVIOUS
  <2>1. PICK m \in DOMAIN bs[al[n].kind] : HandedOut(al[n], bs[al[n].kind][m])
    BY <1>10
  <2>2. al[n].kind \in Kinds /\ al[n].at \in Nat /\ al[n].size \in Nat
    BY <1>10
  <2>3. HandedOut(al[n], new[al[n].kind][m])
    <3>1. /\ new[al[n].kind][m].code = bs[al[n].kind][m].code
          /\ new[al[n].kind][m].offset >= bs[al[n].kind][m].offset
          /\ new[al[n].kind][m].offset \in Nat
          /\ bs[al[n].kind][m].code \in Nat /\ bs[al[n].kind][m].offset \in Nat
      BY <1>8, <2>1, <2>2
    <3> QED
      BY <2>1, <2>2, <3>1, StillHandedOut
  <2> QED
    BY <1>6, <2>2, <2>3
<1>16. AllocationsOK(new, more)
  BY <1>2, <1>6, <1>10, <1>11, <1>12, <1>13, <1>14, <1>15 DEF AllocationsOK
<1>17. \A n \in DOMAIN al : al[n].at + al[n].size <= a.at \/ a.at + a.size <= al[n].at
  <2> SUFFICES ASSUME NEW n \in DOMAIN al
               PROVE  al[n].at + al[n].size <= a.at \/ a.at + a.size <= al[n].at
    OBVIOUS
  <2>1. PICK m \in DOMAIN bs[al[n].kind] : HandedOut(al[n], bs[al[n].kind][m])
    BY <1>10
  <2> DEFINE b == bs[al[n].kind][m]
  <2>2. b.code \in Nat /\ b.size \in Nat /\ b.offset \in Nat /\ b.offset <= b.size
    BY <1>1, <1>8, <1>10 DEF BlockOK
  <2>3. CASE al[n].kind = k /\ m = e
    BY <1>3, <1>10, <1>11, <2>1, <2>3 DEF HandedOut
  <2>4. CASE ~(al[n].kind = k /\ m = e)
    <3>1. Apart(b, block)
      BY <1>2, <1>10, <2>4 DEF MemoryOK, BlocksApart
    <3> HIDE DEF b, block
    <3>2. \/ al[n].at + al[n].size <= block.code + block.offset
          \/ block.code + block.offset + size <= al[n].at
      BY <1>3, <1>10, <2>1, <2>2, <3>1, EarlierApart DEF b
    <3> QED
      BY <1>11, <3>2
  <2> QED
    BY <2>3, <2>4
<1>18. AllocationsApart(more)
  BY <1>14, <1>17 DEF MemoryOK, AllocationsApart
<1>19. MemoryOK(new, more)
  BY <1>7, <1>9, <1>16, <1>18 DEF MemoryOK
<1>20. [bs[k] EXCEPT ![Len(bs[k])].offset = @ + size] = [bs[k] EXCEPT ![e] = taken]
  BY DEF taken
<1> QED
  BY <1>2, <1>19, <1>20 DEF new, more, a

-----------------------------------------------------------------------------
\* Adding an allocation keeps what is known of the block of code.
LEMMA MoreAllocations ==
  ASSUME NEW bs, NEW al \in Seq(AllocationType), NEW a \in AllocationType, OneCodeBlock(bs, al)
  PROVE  OneCodeBlock(bs, Append(al, a))
<1>1. \A n \in DOMAIN al : n \in DOMAIN Append(al, a) /\ Append(al, a)[n] = al[n]
  OBVIOUS
<1> QED
  BY <1>1 DEF OneCodeBlock

\* The block the system reserves is valid and apart from all others (mmap).
LEMMA NewBlock ==
  ASSUME BlocksOK(blocks), NEW size \in Nat, WholePages(size),
         NEW block \in ReserveBlock(BlockFor(size)), block.code # Null
  PROVE  /\ block \in BlockType /\ BlockOK(block) /\ block.offset = 0
         /\ block.size = BlockFor(size) /\ size <= block.size
         /\ \A k \in Kinds : \A m \in DOMAIN blocks[k] : Apart(block, blocks[k][m])
<1> DEFINE s == BlockFor(size)
<1>1. s \in Nat /\ s > 0 /\ size <= s /\ WholePages(s)
  BY AllocatorAssumption DEF BlockFor, WholePages
<1> HIDE DEF s
<1>2. PICK a \in Mmap(s) : block = [code |-> a, size |-> s, offset |-> 0]
  BY DEF ReserveBlock, s
<1>3. a # Null
  BY <1>2
<1>4. PICK p \in 1 .. SpaceEnd \div PageSize :
        /\ a = p * PageSize
        /\ a + s <= SpaceEnd
        /\ \A b \in Reserved : a + s <= b.code \/ b.code + b.size <= a
  BY <1>2, <1>3 DEF Mmap
<1>5. p \in Nat /\ a \in Nat /\ WholePages(a)
  <2>1. p \in Nat /\ a \in Nat
    BY <1>4, AllocatorAssumption
  <2> QED
    BY <1>4, <2>1, Multiples
<1>6. WholePages(0)
  <2>1. 0 = 0 * PageSize
    BY AllocatorAssumption
  <2> QED
    BY <2>1, Multiples
<1>7. block \in BlockType /\ BlockOK(block)
  BY <1>1, <1>2, <1>4, <1>5, <1>6 DEF BlockType, BlockOK
<1>8. \A k \in Kinds : \A m \in DOMAIN blocks[k] : blocks[k][m] \in Reserved
  BY DEF Reserved, Range
<1> QED
  BY <1>1, <1>2, <1>4, <1>7, <1>8 DEF Apart, s

\* One call of allocate preserves the invariant.
LEMMA AllocateStep ==
  ASSUME AllocInv, NEW k \in Kinds, NEW want \in Sizes, Allocate(k, want)
  PROVE  AllocInv'
<1> DEFINE own == blocks[k]
           size == AlignPage(want)
<1>1. /\ BlocksOK(blocks) /\ blocks \in [Kinds -> Seq(BlockType)] /\ own \in Seq(BlockType)
      /\ MemoryOK(blocks, allocated) /\ allocated \in Seq(AllocationType)
  BY DEF AllocInv, MemoryOK, BlocksOK, AllocationsOK
<1>2. Aligned(own) = own
  BY <1>1, OffsetsAligned DEF BlocksOK
<1>3. want \in Nat /\ size \in Nat /\ WholePages(size) /\ want <= size
  BY AllocatorAssumption, Rounding
<1>4. huge_va' = huge_va
  BY DEF Allocate
<1> HIDE DEF size
<1>5. CASE Abort
  BY <1>4, <1>5 DEF Abort, AllocInv, OneCodeBlock
<1>6. CASE own # <<>> /\ Fits(Last(own), size) /\ Take(k, own, want, size)
  <2> DEFINE a == [kind |-> k, at |-> Last(own).code + Last(own).offset,
                   want |-> want, size |-> size]
  <2>1. /\ blocks' = [blocks EXCEPT ![k] = [own EXCEPT ![Len(own)].offset = @ + size]]
        /\ allocated' = Append(allocated, a)
    BY <1>6 DEF Take
  <2>2. MemoryOK(blocks', allocated')
    BY <1>1, <1>3, <1>6, <2>1, TakeStep
  <2>3. a \in AllocationType
    <3>1. Last(own) \in BlockType
      BY <1>1, <1>6 DEF Last
    <3> QED
      BY <1>3, <3>1 DEF AllocationType, BlockType
  <2> HIDE DEF a
  <2>4. OneCodeBlock(blocks, allocated')
    BY <1>1, <2>1, <2>3, MoreAllocations DEF AllocInv
  <2>5. Len(blocks'["code"]) = Len(blocks["code"])
        /\ (Len(blocks["code"]) = 1 => blocks'["code"][1].size = blocks["code"][1].size)
    <3>1. CASE k = "code"
      <4>1. blocks'["code"] = [own EXCEPT ![Len(own)].offset = @ + size]
        BY <1>1, <2>1, <3>1
      <4>2. Len([own EXCEPT ![Len(own)].offset = @ + size]) = Len(own)
        BY <1>1
      <4>3. ASSUME Len(own) = 1
            PROVE  [own EXCEPT ![Len(own)].offset = @ + size][1].size = own[1].size
        <5>1. own[1] \in BlockType
          <6>1. 1 \in DOMAIN own
            BY <1>1, <4>3
          <6> QED
            BY <1>1, <6>1
        <5>2. [own EXCEPT ![Len(own)].offset = @ + size][1] = [own[1] EXCEPT !.offset = @ + size]
          BY <1>1, <4>3
        <5> QED
          BY <5>1, <5>2 DEF BlockType
      <4> QED
        BY <3>1, <4>1, <4>2, <4>3
    <3>2. CASE k # "code"
      BY <1>1, <2>1, <3>2 DEF Kinds
    <3> QED
      BY <3>1, <3>2
  <2>6. OneCodeBlock(blocks, allocated)'
    BY <1>4, <2>4, <2>5 DEF OneCodeBlock
  <2> QED
    BY <2>2, <2>6 DEF AllocInv
<1>7. ASSUME MayGrow(own), NEW block \in ReserveBlock(BlockFor(size)), block.code # Null,
             Take(k, Append(own, block), want, size)
      PROVE  AllocInv'
  <2> DEFINE longer == Append(own, block)
             mid == [blocks EXCEPT ![k] = Append(@, block)]
             a == [kind |-> k, at |-> Last(longer).code + Last(longer).offset,
                   want |-> want, size |-> size]
  <2>1. /\ block \in BlockType /\ BlockOK(block) /\ block.offset = 0
        /\ block.size = BlockFor(size) /\ size <= block.size
        /\ \A k2 \in Kinds : \A m \in DOMAIN blocks[k2] : Apart(block, blocks[k2][m])
    BY <1>1, <1>3, <1>7, NewBlock
  <2>2. MemoryOK(mid, allocated)
    BY <1>1, <2>1, ReserveStep
  <2>3. /\ mid[k] = longer /\ longer \in Seq(BlockType) /\ longer # <<>>
        /\ Last(longer) = block
    BY <1>1, <2>1 DEF Last
  <2>4. Fits(Last(longer), size)
    BY <1>3, <2>1, <2>3 DEF Fits
  <2>5. /\ blocks' = [blocks EXCEPT ![k] = [longer EXCEPT ![Len(longer)].offset = @ + size]]
        /\ allocated' = Append(allocated, a)
    BY <1>7 DEF Take
  <2> HIDE DEF longer
  <2>6. blocks' = [mid EXCEPT ![k] = [longer EXCEPT ![Len(longer)].offset = @ + size]]
    BY <1>1, <2>5
  <2> HIDE DEF mid
  <2>7. MemoryOK(blocks', allocated')
    <3>1. /\ mid[k] # <<>> /\ Fits(Last(mid[k]), size)
          /\ blocks' = [mid EXCEPT ![k] = [mid[k] EXCEPT ![Len(mid[k])].offset = @ + size]]
          /\ allocated' = Append(allocated, [kind |-> k, at |-> Last(mid[k]).code + Last(mid[k]).offset,
                                             want |-> want, size |-> size])
      BY <2>3, <2>4, <2>5, <2>6
    <3> QED
      BY <1>3, <2>2, <3>1, TakeStep
  <2>8. a \in AllocationType
    BY <1>3, <2>1, <2>3 DEF AllocationType, BlockType
  <2>9. CASE k # "code"
    <3>1. blocks'["code"] = blocks["code"]
      BY <1>1, <2>5, <2>9 DEF Kinds
    <3> HIDE DEF a
    <3>2. OneCodeBlock(blocks, allocated')
      BY <1>1, <2>5, <2>8, MoreAllocations DEF AllocInv
    <3> QED
      BY <1>4, <2>7, <3>1, <3>2 DEF AllocInv, OneCodeBlock
  <2>10. CASE k = "code" /\ ~huge_va
    BY <1>4, <2>7, <2>10 DEF AllocInv, OneCodeBlock
  <2>11. CASE k = "code" /\ huge_va
    <3>1. own = <<>>
      BY <1>7, <2>11 DEF MayGrow
    <3>2. longer = <<block>> /\ Len(longer) = 1 /\ longer[1] = block
      BY <3>1 DEF longer
    <3>3. blocks'["code"] = [longer EXCEPT ![1].offset = @ + size]
      BY <1>1, <2>5, <2>11, <3>2
    <3>4. Len(blocks'["code"]) = 1 /\ blocks'["code"][1] = [block EXCEPT !.offset = @ + size]
      BY <2>3, <3>2, <3>3
    <3>5. blocks'["code"][1].size = BlockFor(size)
      BY <2>1, <3>4 DEF BlockType
    <3>6. Len(allocated) + 1 \in DOMAIN allocated'
          /\ allocated'[Len(allocated) + 1].size = size
      <4>1. allocated'[Len(allocated) + 1] = a /\ Len(allocated) + 1 \in DOMAIN allocated'
        BY <1>1, <2>5, <2>8
      <4> QED
        BY <4>1
    <3>7. OneCodeBlock(blocks, allocated)'
      BY <3>4, <3>5, <3>6 DEF OneCodeBlock, BlockFor
    <3> QED
      BY <2>7, <3>7 DEF AllocInv
  <2> QED
    BY <2>9, <2>10, <2>11
<1> QED
  BY <1>2, <1>5, <1>6, <1>7 DEF Allocate, size

\* The invariant holds in every reachable state.
LEMMA AllocInvariance == Spec => []AllocInv
<1>1. Init => AllocInv
  <2> SUFFICES ASSUME Init PROVE AllocInv
    OBVIOUS
  <2>1. \A k \in Kinds : blocks[k] = <<>> /\ DOMAIN blocks[k] = {}
    BY DEF Init
  <2>2. allocated = <<>> /\ DOMAIN allocated = {} /\ allocated \in Seq(AllocationType)
    BY DEF Init
  <2>3. BlocksOK(blocks)
    <3>1. blocks \in [Kinds -> Seq(BlockType)]
      BY DEF Init
    <3> QED
      BY <2>1, <3>1 DEF BlocksOK
  <2>4. Len(blocks["code"]) = 0
    BY <2>1 DEF Kinds
  <2> QED
    BY <2>1, <2>2, <2>3, <2>4
    DEF AllocInv, MemoryOK, BlocksApart, AllocationsOK, AllocationsApart, OneCodeBlock
<1>2. AllocInv /\ [Next]_vars => AllocInv'
  <2>1. ASSUME AllocInv, UNCHANGED vars PROVE AllocInv'
    BY <2>1 DEF AllocInv, OneCodeBlock, vars
  <2> QED
    BY <2>1, AllocateStep DEF Next, AllocateCode, AllocateData, Kinds
<1> QED
  BY <1>1, <1>2, PTL DEF Spec

-----------------------------------------------------------------------------
(***************************************************************************)
(* The theorems.                                                           *)
(***************************************************************************)

\* What is handed out lies inside a block the system reserved, also when a
\* request fills a block or is larger than block_size (allocate).
THEOREM InsideMemory == Spec => []InsideReservation
<1>1. AllocInv => InsideReservation
  <2> SUFFICES ASSUME AllocInv, NEW n \in DOMAIN allocated
               PROVE  \E b \in Range(blocks[allocated[n].kind]) :
                        /\ b.code <= allocated[n].at
                        /\ allocated[n].at + allocated[n].want <= b.code + b.size
    BY DEF InsideReservation, Requests
  <2> DEFINE a == allocated[n]
  <2>1. a.kind \in Kinds /\ a.at \in Nat /\ a.want \in Nat /\ a.size \in Nat /\ a.want <= a.size
    BY AllocationFields DEF AllocInv, MemoryOK, AllocationsOK
  <2>2. PICK m \in DOMAIN blocks[a.kind] : HandedOut(a, blocks[a.kind][m])
    BY DEF AllocInv, MemoryOK, AllocationsOK
  <2> DEFINE b == blocks[a.kind][m]
  <2>3. b \in BlockType /\ BlockOK(b)
    BY <2>1, <2>2 DEF AllocInv, MemoryOK, BlocksOK
  <2>4. b \in Range(blocks[a.kind])
    BY <2>2 DEF Range
  <2>5. b.code <= a.at /\ a.at + a.size <= b.code + b.offset
    BY <2>2 DEF HandedOut
  <2>6. b.code \in Nat /\ b.size \in Nat /\ b.offset \in Nat /\ b.offset <= b.size
    BY <2>3 DEF BlockType, BlockOK
  <2> HIDE DEF b, a
  <2>7. a.at + a.want <= b.code + b.size
    BY <2>1, <2>5, <2>6
  <2> QED
    BY <2>4, <2>5, <2>7 DEF a
<1> QED
  BY <1>1, AllocInvariance, PTL

\* A page that whole pages before "end" reach into is before "end".
LEMMA PageBefore ==
  ASSUME NEW p \in Nat, NEW end \in Nat, WholePages(end), p * PageSize < end
  PROVE  (p + 1) * PageSize <= end
<1>1. PICK q \in Nat : end = q * PageSize
  BY Multiples
<1>2. PageSize \in Nat \ {0}
  BY AllocatorAssumption
<1>3. p < q
  <2>1. CASE p >= q
    <3>1. (p - q) * PageSize >= 0 /\ (p - q) * PageSize = p * PageSize - q * PageSize
      BY <1>2, <2>1
    <3> QED
      BY <1>1, <1>2, <3>1
  <2> QED
    BY <2>1
<1>4. (q - p - 1) * PageSize >= 0 /\ (q - p - 1) * PageSize = q * PageSize - (p + 1) * PageSize
  BY <1>2, <1>3
<1> QED
  BY <1>1, <1>2, <1>4

\* No page belongs to two allocations: compiled code never overlaps other code or
\* data, whatever the sizes and however blocks fill up (allocate, align_page).
THEOREM PagesNotShared == Spec => []NoSharedPage
<1>1. AllocInv => NoSharedPage
  <2>1. ASSUME AllocInv, NEW n1 \in DOMAIN allocated, NEW n2 \in DOMAIN allocated,
               allocated[n1].at + allocated[n1].size <= allocated[n2].at,
               NEW p \in PagesOf(allocated[n1]), p \in PagesOf(allocated[n2])
        PROVE  FALSE
    <3> DEFINE a == allocated[n1]
               b == allocated[n2]
    <3>1. /\ a.at \in Nat /\ a.want \in Nat /\ a.size \in Nat /\ a.want <= a.size /\ b.at \in Nat
          /\ WholePages(a.at) /\ WholePages(a.size)
      BY <2>1, AllocationFields DEF AllocInv, MemoryOK, AllocationsOK
    <3>2. p \in Nat /\ p * PageSize < a.at + a.want /\ b.at < (p + 1) * PageSize
      BY <2>1, AllocatorAssumption DEF PagesOf
    <3>3. a.at + a.size <= b.at
      BY <2>1
    <3> HIDE DEF a, b
    <3>4. p * PageSize \in Nat /\ (p + 1) * PageSize \in Nat
      BY <3>2, AllocatorAssumption
    <3> DEFINE end == a.at + a.size
    <3>5. end \in Nat /\ WholePages(end) /\ p * PageSize < end
      BY <3>1, <3>2, <3>4, PagesAdd
    <3> HIDE DEF end
    <3>6. (p + 1) * PageSize <= end
      BY <3>2, <3>5, PageBefore
    <3> QED
      BY <3>1, <3>2, <3>3, <3>4, <3>6 DEF end
  <2>2. ASSUME AllocInv, NEW n1 \in DOMAIN allocated, NEW n2 \in DOMAIN allocated, n1 # n2
        PROVE  \/ allocated[n1].at + allocated[n1].size <= allocated[n2].at
               \/ allocated[n2].at + allocated[n2].size <= allocated[n1].at
    BY <2>2 DEF AllocInv, MemoryOK, AllocationsApart
  <2> QED
    BY <2>1, <2>2 DEF NoSharedPage, Requests
<1> QED
  BY <1>1, AllocInvariance, PTL

\* A bounded set of naturals has a largest element.
LEMMA LargestNatural ==
  ASSUME NEW S, S \subseteq Nat, S # {}, NEW top \in Nat, \A x \in S : x <= top
  PROVE  Max(S) \in S /\ \A y \in S : Max(S) >= y
<1> DEFINE T == {t \in Nat : \E x \in S : x + t = top}
<1>1. \A x \in S : x \in Nat /\ top - x \in Nat /\ top - x \in T
  BY top \in Nat
<1>2. T \subseteq Nat /\ T # {}
  BY <1>1
<1> HIDE DEF T
<1>3. PICK t \in T : \A u \in T : ~ (<<u, t>> \in OpToRel(<, Nat))
  BY <1>2, WFMin, NatLessThanWellFounded
<1>4. ASSUME NEW u \in T PROVE t <= u
  <2>1. u \in Nat /\ t \in Nat
    BY <1>2
  <2>2. u < t => <<u, t>> \in OpToRel(<, Nat)
    BY <2>1 DEF OpToRel
  <2>3. ~(u < t)
    BY <1>3, <2>2, Zenon
  <2> QED
    BY <2>1, <2>3
<1>5. PICK x \in S : x + t = top
  BY <1>3 DEF T
<1>6. ASSUME NEW y \in S PROVE x >= y
  <2>1. t <= top - y
    BY <1>1, <1>4
  <2> QED
    BY <1>1, <1>2, <1>5, <2>1
<1> QED
  BY <1>6 DEF Max

\* On 64-bit systems two pieces of code are never further apart than the largest
\* block there can be, whatever was requested ("relative jumps are reachable in
\* 32-bits", jit_allocator.cpp:33).
THEOREM CodeTogether == Spec => []JumpsReach
<1>1. AllocInv => JumpsReach
  <2> DEFINE S == {BlockSize} \cup {allocated[n].size : n \in Requests}
  <2> SUFFICES ASSUME AllocInv, huge_va, NEW n1 \in DOMAIN allocated, NEW n2 \in DOMAIN allocated,
                      allocated[n1].kind = "code", allocated[n2].kind = "code"
               PROVE  allocated[n2].at + allocated[n2].want - allocated[n1].at <= Max(S)
    BY DEF JumpsReach, Requests
  <2>1. /\ \A n \in DOMAIN allocated :
             /\ allocated[n].kind \in Kinds /\ allocated[n].at \in Nat
             /\ allocated[n].want \in Nat /\ allocated[n].size \in Nat
             /\ allocated[n].want <= allocated[n].size
             /\ \E m \in DOMAIN blocks[allocated[n].kind] :
                  HandedOut(allocated[n], blocks[allocated[n].kind][m])
    BY AllocationFields DEF AllocInv, MemoryOK, AllocationsOK
  <2>2. \A k \in Kinds : \A m \in DOMAIN blocks[k] :
          /\ blocks[k][m].code \in Nat /\ blocks[k][m].size \in Nat /\ blocks[k][m].offset \in Nat
          /\ blocks[k][m].offset <= blocks[k][m].size
          /\ blocks[k][m].code + blocks[k][m].size <= SpaceEnd
    <3> SUFFICES ASSUME NEW k \in Kinds, NEW m \in DOMAIN blocks[k]
                 PROVE  /\ blocks[k][m].code \in Nat /\ blocks[k][m].size \in Nat
                        /\ blocks[k][m].offset \in Nat
                        /\ blocks[k][m].offset <= blocks[k][m].size
                        /\ blocks[k][m].code + blocks[k][m].size <= SpaceEnd
      OBVIOUS
    <3>1. blocks[k][m] \in BlockType /\ BlockOK(blocks[k][m])
      BY DEF AllocInv, MemoryOK, BlocksOK
    <3> QED
      BY <3>1 DEF BlockType, BlockOK
  <2>3. \A n \in DOMAIN allocated : allocated[n].size <= SpaceEnd
    <3> SUFFICES ASSUME NEW n \in DOMAIN allocated PROVE allocated[n].size <= SpaceEnd
      OBVIOUS
    <3>1. PICK m \in DOMAIN blocks[allocated[n].kind] :
            HandedOut(allocated[n], blocks[allocated[n].kind][m])
      BY <2>1
    <3> DEFINE a == allocated[n]
               b == blocks[allocated[n].kind][m]
    <3>2. b.code \in Nat /\ b.size \in Nat /\ b.offset \in Nat /\ b.offset <= b.size
          /\ b.code + b.size <= SpaceEnd /\ a.at \in Nat /\ a.size \in Nat
      BY <2>1, <2>2
    <3>3. b.code <= a.at /\ a.at + a.size <= b.code + b.offset
      BY <3>1 DEF HandedOut
    <3> HIDE DEF b, a
    <3>4. a.size <= SpaceEnd
      BY <3>2, <3>3, AllocatorAssumption
    <3> QED
      BY <3>4 DEF a
  <2>4. Max(S) \in S /\ \A y \in S : Max(S) >= y
    <3>1. S \subseteq Nat /\ S # {}
      BY <2>1, AllocatorAssumption DEF Requests
    <3>2. SpaceEnd + BlockSize \in Nat /\ \A y \in S : y <= SpaceEnd + BlockSize
      BY <2>1, <2>3, AllocatorAssumption DEF Requests
    <3> HIDE DEF S
    <3> QED
      BY <3>1, <3>2, LargestNatural
  <2>5. PICK m1 \in DOMAIN blocks["code"] : HandedOut(allocated[n1], blocks["code"][m1])
    BY <2>1
  <2>6. PICK m2 \in DOMAIN blocks["code"] : HandedOut(allocated[n2], blocks["code"][m2])
    BY <2>1
  <2>7. Len(blocks["code"]) = 1 /\ m1 = 1 /\ m2 = 1
    <3>1. blocks["code"] \in Seq(BlockType)
      BY DEF AllocInv, MemoryOK, BlocksOK, Kinds
    <3>2. Len(blocks["code"]) <= 1
      BY DEF AllocInv, OneCodeBlock
    <3>3. DOMAIN blocks["code"] = 1 .. Len(blocks["code"]) /\ Len(blocks["code"]) \in Nat
      BY <3>1
    <3> DEFINE l == Len(blocks["code"])
    <3>4. m1 \in 1 .. l /\ m2 \in 1 .. l /\ l \in Nat /\ l <= 1
      BY <2>5, <2>6, <3>2, <3>3
    <3> HIDE DEF l
    <3>5. l = 1 /\ m1 = 1 /\ m2 = 1
      BY <3>4
    <3> QED
      BY <3>5 DEF l
  <2> DEFINE b == blocks["code"][1]
             a1 == allocated[n1]
             a2 == allocated[n2]
  <2>8. b.size \in S
    BY <2>7 DEF AllocInv, OneCodeBlock, Requests
  <2>9. Max(S) \in Nat /\ b.size <= Max(S)
    <3>1. b.size \in Nat /\ S \subseteq Nat
      BY <2>1, <2>2, <2>5, <2>7, AllocatorAssumption DEF Requests, Kinds
    <3> HIDE DEF S, b
    <3> QED
      BY <2>4, <2>8, <3>1
  <2>10. /\ b.code \in Nat /\ b.size \in Nat /\ b.offset \in Nat /\ b.offset <= b.size
         /\ a1.at \in Nat /\ a2.at \in Nat /\ a2.want \in Nat /\ a2.size \in Nat
         /\ a2.want <= a2.size
    BY <2>1, <2>2, <2>5, <2>7 DEF Kinds
  <2>11. b.code <= a1.at /\ a2.at + a2.size <= b.code + b.offset
    BY <2>5, <2>6, <2>7 DEF HandedOut
  <2> HIDE DEF S, b, a1, a2
  <2>12. a2.at + a2.want - a1.at <= Max(S)
    BY <2>9, <2>10, <2>11
  <2> QED
    BY <2>12 DEF a1, a2
<1> QED
  BY <1>1, AllocInvariance, PTL

=============================================================================
