--------------------------- MODULE DebugJitProofs ---------------------------
(***************************************************************************)
(* Proofs about DebugJit, for every size of IMEM, of its blocks and of the *)
(* call stack, every program and every depth of nesting: its state stays   *)
(* well-typed; as long as no call had to go unrecorded the call stack      *)
(* mirrors the active functions; and then, for every program without the   *)
(* two shapes it does not translate, the code implements RspIsa but for    *)
(* the returns it makes because the answer of CPU::ret is lost.            *)
(*                                                                         *)
(* The invariant says of every active function that it is the region       *)
(* compiled for its first word, of the functions that wait for a callee    *)
(* that they are past their first instruction with no branch pending, and  *)
(* that a branch inherited from another region is only there at the first  *)
(* instruction of the only function.                                       *)
(***************************************************************************)
EXTENDS DebugJit, TLAPS, SequenceTheorems, WellFoundedInduction

Frame == [base : Word, end : Nat, at : Nat, pipe_branch : BOOLEAN, pipe_branch_delay : Word]

FrameOK(f) ==
  /\ f.end = DebugRegionEnd(imem, f.base)
  /\ f.at >= f.base /\ f.at <= f.end

FramesInv ==
  /\ frames \in Seq(Frame)
  /\ \A k \in 1 .. Len(frames) : FrameOK(frames[k])

LatentInv ==
  has_delay_slot /\ frames # <<>> => Len(frames) = 1 /\ frames[1].at = frames[1].base

SuspendedInv ==
  \A k \in 1 .. Len(frames) - 1 : frames[k].at > frames[k].base /\ ~frames[k].pipe_branch

StateInv ==
  /\ imem \in [Word -> Instructions]
  /\ phase \in {"host", "run", "region"}
  /\ pc \in Word /\ branch_target \in Word /\ ra \in Word
  /\ has_delay_slot \in BOOLEAN
  /\ (frames # <<>>) <=> (phase = "region")
  /\ call_stack \in Seq(Word) /\ Len(call_stack) <= CALL_STACK_SIZE

DebugInv == StateInv /\ FramesInv /\ LatentInv /\ SuspendedInv

\* No call had to go unrecorded.
AllRecorded == Len(frames) <= CALL_STACK_SIZE + 1

MirrorInv ==
  /\ Len(call_stack) = IF frames = <<>> THEN 0 ELSE Len(frames) - 1
  /\ \A k \in 1 .. Len(frames) - 1 : call_stack[k] = frames[k].at % ImemWords

-----------------------------------------------------------------------------
(***************************************************************************)
(* Numbers.                                                                *)
(***************************************************************************)

\* A set of naturals has a least element; what follows uses it for induction.
LEMMA LeastNatural ==
  ASSUME NEW S, S \subseteq Nat, S # {}
  PROVE  \E n \in S : \A k \in S : n <= k
<1>1. PICK n \in S : \A k \in S : ~ (<<k, n>> \in OpToRel(<, Nat))
  BY WFMin, NatLessThanWellFounded
<1>2. ASSUME NEW k \in S PROVE n <= k
  <2>1. k \in Nat /\ n \in Nat
    OBVIOUS
  <2>2. k < n => <<k, n>> \in OpToRel(<, Nat)
    BY <2>1 DEF OpToRel
  <2>3. ~(k < n)
    BY <1>1, <2>2, Zenon
  <2> QED
    BY <2>1, <2>3
<1> QED
  BY <1>2

\* The larger of two numbers.
LEMMA LargerOf ==
  ASSUME NEW x \in Int, NEW y \in Int
  PROVE  Max({x, y}) = IF x >= y THEN x ELSE y
<1>1. \E z \in {x, y} : \A u \in {x, y} : z >= u
  OBVIOUS
<1>2. Max({x, y}) \in {x, y} /\ Max({x, y}) >= x /\ Max({x, y}) >= y
  BY <1>1 DEF Max
<1> QED
  BY <1>2

\* The smaller of two numbers.
LEMMA SmallerOf ==
  ASSUME NEW x \in Int, NEW y \in Int
  PROVE  Min({x, y}) = IF x <= y THEN x ELSE y
<1>1. \E z \in {x, y} : \A u \in {x, y} : z =< u
  OBVIOUS
<1>2. Min({x, y}) \in {x, y} /\ Min({x, y}) =< x /\ Min({x, y}) =< y
  BY <1>1 DEF Min
<1> QED
  BY <1>2

\* IMEM has at least one word, and a word address stays one under the mask.
LEMMA Imem ==
  /\ BlockWords \in Nat \ {0} /\ ImemWords \in Nat \ {0} /\ 0 \in Word
  /\ \A a \in Word : a \in Nat /\ a < ImemWords /\ a % ImemWords = a
  /\ \A a \in Nat : a % ImemWords \in Word
<1>1. BlockWords \in Nat \ {0} /\ ImemWords \in Nat \ {0}
  BY BlockAssumption DEF ImemWords
<1>2. \A a \in Nat : a % ImemWords \in 0 .. ImemWords - 1
  BY <1>1
<1>3. \A a \in 0 .. ImemWords - 1 : a % ImemWords = a
  BY <1>1
<1> QED
  BY <1>1, <1>2, <1>3 DEF Word

\* What get_jit_block allows a region is not empty, stays in IMEM and holds at
\* most two code blocks.
LEMMA LimitOfRegion ==
  ASSUME NEW b \in Word
  PROVE  RegionLimit(b) \in Nat /\ b < RegionLimit(b) /\ RegionLimit(b) <= ImemWords
         /\ RegionLimit(b) <= b + 2 * BlockWords
<1> DEFINE q == b \div BlockWords
           r == b % BlockWords
           next == (q + 2) * BlockWords
<1>1. b \in Nat /\ b < ImemWords /\ BlockWords \in Nat \ {0} /\ ImemWords \in Nat \ {0}
  BY Imem
<1>2. q \in Nat /\ r \in 0 .. BlockWords - 1 /\ b = BlockWords * q + r
  BY <1>1
<1> HIDE DEF q, r
<1>3. next \in Nat /\ next = BlockWords * q + 2 * BlockWords
  BY <1>1, <1>2
<1>4. RegionLimit(b) = Min({next, ImemWords})
  BY DEF RegionLimit, BlockOf, q
<1> HIDE DEF next
<1>6. RegionLimit(b) = IF next <= ImemWords THEN next ELSE ImemWords
  <2>1. Min({next, ImemWords}) = IF next <= ImemWords THEN next ELSE ImemWords
    BY <1>1, <1>3, SmallerOf
  <2> QED
    BY <1>4, <2>1
<1>5. BlockWords * q \in Nat
  BY <1>1, <1>2
<1> QED
  BY <1>1, <1>2, <1>3, <1>5, <1>6

-----------------------------------------------------------------------------
(***************************************************************************)
(* The scan of analyze_static_end.                                         *)
(***************************************************************************)
ScanStart(pc0) == [max |-> pc0, stop |-> FALSE]
ScanStep(m, pc0, end, s, n) ==
  IF s.stop THEN s ELSE DebugScanWord(m, pc0, end, pc0 + n - 1, s.max)

IsScan(f, m, pc0, end, N) ==
  f = [n \in 0 .. N |-> IF n = 0 THEN ScanStart(pc0)
                        ELSE ScanStep(m, pc0, end, f[n - 1], n)]

\* The scan is defined for every number of words.
LEMMA ScanExists ==
  ASSUME NEW m, NEW pc0, NEW end, NEW N \in Nat
  PROVE  \E f : IsScan(f, m, pc0, end, N)
<1> DEFINE Bad == {n \in Nat : ~ \E f : IsScan(f, m, pc0, end, n)}
<1> SUFFICES ASSUME Bad # {} PROVE FALSE
  OBVIOUS
<1>1. PICK n \in Bad : \A k \in Bad : n <= k
  BY LeastNatural
<1>2. n \in Nat /\ ~ \E f : IsScan(f, m, pc0, end, n)
  BY <1>1
<1>3. CASE n = 0
  <2> DEFINE f == [k \in 0 .. 0 |-> ScanStart(pc0)]
  <2>1. f = [k \in 0 .. 0 |-> IF k = 0 THEN ScanStart(pc0) ELSE ScanStep(m, pc0, end, f[k - 1], k)]
    OBVIOUS
  <2> HIDE DEF f
  <2>2. IsScan(f, m, pc0, end, 0)
    BY <2>1 DEF IsScan
  <2> QED
    BY <1>2, <1>3, <2>2
<1>4. CASE n > 0
  <2>1. n - 1 \in Nat /\ n - 1 \notin Bad
    BY <1>1, <1>2, <1>4
  <2>2. PICK f : IsScan(f, m, pc0, end, n - 1)
    BY <2>1
  <2>3. \A k \in 0 .. n - 1 : f[k] = IF k = 0 THEN ScanStart(pc0)
                                     ELSE ScanStep(m, pc0, end, f[k - 1], k)
    BY <2>2 DEF IsScan
  <2> DEFINE g == [k \in 0 .. n |-> IF k = n THEN ScanStep(m, pc0, end, f[n - 1], n) ELSE f[k]]
  <2>4. \A k \in 0 .. n : g[k] = IF k = 0 THEN ScanStart(pc0)
                                 ELSE ScanStep(m, pc0, end, g[k - 1], k)
    <3> SUFFICES ASSUME NEW k \in 0 .. n
                 PROVE  g[k] = IF k = 0 THEN ScanStart(pc0)
                               ELSE ScanStep(m, pc0, end, g[k - 1], k)
      OBVIOUS
    <3>1. CASE k = n
      <4>1. g[k] = ScanStep(m, pc0, end, f[n - 1], n) /\ g[n - 1] = f[n - 1]
        BY <1>2, <1>4, <3>1
      <4> QED
        BY <1>4, <3>1, <4>1
    <3>2. CASE k # n
      <4>1. k \in 0 .. n - 1 /\ g[k] = f[k] /\ (k # 0 => k - 1 \in 0 .. n /\ g[k - 1] = f[k - 1])
        BY <1>2, <3>2
      <4> QED
        BY <2>3, <4>1
    <3> QED
      BY <3>1, <3>2
  <2>5. g = [k \in 0 .. n |-> g[k]]
    OBVIOUS
  <2> HIDE DEF g
  <2>6. IsScan(g, m, pc0, end, n)
    BY <2>4, <2>5 DEF IsScan
  <2> QED
    BY <1>2, <2>6
<1> QED
  BY <1>2, <1>3, <1>4

\* From the first word on the scan has reached a word after the start.
LEMMA ScanAdvances ==
  ASSUME NEW m \in [Word -> Instructions], NEW pc0 \in Word, NEW end \in Nat, end <= ImemWords,
         NEW N \in Nat, pc0 + N <= end, NEW f, IsScan(f, m, pc0, end, N)
  PROVE  \A n \in 0 .. N : f[n].max \in Int /\ (n > 0 => f[n].max > pc0)
<1> DEFINE Good(n) == f[n].max \in Int /\ (n > 0 => f[n].max > pc0)
           Bad == {n \in 0 .. N : ~Good(n)}
<1> SUFFICES ASSUME Bad # {} PROVE FALSE
  OBVIOUS
<1>1. PICK n \in Bad : \A k \in Bad : n <= k
  <2>1. Bad \subseteq Nat
    OBVIOUS
  <2> HIDE DEF Bad
  <2> QED
    BY <2>1, LeastNatural
<1>2. n \in 0 .. N /\ ~Good(n)
  BY <1>1
<1>3. pc0 \in Nat
  BY Imem
<1>4. f[n] = IF n = 0 THEN ScanStart(pc0) ELSE ScanStep(m, pc0, end, f[n - 1], n)
  BY <1>2 DEF IsScan
<1>5. n > 0
  <2>1. n = 0 => f[n].max = pc0
    BY <1>4 DEF ScanStart
  <2> QED
    BY <1>2, <1>3, <2>1
<1>6. f[n - 1].max \in Int /\ (n - 1 > 0 => f[n - 1].max > pc0)
  BY <1>1, <1>2, <1>5
<1> DEFINE a == pc0 + n - 1
           old == f[n - 1].max
           reached == IF a + 1 < old THEN old ELSE a + 1
<1>7. a \in Word /\ a \in Nat /\ a >= pc0
  <2>1. n \in Nat /\ n >= 1 /\ n <= N /\ ImemWords \in Nat
    BY <1>2, <1>5, Imem
  <2>2. a \in Nat /\ a >= pc0 /\ a <= ImemWords - 1
    BY <1>3, <2>1
  <2> QED
    BY <2>1, <2>2 DEF Word
<1>8. reached \in Int /\ reached > pc0
  BY <1>3, <1>6, <1>7
<1>9. CASE f[n - 1].stop
  <2>1. f[n] = f[n - 1]
    BY <1>4, <1>5, <1>9 DEF ScanStep
  <2>2. n - 1 # 0
    <3>1. n - 1 = 0 => f[n - 1] = ScanStart(pc0)
      BY <1>2, <1>5 DEF IsScan
    <3> QED
      BY <1>9, <3>1 DEF ScanStart
  <2> QED
    BY <1>2, <1>5, <1>6, <2>1, <2>2
<1>10. CASE ~f[n - 1].stop
  <2>1. f[n] = DebugScanWord(m, pc0, end, a, old)
    BY <1>4, <1>5, <1>10 DEF ScanStep
  <2>2. m[a].target \in Int
    BY <1>7, Imem DEF Instructions
  <2> HIDE DEF a, old
  <2>3. f[n].max \in {reached, Max({a + 2, reached}), Max({reached, m[a].target + 1})}
    BY <2>1 DEF DebugScanWord
  <2>4. a + 2 \in Int /\ m[a].target + 1 \in Int
    BY <1>7, <2>2
  <2> HIDE DEF reached
  <2>5. /\ Max({a + 2, reached}) = IF a + 2 >= reached THEN a + 2 ELSE reached
        /\ Max({reached, m[a].target + 1}) = IF reached >= m[a].target + 1
                                             THEN reached ELSE m[a].target + 1
    BY <1>8, <2>4, LargerOf
  <2>6. f[n].max \in Int /\ f[n].max > pc0
    BY <1>3, <1>8, <2>3, <2>4, <2>5
  <2> QED
    BY <1>2, <2>6
<1> QED
  BY <1>9, <1>10

\* A region is not empty, stays in IMEM and has at most two blocks.
LEMMA RegionFits ==
  ASSUME NEW m \in [Word -> Instructions], NEW b \in Word
  PROVE  /\ DebugRegionEnd(m, b) \in Nat /\ b < DebugRegionEnd(m, b) /\ DebugRegionEnd(m, b) <= ImemWords
         /\ DebugRegionEnd(m, b) - b <= 2 * BlockWords
<1> DEFINE end == RegionLimit(b)
           N == end - b
           scan == CHOOSE f : IsScan(f, m, b, end, N)
<1>1. /\ end \in Nat /\ b \in Nat /\ b < end /\ end <= ImemWords /\ end <= b + 2 * BlockWords
      /\ ImemWords \in Nat /\ BlockWords \in Nat
  BY LimitOfRegion, Imem
<1>2. DebugRegionEnd(m, b) = Min({scan[N].max, end})
  BY DEF DebugRegionEnd, IsScan, ScanStart, ScanStep
<1> HIDE DEF end
<1>3. N \in Nat /\ N > 0 /\ b + N <= end
  BY <1>1
<1> HIDE DEF N
<1>4. IsScan(scan, m, b, end, N)
  BY <1>3, ScanExists
<1> HIDE DEF scan
<1>5. scan[N].max \in Int /\ scan[N].max > b
  BY <1>1, <1>3, <1>4, ScanAdvances
<1> DEFINE x == scan[N].max
<1> HIDE DEF x
<1>6. DebugRegionEnd(m, b) = IF x <= end THEN x ELSE end
  <2>1. x \in Int /\ DebugRegionEnd(m, b) = Min({x, end})
    BY <1>2, <1>5 DEF x
  <2>2. Min({x, end}) = IF x <= end THEN x ELSE end
    BY <1>1, <2>1, SmallerOf
  <2> QED
    BY <2>1, <2>2
<1> QED
  BY <1>1, <1>5, <1>6 DEF x

-----------------------------------------------------------------------------
(***************************************************************************)
(* What the translator knows of an instruction, and the innermost function.*)
(***************************************************************************)

\* What a word address is.
LEMMA WordIs ==
  ASSUME NEW a \in Nat, a < ImemWords
  PROVE  a \in Word
<1>1. ImemWords \in Nat
  BY Imem
<1> QED
  BY <1>1 DEF Word

\* The branch an instruction leaves pending.
LEMMA PipeOf ==
  ASSUME NEW ins \in Instructions, NEW b \in Nat, NEW end \in Nat
  PROVE  LET p == Pipe(ins, b, end)
         IN  /\ p.branch \in BOOLEAN /\ p.local \in BOOLEAN /\ p.target \in Word
             /\ p.branch <=> ins.op \in DirectOps \cup IndirectOps
             /\ p.branch => p.target = ins.target
             /\ p.local <=> p.branch /\ IsLocalGoto(ins, b, end)
             /\ p.local => ins.op \notin IndirectOps /\ p.target >= b /\ p.target < end
<1> DEFINE p == Pipe(ins, b, end)
<1>1. ins.target \in Word /\ 0 \in Word
  BY Imem DEF Instructions
<1>2. IsLocalGoto(ins, b, end) \in BOOLEAN
  BY DEF IsLocalGoto
<1>3. CASE ins.op \notin DirectOps \cup IndirectOps
  <2>1. p = NotPending
    BY <1>3 DEF Pipe
  <2>2. p.branch = FALSE /\ p.local = FALSE /\ p.target = 0
    BY <2>1 DEF NotPending
  <2> QED
    BY <1>1, <1>3, <2>2
<1>4. CASE ins.op \in DirectOps \cup IndirectOps
  <2>1. p.branch = TRUE /\ p.local = IsLocalGoto(ins, b, end) /\ p.target = ins.target
    BY <1>4 DEF Pipe
  <2>2. p.local => ins.op \notin IndirectOps /\ p.target >= b /\ p.target < end
    BY <2>1 DEF IsLocalGoto, DirectOps, RelativeOps, ComputedOps, IndirectOps
  <2> HIDE DEF p
  <2>3. p.local \in BOOLEAN /\ (p.local <=> p.branch /\ IsLocalGoto(ins, b, end))
    BY <1>2, <2>1
  <2> QED
    BY <1>1, <1>4, <2>1, <2>2, <2>3 DEF p
<1> QED
  BY <1>3, <1>4

\* The innermost function.
LEMMA TopOf ==
  ASSUME DebugInv, phase = "region"
  PROVE  /\ Len(frames) \in Nat \ {0} /\ frames \in Seq(Frame) /\ Top \in Frame
         /\ Top.base \in Word /\ Top.base \in Nat /\ Top.at \in Nat /\ Top.end \in Nat
         /\ Top.end = DebugRegionEnd(imem, Top.base)
         /\ Top.base < Top.end /\ Top.end <= ImemWords /\ Top.base <= Top.at /\ Top.at <= Top.end
         /\ Top.pipe_branch \in BOOLEAN /\ Top.pipe_branch_delay \in Word
         /\ imem \in [Word -> Instructions]
         /\ Top.at > Top.base \/ Len(frames) > 1 => ~has_delay_slot
<1>1. frames # <<>> /\ frames \in Seq(Frame) /\ imem \in [Word -> Instructions]
  BY DEF DebugInv, StateInv, FramesInv
<1>2. Len(frames) \in Nat \ {0} /\ Len(frames) \in 1 .. Len(frames)
  BY <1>1
<1>3. Top \in Frame /\ FrameOK(Top)
  BY <1>1, <1>2 DEF Top, DebugInv, FramesInv
<1>4. /\ Top.base \in Word /\ Top.at \in Nat /\ Top.end \in Nat
      /\ Top.pipe_branch \in BOOLEAN /\ Top.pipe_branch_delay \in Word
  BY <1>3 DEF Frame
<1>5. /\ Top.base \in Nat /\ Top.end = DebugRegionEnd(imem, Top.base)
      /\ Top.base < Top.end /\ Top.end <= ImemWords /\ Top.base <= Top.at /\ Top.at <= Top.end
  BY <1>1, <1>3, <1>4, Imem, RegionFits DEF FrameOK
<1>6. Top.at > Top.base \/ Len(frames) > 1 => ~has_delay_slot
  <2> SUFFICES ASSUME has_delay_slot PROVE ~(Top.at > Top.base \/ Len(frames) > 1)
    OBVIOUS
  <2>1. Len(frames) = 1 /\ frames[1].at = frames[1].base
    BY <1>1 DEF DebugInv, LatentInv
  <2>2. Top.at = Top.base
    BY <2>1 DEF Top
  <2> QED
    BY <1>4, <1>5, <2>1, <2>2
<1> QED
  BY <1>1, <1>2, <1>3, <1>4, <1>5, <1>6

\* The pending branch and where it goes, from the first instruction of a region
\* to its end.
LEMMA PendingOf ==
  ASSUME DebugInv, phase = "region"
  PROVE  /\ Pending.branch \in BOOLEAN /\ Pending.local \in BOOLEAN /\ Pending.target \in Word
         /\ Pending.local => Pending.branch /\ Pending.target >= Top.base /\ Pending.target < Top.end
         /\ Goes \in Word
         /\ Top.at = Top.base => ~Pending.branch
<1>1. /\ Top.base \in Nat /\ Top.at \in Nat /\ Top.end \in Nat /\ imem \in [Word -> Instructions]
      /\ Top.end <= ImemWords /\ Top.base <= Top.at /\ Top.at <= Top.end
      /\ Top.pipe_branch_delay \in Word
  BY TopOf
<1>2. CASE Top.at = Top.base
  <2>1. Pending = NotPending
    BY <1>2 DEF Pending
  <2>2. Pending.branch = FALSE /\ Pending.local = FALSE /\ Pending.target = 0
    BY <2>1 DEF NotPending
  <2> QED
    BY <1>1, <2>2, Imem DEF Goes
<1>3. CASE Top.at # Top.base
  <2> DEFINE a == Top.at - 1
  <2>1. a \in Word
    <3>1. a \in Nat /\ a < ImemWords
      BY <1>1, <1>3, Imem
    <3> QED
      BY <3>1, WordIs
  <2>2. Pending = Pipe(imem[a], Top.base, Top.end)
    BY <1>3 DEF Pending, PipeAt
  <2>3. imem[a] \in Instructions
    BY <1>1, <2>1
  <2>4. /\ Pending.branch \in BOOLEAN /\ Pending.local \in BOOLEAN /\ Pending.target \in Word
        /\ Pending.local => Pending.branch /\ Pending.target >= Top.base /\ Pending.target < Top.end
    BY <1>1, <2>2, <2>3, PipeOf
  <2> QED
    BY <1>1, <1>3, <2>4 DEF Goes
<1> QED
  BY <1>2, <1>3

\* The instruction about to run, and what it leaves pending.
LEMMA InsOf ==
  ASSUME DebugInv, AtInstruction
  PROVE  /\ phase = "region" /\ Top.at \in Word /\ Top.at < Top.end /\ Ins \in Instructions
         /\ Piped.branch \in BOOLEAN /\ Piped.local \in BOOLEAN /\ Piped.target \in Word
         /\ Piped.branch <=> Ins.op \in DirectOps \cup IndirectOps
         /\ Piped.branch => Piped.target = Ins.target
         /\ Piped.local => Piped.branch /\ Ins.op \notin IndirectOps
         /\ \A taken \in Outcomes(Ins.op) : taken \in BOOLEAN /\ (taken => Piped.branch)
         /\ \A link \in Word : DelayAfter(link) \in Word
         /\ \A link \in Linked(Ins.op, Top.at, ra) : link \in Word
<1>1. phase = "region" /\ Top.at < Top.end
  BY DEF AtInstruction
<1>2. /\ Top.base \in Nat /\ Top.at \in Nat /\ Top.end \in Nat /\ imem \in [Word -> Instructions]
      /\ Top.end <= ImemWords /\ Top.pipe_branch_delay \in Word /\ ra \in Word
  BY <1>1, TopOf DEF DebugInv, StateInv
<1>3. Top.at \in Word
  <2>1. Top.at < ImemWords
    BY <1>1, <1>2, Imem
  <2> QED
    BY <1>2, <2>1, WordIs
<1>4. Ins \in Instructions
  BY <1>2, <1>3 DEF Ins
<1>5. Piped = Pipe(Ins, Top.base, Top.end)
  BY DEF Piped, PipeAt, Ins
<1>6. /\ Piped.branch \in BOOLEAN /\ Piped.local \in BOOLEAN /\ Piped.target \in Word
      /\ Piped.branch <=> Ins.op \in DirectOps \cup IndirectOps
      /\ Piped.branch => Piped.target = Ins.target
      /\ Piped.local => Piped.branch /\ Ins.op \notin IndirectOps
  BY <1>2, <1>4, <1>5, PipeOf
<1>7. ASSUME NEW taken \in Outcomes(Ins.op) PROVE taken \in BOOLEAN /\ (taken => Piped.branch)
  <2>1. CASE Ins.op \in {"BCC", "BCCAL"} \cup JumpOps \cup {"BEQSAME", "BLEZ0"}
    <3>1. Ins.op \in DirectOps \cup IndirectOps
      BY <2>1 DEF DirectOps, RelativeOps, ComputedOps, IndirectOps, JumpOps
    <3>2. taken \in BOOLEAN
      BY <2>1 DEF Outcomes
    <3> QED
      BY <1>6, <3>1, <3>2
  <2>2. CASE Ins.op \notin {"BCC", "BCCAL"} \cup JumpOps \cup {"BEQSAME", "BLEZ0"}
    BY <2>2 DEF Outcomes
  <2> QED
    BY <2>1, <2>2
<1>8. ASSUME NEW link \in Word PROVE DelayAfter(link) \in Word
  <2>1. Ins.target \in Word
    BY <1>4, Imem DEF Instructions
  <2> QED
    BY <1>2, <2>1 DEF DelayAfter
<1>9. Linked(Ins.op, Top.at, ra) \subseteq Word
  <2>1. Link(Top.at) \in Word
    BY <1>2, Imem DEF Link
  <2> QED
    BY <1>2, <2>1 DEF Linked
<1> QED
  BY <1>1, <1>3, <1>4, <1>6, <1>7, <1>8, <1>9

-----------------------------------------------------------------------------
(***************************************************************************)
(* What the glue does to the active functions.                             *)
(***************************************************************************)

\* The functions after the innermost one was given other locals.
With(fs, a, taken, to) ==
  [fs EXCEPT ![Len(fs)].at = a, ![Len(fs)].pipe_branch = taken, ![Len(fs)].pipe_branch_delay = to]

\* Only the innermost one changes, and only its locals.
LEMMA WithTop ==
  ASSUME NEW g, NEW a \in Nat, NEW taken \in BOOLEAN, NEW to \in Word,
         frames \in Seq(Frame), frames # <<>>, g = With(frames, a, taken, to)
  PROVE  /\ g \in Seq(Frame) /\ Len(g) = Len(frames)
         /\ \A k \in 1 .. Len(frames) - 1 : g[k] = frames[k]
         /\ g[Len(frames)].base = Top.base /\ g[Len(frames)].end = Top.end
         /\ g[Len(frames)].at = a /\ g[Len(frames)].pipe_branch = taken
         /\ g[Len(frames)].pipe_branch_delay = to
<1> DEFINE n == Len(frames)
           u == [Top EXCEPT !.at = a, !.pipe_branch = taken, !.pipe_branch_delay = to]
<1>1. n \in Nat \ {0} /\ n \in 1 .. n /\ Top \in Frame /\ \A k \in 1 .. n : frames[k] \in Frame
  <2>1. n \in Nat \ {0}
    OBVIOUS
  <2>2. n \in 1 .. n
    BY <2>1
  <2> QED
    BY <2>1, <2>2 DEF Top
<1>2. /\ u \in Frame /\ u.base = Top.base /\ u.end = Top.end /\ u.at = a
      /\ u.pipe_branch = taken /\ u.pipe_branch_delay = to
  BY <1>1 DEF Frame
<1>3. g = [k \in 1 .. n |-> IF k = n THEN u ELSE frames[k]]
  <2> DEFINE f1 == [frames EXCEPT ![n].at = a]
             f2 == [f1 EXCEPT ![n].pipe_branch = taken]
             f3 == [f2 EXCEPT ![n].pipe_branch_delay = to]
  <2>1. DOMAIN frames = 1 .. n /\ Top = frames[n]
    BY DEF Top
  <2>2. f1 = [k \in 1 .. n |-> IF k = n THEN [Top EXCEPT !.at = a] ELSE frames[k]]
    BY <1>1, <2>1
  <2>3. f2 = [k \in 1 .. n |-> IF k = n THEN [Top EXCEPT !.at = a, !.pipe_branch = taken]
                               ELSE frames[k]]
    BY <1>1, <2>2
  <2>4. f3 = [k \in 1 .. n |-> IF k = n THEN u ELSE frames[k]]
    BY <1>1, <2>3
  <2>5. g = f3
    BY DEF With
  <2> QED
    BY <2>4, <2>5
<1> HIDE DEF u, n
<1>4. \A k \in 1 .. n : (IF k = n THEN u ELSE frames[k]) \in Frame
  BY <1>1, <1>2
<1>5. g \in Seq(Frame) /\ Len(g) = n
  BY <1>1, <1>3, <1>4
<1>6. g[n] = u /\ \A k \in 1 .. n - 1 : g[k] = frames[k]
  BY <1>1, <1>3
<1> QED
  BY <1>2, <1>5, <1>6 DEF n

\* The registers keep their types.
Keeps == imem' = imem /\ ra' \in Word

\* A function goes on inside its region.
LEMMA GotoStep ==
  ASSUME DebugInv, phase = "region", Keeps, NEW a \in Nat, NEW taken \in BOOLEAN, NEW to \in Word,
         a >= Top.base, a <= Top.end, ~has_delay_slot, Goto(a, taken, to)
  PROVE  /\ DebugInv' /\ (MirrorInv => MirrorInv')
         /\ Top'.base = Top.base /\ Top'.end = Top.end /\ Top'.at = a
         /\ Top'.pipe_branch = taken /\ Top'.pipe_branch_delay = to
         /\ phase' = "region" /\ ~has_delay_slot'
<1> DEFINE n == Len(frames)
<1>1. /\ frames' = With(frames, a, taken, to)
      /\ UNCHANGED <<phase, pc, has_delay_slot, branch_target, call_stack>>
  BY DEF Goto, With, latentVars
<1>2. frames \in Seq(Frame) /\ frames # <<>> /\ n \in Nat \ {0} /\ n \in 1 .. n
  <2>1. frames \in Seq(Frame) /\ n \in Nat \ {0}
    BY TopOf
  <2> QED
    BY <2>1
<1>3. /\ frames' \in Seq(Frame) /\ Len(frames') = n
      /\ \A k \in 1 .. n - 1 : frames'[k] = frames[k]
      /\ frames'[n].base = Top.base /\ frames'[n].end = Top.end /\ frames'[n].at = a
      /\ frames'[n].pipe_branch = taken /\ frames'[n].pipe_branch_delay = to
  <2>1. ASSUME NEW g, g = With(frames, a, taken, to)
        PROVE  /\ g \in Seq(Frame) /\ Len(g) = n
               /\ \A k \in 1 .. n - 1 : g[k] = frames[k]
               /\ g[n].base = Top.base /\ g[n].end = Top.end /\ g[n].at = a
               /\ g[n].pipe_branch = taken /\ g[n].pipe_branch_delay = to
    BY <1>2, <2>1, WithTop
  <2> QED
    BY <1>1, <2>1
<1>4. Top' = frames'[n]
  BY <1>3 DEF Top
<1>5. Top.end = DebugRegionEnd(imem, Top.base)
  BY TopOf
<1>6. FramesInv'
  <2>1. ASSUME NEW k \in 1 .. n PROVE FrameOK(frames[k])'
    <3>1. CASE k = n
      BY <1>3, <1>5, <3>1 DEF FrameOK, Keeps
    <3>2. CASE k # n
      <4>1. k \in 1 .. n - 1
        BY <1>2, <3>2
      <4>2. FrameOK(frames[k]) /\ frames'[k] = frames[k]
        BY <1>3, <4>1 DEF DebugInv, FramesInv
      <4> QED
        BY <4>2 DEF FrameOK, Keeps
    <3> QED
      BY <3>1, <3>2
  <2> QED
    BY <1>3, <2>1 DEF FramesInv
<1>7. frames' # <<>>
  BY <1>2, <1>3
<1>8. StateInv'
  BY <1>1, <1>7 DEF DebugInv, StateInv, Keeps
<1>9. LatentInv' /\ SuspendedInv'
  BY <1>1, <1>3 DEF DebugInv, LatentInv, SuspendedInv
<1>10. MirrorInv => MirrorInv'
  BY <1>1, <1>2, <1>3, <1>7 DEF MirrorInv
<1> QED
  BY <1>1, <1>3, <1>4, <1>6, <1>8, <1>9, <1>10 DEF DebugInv

\* Back to CPU::run.
LEMMA UnwindStep ==
  ASSUME DebugInv, Keeps, NEW to \in Word, Unwind(to),
         has_delay_slot' \in BOOLEAN, branch_target' \in Word
  PROVE  DebugInv' /\ MirrorInv' /\ phase' = "run" /\ pc' = to
<1>1. pc' = to /\ phase' = "run" /\ frames' = <<>> /\ call_stack' = <<>>
  BY DEF Unwind
<1>2. Len(<<>>) = 0 /\ <<>> \in Seq(Frame) /\ <<>> \in Seq(Word) /\ 0 <= CALL_STACK_SIZE
      /\ 1 .. 0 = {} /\ 1 .. 0 - 1 = {}
  BY DebugAssumption
<1>3. StateInv'
  BY <1>1, <1>2 DEF DebugInv, StateInv, Keeps
<1>4. FramesInv' /\ LatentInv' /\ SuspendedInv' /\ MirrorInv'
  BY <1>1, <1>2 DEF FramesInv, LatentInv, SuspendedInv, MirrorInv
<1> QED
  BY <1>1, <1>3, <1>4 DEF DebugInv

\* A new function is compiled, or found, for a word.
LEMMA NewFrameOK ==
  ASSUME DebugInv, NEW a \in Word
  PROVE  /\ NewFrame(a) \in Frame /\ FrameOK(NewFrame(a))
         /\ NewFrame(a).at = a /\ NewFrame(a).base = a
<1>1. DebugRegionEnd(imem, a) \in Nat /\ a \in Nat /\ a < DebugRegionEnd(imem, a)
  BY Imem, RegionFits DEF DebugInv, StateInv
<1> QED
  BY <1>1, Imem DEF NewFrame, Frame, FrameOK

\* The functions and the call stack without their last entry.
LEMMA WithoutLast ==
  ASSUME NEW S, NEW s \in Seq(S), s # <<>>
  PROVE  LET t == SubSeq(s, 1, Len(s) - 1)
         IN  /\ t \in Seq(S) /\ Len(t) = Len(s) - 1
             /\ \A k \in 1 .. Len(s) - 1 : t[k] = s[k]
<1> DEFINE L == Len(s) - 1
           t == SubSeq(s, 1, L)
<1>1. L \in Nat /\ L \in Int /\ 1 \in Int /\ \A k \in 1 .. L : s[k] \in S
  OBVIOUS
<1> HIDE DEF L
<1>2. /\ t \in Seq(S) /\ Len(t) = (IF 1 <= L THEN L - 1 + 1 ELSE 0)
      /\ \A k \in 1 .. L - 1 + 1 : t[k] = s[1 + k - 1]
  BY <1>1, SubSeqProperties
<1> HIDE DEF t
<1>3. Len(t) = L /\ L - 1 + 1 = L /\ \A k \in 1 .. L : 1 + k - 1 = k
  BY <1>1, <1>2
<1>4. t \in Seq(S) /\ Len(t) = L /\ \A k \in 1 .. L : t[k] = s[k]
  BY <1>2, <1>3
<1> QED
  BY <1>4 DEF t, L

\* A call: the caller waits behind its delay slot, the callee is entered.
LEMMA CallStep ==
  ASSUME DebugInv, AtInstruction, Keeps, NEW taken \in BOOLEAN, NEW to \in Word, Call(taken, to)
  PROVE  /\ DebugInv'
         /\ MirrorInv /\ AllRecorded' => MirrorInv'
         /\ phase' = "region" /\ Top' = NewFrame(Goes) /\ UNCHANGED latentVars /\ ~has_delay_slot
<1> DEFINE n == Len(frames)
           g == With(frames, Top.at + 1, FALSE, to)
           f == NewFrame(Goes)
<1>1. phase = "region" /\ Goes \in Word /\ Top.at < Top.end /\ Top.at > Top.base
  BY PendingOf DEF AtInstruction, Call, BranchDelay
<1>2. /\ frames \in Seq(Frame) /\ n \in Nat \ {0} /\ frames # <<>> /\ ~has_delay_slot
      /\ Top.at \in Nat /\ Top.base \in Nat /\ Top.end \in Nat
      /\ Top.end = DebugRegionEnd(imem, Top.base)
  BY <1>1, TopOf
<1>3. /\ f \in Frame /\ FrameOK(f)
  BY <1>1, NewFrameOK
<1>4. frames' = Append(g, f)
  BY DEF Call, With, Top
<1>5. /\ g \in Seq(Frame) /\ Len(g) = n
      /\ \A k \in 1 .. n - 1 : g[k] = frames[k]
      /\ g[n].base = Top.base /\ g[n].end = Top.end /\ g[n].at = Top.at + 1
      /\ g[n].pipe_branch = FALSE
  <2>1. PICK a \in Nat : a = Top.at + 1
    BY <1>2
  <2>2. PICK no \in BOOLEAN : no = FALSE
    OBVIOUS
  <2> DEFINE h == With(frames, a, no, to)
  <2>3. Top = frames[n] /\ g = h
    BY <2>1, <2>2 DEF Top
  <2>4. frames \in Seq(Frame) /\ frames # <<>>
    BY <1>2
  <2> HIDE DEF g
  <2>5. /\ g \in Seq(Frame) /\ Len(g) = Len(frames)
        /\ \A k \in 1 .. Len(frames) - 1 : g[k] = frames[k]
        /\ g[Len(frames)].base = frames[Len(frames)].base
        /\ g[Len(frames)].end = frames[Len(frames)].end
        /\ g[Len(frames)].at = a /\ g[Len(frames)].pipe_branch = no
    BY <2>3, <2>4, WithTop
  <2> HIDE DEF h
  <2> QED
    BY <2>1, <2>2, <2>3, <2>5
<1>6. /\ UNCHANGED <<phase, pc, has_delay_slot, branch_target>>
      /\ call_stack' = IF Len(call_stack) < CALL_STACK_SIZE
                       THEN Append(call_stack, (Top.at + 1) % ImemWords) ELSE call_stack
  BY DEF Call, latentVars
<1> HIDE DEF f, g
<1>7. /\ frames' \in Seq(Frame) /\ Len(frames') = n + 1 /\ frames'[n + 1] = f
      /\ \A k \in 1 .. n : frames'[k] = g[k]
  BY <1>2, <1>3, <1>4, <1>5
<1>8. (Top.at + 1) % ImemWords \in Word
  <2>1. Top.at + 1 \in Nat
    BY <1>2
  <2> QED
    BY <2>1, Imem
<1>9. frames' # <<>> /\ Len(frames') # 1
  BY <1>2, <1>7
<1>10. /\ call_stack \in Seq(Word) /\ Len(call_stack) <= CALL_STACK_SIZE
       /\ CALL_STACK_SIZE \in Nat /\ Len(call_stack) \in Nat
  BY DebugAssumption DEF DebugInv, StateInv
<1>11. StateInv'
  <2>1. call_stack' \in Seq(Word) /\ Len(call_stack') <= CALL_STACK_SIZE
    BY <1>6, <1>8, <1>10
  <2> QED
    BY <1>1, <1>6, <1>9, <2>1 DEF DebugInv, StateInv, Keeps
<1>12. FramesInv'
  <2>1. ASSUME NEW k \in 1 .. n + 1 PROVE FrameOK(frames[k])'
    <3>1. CASE k = n + 1
      BY <1>3, <1>7, <3>1 DEF FrameOK, Keeps
    <3>2. CASE k = n
      <4>1. frames'[k] = g[n]
        BY <1>2, <1>7, <3>2
      <4> QED
        BY <1>1, <1>2, <1>5, <4>1 DEF FrameOK, Keeps
    <3>3. CASE k # n /\ k # n + 1
      <4>1. k \in 1 .. n - 1 /\ k \in 1 .. n
        BY <1>2, <3>3
      <4>2. frames'[k] = frames[k] /\ FrameOK(frames[k])
        BY <1>5, <1>7, <4>1 DEF DebugInv, FramesInv
      <4> QED
        BY <4>2 DEF FrameOK, Keeps
    <3> QED
      BY <3>1, <3>2, <3>3
  <2> QED
    BY <1>7, <2>1 DEF FramesInv
<1>13. LatentInv'
  BY <1>2, <1>6 DEF LatentInv
<1>14. SuspendedInv'
  <2>1. ASSUME NEW k \in 1 .. n PROVE frames'[k].at > frames'[k].base /\ ~frames'[k].pipe_branch
    <3>1. CASE k = n
      BY <1>1, <1>2, <1>5, <1>7, <3>1
    <3>2. CASE k # n
      <4>1. k \in 1 .. n - 1
        BY <1>2, <3>2
      <4> QED
        BY <1>5, <1>7, <4>1 DEF DebugInv, SuspendedInv
    <3> QED
      BY <3>1, <3>2
  <2>2. Len(frames') - 1 = n
    BY <1>2, <1>7
  <2> QED
    BY <2>1, <2>2 DEF SuspendedInv
<1>15. ASSUME MirrorInv, AllRecorded' PROVE MirrorInv'
  <2>1. Len(call_stack) = n - 1 /\ \A k \in 1 .. n - 1 : call_stack[k] = frames[k].at % ImemWords
    BY <1>2, <1>15 DEF MirrorInv
  <2>2. n <= CALL_STACK_SIZE
    BY <1>2, <1>7, <1>10, <1>15 DEF AllRecorded
  <2>3. call_stack' = Append(call_stack, (Top.at + 1) % ImemWords)
    BY <1>2, <1>6, <1>10, <2>1, <2>2
  <2>4. /\ Len(call_stack') = n /\ call_stack'[n] = (Top.at + 1) % ImemWords
        /\ \A k \in 1 .. n - 1 : call_stack'[k] = call_stack[k]
    BY <1>2, <1>8, <1>10, <2>1, <2>3
  <2>5. ASSUME NEW k \in 1 .. n PROVE call_stack'[k] = frames'[k].at % ImemWords
    <3>1. CASE k = n
      BY <1>5, <1>7, <2>4, <3>1
    <3>2. CASE k # n
      <4>1. k \in 1 .. n - 1
        BY <1>2, <3>2
      <4> QED
        BY <1>5, <1>7, <2>1, <2>4, <4>1
    <3> QED
      BY <3>1, <3>2
  <2>6. Len(frames') - 1 = n
    BY <1>2, <1>7
  <2> QED
    BY <1>9, <2>4, <2>5, <2>6 DEF MirrorInv
<1>16. Top' = f
  BY <1>7 DEF Top
<1> QED
  BY <1>1, <1>2, <1>6, <1>11, <1>12, <1>13, <1>14, <1>15, <1>16 DEF DebugInv, latentVars, f

\* A return that the call stack knows of: the C function returns to its caller.
LEMMA LeaveStep ==
  ASSUME DebugInv, phase = "region", Keeps, LeaveFunction,
         call_stack' = SubSeq(call_stack, 1, Len(call_stack) - 1)
  PROVE  /\ DebugInv'
         /\ MirrorInv => MirrorInv'
         /\ MirrorInv /\ call_stack # <<>> =>
              /\ phase' = "region" /\ ~has_delay_slot'
              /\ Top'.at % ImemWords = call_stack[Len(call_stack)]
              /\ Top'.at > Top'.base /\ ~Top'.pipe_branch
<1> DEFINE n == Len(frames)
           m == Len(call_stack)
<1>1. /\ frames \in Seq(Frame) /\ n \in Nat \ {0} /\ frames # <<>>
      /\ n > 1 => ~has_delay_slot
  BY TopOf
<1>2. /\ frames' = SubSeq(frames, 1, n - 1) /\ UNCHANGED <<pc, has_delay_slot, branch_target>>
      /\ phase' = IF n = 1 THEN "run" ELSE "region"
  BY DEF LeaveFunction, latentVars
<1>3. /\ frames' \in Seq(Frame) /\ Len(frames') = n - 1
      /\ \A k \in 1 .. n - 1 : frames'[k] = frames[k]
  BY <1>1, <1>2, WithoutLast
<1>4. /\ call_stack \in Seq(Word) /\ m \in Nat /\ m <= CALL_STACK_SIZE
      /\ CALL_STACK_SIZE \in Nat /\ (m = 0 <=> call_stack = <<>>)
  BY DebugAssumption DEF DebugInv, StateInv
<1>5. /\ call_stack' \in Seq(Word) /\ Len(call_stack') = IF m = 0 THEN 0 ELSE m - 1
      /\ \A k \in 1 .. m - 1 : call_stack'[k] = call_stack[k]
  <2>1. CASE m = 0
    BY <1>4, <2>1
  <2>2. CASE m # 0
    BY <1>4, <2>2, WithoutLast
  <2> QED
    BY <2>1, <2>2
<1>6. frames' = <<>> <=> n = 1
  BY <1>1, <1>3
<1> HIDE DEF n, m
<1>7. StateInv'
  <2>1. Len(call_stack') <= CALL_STACK_SIZE
    BY <1>4, <1>5
  <2> QED
    BY <1>2, <1>5, <1>6, <2>1 DEF DebugInv, StateInv, Keeps
<1>8. \A k \in 1 .. n - 1 : k \in 1 .. n /\ frames'[k] = frames[k] /\ FrameOK(frames[k])
  BY <1>1, <1>3 DEF DebugInv, FramesInv, n
<1>9. FramesInv'
  BY <1>3, <1>8 DEF FramesInv, FrameOK, Keeps
<1>10. LatentInv'
  BY <1>1, <1>2, <1>6 DEF LatentInv
<1>11. \A k \in 1 .. n - 1 : frames[k].at > frames[k].base /\ ~frames[k].pipe_branch
  BY DEF DebugInv, SuspendedInv, n
<1>12. SuspendedInv'
  <2>1. \A k \in 1 .. (n - 1) - 1 : k \in 1 .. n - 1
    BY <1>1
  <2> QED
    BY <1>3, <1>11, <2>1 DEF SuspendedInv
<1>13. MirrorInv => m = n - 1 /\ \A k \in 1 .. n - 1 : call_stack[k] = frames[k].at % ImemWords
  BY <1>1 DEF MirrorInv, n, m
<1>14. ASSUME MirrorInv PROVE MirrorInv'
  <2>1. m = n - 1 /\ \A k \in 1 .. n - 1 : call_stack[k] = frames[k].at % ImemWords
    BY <1>13, <1>14
  <2>4. ASSUME NEW k \in 1 .. (n - 1) - 1 PROVE call_stack'[k] = frames'[k].at % ImemWords
    <3>1. k \in 1 .. n - 1 /\ k \in 1 .. m - 1
      BY <1>1, <2>1
    <3> QED
      BY <1>3, <1>5, <2>1, <3>1
  <2>5. Len(call_stack') = IF frames' = <<>> THEN 0 ELSE Len(frames') - 1
    BY <1>1, <1>3, <1>4, <1>5, <1>6, <2>1
  <2> QED
    BY <1>3, <2>4, <2>5 DEF MirrorInv
<1>15. ASSUME MirrorInv, call_stack # <<>>
       PROVE  /\ phase' = "region" /\ ~has_delay_slot'
              /\ Top'.at % ImemWords = call_stack[m]
              /\ Top'.at > Top'.base /\ ~Top'.pipe_branch
  <2>1. m = n - 1 /\ \A k \in 1 .. n - 1 : call_stack[k] = frames[k].at % ImemWords
    BY <1>13, <1>15
  <2>2. n > 1 /\ n - 1 \in 1 .. n - 1
    BY <1>1, <1>4, <1>15, <2>1
  <2>3. Top' = frames[n - 1]
    BY <1>3, <2>2 DEF Top
  <2> QED
    BY <1>1, <1>2, <1>11, <2>1, <2>2, <2>3
<1> QED
  BY <1>7, <1>9, <1>10, <1>12, <1>14, <1>15 DEF DebugInv, m

-----------------------------------------------------------------------------
(***************************************************************************)
(* The invariant is preserved.                                             *)
(***************************************************************************)

\* The branch that stays pending has a target.
LEMMA Promotes ==
  ASSUME branch_target \in Word, NEW taken \in BOOLEAN, NEW to \in Word, NEW otherwise \in BOOLEAN,
         Promote(taken, to, otherwise)
  PROVE  has_delay_slot' \in BOOLEAN /\ branch_target' \in Word
BY DEF Promote

\* The next instruction of the region.
LEMMA NextInStep ==
  ASSUME DebugInv, AtInstruction, Keeps, NEW taken \in BOOLEAN, NEW to \in Word,
         NextIn(taken, to), ~has_delay_slot
  PROVE  /\ DebugInv' /\ (MirrorInv => MirrorInv')
         /\ Top'.base = Top.base /\ Top'.end = Top.end /\ Top'.at = Top.at + 1
         /\ Top'.pipe_branch = taken /\ Top'.pipe_branch_delay = to
         /\ phase' = "region" /\ ~has_delay_slot'
<1>1. /\ phase = "region" /\ Top.at \in Nat /\ Top.base \in Nat /\ Top.end \in Nat
      /\ Top.base <= Top.at /\ Top.at < Top.end
  BY TopOf DEF AtInstruction
<1>2. Top.at + 1 \in Nat /\ Top.at + 1 >= Top.base /\ Top.at + 1 <= Top.end
  BY <1>1
<1> QED
  BY <1>1, <1>2, GotoStep DEF NextIn

\* Nothing is pending where CHECK_BRANCH_DELAY has nothing to do.
LEMMA NotLatent ==
  ASSUME DebugInv, AtInstruction
  PROVE  /\ \A taken, to : NoBranchDelay(taken, to) => ~has_delay_slot
         /\ BranchDelay => ~has_delay_slot
<1>1. /\ phase = "region" /\ Top.at \in Nat /\ Top.base \in Nat /\ Top.base <= Top.at
      /\ Top.at > Top.base => ~has_delay_slot
  BY TopOf DEF AtInstruction
<1> QED
  BY <1>1 DEF NoBranchDelay, BranchDelay

\* One instruction and the glue after it.
LEMMA InstructionStep ==
  ASSUME DebugInv, Instruction
  PROVE  DebugInv' /\ (MirrorInv /\ AllRecorded' => MirrorInv')
<1>1. AtInstruction /\ phase = "region"
  BY DEF Instruction, AtInstruction
<1>2. Keeps
  BY <1>1, InsOf DEF Instruction, Keeps
<1> DEFINE to == DelayAfter(ra')
<1>3. to \in Word /\ Goes \in Word /\ branch_target \in Word /\ has_delay_slot \in BOOLEAN
  BY <1>1, <1>2, InsOf, PendingOf DEF Keeps, DebugInv, StateInv
<1> HIDE DEF to
<1>4. PICK taken \in Outcomes(Ins.op) :
        \/ InheritBranchDelay(taken, to) \/ NoBranchDelay(taken, to) \/ Call(taken, to)
        \/ Return(taken, to) \/ Branch(taken, to)
  BY DEF Instruction, to
<1>5. taken \in BOOLEAN /\ (IF Piped.local THEN Piped.target ELSE to) \in Word
  BY <1>1, <1>3, InsOf
<1>6. CASE InheritBranchDelay(taken, to)
  <2>1. Unwind(branch_target) /\ PromotePiped(taken, to, FALSE)
    BY <1>6 DEF InheritBranchDelay
  <2>2. has_delay_slot' \in BOOLEAN /\ branch_target' \in Word
    BY <1>3, <1>5, <2>1, Promotes DEF PromotePiped
  <2> QED
    BY <1>2, <1>3, <2>1, <2>2, UnwindStep
<1>7. CASE NoBranchDelay(taken, to)
  BY <1>1, <1>2, <1>3, <1>5, <1>7, NotLatent, NextInStep DEF NoBranchDelay
<1>8. CASE Call(taken, to)
  BY <1>1, <1>2, <1>3, <1>5, <1>8, CallStep
<1>9. CASE Return(taken, to)
  <2>1. ASSUME LeaveFunction, call_stack' = SubSeq(call_stack, 1, Len(call_stack) - 1)
        PROVE  DebugInv' /\ (MirrorInv => MirrorInv')
    BY <1>1, <1>2, <2>1, LeaveStep
  <2>2. ASSUME Unwind(Goes), UNCHANGED latentVars
        PROVE  DebugInv' /\ (MirrorInv => MirrorInv')
    <3>1. UNCHANGED <<has_delay_slot, branch_target>>
      BY <2>2 DEF latentVars
    <3> QED
      BY <1>2, <1>3, <2>2, <3>1, UnwindStep
  <2> QED
    BY <1>9, <2>1, <2>2 DEF Return
<1>10. CASE Branch(taken, to)
  <2>1. /\ ~has_delay_slot /\ Pending.target \in Word
        /\ Pending.local => Pending.target >= Top.base /\ Pending.target < Top.end
    BY <1>1, <1>10, NotLatent, PendingOf DEF Branch
  <2>2. Pending.target \in Nat /\ Top.base \in Nat /\ Top.end \in Nat
    BY <1>1, <2>1, Imem, TopOf
  <2>3. CASE Pending.local /\ Piped.branch /\ taken
    <3>1. Unwind(Pending.target) /\ Promote(taken, to, has_delay_slot)
      BY <1>10, <2>3 DEF Branch
    <3>2. has_delay_slot' \in BOOLEAN /\ branch_target' \in Word
      BY <1>3, <1>5, <3>1, Promotes
    <3> QED
      BY <1>2, <2>1, <3>1, <3>2, UnwindStep
  <2>4. CASE Pending.local /\ ~(Piped.branch /\ taken)
    <3>1. Goto(Pending.target, taken, to)
      BY <1>10, <2>4 DEF Branch
    <3>2. Pending.target <= Top.end
      BY <2>1, <2>2, <2>4
    <3> QED
      BY <1>1, <1>2, <1>3, <1>5, <2>1, <2>2, <2>4, <3>1, <3>2, GotoStep
  <2>5. CASE ~Pending.local
    <3>1. Unwind(Goes) /\ PromotePiped(taken, to, has_delay_slot)
      BY <1>10, <2>5 DEF Branch
    <3>2. has_delay_slot' \in BOOLEAN /\ branch_target' \in Word
      BY <1>3, <1>5, <3>1, Promotes DEF PromotePiped
    <3> QED
      BY <1>2, <1>3, <3>1, <3>2, UnwindStep
  <2> QED
    BY <2>3, <2>4, <2>5
<1> QED
  BY <1>4, <1>6, <1>7, <1>8, <1>9, <1>10

\* Falling off the end of a region.
LEMMA EndOfBlockStep ==
  ASSUME DebugInv, EndOfBlock
  PROVE  DebugInv' /\ MirrorInv'
<1>1. /\ phase = "region" /\ Top.at = Top.end /\ Unwind(Top.end % ImemWords) /\ Keeps
      /\ Promote(Pending.branch /\ Top.pipe_branch, Goes, has_delay_slot)
  BY DEF EndOfBlock, Keeps, DebugInv, StateInv
<1>2. /\ Top.end % ImemWords \in Word /\ Goes \in Word /\ branch_target \in Word
      /\ has_delay_slot \in BOOLEAN /\ (Pending.branch /\ Top.pipe_branch) \in BOOLEAN
  BY <1>1, TopOf, PendingOf, Imem DEF DebugInv, StateInv
<1>3. has_delay_slot' \in BOOLEAN /\ branch_target' \in Word
  BY <1>1, <1>2, Promotes
<1> QED
  BY <1>1, <1>2, <1>3, UnwindStep

\* BREAK, or a coprocessor access that leaves the code.
LEMMA ExitStep ==
  ASSUME DebugInv, Exit
  PROVE  DebugInv' /\ MirrorInv'
<1>1. /\ AtInstruction /\ phase' = "host" /\ pc' = ExitPc /\ frames' = <<>> /\ call_stack' = <<>>
      /\ has_delay_slot' = (Pending.branch /\ has_delay_slot)
      /\ UNCHANGED <<imem, branch_target, ra>>
  BY DEF Exit
<1>2. ExitPc \in Word
  <2>1. phase = "region" /\ Top.at + 1 \in Nat
    BY <1>1, TopOf DEF AtInstruction
  <2>2. Succ(Top.at) \in Word
    BY <2>1, Imem DEF Succ
  <2>3. Goes \in Word /\ branch_target \in Word
    BY <2>1, PendingOf DEF DebugInv, StateInv
  <2> QED
    BY <2>2, <2>3 DEF ExitPc
<1>3. Len(<<>>) = 0 /\ <<>> \in Seq(Frame) /\ <<>> \in Seq(Word) /\ 0 <= CALL_STACK_SIZE
      /\ 1 .. 0 = {} /\ 1 .. 0 - 1 = {}
  BY DebugAssumption
<1>4. has_delay_slot' \in BOOLEAN
  BY <1>1
<1>5. StateInv'
  BY <1>1, <1>2, <1>3, <1>4 DEF DebugInv, StateInv
<1>6. FramesInv' /\ LatentInv' /\ SuspendedInv' /\ MirrorInv'
  BY <1>1, <1>3 DEF FramesInv, LatentInv, SuspendedInv, MirrorInv
<1> QED
  BY <1>5, <1>6 DEF DebugInv

\* CPU::run enters a region.
LEMMA EnterStep ==
  ASSUME DebugInv, Enter
  PROVE  DebugInv' /\ (MirrorInv => MirrorInv') /\ Top' = NewFrame(pc)
<1>1. /\ phase = "run" /\ phase' = "region" /\ frames' = <<NewFrame(pc)>>
      /\ UNCHANGED <<imem, pc, has_delay_slot, branch_target, ra, call_stack>>
  BY DEF Enter, latentVars
<1>2. pc \in Word /\ frames = <<>>
  BY <1>1 DEF DebugInv, StateInv
<1>3. /\ NewFrame(pc) \in Frame /\ FrameOK(NewFrame(pc))
      /\ NewFrame(pc).at = pc /\ NewFrame(pc).base = pc
  BY <1>2, NewFrameOK
<1>4. /\ frames' \in Seq(Frame) /\ Len(frames') = 1 /\ frames'[1] = NewFrame(pc)
      /\ frames' # <<>> /\ 1 .. 1 - 1 = {}
  BY <1>1, <1>3
<1>5. StateInv'
  BY <1>1, <1>4 DEF DebugInv, StateInv
<1>6. FramesInv'
  <2>1. FrameOK(frames[1])'
    BY <1>1, <1>3, <1>4 DEF FrameOK
  <2>2. \A k \in 1 .. Len(frames') : k = 1
    BY <1>4
  <2> QED
    BY <1>4, <2>1, <2>2 DEF FramesInv
<1>7. LatentInv' /\ SuspendedInv' /\ (MirrorInv => MirrorInv')
  BY <1>1, <1>2, <1>3, <1>4 DEF LatentInv, SuspendedInv, MirrorInv
<1> QED
  BY <1>4, <1>5, <1>6, <1>7 DEF DebugInv, Top

\* The emulator starts the RSP.
LEMMA ResumeStep ==
  ASSUME DebugInv, NEW start \in Word, Resume(start)
  PROVE  DebugInv' /\ (MirrorInv => MirrorInv')
<1>1. /\ phase = "host" /\ phase' = "run" /\ pc' = start
      /\ UNCHANGED <<imem, has_delay_slot, branch_target, ra, frames, call_stack>>
  BY DEF Resume, latentVars
<1> QED
  BY <1>1 DEF DebugInv, StateInv, FramesInv, FrameOK, LatentInv, SuspendedInv, MirrorInv

\* Every step.
LEMMA NextStep ==
  ASSUME DebugInv, [Next]_vars
  PROVE  DebugInv' /\ (MirrorInv /\ AllRecorded' => MirrorInv')
<1>1. CASE UNCHANGED vars
  <2>1. UNCHANGED <<imem, phase, pc, has_delay_slot, branch_target, ra, frames, call_stack>>
    BY <1>1 DEF vars, latentVars
  <2> QED
    BY <2>1 DEF DebugInv, StateInv, FramesInv, FrameOK, LatentInv, SuspendedInv, MirrorInv
<1> QED
  BY <1>1, InstructionStep, EndOfBlockStep, ExitStep, EnterStep, ResumeStep DEF Next

\* The first state.
LEMMA InitHolds ==
  ASSUME Init
  PROVE  DebugInv /\ MirrorInv
<1>1. /\ imem \in [Word -> Instructions] /\ 0 \in Word /\ 0 <= CALL_STACK_SIZE
      /\ Len(<<>>) = 0 /\ <<>> \in Seq(Frame) /\ <<>> \in Seq(Word) /\ 1 .. 0 = {} /\ 1 .. 0 - 1 = {}
  BY DebugAssumption, Imem DEF Init
<1> QED
  BY <1>1 DEF Init, DebugInv, StateInv, FramesInv, LatentInv, SuspendedInv, MirrorInv

\* The invariant implies the types.
LEMMA Typed ==
  ASSUME DebugInv
  PROVE  TypeOK
<1>1. /\ imem \in [Word -> Instructions] /\ phase \in {"host", "run", "region"}
      /\ {pc, branch_target, ra} \subseteq Word /\ has_delay_slot \in BOOLEAN
      /\ (frames # <<>>) = (phase = "region")
      /\ call_stack \in Seq(Word) /\ Len(call_stack) <= CALL_STACK_SIZE
  BY DEF DebugInv, StateInv
<1>2. ASSUME NEW k \in 1 .. Len(frames)
      PROVE  /\ frames[k].base \in Word /\ frames[k].at \in frames[k].base .. frames[k].end
             /\ frames[k].pipe_branch \in BOOLEAN /\ frames[k].pipe_branch_delay \in Word
  <2>1. frames[k] \in Frame /\ FrameOK(frames[k])
    BY DEF DebugInv, FramesInv
  <2>2. /\ frames[k].base \in Word /\ frames[k].base \in Nat /\ frames[k].end \in Nat
        /\ frames[k].at \in Nat
        /\ frames[k].pipe_branch \in BOOLEAN /\ frames[k].pipe_branch_delay \in Word
    BY <2>1, Imem DEF Frame
  <2> QED
    BY <2>1, <2>2 DEF FrameOK
<1> QED
  BY <1>1, <1>2 DEF TypeOK

\* For every program and every depth of nesting: the locals of the functions, the
\* inherited branch and the call stack keep their types, and no more calls are
\* remembered than call_stack has room for.
THEOREM TypeCorrect == Spec => []TypeOK
<1>1. Init => DebugInv
  BY InitHolds
<1>2. DebugInv /\ [Next]_vars => DebugInv'
  BY NextStep
<1>3. DebugInv => TypeOK
  BY Typed
<1> QED
  BY <1>1, <1>2, <1>3, PTL DEF Spec

\* As long as no call goes unrecorded, for every program: the call stack mirrors
\* the host's stack, so RSP_RETURN asks whether its caller is where the JR goes.
THEOREM CallStackExact ==
  Spec /\ [](Len(frames) <= CALL_STACK_SIZE + 1) => []CallStackMirrorsFrames
<1>1. Init => DebugInv /\ MirrorInv
  BY InitHolds
<1>2. DebugInv /\ MirrorInv /\ [Next]_vars /\ AllRecorded' => (DebugInv /\ MirrorInv)'
  BY NextStep
<1>3. DebugInv /\ MirrorInv => CallStackMirrorsFrames
  <2> SUFFICES ASSUME DebugInv, MirrorInv PROVE CallStackMirrorsFrames
    OBVIOUS
  <2>1. TypeOK
    BY Typed
  <2>2. call_stack \in Seq(Word) /\ frames \in Seq(Frame)
    BY DEF DebugInv, StateInv, FramesInv
  <2> DEFINE n == Len(frames)
             mirror == [k \in 1 .. n - 1 |-> frames[k].at % ImemWords]
  <2>3. n \in Nat /\ (frames = <<>> <=> n = 0)
    BY <2>2
  <2>4. call_stack = [k \in 1 .. Len(call_stack) |-> call_stack[k]]
    BY <2>2
  <2>5. 1 .. Len(call_stack) = 1 .. n - 1
    BY <2>3 DEF MirrorInv
  <2>6. \A k \in 1 .. n - 1 : call_stack[k] = mirror[k]
    BY DEF MirrorInv
  <2>7. call_stack = mirror
    BY <2>4, <2>5, <2>6
  <2> QED
    BY <2>1, <2>7 DEF CallStackMirrorsFrames
<1>4. Len(frames) <= CALL_STACK_SIZE + 1 => AllRecorded
  BY DEF AllRecorded
<1> QED
  BY <1>1, <1>2, <1>3, <1>4, PTL DEF Spec

-----------------------------------------------------------------------------
(***************************************************************************)
(* The refinement: what the emitted code does for a program it translates  *)
(* is what RspIsa allows.                                                  *)
(***************************************************************************)

\* RspIsa's own copies of the operators of RegionAnalysis.
LEMMA SameOperators ==
  /\ Guest!Word = Word /\ Guest!Instructions = Instructions /\ Guest!IndirectOps = IndirectOps
  /\ \A a : Guest!Succ(a) = Succ(a)
  /\ \A op : Guest!Outcomes(op) = Outcomes(op)
  /\ \A op, a, r : Guest!Linked(op, a, r) = Linked(op, a, r)
<1>1. Guest!Word = Word /\ Guest!ImemWords = ImemWords
  BY DEF Guest!Word, Word, Guest!ImemWords, ImemWords
<1>2. /\ Guest!ComputedOps = ComputedOps /\ Guest!JumpOps = JumpOps /\ Guest!IndirectOps = IndirectOps
      /\ Guest!LinkOps = LinkOps /\ Guest!PlainOps = PlainOps /\ Guest!RelativeOps = RelativeOps
      /\ Guest!DirectOps = DirectOps
  BY DEF Guest!ComputedOps, ComputedOps, Guest!JumpOps, JumpOps, Guest!IndirectOps, IndirectOps,
         Guest!LinkOps, LinkOps, Guest!PlainOps, PlainOps, Guest!RelativeOps, RelativeOps,
         Guest!DirectOps, DirectOps
<1>3. Guest!Instructions = Instructions
  BY <1>1, <1>2 DEF Guest!Instructions, Instructions
<1>4. \A a : Guest!Succ(a) = Succ(a) /\ Guest!Link(a) = Link(a)
  BY <1>1 DEF Guest!Succ, Succ, Guest!Link, Link
<1>5. \A op : Guest!Outcomes(op) = Outcomes(op)
  BY <1>2 DEF Guest!Outcomes, Outcomes
<1>6. \A op, a, r : Guest!Linked(op, a, r) = Linked(op, a, r)
  BY <1>1, <1>2, <1>4 DEF Guest!Linked, Linked
<1> QED
  BY <1>1, <1>2, <1>3, <1>4, <1>5, <1>6

\* The program has none of the shapes the emitted code gets wrong.
TranslatedInv == imem \in Translated(Programs)

\* Where the instruction about to run branches to.
Target == IF Ins.op \in IndirectOps THEN ra ELSE Ins.target

\* The guest is at the instruction the code is about to run, with the branch
\* pending that the code will find.
LEMMA GuestAt ==
  ASSUME DebugInv, AtInstruction
  PROVE  /\ GuestPc = Top.at /\ imem[GuestPc] = Ins
         /\ Top.at = Top.base => GuestDelay = IF has_delay_slot THEN branch_target ELSE NoTarget
         /\ Top.at > Top.base => GuestDelay = IF BranchDelay THEN Goes ELSE NoTarget
         /\ Top.at = Top.base /\ has_delay_slot => GuestDelay # NoTarget
         /\ BranchDelay => GuestDelay = Goes /\ GuestDelay # NoTarget
<1>1. phase = "region" /\ Top.at \in Word /\ Goes \in Word /\ branch_target \in Word
  BY InsOf, PendingOf DEF DebugInv, StateInv
<1>2. Top.at % ImemWords = Top.at /\ Top.at \in Nat /\ Top.base \in Nat
  BY <1>1, Imem, TopOf
<1>3. GuestPc = Top.at /\ imem[GuestPc] = Ins
  BY <1>1, <1>2 DEF GuestPc, Ins
<1>4. Top.at > Top.base => GuestDelay = IF BranchDelay THEN Goes ELSE NoTarget
  BY <1>1 DEF GuestDelay, BranchDelay, Taken
<1>5. Top.at = Top.base => GuestDelay = IF has_delay_slot THEN branch_target ELSE NoTarget
  BY <1>1, <1>2 DEF GuestDelay
<1>6. BranchDelay => Top.at > Top.base
  BY DEF BranchDelay
<1> QED
  BY <1>1, <1>3, <1>4, <1>5, <1>6, DebugAssumption

\* What is to be shown of an instruction of the code.
LEMMA Executes ==
  ASSUME DebugInv, AtInstruction, Ins.op # "BREAK", NEW taken \in Outcomes(Ins.op),
         imem' = imem, ra' \in Linked(Ins.op, Top.at, ra), phase' # "host",
         GuestPc' = IF GuestDelay = NoTarget THEN Succ(GuestPc) ELSE GuestDelay,
         GuestDelay' = IF taken THEN Target ELSE NoTarget
  PROVE  Guest!Execute
<1>1. GuestPc = Top.at /\ imem[GuestPc] = Ins /\ phase = "region"
  BY GuestAt DEF AtInstruction
<1>2. taken \in BOOLEAN
  BY InsOf
<1>3. GuestDelay' = IF ~taken THEN NoTarget
                    ELSE IF imem[GuestPc].op \in IndirectOps THEN ra ELSE imem[GuestPc].target
  BY <1>1, <1>2 DEF Target
<1>4. Guest!NextPc = IF GuestDelay = NoTarget THEN Succ(GuestPc) ELSE GuestDelay
  BY SameOperators DEF Guest!NextPc
<1>5. /\ Guest!Outcomes(imem[GuestPc].op) = Outcomes(Ins.op)
      /\ Guest!Linked(imem[GuestPc].op, GuestPc, ra) = Linked(Ins.op, Top.at, ra)
  BY <1>1, SameOperators
<1> QED
  BY <1>1, <1>3, <1>4, <1>5, SameOperators DEF Guest!Execute

\* The emitted code computes the branch's target, unless a JALR links the
\* register it jumps through.
LEMMA TargetComputed ==
  ASSUME DebugInv, TranslatedInv, AtInstruction, ra' \in Linked(Ins.op, Top.at, ra), Piped.branch
  PROVE  (IF Piped.local THEN Piped.target ELSE DelayAfter(ra')) = Target
<1>1. /\ Top.at \in Word /\ Ins \in Instructions /\ Piped.local \in BOOLEAN
      /\ Piped.target = Ins.target /\ (Piped.local => Ins.op \notin IndirectOps)
  BY InsOf
<1>2. Ins.op # "JALR"
  BY <1>1 DEF TranslatedInv, Translated, Ins
<1>3. Ins.op \in IndirectOps => ra' = ra
  <2> SUFFICES ASSUME Ins.op \in IndirectOps PROVE ra' = ra
    OBVIOUS
  <2>1. Ins.op \notin LinkOps /\ Ins.op # "LWRA"
    BY <1>2 DEF IndirectOps, LinkOps
  <2> QED
    BY <2>1 DEF Linked
<1> QED
  BY <1>1, <1>3 DEF DelayAfter, Target

\* The code goes on in its function: a branch is pending when one was taken.
LEMMA RunsOn ==
  ASSUME DebugInv, AtInstruction, imem' = imem, NEW taken \in BOOLEAN, NEW to \in Word,
         phase' = "region", Top'.base = Top.base, Top'.end = Top.end, Top'.at = Top.at + 1,
         Top'.pipe_branch = taken, Top'.pipe_branch_delay = to, taken => Piped.branch
  PROVE  /\ GuestPc' = Succ(GuestPc)
         /\ GuestDelay' = IF taken THEN (IF Piped.local THEN Piped.target ELSE to) ELSE NoTarget
<1>1. Top.at \in Nat /\ Top.base \in Nat /\ Top.base <= Top.at /\ GuestPc = Top.at
  BY TopOf, GuestAt DEF AtInstruction
<1>2. Top'.at > Top'.base /\ Top'.at # Top'.base /\ Top'.at - 1 = Top.at
  BY <1>1
<1>3. Pending' = Piped
  <2>1. Pending' = Pipe(imem'[Top'.at - 1], Top'.base, Top'.end)
    BY <1>2 DEF Pending, PipeAt
  <2> QED
    BY <1>2, <2>1 DEF Piped, PipeAt
<1>4. Goes' = IF Piped.local THEN Piped.target ELSE to
  BY <1>3 DEF Goes
<1>5. GuestDelay' = IF Pending'.branch /\ Top'.pipe_branch THEN Goes' ELSE NoTarget
  BY <1>2 DEF GuestDelay
<1>6. GuestPc' = Succ(GuestPc)
  BY <1>1 DEF GuestPc, Succ
<1> QED
  BY <1>3, <1>4, <1>5, <1>6

\* The code unwinds to CPU::run.
LEMMA Unwound ==
  ASSUME NEW to, Unwind(to)
  PROVE  /\ phase' # "host" /\ GuestPc' = to
         /\ GuestDelay' = IF has_delay_slot' THEN branch_target' ELSE NoTarget
BY DEF Unwind, GuestPc, GuestDelay

\* An instruction of the emitted code, unless the answer of CPU::ret is lost, is an
\* instruction of the guest.
LEMMA InstructionRefines ==
  ASSUME DebugInv, MirrorInv, TranslatedInv, Instruction, ~Misled
  PROVE  Guest!Execute
<1>1. /\ AtInstruction /\ phase = "region" /\ Ins.op # "BREAK" /\ imem' = imem
      /\ ra' \in Linked(Ins.op, Top.at, ra)
  BY DEF Instruction, AtInstruction
<1>2. Keeps
  BY <1>1, InsOf DEF Keeps
<1> DEFINE to == DelayAfter(ra')
           goal == IF Piped.local THEN Piped.target ELSE to
           NextPc == IF GuestDelay = NoTarget THEN Succ(GuestPc) ELSE GuestDelay
<1>3. to \in Word /\ Goes \in Word /\ branch_target \in Word /\ has_delay_slot \in BOOLEAN
  BY <1>1, <1>2, InsOf, PendingOf DEF Keeps, DebugInv, StateInv
<1>4. Piped.branch => goal = Target
  BY <1>1, TargetComputed
<1> HIDE DEF to
<1>5. PICK taken \in Outcomes(Ins.op) :
        \/ InheritBranchDelay(taken, to) \/ NoBranchDelay(taken, to) \/ Call(taken, to)
        \/ Return(taken, to) \/ Branch(taken, to)
  BY DEF Instruction, to
<1>6. taken \in BOOLEAN /\ (taken => Piped.branch)
  BY <1>1, InsOf
<1>7. SUFFICES /\ phase' # "host" /\ GuestPc' = NextPc
               /\ GuestDelay' = IF taken THEN Target ELSE NoTarget
  BY <1>1, Executes
<1>8. /\ Top.at \in Nat /\ Top.base \in Nat /\ Top.end \in Nat
      /\ Top.base <= Top.at /\ Top.at < Top.end
  BY <1>1, TopOf DEF AtInstruction
<1>9. /\ BranchDelay => NextPc = Goes /\ ~has_delay_slot
      /\ Top.at = Top.base /\ has_delay_slot => NextPc = branch_target
      /\ Top.at = Top.base /\ ~has_delay_slot => NextPc = Succ(GuestPc)
      /\ Top.at > Top.base /\ ~BranchDelay => NextPc = Succ(GuestPc)
  BY <1>1, GuestAt, NotLatent
<1>10. ASSUME NEW other, Promote(taken, goal, FALSE), Unwind(other)
       PROVE  /\ phase' # "host" /\ GuestPc' = other
              /\ GuestDelay' = IF taken THEN Target ELSE NoTarget
  <2>1. /\ phase' # "host" /\ GuestPc' = other
        /\ GuestDelay' = IF has_delay_slot' THEN branch_target' ELSE NoTarget
    BY <1>10, Unwound
  <2>2. has_delay_slot' = taken /\ (taken => branch_target' = goal)
    BY <1>6, <1>10 DEF Promote
  <2> QED
    BY <1>4, <1>6, <2>1, <2>2
<1> HIDE DEF goal, NextPc
<1>11. CASE InheritBranchDelay(taken, to)
  <2>1. /\ Top.at = Top.base /\ has_delay_slot /\ Unwind(branch_target)
        /\ Promote(taken, goal, FALSE)
    BY <1>11 DEF InheritBranchDelay, PromotePiped, goal
  <2> QED
    BY <1>9, <1>10, <2>1
<1>12. CASE NoBranchDelay(taken, to)
  <2>1. NextIn(taken, to) /\ ~has_delay_slot
    BY <1>1, <1>12, NotLatent DEF NoBranchDelay
  <2>2. /\ Top'.base = Top.base /\ Top'.end = Top.end /\ Top'.at = Top.at + 1
        /\ Top'.pipe_branch = taken /\ Top'.pipe_branch_delay = to /\ phase' = "region"
    BY <1>1, <1>2, <1>3, <1>6, <2>1, NextInStep
  <2>3. GuestPc' = Succ(GuestPc) /\ GuestDelay' = IF taken THEN goal ELSE NoTarget
    BY <1>1, <1>3, <1>6, <2>2, RunsOn DEF goal
  <2>4. NextPc = Succ(GuestPc)
    BY <1>8, <1>9, <1>12, <2>1 DEF NoBranchDelay, BranchDelay
  <2> QED
    BY <1>4, <1>6, <2>2, <2>3, <2>4
<1>13. CASE Call(taken, to)
  <2>1. BranchDelay /\ ~taken
    BY <1>6, <1>13 DEF Call
  <2>2. /\ phase' = "region" /\ Top' = NewFrame(Goes) /\ ~has_delay_slot'
    BY <1>1, <1>2, <1>3, <1>6, <1>13, CallStep DEF latentVars
  <2>3. Top'.at = Goes /\ Top'.base = Goes /\ Goes \in Nat /\ Goes % ImemWords = Goes
    BY <1>3, <2>2, NewFrameOK, Imem
  <2>4. GuestPc' = Goes /\ GuestDelay' = NoTarget
    BY <2>2, <2>3 DEF GuestPc, GuestDelay
  <2> QED
    BY <1>9, <2>1, <2>2, <2>4
<1>14. CASE Return(taken, to)
  <2>1. BranchDelay /\ ~taken /\ Pending.kind = "return" /\ ~Piped.branch
    BY <1>6, <1>14 DEF Return
  <2>2. CASE LeaveFunction /\ call_stack' = SubSeq(call_stack, 1, Len(call_stack) - 1)
    <3>1. call_stack # <<>> /\ call_stack[Len(call_stack)] = Goes
      BY <1>1, <2>1, <2>2 DEF Misled, ReturnMatches
    <3>2. /\ phase' = "region" /\ ~has_delay_slot' /\ Top'.at % ImemWords = Goes
          /\ Top'.at > Top'.base /\ ~Top'.pipe_branch
      BY <1>1, <1>2, <2>2, <3>1, LeaveStep
    <3>3. GuestPc' = Goes /\ GuestDelay' = NoTarget
      BY <3>2 DEF GuestPc, GuestDelay
    <3> QED
      BY <1>9, <2>1, <3>2, <3>3
  <2>3. CASE Unwind(Goes) /\ UNCHANGED latentVars
    <3>1. UNCHANGED <<has_delay_slot, branch_target>>
      BY <2>3 DEF latentVars
    <3>2. /\ phase' # "host" /\ GuestPc' = Goes
          /\ GuestDelay' = IF has_delay_slot' THEN branch_target' ELSE NoTarget
      BY <2>3, Unwound
    <3> QED
      BY <1>9, <2>1, <3>1, <3>2
  <2> QED
    BY <1>14, <2>2, <2>3 DEF Return
<1>15. CASE Branch(taken, to)
  <2>1. BranchDelay /\ NextPc = Goes /\ ~has_delay_slot /\ Top.at > Top.base
    BY <1>9, <1>15 DEF Branch, BranchDelay
  <2>2. CASE Pending.local /\ Piped.branch /\ taken
    <3>1. ~Piped.local
      <4> DEFINE a == Top.at - 1
      <4>1. /\ a \in Top.base .. Top.end - 2 /\ a + 1 = Top.at /\ Top.base \in Word
            /\ Top.end = DebugRegionEnd(imem, Top.base)
        BY <1>1, <1>8, <2>1, TopOf
      <4>2. /\ Pending = Pipe(imem[a], Top.base, Top.end)
            /\ Piped = Pipe(imem[a + 1], Top.base, Top.end)
        BY <1>8, <2>1, <4>1 DEF Pending, Piped, PipeAt
      <4>3. ~LocalPair(imem, Top.base)
        BY <4>1 DEF TranslatedInv, Translated
      <4> HIDE DEF a
      <4> QED
        BY <2>2, <4>1, <4>2, <4>3 DEF LocalPair
    <3>2. Unwind(Pending.target) /\ Promote(taken, goal, FALSE)
      BY <1>15, <2>1, <2>2, <3>1 DEF Branch, Promote, goal
    <3>3. Goes = Pending.target
      BY <2>2 DEF Goes
    <3> QED
      BY <1>10, <2>1, <3>2, <3>3
  <2>3. CASE Pending.local /\ ~(Piped.branch /\ taken)
    <3>1. Goto(Pending.target, taken, to) /\ ~taken
      BY <1>6, <1>15, <2>3 DEF Branch
    <3>2. /\ Pending.target \in Word /\ Pending.target >= Top.base /\ Pending.target < Top.end
          /\ Goes = Pending.target
      BY <1>1, <2>3, PendingOf DEF Goes
    <3>3. /\ Pending.target \in Nat /\ Pending.target <= Top.end
          /\ Pending.target % ImemWords = Pending.target
      BY <1>8, <3>2, Imem
    <3>4. /\ Top'.base = Top.base /\ Top'.at = Pending.target
          /\ Top'.pipe_branch = taken /\ phase' = "region" /\ ~has_delay_slot'
      BY <1>1, <1>2, <1>3, <1>6, <2>1, <3>1, <3>2, <3>3, GotoStep
    <3>5. GuestPc' = Goes
      BY <3>2, <3>3, <3>4 DEF GuestPc
    <3>6. GuestDelay' = NoTarget
      BY <3>1, <3>4 DEF GuestDelay
    <3> QED
      BY <2>1, <3>1, <3>4, <3>5, <3>6
  <2>4. CASE ~Pending.local
    <3>1. Unwind(Goes) /\ Promote(taken, goal, FALSE)
      BY <1>15, <2>1, <2>4 DEF Branch, PromotePiped, Promote, goal
    <3> QED
      BY <1>10, <2>1, <3>1
  <2> QED
    BY <2>2, <2>3, <2>4
<1> QED
  BY <1>5, <1>11, <1>12, <1>13, <1>14, <1>15

\* Falling off a region and entering one are not steps of the guest.
LEMMA GlueStutters ==
  ASSUME DebugInv, EndOfBlock \/ Enter
  PROVE  UNCHANGED Guest!isaVars
<1>1. SUFFICES phase # "host" /\ phase' # "host" /\ UNCHANGED <<imem, GuestPc, GuestDelay, ra>>
  BY DEF Guest!isaVars
<1>2. CASE EndOfBlock
  <2>1. /\ phase = "region" /\ Top.at = Top.end /\ Unwind(Top.end % ImemWords)
        /\ Promote(Pending.branch /\ Top.pipe_branch, Goes, has_delay_slot)
        /\ UNCHANGED <<imem, ra>>
    BY <1>2 DEF EndOfBlock
  <2>2. Top.at > Top.base /\ ~has_delay_slot
    BY <2>1, TopOf
  <2>3. /\ phase' # "host" /\ GuestPc' = Top.end % ImemWords
        /\ GuestDelay' = IF has_delay_slot' THEN branch_target' ELSE NoTarget
    BY <2>1, Unwound
  <2>4. GuestPc = Top.end % ImemWords
    BY <2>1 DEF GuestPc
  <2>5. GuestDelay = IF Pending.branch /\ Top.pipe_branch THEN Goes ELSE NoTarget
    BY <2>1, <2>2 DEF GuestDelay
  <2>6. GuestDelay' = GuestDelay
    BY <2>1, <2>2, <2>3, <2>5 DEF Promote
  <2> QED
    BY <2>1, <2>3, <2>4, <2>6
<1>3. CASE Enter
  <2>1. /\ phase = "run" /\ phase' = "region" /\ pc \in Word
        /\ UNCHANGED <<imem, has_delay_slot, branch_target, ra>>
    BY <1>3 DEF Enter, latentVars, DebugInv, StateInv
  <2>2. Top' = NewFrame(pc)
    BY <1>3, EnterStep
  <2>3. Top'.at = pc /\ Top'.base = pc /\ pc \in Nat /\ pc % ImemWords = pc
    BY <2>1, <2>2, NewFrameOK, Imem
  <2>4. GuestPc' = GuestPc
    BY <2>1, <2>3 DEF GuestPc
  <2>5. GuestDelay' = GuestDelay
    BY <2>1, <2>3 DEF GuestDelay
  <2> QED
    BY <2>1, <2>4, <2>5
<1> QED
  BY <1>2, <1>3

\* Leaving the code is leaving the guest, with no branch left behind.
LEMMA ExitRefines ==
  ASSUME DebugInv, Exit
  PROVE  Guest!Leave
<1>1. /\ AtInstruction /\ phase = "region" /\ Ins.op \in {"BREAK", "COP0"} /\ phase' = "host"
      /\ pc' = ExitPc /\ UNCHANGED <<imem, ra>>
      /\ has_delay_slot' = (Pending.branch /\ has_delay_slot)
  BY DEF Exit, AtInstruction
<1>2. /\ Top.at \in Nat /\ Top.base \in Nat /\ Top.base <= Top.at
      /\ Top.at > Top.base => ~has_delay_slot
      /\ Top.at = Top.base => ~Pending.branch
  BY <1>1, TopOf, PendingOf
<1>3. ~has_delay_slot'
  <2>1. Top.at = Top.base \/ Top.at > Top.base
    BY <1>2
  <2>2. ~(Pending.branch /\ has_delay_slot)
    BY <1>2, <2>1
  <2> QED
    BY <1>1, <2>2
<1>4. GuestPc' = ExitPc /\ GuestDelay' = NoTarget
  BY <1>1, <1>3 DEF GuestPc, GuestDelay
<1>5. /\ GuestPc = Top.at /\ imem[GuestPc] = Ins
      /\ Top.at = Top.base => GuestDelay = IF has_delay_slot THEN branch_target ELSE NoTarget
      /\ Top.at > Top.base => GuestDelay = IF BranchDelay THEN Goes ELSE NoTarget
      /\ Top.at = Top.base /\ has_delay_slot => GuestDelay # NoTarget
      /\ BranchDelay => GuestDelay # NoTarget
  BY <1>1, GuestAt
<1>6. ExitPc = IF GuestDelay = NoTarget THEN Succ(GuestPc) ELSE GuestDelay
  <2>1. CASE Top.at = Top.base
    BY <1>2, <1>5, <2>1 DEF ExitPc
  <2>2. CASE Top.at > Top.base
    BY <1>2, <1>5, <2>2 DEF ExitPc, BranchDelay
  <2> QED
    BY <1>2, <2>1, <2>2
<1>7. Guest!NextPc = IF GuestDelay = NoTarget THEN Succ(GuestPc) ELSE GuestDelay
  BY SameOperators DEF Guest!NextPc
<1> QED
  BY <1>1, <1>4, <1>5, <1>6, <1>7 DEF Guest!Leave

\* The emulator resumes the guest.
LEMMA ResumeRefines ==
  ASSUME DebugInv, NEW start \in Word, Resume(start)
  PROVE  Guest!Resume(start)
<1>1. /\ phase = "host" /\ phase' = "run" /\ pc' = start
      /\ UNCHANGED <<imem, has_delay_slot, branch_target, ra>>
  BY DEF Resume, latentVars
<1>2. GuestPc' = start /\ GuestDelay' = GuestDelay
  BY <1>1 DEF GuestPc, GuestDelay
<1> QED
  BY <1>1, <1>2 DEF Guest!Resume

\* A return changes the active functions.
LEMMA NotMisled ==
  ASSUME DebugInv, UNCHANGED vars
  PROVE  ~Misled
<1> SUFFICES ASSUME Misled PROVE FALSE
  OBVIOUS
<1>1. frames \in Seq(Frame) /\ Len(frames) \in Nat \ {0}
  BY TopOf DEF Misled, AtInstruction
<1>2. frames' = SubSeq(frames, 1, Len(frames) - 1) /\ frames' = frames
  BY DEF Misled, LeaveFunction, vars
<1>3. Len(SubSeq(frames, 1, Len(frames) - 1)) = Len(frames) - 1
  BY <1>1, WithoutLast
<1> QED
  BY <1>1, <1>2, <1>3

\* The first state of the reference is one of the guest.
LEMMA GuestInit ==
  ASSUME Init
  PROVE  Guest!Init
<1>1. imem \in [Word -> Instructions] /\ ra \in Word /\ 0 \in Word
  BY DebugAssumption, Imem DEF Init
<1>2. GuestPc = 0 /\ GuestDelay = NoTarget /\ phase = "host"
  BY DEF Init, GuestPc, GuestDelay
<1> QED
  BY <1>1, <1>2, SameOperators DEF Guest!Init

\* Every step but a wrong return is one of the guest or invisible to it.
LEMMA GuestStep ==
  ASSUME DebugInv, MirrorInv, TranslatedInv, [Next]_vars, ~Misled
  PROVE  [Guest!Next]_(Guest!isaVars)
<1>1. CASE Instruction
  BY <1>1, InstructionRefines DEF Guest!Next
<1>2. CASE EndOfBlock \/ Enter
  BY <1>2, GlueStutters
<1>3. CASE Exit
  BY <1>3, ExitRefines DEF Guest!Next
<1>4. ASSUME NEW start \in Word, Resume(start) PROVE Guest!Next
  BY <1>4, ResumeRefines, SameOperators DEF Guest!Next
<1>5. CASE UNCHANGED vars
  <2>1. UNCHANGED <<imem, phase, pc, has_delay_slot, branch_target, ra, frames>>
    BY <1>5 DEF vars, latentVars
  <2>2. GuestPc' = GuestPc /\ GuestDelay' = GuestDelay
    BY <2>1 DEF GuestPc, GuestDelay, Top, Pending, PipeAt, Goes
  <2> QED
    BY <2>1, <2>2 DEF Guest!isaVars
<1> QED
  BY <1>1, <1>2, <1>3, <1>4, <1>5 DEF Next

\* What the two theorems below use of the behaviours of the reference.
LEMMA ReferenceInvariance ==
  Spec /\ imem \in Translated(Programs) /\ [](Len(frames) <= CALL_STACK_SIZE + 1)
    => [](DebugInv /\ MirrorInv /\ TranslatedInv)
<1>1. Init => DebugInv /\ MirrorInv
  BY InitHolds
<1>2. DebugInv /\ MirrorInv /\ [Next]_vars /\ AllRecorded' => (DebugInv /\ MirrorInv)'
  BY NextStep
<1>3. TranslatedInv /\ [Next]_vars => TranslatedInv'
  <2>1. ASSUME [Next]_vars PROVE imem' = imem
    BY <2>1 DEF Next, Instruction, EndOfBlock, Exit, Enter, Resume, vars
  <2> QED
    BY <2>1 DEF TranslatedInv
<1>4. imem \in Translated(Programs) => TranslatedInv
  BY DEF TranslatedInv
<1>5. Len(frames) <= CALL_STACK_SIZE + 1 => AllRecorded
  BY DEF AllRecorded
<1> QED
  BY <1>1, <1>2, <1>3, <1>4, <1>5, PTL DEF Spec

\* As long as no call goes unrecorded, for every program without the two shapes it
\* does not translate: whatever the emitted code makes of the result RSP_RETURN drops,
\* a return although CPU::ret answered no is the only step of the reference
\* (CPU::jit_region, call, ret, run) that is not a step of the guest, RspIsa.
THEOREM Refinement ==
  Spec /\ imem \in Translated(Programs) /\ [](Len(frames) <= CALL_STACK_SIZE + 1)
    => RefinesUnlessMisled
<1>1. Init => Guest!Init
  BY GuestInit
<1>2. DebugInv /\ MirrorInv /\ TranslatedInv /\ [Next]_vars
        => [Misled \/ Guest!Next \/ UNCHANGED Guest!isaVars]_vars
  BY GuestStep
<1> QED
  BY <1>1, <1>2, ReferenceInvariance, PTL DEF Spec, RefinesUnlessMisled

\* And when it never returns without a match, as where the answer of CPU::ret is
\* still in the return register, the reference implements RspIsa.
THEOREM RefinementWithAnswer ==
  Spec /\ imem \in Translated(Programs) /\ [](Len(frames) <= CALL_STACK_SIZE + 1)
       /\ [][~Misled]_vars
    => RefinesIsa
<1>1. Init => Guest!Init
  BY GuestInit
<1>2. DebugInv /\ MirrorInv /\ TranslatedInv /\ [Next]_vars /\ [~Misled]_vars
        => [Guest!Next]_(Guest!isaVars)
  <2> SUFFICES ASSUME DebugInv, MirrorInv, TranslatedInv, [Next]_vars, [~Misled]_vars
               PROVE  [Guest!Next]_(Guest!isaVars)
    OBVIOUS
  <2>1. CASE ~Misled
    BY <2>1, GuestStep
  <2>2. CASE UNCHANGED vars
    <3>1. ~Misled
      BY <2>2, NotMisled
    <3> QED
      BY <3>1, GuestStep
  <2> QED
    BY <2>1, <2>2
<1> QED
  BY <1>1, <1>2, ReferenceInvariance, PTL DEF Spec, RefinesIsa, Guest!Spec

=============================================================================
