---------------------------- MODULE RspJitProofs ----------------------------
(***************************************************************************)
(* Proofs about RspJit, for every size of IMEM and of its blocks, every    *)
(* program and every start address: the generated code never uses a        *)
(* register or a label nobody has written and, for every program without   *)
(* the two shapes that jit_region mistranslates (Translated), implements   *)
(* the control flow of the guest, RspIsa.                                  *)
(*                                                                         *)
(* The invariant ties the compiled region to the program it was compiled   *)
(* from, says that a branch is latent in CPUState at the first instruction *)
(* of a region only, and that whoever branches through the indirect        *)
(* register finds it written.                                              *)
(***************************************************************************)
EXTENDS RspJit, TLAPS, WellFoundedInduction

\* The region being run is the one get_jit_block compiles for its first word.
RegionInv ==
  phase = "region" =>
    /\ code.base \in Word
    /\ code = JitRegion(imem, code.base, RegionEnd(imem, code.base))

LatentInv == phase = "region" /\ idx > 0 => ~has_delay_slot

\* A branch before instruction idx that the code at idx will take.
LastTaken == Last.branch /\ (Last.conditional => cond)

IndirectInv ==
  phase = "region" /\ idx > 0 /\ LastTaken /\ Last.indirect => indirect \in Word

CodeInv == phase # "region" => code = NoCode

JitInv == TypeOK /\ RegionInv /\ LatentInv /\ IndirectInv /\ CodeInv

-----------------------------------------------------------------------------
(***************************************************************************)
(* Numbers.                                                                *)
(***************************************************************************)

\* A set of naturals has a least element; what follows uses it for induction.
LEMMA LeastNatural ==
  ASSUME NEW S, S \subseteq Nat, S # {}
  PROVE  \E n \in S : \A k \in S : n <= k
<1>1. PICK n \in S : \A k \in S : ~ (<<k, n>> \in OpToRel(<, Nat))
  BY WFMin, NatLessThanWellFounded
<1>2. ASSUME NEW k \in S PROVE n <= k
  <2>1. k \in Nat /\ n \in Nat
    OBVIOUS
  <2>2. k < n => <<k, n>> \in OpToRel(<, Nat)
    BY <2>1 DEF OpToRel
  <2>3. ~(k < n)
    BY <1>1, <2>2, Zenon
  <2> QED
    BY <2>1, <2>3
<1> QED
  BY <1>2

\* The larger of two numbers.
LEMMA LargerOf ==
  ASSUME NEW x \in Int, NEW y \in Int
  PROVE  Max({x, y}) = IF x >= y THEN x ELSE y
<1>1. \E z \in {x, y} : \A u \in {x, y} : z >= u
  OBVIOUS
<1>2. Max({x, y}) \in {x, y} /\ Max({x, y}) >= x /\ Max({x, y}) >= y
  BY <1>1 DEF Max
<1> QED
  BY <1>2

\* The smaller of two numbers.
LEMMA SmallerOf ==
  ASSUME NEW x \in Int, NEW y \in Int
  PROVE  Min({x, y}) = IF x <= y THEN x ELSE y
<1>1. \E z \in {x, y} : \A u \in {x, y} : z =< u
  OBVIOUS
<1>2. Min({x, y}) \in {x, y} /\ Min({x, y}) =< x /\ Min({x, y}) =< y
  BY <1>1 DEF Min
<1> QED
  BY <1>2

\* IMEM has at least one word, and a word address stays one under the mask.
LEMMA Imem ==
  /\ BlockWords \in Nat \ {0} /\ ImemWords \in Nat \ {0} /\ 0 \in Word
  /\ \A a \in Word : a \in Nat /\ a < ImemWords /\ a % ImemWords = a
  /\ \A a \in Nat : a % ImemWords \in Word
<1>1. BlockWords \in Nat \ {0} /\ ImemWords \in Nat \ {0}
  BY BlockAssumption DEF ImemWords
<1>2. \A a \in Nat : a % ImemWords \in 0 .. ImemWords - 1
  BY <1>1
<1>3. \A a \in 0 .. ImemWords - 1 : a % ImemWords = a
  BY <1>1
<1> QED
  BY <1>1, <1>2, <1>3 DEF Word

\* What get_jit_block allows a region is not empty, stays in IMEM and holds at
\* most two code blocks.
LEMMA LimitOfRegion ==
  ASSUME NEW b \in Word
  PROVE  RegionLimit(b) \in Nat /\ b < RegionLimit(b) /\ RegionLimit(b) <= ImemWords
         /\ RegionLimit(b) <= b + 2 * BlockWords
<1> DEFINE q == b \div BlockWords
           r == b % BlockWords
           next == (q + 2) * BlockWords
<1>1. b \in Nat /\ b < ImemWords /\ BlockWords \in Nat \ {0} /\ ImemWords \in Nat \ {0}
  BY Imem
<1>2. q \in Nat /\ r \in 0 .. BlockWords - 1 /\ b = BlockWords * q + r
  BY <1>1
<1> HIDE DEF q, r
<1>3. next \in Nat /\ next = BlockWords * q + 2 * BlockWords
  BY <1>1, <1>2
<1>4. RegionLimit(b) = Min({next, ImemWords})
  BY DEF RegionLimit, BlockOf, q
<1> HIDE DEF next
<1>6. RegionLimit(b) = IF next <= ImemWords THEN next ELSE ImemWords
  <2>1. Min({next, ImemWords}) = IF next <= ImemWords THEN next ELSE ImemWords
    BY <1>1, <1>3, SmallerOf
  <2> QED
    BY <1>4, <2>1
<1>5. BlockWords * q \in Nat
  BY <1>1, <1>2
<1> QED
  BY <1>1, <1>2, <1>3, <1>5, <1>6

-----------------------------------------------------------------------------
(***************************************************************************)
(* The scan of analyze_static_end, a recursive function over the words of  *)
(* the region.  That such a function exists, and what is true of each of   *)
(* its values, is shown by considering the least word at which it fails.   *)
(***************************************************************************)
ScanStart(pc0) == [max |-> pc0, stop |-> FALSE]
ScanStep(m, pc0, end, s, n) == IF s.stop THEN s ELSE ScanWord(m, pc0, end, pc0 + n - 1, s.max)

IsScan(f, m, pc0, end, N) ==
  f = [n \in 0 .. N |-> IF n = 0 THEN ScanStart(pc0)
                        ELSE ScanStep(m, pc0, end, f[n - 1], n)]

\* The scan is defined for every number of words.
LEMMA ScanExists ==
  ASSUME NEW m, NEW pc0, NEW end, NEW N \in Nat
  PROVE  \E f : IsScan(f, m, pc0, end, N)
<1> DEFINE Bad == {n \in Nat : ~ \E f : IsScan(f, m, pc0, end, n)}
<1> SUFFICES ASSUME Bad # {} PROVE FALSE
  OBVIOUS
<1>1. PICK n \in Bad : \A k \in Bad : n <= k
  BY LeastNatural
<1>2. n \in Nat /\ ~ \E f : IsScan(f, m, pc0, end, n)
  BY <1>1
<1>3. CASE n = 0
  <2> DEFINE f == [k \in 0 .. 0 |-> ScanStart(pc0)]
  <2>1. f = [k \in 0 .. 0 |-> IF k = 0 THEN ScanStart(pc0) ELSE ScanStep(m, pc0, end, f[k - 1], k)]
    OBVIOUS
  <2> HIDE DEF f
  <2>2. IsScan(f, m, pc0, end, 0)
    BY <2>1 DEF IsScan
  <2> QED
    BY <1>2, <1>3, <2>2
<1>4. CASE n > 0
  <2>1. n - 1 \in Nat /\ n - 1 \notin Bad
    BY <1>1, <1>2, <1>4
  <2>2. PICK f : IsScan(f, m, pc0, end, n - 1)
    BY <2>1
  <2>3. \A k \in 0 .. n - 1 : f[k] = IF k = 0 THEN ScanStart(pc0)
                                     ELSE ScanStep(m, pc0, end, f[k - 1], k)
    BY <2>2 DEF IsScan
  <2> DEFINE g == [k \in 0 .. n |-> IF k = n THEN ScanStep(m, pc0, end, f[n - 1], n) ELSE f[k]]
  <2>4. \A k \in 0 .. n : g[k] = IF k = 0 THEN ScanStart(pc0)
                                 ELSE ScanStep(m, pc0, end, g[k - 1], k)
    <3> SUFFICES ASSUME NEW k \in 0 .. n
                 PROVE  g[k] = IF k = 0 THEN ScanStart(pc0)
                               ELSE ScanStep(m, pc0, end, g[k - 1], k)
      OBVIOUS
    <3>1. CASE k = n
      <4>1. g[k] = ScanStep(m, pc0, end, f[n - 1], n) /\ g[n - 1] = f[n - 1]
        BY <1>2, <1>4, <3>1
      <4> QED
        BY <1>4, <3>1, <4>1
    <3>2. CASE k # n
      <4>1. k \in 0 .. n - 1 /\ g[k] = f[k] /\ (k # 0 => k - 1 \in 0 .. n /\ g[k - 1] = f[k - 1])
        BY <1>2, <3>2
      <4> QED
        BY <2>3, <4>1
    <3> QED
      BY <3>1, <3>2
  <2>5. g = [k \in 0 .. n |-> g[k]]
    OBVIOUS
  <2> HIDE DEF g
  <2>6. IsScan(g, m, pc0, end, n)
    BY <2>4, <2>5 DEF IsScan
  <2> QED
    BY <1>2, <2>6
<1> QED
  BY <1>2, <1>3, <1>4

\* From the first word on the scan has reached a word after the start.
LEMMA ScanAdvances ==
  ASSUME NEW m \in [Word -> Instructions], NEW pc0 \in Word, NEW end \in Nat, end <= ImemWords,
         NEW N \in Nat, pc0 + N <= end, NEW f, IsScan(f, m, pc0, end, N)
  PROVE  \A n \in 0 .. N : f[n].max \in Int /\ (n > 0 => f[n].max > pc0)
<1> DEFINE Good(n) == f[n].max \in Int /\ (n > 0 => f[n].max > pc0)
           Bad == {n \in 0 .. N : ~Good(n)}
<1> SUFFICES ASSUME Bad # {} PROVE FALSE
  OBVIOUS
<1>1. PICK n \in Bad : \A k \in Bad : n <= k
  <2>1. Bad \subseteq Nat
    OBVIOUS
  <2> HIDE DEF Bad
  <2> QED
    BY <2>1, LeastNatural
<1>2. n \in 0 .. N /\ ~Good(n)
  BY <1>1
<1>3. pc0 \in Nat
  BY Imem
<1>4. f[n] = IF n = 0 THEN ScanStart(pc0) ELSE ScanStep(m, pc0, end, f[n - 1], n)
  BY <1>2 DEF IsScan
<1>5. n > 0
  <2>1. n = 0 => f[n].max = pc0
    BY <1>4 DEF ScanStart
  <2> QED
    BY <1>2, <1>3, <2>1
<1>6. f[n - 1].max \in Int /\ (n - 1 > 0 => f[n - 1].max > pc0)
  BY <1>1, <1>2, <1>5
<1> DEFINE a == pc0 + n - 1
           old == f[n - 1].max
           reached == IF a + 1 < old THEN old ELSE a + 1
<1>7. a \in Word /\ a \in Nat /\ a >= pc0
  <2>1. n \in Nat /\ n >= 1 /\ n <= N /\ ImemWords \in Nat
    BY <1>2, <1>5, Imem
  <2>2. a \in Nat /\ a >= pc0 /\ a <= ImemWords - 1
    BY <1>3, <2>1
  <2> QED
    BY <2>1, <2>2 DEF Word
<1>8. reached \in Int /\ reached > pc0
  BY <1>3, <1>6, <1>7
<1>9. CASE f[n - 1].stop
  <2>1. f[n] = f[n - 1]
    BY <1>4, <1>5, <1>9 DEF ScanStep
  <2>2. n - 1 # 0
    <3>1. n - 1 = 0 => f[n - 1] = ScanStart(pc0)
      BY <1>2, <1>5 DEF IsScan
    <3> QED
      BY <1>9, <3>1 DEF ScanStart
  <2> QED
    BY <1>2, <1>5, <1>6, <2>1, <2>2
<1>10. CASE ~f[n - 1].stop
  <2>1. f[n] = ScanWord(m, pc0, end, a, old)
    BY <1>4, <1>5, <1>10 DEF ScanStep
  <2>2. m[a].target \in Int
    BY <1>7, Imem DEF Instructions
  <2> HIDE DEF a, old
  <2>3. f[n].max \in {reached, Max({a + 2, reached}), Max({reached, m[a].target + 1})}
    BY <2>1 DEF ScanWord
  <2>4. a + 2 \in Int /\ m[a].target + 1 \in Int
    BY <1>7, <2>2
  <2> HIDE DEF reached
  <2>5. /\ Max({a + 2, reached}) = IF a + 2 >= reached THEN a + 2 ELSE reached
        /\ Max({reached, m[a].target + 1}) = IF reached >= m[a].target + 1
                                             THEN reached ELSE m[a].target + 1
    BY <1>8, <2>4, LargerOf
  <2>6. f[n].max \in Int /\ f[n].max > pc0
    BY <1>3, <1>8, <2>3, <2>4, <2>5
  <2> QED
    BY <1>2, <2>6
<1> QED
  BY <1>9, <1>10

\* A region is not empty, stays in IMEM, and fits the arrays of jit_region, which
\* asserts instruction_count <= CODE_BLOCK_WORDS * 2.
LEMMA RegionFits ==
  ASSUME NEW m \in [Word -> Instructions], NEW b \in Word
  PROVE  /\ RegionEnd(m, b) \in Nat /\ b < RegionEnd(m, b) /\ RegionEnd(m, b) <= ImemWords
         /\ RegionEnd(m, b) - b <= 2 * BlockWords
<1> DEFINE end == RegionLimit(b)
           N == end - b
           scan == CHOOSE f : IsScan(f, m, b, end, N)
<1>1. /\ end \in Nat /\ b \in Nat /\ b < end /\ end <= ImemWords /\ end <= b + 2 * BlockWords
      /\ ImemWords \in Nat /\ BlockWords \in Nat
  BY LimitOfRegion, Imem
<1>2. RegionEnd(m, b) = Min({scan[N].max, end})
  BY DEF RegionEnd, AnalyzeStaticEnd, IsScan, ScanStart, ScanStep
<1> HIDE DEF end
<1>3. N \in Nat /\ N > 0 /\ b + N <= end
  BY <1>1
<1> HIDE DEF N
<1>4. IsScan(scan, m, b, end, N)
  BY <1>3, ScanExists
<1> HIDE DEF scan
<1>5. scan[N].max \in Int /\ scan[N].max > b
  BY <1>1, <1>3, <1>4, ScanAdvances
<1> DEFINE x == scan[N].max
<1> HIDE DEF x
<1>6. RegionEnd(m, b) = IF x <= end THEN x ELSE end
  <2>1. x \in Int /\ RegionEnd(m, b) = Min({x, end})
    BY <1>2, <1>5 DEF x
  <2>2. Min({x, end}) = IF x <= end THEN x ELSE end
    BY <1>1, <2>1, SmallerOf
  <2> QED
    BY <2>1, <2>2
<1> QED
  BY <1>1, <1>5, <1>6 DEF x

-----------------------------------------------------------------------------
(***************************************************************************)
(* What jit_region knows of an instruction, and what its code leaves in    *)
(* the registers.                                                          *)
(***************************************************************************)

\* The InstructionInfo of an instruction.
LEMMA InfoOf ==
  ASSUME NEW ins \in Instructions, NEW label \in BOOLEAN
  PROVE  LET info == JitInstruction(ins, label)
         IN  /\ info.branch \in BOOLEAN /\ info.indirect \in BOOLEAN
             /\ info.conditional \in BOOLEAN
             /\ info.target = ins.target /\ info.target \in Word
             /\ info.branch <=> ins.op \in (DirectOps \cup IndirectOps) \ {"BGTZ0"}
             /\ info.indirect <=> ins.op \in IndirectOps
             /\ info.conditional <=> \/ ins.op \in ComputedOps
                                     \/ ins.op \in JumpOps /\ label
<1>1. ins.target \in Word
  BY Imem DEF Instructions
<1> DEFINE info == JitInstruction(ins, label)
<1>2. /\ info.branch = (ins.op \in (DirectOps \cup IndirectOps) \ {"BGTZ0"})
      /\ info.indirect = (ins.op \in IndirectOps)
      /\ info.conditional = (ins.op \in ComputedOps \/ (ins.op \in JumpOps /\ label))
      /\ info.target = ins.target
  BY DEF JitInstruction
<1> HIDE DEF info
<1>3. info.branch \in BOOLEAN /\ info.indirect \in BOOLEAN /\ info.conditional \in BOOLEAN
  BY <1>2
<1>4. /\ info.branch <=> ins.op \in (DirectOps \cup IndirectOps) \ {"BGTZ0"}
      /\ info.indirect <=> ins.op \in IndirectOps
      /\ info.conditional <=> (ins.op \in ComputedOps \/ (ins.op \in JumpOps /\ label))
  BY <1>2
<1> QED
  BY <1>1, <1>2, <1>3, <1>4 DEF info

\* A region's arrays describe the words of IMEM it was compiled from.
LEMMA RegionArrays ==
  ASSUME JitInv, phase = "region"
  PROVE  /\ code.base \in Word /\ code.base \in Nat /\ code.count \in Nat \ {0}
         /\ code.base + code.count <= ImemWords /\ idx \in 0 .. code.count
         /\ imem \in [Word -> Instructions]
         /\ code.entries = BlockEntries(imem, code.base, code.base + code.count)
         /\ \A k \in 0 .. code.count - 1 :
              /\ code.base + k \in Word
              /\ code.op[k] = imem[code.base + k].op
              /\ code.info[k] = JitInstruction(imem[code.base + k],
                                               code.base + k + 1 \in code.entries)
              /\ code.last[k + 1] = code.info[k]
         /\ code.last[0] = NoInfo
<1> DEFINE b == code.base
           e == RegionEnd(imem, b)
<1>1. imem \in [Word -> Instructions] /\ idx \in 0 .. code.count
  BY DEF JitInv, TypeOK
<1>2. b \in Word /\ code = JitRegion(imem, b, e)
  BY DEF JitInv, RegionInv
<1>3. b \in Nat /\ b < ImemWords /\ ImemWords \in Nat
  BY <1>2, Imem
<1>4. e \in Nat /\ b < e /\ e <= ImemWords
  BY <1>1, <1>2, RegionFits
<1> HIDE DEF b, e
<1>5. code.count = e - b /\ code.entries = BlockEntries(imem, b, e)
  BY <1>2 DEF JitRegion
<1>6. code.count \in Nat \ {0} /\ b + code.count = e
  BY <1>3, <1>4, <1>5
<1>7. ASSUME NEW k \in 0 .. e - b - 1
      PROVE  /\ code.op[k] = imem[b + k].op
             /\ code.info[k] = JitInstruction(imem[b + k], b + k + 1 \in BlockEntries(imem, b, e))
             /\ code.last[k + 1] = code.info[k]
  <2>1. k + 1 \in 0 .. e - b /\ k + 1 # 0 /\ (k + 1) - 1 = k
    BY <1>3, <1>4
  <2> QED
    BY <1>2, <2>1 DEF JitRegion
<1>8. code.last[0] = NoInfo
  <2>1. 0 \in 0 .. e - b
    BY <1>3, <1>4
  <2> QED
    BY <1>2, <2>1 DEF JitRegion
<1>9. \A k \in 0 .. e - b - 1 : b + k \in Word
  BY <1>3, <1>4 DEF Word
<1> QED
  BY <1>1, <1>2, <1>3, <1>4, <1>5, <1>6, <1>7, <1>8, <1>9 DEF b

\* The instruction about to run and the one before it.
LEMMA AtIndex ==
  ASSUME JitInv, AtInstruction
  PROVE  LET w == code.base + idx
         IN  /\ w \in Word /\ idx \in Nat /\ code.base \in Nat
             /\ code.count \in Nat /\ idx + 1 \in 0 .. code.count
             /\ imem[w] \in Instructions
             /\ Op = imem[w].op /\ Info = JitInstruction(imem[w], w + 1 \in code.entries)
             /\ code.last[idx + 1] = Info
<1>1. phase = "region" /\ idx < code.count
  BY DEF AtInstruction
<1>2. idx \in Nat /\ idx \in 0 .. code.count - 1 /\ idx + 1 \in 0 .. code.count
  BY <1>1, RegionArrays
<1> QED
  BY <1>1, <1>2, RegionArrays DEF Op, Info

\* After the first instruction of a region, the one before it was compiled too.
LEMMA BeforeIndex ==
  ASSUME JitInv, phase = "region", idx > 0
  PROVE  LET w == code.base + idx - 1
         IN  /\ w \in Word /\ imem[w] \in Instructions
             /\ Last = JitInstruction(imem[w], w + 1 \in code.entries)
<1>1. idx \in 0 .. code.count /\ code.count \in Nat /\ code.base \in Nat
  BY RegionArrays
<1> DEFINE k == idx - 1
<1>2. k \in 0 .. code.count - 1 /\ k + 1 = idx /\ code.base + k = code.base + idx - 1
  BY <1>1
<1> HIDE DEF k
<1>3. /\ code.base + k \in Word
      /\ code.info[k] = JitInstruction(imem[code.base + k], code.base + k + 1 \in code.entries)
      /\ code.last[k + 1] = code.info[k]
      /\ imem \in [Word -> Instructions]
  BY <1>2, RegionArrays
<1> QED
  BY <1>2, <1>3 DEF Last

\* The fields of the instruction about to run.
LEMMA InfoFields ==
  ASSUME JitInv, AtInstruction
  PROVE  /\ Info.branch \in BOOLEAN /\ Info.indirect \in BOOLEAN /\ Info.conditional \in BOOLEAN
         /\ Info.target \in Word /\ Info.target = imem[code.base + idx].target
         /\ Info.branch <=> Op \in (DirectOps \cup IndirectOps) \ {"BGTZ0"}
         /\ Info.indirect <=> Op \in IndirectOps
         /\ Info.conditional <=> \/ Op \in ComputedOps
                                 \/ Op \in JumpOps /\ code.base + idx + 1 \in code.entries
<1> DEFINE label == code.base + idx + 1 \in code.entries
<1>1. label \in BOOLEAN
  OBVIOUS
<1> QED
  BY <1>1, AtIndex, InfoOf

\* The fields of the instruction before.
LEMMA LastFields ==
  ASSUME JitInv, phase = "region", idx > 0
  PROVE  /\ Last.branch \in BOOLEAN /\ Last.indirect \in BOOLEAN /\ Last.conditional \in BOOLEAN
         /\ Last.target \in Word
<1> DEFINE w == code.base + idx - 1
<1>1. (w + 1 \in code.entries) \in BOOLEAN
  OBVIOUS
<1> QED
  BY <1>1, BeforeIndex, InfoOf

\* What an instruction leaves in the condition and target registers is whether,
\* and where, it branches.
LEMMA AfterInstruction ==
  ASSUME JitInv, AtInstruction, NEW taken \in Outcomes(Op)
  PROVE  /\ taken \in BOOLEAN /\ CondAfter(taken) \in BOOLEAN
         /\ (Info.branch /\ (Info.conditional => CondAfter(taken))) <=> taken
         /\ ~Info.branch => CondAfter(taken) = cond
         /\ Info.indirect => IndirectAfter = ra
         /\ IndirectAfter \in Word \cup {NoTarget}
         /\ TargetAfter \in Word
         /\ TargetAfter = IF Op \in IndirectOps THEN ra ELSE imem[code.base + idx].target
<1>1. cond \in BOOLEAN /\ ra \in Word /\ indirect \in Word \cup {NoTarget}
  BY DEF JitInv, TypeOK
<1>2. /\ Info.branch \in BOOLEAN /\ Info.indirect \in BOOLEAN /\ Info.conditional \in BOOLEAN
      /\ Info.target \in Word /\ Info.target = imem[code.base + idx].target
      /\ Info.branch <=> Op \in (DirectOps \cup IndirectOps) \ {"BGTZ0"}
      /\ Info.indirect <=> Op \in IndirectOps
      /\ Info.conditional <=> \/ Op \in ComputedOps
                              \/ Op \in JumpOps /\ code.base + idx + 1 \in code.entries
  BY InfoFields
<1>3. Op \in DirectOps \cup PlainOps \cup IndirectOps
  BY AtIndex DEF Instructions
<1>4. CASE Op \in ComputedOps
  <2>1. CondAfter(taken) = taken /\ taken \in BOOLEAN
    BY <1>4 DEF CondAfter, ComputedOps, Outcomes, JumpOps
  <2>2. Info.branch /\ Info.conditional
    BY <1>2, <1>4 DEF ComputedOps, DirectOps, RelativeOps
  <2> QED
    BY <1>1, <1>2, <2>1, <2>2 DEF IndirectAfter, TargetAfter
<1>5. CASE Op \in JumpOps
  <2>1. taken = TRUE /\ CondAfter(taken) = Info.conditional
    BY <1>5 DEF CondAfter, ComputedOps, Outcomes, JumpOps
  <2>2. Info.branch
    BY <1>2, <1>5 DEF JumpOps, DirectOps, IndirectOps
  <2> QED
    BY <1>1, <1>2, <2>1, <2>2 DEF IndirectAfter, TargetAfter
<1>6. CASE Op = "BLEZ0"
  <2>1. taken = TRUE /\ CondAfter(taken) = cond
    BY <1>6 DEF CondAfter, ComputedOps, Outcomes, JumpOps
  <2>2. Info.branch /\ ~Info.conditional
    BY <1>2, <1>6 DEF JumpOps, ComputedOps, DirectOps, RelativeOps
  <2> QED
    BY <1>1, <1>2, <2>1, <2>2 DEF IndirectAfter, TargetAfter
<1>7. CASE Op \in PlainOps \cup {"BGTZ0"}
  <2>1. taken = FALSE /\ CondAfter(taken) = cond
    BY <1>7 DEF CondAfter, ComputedOps, Outcomes, JumpOps, PlainOps
  <2>2. ~Info.branch
    BY <1>2, <1>7 DEF PlainOps, DirectOps, RelativeOps, ComputedOps, IndirectOps
  <2> QED
    BY <1>1, <1>2, <2>1, <2>2 DEF IndirectAfter, TargetAfter
<1> QED
  BY <1>3, <1>4, <1>5, <1>6, <1>7
  DEF DirectOps, RelativeOps, ComputedOps, JumpOps, IndirectOps, PlainOps

\* A branch to a word of the region was seen by jit_mark_block_entries.
LEMMA LabelExists ==
  ASSUME JitInv, phase = "region", idx > 0, Last.branch, IsLocal(Last)
  PROVE  /\ Last.target \in code.entries
         /\ Last.target \in code.base .. code.base + code.count - 1
<1> DEFINE w == code.base + idx - 1
<1>1. /\ w \in Word /\ imem[w] \in Instructions
      /\ Last = JitInstruction(imem[w], w + 1 \in code.entries)
  BY BeforeIndex
<1>2. (w + 1 \in code.entries) \in BOOLEAN
  OBVIOUS
<1>3. /\ Last.target = imem[w].target /\ Last.target \in Word
      /\ imem[w].op \in (DirectOps \cup IndirectOps) \ {"BGTZ0"}
      /\ imem[w].op \notin IndirectOps
  BY <1>1, <1>2, InfoOf DEF IsLocal
<1>4. /\ code.base \in Nat /\ code.count \in Nat /\ idx \in 0 .. code.count
      /\ code.entries = BlockEntries(imem, code.base, code.base + code.count)
  BY RegionArrays
<1>5. w \in code.base .. code.base + code.count - 1
  BY <1>4
<1>6. Last.target \in Nat /\ Last.target >= code.base /\ Last.target < code.base + code.count
  BY <1>3, Imem DEF IsLocal
<1> HIDE DEF w
<1>7. IsLocalGoto(imem[w], code.base, code.base + code.count)
  BY <1>3, <1>6 DEF IsLocalGoto
<1>8. Last.target \in BlockEntries(imem, code.base, code.base + code.count)
  <2> DEFINE end == code.base + code.count
             Gotos == {a \in code.base .. end - 1 : IsLocalGoto(imem[a], code.base, end)}
  <2>1. w \in Gotos
    BY <1>4, <1>5, <1>7
  <2>2. BlockEntries(imem, code.base, end) = {imem[a].target : a \in Gotos}
    BY DEF BlockEntries
  <2> HIDE DEF Gotos
  <2> QED
    BY <1>3, <2>1, <2>2
<1> QED
  BY <1>4, <1>6, <1>8

\* In front of a label there is no branch that is compiled as unconditional,
\* except BLEZ $0.
LEMMA BeforeLabel ==
  ASSUME JitInv, phase = "region", NEW t \in code.entries, t > code.base,
         t \in code.base .. code.base + code.count - 1,
         code.last[t - code.base].branch, ~code.last[t - code.base].conditional
  PROVE  /\ code.op[t - code.base - 1] = "BLEZ0"
         /\ ~code.last[t - code.base].indirect
<1> DEFINE k == t - code.base - 1
<1>1. code.base \in Nat /\ code.count \in Nat
  BY RegionArrays
<1>2. /\ k \in 0 .. code.count - 1 /\ k + 1 = t - code.base /\ code.base + k + 1 = t
  BY <1>1
<1> HIDE DEF k
<1>3. /\ code.base + k \in Word /\ code.op[k] = imem[code.base + k].op
      /\ code.info[k] = JitInstruction(imem[code.base + k], code.base + k + 1 \in code.entries)
      /\ code.last[k + 1] = code.info[k]
      /\ imem \in [Word -> Instructions]
  BY <1>2, RegionArrays
<1>4. imem[code.base + k] \in Instructions /\ (code.base + k + 1 \in code.entries) = TRUE
  BY <1>2, <1>3
<1>5. code.last[t - code.base] = JitInstruction(imem[code.base + k], TRUE)
  BY <1>2, <1>3, <1>4
<1> DEFINE o == imem[code.base + k].op
<1>6. /\ o \in (DirectOps \cup IndirectOps) \ {"BGTZ0"}
      /\ ~(o \in ComputedOps \/ o \in JumpOps)
      /\ code.last[t - code.base].indirect <=> o \in IndirectOps
  BY <1>4, <1>5, InfoOf
<1>7. o = "BLEZ0"
  BY <1>6 DEF DirectOps, RelativeOps, ComputedOps, JumpOps, IndirectOps
<1>8. o \notin IndirectOps
  BY <1>7 DEF IndirectOps
<1> QED
  BY <1>2, <1>3, <1>6, <1>7, <1>8 DEF k

-----------------------------------------------------------------------------
(***************************************************************************)
(* The invariant is preserved.                                             *)
(***************************************************************************)

\* A taken branch in front of idx has a target.
LEMMA LastTargetKnown ==
  ASSUME JitInv, phase = "region", idx > 0, LastTaken
  PROVE  LastTarget \in Word
BY LastFields DEF JitInv, IndirectInv, LastTarget

\* What every instruction keeps and leaves in the indirect and link registers.
Leaves ==
  /\ indirect' = IndirectAfter
  /\ illegal_indirect' = SavedIndirect
  /\ ra' \in Linked(Op, code.base + idx, ra)
  /\ UNCHANGED <<imem, pc>>

\* The registers keep their types.
LEMMA LeavesTyped ==
  ASSUME JitInv, AtInstruction, NEW taken \in Outcomes(Op), Leaves
  PROVE  /\ imem' \in [Word -> Instructions] /\ pc' \in Word /\ ra' \in Word
         /\ {indirect', illegal_indirect'} \subseteq Word \cup {NoTarget}
         /\ SavedCond \in BOOLEAN
<1>1. /\ imem \in [Word -> Instructions] /\ pc \in Word /\ ra \in Word
      /\ indirect \in Word \cup {NoTarget} /\ illegal_indirect \in Word \cup {NoTarget}
      /\ cond \in BOOLEAN /\ illegal_cond \in BOOLEAN
  BY DEF JitInv, TypeOK
<1>2. IndirectAfter \in Word \cup {NoTarget}
  BY AfterInstruction
<1>3. SavedIndirect \in Word \cup {NoTarget} /\ SavedCond \in BOOLEAN
  BY <1>1 DEF SavedIndirect, SavedCond
<1>4. Link(code.base + idx) \in Word
  <2>1. code.base + idx + 2 \in Nat
    BY AtIndex
  <2> QED
    BY <2>1, Imem DEF Link
<1>5. Linked(Op, code.base + idx, ra) \subseteq Word
  BY <1>1, <1>4 DEF Linked
<1> QED
  BY <1>1, <1>2, <1>3, <1>5 DEF Leaves

\* Going to the enter thunk at a word.
LEMMA ToThunk ==
  ASSUME JitInv, AtInstruction, NEW taken \in Outcomes(Op), Leaves,
         NEW target \in Word, GotoThunk(target),
         has_delay_slot' \in BOOLEAN, cond' \in BOOLEAN, illegal_cond' \in BOOLEAN,
         branch_target' \in Word
  PROVE  JitInv'
<1>1. phase' = "enter" /\ next_pc' = target /\ code' = NoCode /\ idx' = 0
  BY DEF GotoThunk
<1>2. TypeOK'
  BY <1>1, LeavesTyped DEF TypeOK, NoCode
<1> QED
  BY <1>1, <1>2 DEF JitInv, RegionInv, LatentInv, IndirectInv, CodeInv

\* Going on at another instruction of the region.
LEMMA InRegion ==
  ASSUME JitInv, AtInstruction, NEW taken \in Outcomes(Op), Leaves,
         NEW k \in 0 .. code.count, GotoIndex(k), ~has_delay_slot, UNCHANGED latentVars,
         cond' \in BOOLEAN, illegal_cond' \in BOOLEAN, IndirectInv'
  PROVE  JitInv'
<1>1. phase' = phase /\ phase = "region" /\ next_pc' = next_pc /\ code' = code /\ idx' = k
  BY DEF GotoIndex, AtInstruction
<1>2. TypeOK'
  BY <1>1, LeavesTyped DEF JitInv, TypeOK, latentVars
<1> QED
  BY <1>1, <1>2 DEF JitInv, RegionInv, LatentInv, CodeInv, latentVars, Leaves

\* To the next instruction: the one before it is the one that just ran.
LEMMA ToNext ==
  ASSUME JitInv, AtInstruction, NEW taken \in Outcomes(Op), Leaves, GotoIndex(idx + 1)
  PROVE  Last' = Info /\ idx' = idx + 1 /\ idx + 1 > 0 /\ code' = code
         /\ idx + 1 \in 0 .. code.count /\ IndirectInv'
<1>1. code.last[idx + 1] = Info /\ idx \in Nat /\ idx + 1 \in 0 .. code.count
  BY AtIndex
<1>2. idx' = idx + 1 /\ code' = code
  BY DEF GotoIndex
<1>3. Last' = Info
  BY <1>1, <1>2 DEF Last
<1>4. Info.indirect => indirect' \in Word
  BY AfterInstruction DEF Leaves, JitInv, TypeOK
<1> QED
  BY <1>1, <1>2, <1>3, <1>4 DEF IndirectInv

\* To a label: a branch in front of it is compiled as conditional, or is BLEZ $0.
LEMMA ToLabel ==
  ASSUME JitInv, AtInstruction, idx > 0, Last.branch, IsLocal(Last),
         GotoIndex(Last.target - code.base), cond' = FALSE
  PROVE  /\ Last.target - code.base \in 0 .. code.count - 1
         /\ idx' = Last.target - code.base /\ code' = code
         /\ IndirectInv'
         /\ idx' > 0 /\ LastTaken' => code.op[idx' - 1] = "BLEZ0"
<1> DEFINE t == Last.target
<1>1. phase = "region" /\ idx' = t - code.base /\ code' = code
  BY DEF GotoIndex, AtInstruction
<1>2. t \in code.entries /\ t \in code.base .. code.base + code.count - 1
  BY <1>1, LabelExists
<1>3. code.base \in Nat /\ code.count \in Nat
  BY <1>1, RegionArrays
<1>4. Last' = code.last[t - code.base]
  BY <1>1 DEF Last
<1> HIDE DEF t
<1>5. t - code.base \in 0 .. code.count - 1 /\ (idx' > 0 => t > code.base)
  BY <1>1, <1>2, <1>3
<1>6. ASSUME idx' > 0, LastTaken'
      PROVE  code.op[idx' - 1] = "BLEZ0" /\ ~Last'.indirect
  <2>1. code.last[t - code.base].branch /\ ~code.last[t - code.base].conditional
    BY <1>4, <1>6 DEF LastTaken
  <2>2. code.op[t - code.base - 1] = "BLEZ0" /\ ~code.last[t - code.base].indirect
    BY <1>1, <1>2, <1>5, <1>6, <2>1, BeforeLabel
  <2> QED
    BY <1>1, <1>4, <2>2
<1>7. IndirectInv'
  BY <1>6 DEF IndirectInv
<1> QED
  BY <1>1, <1>5, <1>6, <1>7 DEF t

\* One instruction and the glue after it.
LEMMA InstructionStep ==
  ASSUME JitInv, Instruction
  PROVE  JitInv'
<1>1. AtInstruction /\ Leaves
  BY DEF Instruction, Leaves
<1>2. PICK taken \in Outcomes(Op) :
        \/ HandleLatentDelaySlot(CondAfter(taken))
        \/ HandleImpossibleDelaySlot(CondAfter(taken))
        \/ HandleDelaySlot(CondAfter(taken))
        \/ FallThrough(CondAfter(taken))
  BY DEF Instruction
<1> DEFINE c == CondAfter(taken)
<1>3. /\ c \in BOOLEAN /\ TargetAfter \in Word /\ SavedCond \in BOOLEAN
      /\ phase = "region" /\ branch_target \in Word /\ has_delay_slot \in BOOLEAN
      /\ ~Info.branch => c = cond
  BY <1>1, AfterInstruction, LeavesTyped DEF JitInv, TypeOK, AtInstruction
<1> HIDE DEF c
<1>4. CASE HandleLatentDelaySlot(c)
  <2>1. /\ has_delay_slot' \in BOOLEAN /\ branch_target' \in Word /\ GotoThunk(branch_target)
        /\ cond' \in BOOLEAN /\ illegal_cond' \in BOOLEAN
    BY <1>3, <1>4 DEF HandleLatentDelaySlot
  <2> QED
    BY <1>1, <1>3, <2>1, ToThunk
<1>5. CASE HandleImpossibleDelaySlot(c)
  <2>1. /\ idx > 0 /\ Info.branch /\ Last.branch /\ illegal_cond' = FALSE /\ cond' = c
        /\ ~has_delay_slot
    BY <1>3, <1>5 DEF HandleImpossibleDelaySlot, JitInv, LatentInv
  <2>2. FlushesDelaySlot
    BY <1>1, <2>1, InfoFields DEF FlushesDelaySlot
  <2>3. CASE Last.conditional => SavedCond
    <3>1. LastTaken
      BY <2>1, <2>2, <2>3 DEF LastTaken, SavedCond
    <3>2. (IF Last.indirect THEN SavedIndirect ELSE Last.target) = LastTarget
      BY <2>1, <2>2 DEF SavedIndirect, LastTarget
    <3>3. /\ GotoThunk(LastTarget) /\ branch_target' \in Word /\ has_delay_slot' \in BOOLEAN
      BY <1>3, <1>5, <2>3, <3>2 DEF HandleImpossibleDelaySlot
    <3>4. LastTarget \in Word
      BY <1>3, <2>1, <3>1, LastTargetKnown
    <3> QED
      BY <1>1, <1>3, <2>1, <3>3, <3>4, ToThunk
  <2>4. CASE ~(Last.conditional => SavedCond)
    <3>1. GotoIndex(idx + 1) /\ UNCHANGED latentVars
      BY <1>5, <2>4 DEF HandleImpossibleDelaySlot
    <3>2. idx + 1 \in 0 .. code.count /\ IndirectInv'
      BY <1>1, <3>1, ToNext
    <3> QED
      BY <1>1, <1>3, <2>1, <3>1, <3>2, InRegion
  <2> QED
    BY <2>3, <2>4
<1>6. CASE HandleDelaySlot(c)
  <2>1. /\ idx > 0 /\ ~Info.branch /\ Last.branch /\ cond' = FALSE /\ illegal_cond' = SavedCond
        /\ ~has_delay_slot /\ UNCHANGED latentVars /\ c = cond
    BY <1>3, <1>6 DEF HandleDelaySlot, JitInv, LatentInv
  <2>2. CASE (Last.conditional => c) /\ IsLocal(Last)
    <3>1. GotoIndex(Last.target - code.base)
      BY <1>6, <2>2 DEF HandleDelaySlot
    <3>2. Last.target - code.base \in 0 .. code.count - 1 /\ IndirectInv'
      BY <1>1, <2>1, <2>2, <3>1, ToLabel
    <3>3. Last.target - code.base \in 0 .. code.count
      BY <1>3, <3>2, RegionArrays
    <3> QED
      BY <1>1, <1>3, <2>1, <3>1, <3>2, <3>3, InRegion
  <2>3. CASE (Last.conditional => c) /\ ~IsLocal(Last)
    <3>1. GotoThunk(LastTarget) /\ LastTaken
      BY <1>6, <2>1, <2>3 DEF HandleDelaySlot, LastTaken
    <3>2. LastTarget \in Word
      BY <1>3, <2>1, <3>1, LastTargetKnown
    <3>3. branch_target' \in Word /\ has_delay_slot' \in BOOLEAN
      BY <1>3, <2>1 DEF latentVars
    <3> QED
      BY <1>1, <1>3, <2>1, <3>1, <3>2, <3>3, ToThunk
  <2>4. CASE ~(Last.conditional => c)
    <3>1. GotoIndex(idx + 1)
      BY <1>6, <2>4 DEF HandleDelaySlot
    <3>2. idx + 1 \in 0 .. code.count /\ IndirectInv'
      BY <1>1, <3>1, ToNext
    <3> QED
      BY <1>1, <1>3, <2>1, <3>1, <3>2, InRegion
  <2> QED
    BY <2>2, <2>3, <2>4
<1>7. CASE FallThrough(c)
  <2>1. ~has_delay_slot
    BY <1>3, <1>7, RegionArrays DEF FallThrough, JitInv, LatentInv
  <2>2. GotoIndex(idx + 1) /\ UNCHANGED latentVars /\ cond' = c /\ illegal_cond' = SavedCond
    BY <1>7 DEF FallThrough
  <2>3. idx + 1 \in 0 .. code.count /\ IndirectInv'
    BY <1>1, <2>2, ToNext
  <2> QED
    BY <1>1, <1>3, <2>1, <2>2, <2>3, InRegion
<1> QED
  BY <1>2, <1>4, <1>5, <1>6, <1>7 DEF c

\* The end of a region: a branch in its last instruction becomes latent.
LEMMA EndOfBlockStep ==
  ASSUME JitInv, EndOfBlock
  PROVE  JitInv'
<1>1. /\ phase = "region" /\ idx = code.count /\ idx > 0 /\ ~has_delay_slot
      /\ (code.base + idx) % ImemWords \in Word
  <2>1. phase = "region" /\ idx = code.count
    BY DEF EndOfBlock
  <2>2. code.count \in Nat \ {0} /\ code.base + code.count \in Nat
    BY <2>1, RegionArrays
  <2> QED
    BY <2>1, <2>2, Imem DEF JitInv, LatentInv
<1>2. /\ phase' = "enter" /\ next_pc' \in Word /\ code' = NoCode /\ idx' = 0
      /\ UNCHANGED <<imem, pc, cond, illegal_cond, indirect, illegal_indirect, ra>>
  BY <1>1 DEF EndOfBlock, GotoThunk, indirectVars
<1>3. has_delay_slot' \in BOOLEAN /\ branch_target' \in Word
  <2>1. CASE LastTaken
    BY <1>1, <2>1, LastTargetKnown DEF EndOfBlock, LastTaken
  <2>2. CASE ~LastTaken
    BY <2>2 DEF EndOfBlock, LastTaken, latentVars, JitInv, TypeOK
  <2> QED
    BY <2>1, <2>2
<1>4. TypeOK'
  BY <1>2, <1>3 DEF JitInv, TypeOK, NoCode
<1> QED
  BY <1>2, <1>4 DEF JitInv, RegionInv, LatentInv, IndirectInv, CodeInv

\* Where an exit resumes is a word.
LEMMA ExitWord ==
  ASSUME JitInv, AtInstruction
  PROVE  ExitPc \in Word
<1>1. phase = "region" /\ idx \in Nat /\ code.base + idx + 1 \in Nat /\ branch_target \in Word
  BY AtIndex DEF AtInstruction, JitInv, TypeOK
<1>2. Succ(code.base + idx) \in Word
  BY <1>1, Imem DEF Succ
<1>3. idx > 0 /\ LastTaken => LastTarget \in Word
  BY <1>1, LastTargetKnown
<1> QED
  BY <1>1, <1>2, <1>3 DEF ExitPc, LastTaken

\* BREAK, or a coprocessor access that leaves the code.
LEMMA ExitStep ==
  ASSUME JitInv, Exit
  PROVE  JitInv'
<1>1. /\ phase' = "host" /\ pc' \in Word /\ next_pc' \in Word /\ code' = NoCode /\ idx' = 0
      /\ UNCHANGED <<imem, branch_target, cond, illegal_cond, indirect, illegal_indirect, ra>>
  BY ExitWord DEF Exit, indirectVars
<1>2. has_delay_slot' \in BOOLEAN
  BY DEF Exit, JitInv, TypeOK
<1>3. TypeOK'
  BY <1>1, <1>2 DEF JitInv, TypeOK, NoCode
<1> QED
  BY <1>1, <1>3 DEF JitInv, RegionInv, LatentInv, IndirectInv, CodeInv

\* The enter thunk: the region is compiled, or found.
LEMMA EnterThunkStep ==
  ASSUME JitInv, EnterThunk
  PROVE  JitInv'
<1> DEFINE e == RegionEnd(imem, next_pc)
<1>1. next_pc \in Word /\ imem \in [Word -> Instructions]
  BY DEF JitInv, TypeOK
<1>2. next_pc \in Nat /\ e \in Nat /\ next_pc < e /\ e - next_pc <= 2 * BlockWords
      /\ BlockWords \in Nat
  BY <1>1, RegionFits, Imem
<1>3. /\ code' = JitRegion(imem, next_pc, e) /\ idx' = 0 /\ phase' = "region"
      /\ cond' = FALSE /\ illegal_cond' = FALSE
      /\ UNCHANGED <<imem, pc, next_pc, has_delay_slot, branch_target, indirect, illegal_indirect, ra>>
  BY DEF EnterThunk, latentVars, indirectVars
<1>4. code'.base = next_pc /\ code'.count = e - next_pc
  BY <1>3 DEF JitRegion
<1>5. RegionInv'
  BY <1>1, <1>3, <1>4 DEF RegionInv
<1> HIDE DEF e
<1>6. idx' \in 0 .. code'.count /\ code'.count \in 1 .. 2 * BlockWords
  BY <1>2, <1>3, <1>4
<1>7. TypeOK'
  BY <1>3, <1>6 DEF JitInv, TypeOK
<1> QED
  BY <1>3, <1>5, <1>7 DEF JitInv, LatentInv, IndirectInv, CodeInv

\* The emulator resumes the RSP.
LEMMA ResumeStep ==
  ASSUME JitInv, NEW start \in Word, Resume(start)
  PROVE  JitInv'
<1>1. /\ phase = "host" /\ phase' = "enter" /\ pc' = start /\ next_pc' = start
      /\ indirect' = NoTarget /\ illegal_indirect' = NoTarget
      /\ UNCHANGED <<imem, code, idx, has_delay_slot, branch_target, cond, illegal_cond, ra>>
  BY DEF Resume, latentVars
<1>2. TypeOK'
  BY <1>1 DEF JitInv, TypeOK
<1> QED
  BY <1>1, <1>2 DEF JitInv, RegionInv, LatentInv, IndirectInv, CodeInv

\* The invariant holds in every reachable state.
LEMMA JitInvariance == Spec => []JitInv
<1>1. Init => JitInv
  <2> SUFFICES ASSUME Init PROVE JitInv
    OBVIOUS
  <2>1. /\ imem \in [Word -> Instructions] /\ ra \in Word /\ 0 \in Word
    BY ProgramAssumption, Imem DEF Init
  <2>2. code.count = 0 /\ idx = 0 /\ 0 \in 0 .. 0
    BY DEF Init, NoCode
  <2>3. TypeOK
    BY <2>1, <2>2 DEF Init, TypeOK
  <2> QED
    BY <2>3 DEF Init, JitInv, RegionInv, LatentInv, IndirectInv, CodeInv
<1>2. ASSUME JitInv, UNCHANGED vars PROVE JitInv'
  <2>1. UNCHANGED <<imem, phase, pc, next_pc, code, idx, has_delay_slot, branch_target, cond,
                    illegal_cond, indirect, illegal_indirect, ra>>
    BY <1>2 DEF vars, latentVars, indirectVars
  <2>2. TypeOK'
    BY <1>2, <2>1 DEF JitInv, TypeOK
  <2>3. Last' = Last /\ LastTaken' = LastTaken
    BY <2>1 DEF Last, LastTaken
  <2> QED
    BY <1>2, <2>1, <2>2, <2>3 DEF JitInv, RegionInv, LatentInv, IndirectInv, CodeInv
<1>3. JitInv /\ [Next]_vars => JitInv'
  BY <1>2, InstructionStep, EndOfBlockStep, ExitStep, EnterThunkStep, ResumeStep DEF Next
<1> QED
  BY <1>1, <1>3, PTL DEF Spec

\* For every program: control never goes to a register or frame slot that was not
\* written, and a region fits the arrays of jit_region ("instruction_count <=
\* CODE_BLOCK_WORDS * 2").
THEOREM TypeCorrect == Spec => []TypeOK
  BY JitInvariance, PTL DEF JitInv

\* For every program: a goto that jit_handle_delay_slot records inside the region
\* is patched with a label that jit_mark_block_entries asked for.
THEOREM GotosHaveLabels == Spec => []LocalGotoHasLabel
<1>1. JitInv => LocalGotoHasLabel
  <2> SUFFICES ASSUME JitInv, AtInstruction, Last.branch, IsLocal(Last)
               PROVE  Last.target \in code.entries
    BY DEF LocalGotoHasLabel
  <2>1. phase = "region"
    BY DEF AtInstruction
  <2>2. idx \in Nat /\ (idx = 0 => Last = NoInfo)
    BY <2>1, RegionArrays DEF Last
  <2>3. idx > 0
    BY <2>2 DEF NoInfo
  <2> QED
    BY <2>1, <2>3, LabelExists
<1> QED
  BY <1>1, JitInvariance, PTL


-----------------------------------------------------------------------------
(***************************************************************************)
(* The refinement: what the generated code does for a program without the  *)
(* two mistranslated shapes is what RspIsa allows.                         *)
(***************************************************************************)

\* RspIsa's own copies of the operators of RegionAnalysis.
LEMMA SameOperators ==
  /\ Guest!Word = Word /\ Guest!Instructions = Instructions /\ Guest!IndirectOps = IndirectOps
  /\ \A a : Guest!Succ(a) = Succ(a)
  /\ \A op : Guest!Outcomes(op) = Outcomes(op)
  /\ \A op, a, r : Guest!Linked(op, a, r) = Linked(op, a, r)
<1>1. Guest!Word = Word /\ Guest!ImemWords = ImemWords
  BY DEF Guest!Word, Word, Guest!ImemWords, ImemWords
<1>2. /\ Guest!ComputedOps = ComputedOps /\ Guest!JumpOps = JumpOps /\ Guest!IndirectOps = IndirectOps
      /\ Guest!LinkOps = LinkOps /\ Guest!PlainOps = PlainOps /\ Guest!RelativeOps = RelativeOps
      /\ Guest!DirectOps = DirectOps
  BY DEF Guest!ComputedOps, ComputedOps, Guest!JumpOps, JumpOps, Guest!IndirectOps, IndirectOps,
         Guest!LinkOps, LinkOps, Guest!PlainOps, PlainOps, Guest!RelativeOps, RelativeOps,
         Guest!DirectOps, DirectOps
<1>3. Guest!Instructions = Instructions
  BY <1>1, <1>2 DEF Guest!Instructions, Instructions
<1>4. \A a : Guest!Succ(a) = Succ(a) /\ Guest!Link(a) = Link(a)
  BY <1>1 DEF Guest!Succ, Succ, Guest!Link, Link
<1>5. \A op : Guest!Outcomes(op) = Outcomes(op)
  BY <1>2 DEF Guest!Outcomes, Outcomes
<1>6. \A op, a, r : Guest!Linked(op, a, r) = Linked(op, a, r)
  BY <1>1, <1>2, <1>4 DEF Guest!Linked, Linked
<1> QED
  BY <1>1, <1>2, <1>3, <1>4, <1>5, <1>6

\* The guest is at the instruction the code is about to run, with the branch
\* pending that the code will find.
LEMMA GuestAt ==
  ASSUME JitInv, AtInstruction
  PROVE  /\ GuestPc = code.base + idx /\ GuestPc \in Nat
         /\ imem[GuestPc].op = Op
         /\ idx = 0 => Pending = IF has_delay_slot THEN branch_target ELSE NoTarget
         /\ idx > 0 => Pending = IF LastTaken THEN LastTarget ELSE NoTarget
         /\ Pending # NoTarget => Pending \in Word
         /\ idx = 0 /\ has_delay_slot => Pending # NoTarget
         /\ idx > 0 /\ LastTaken => Pending # NoTarget
<1>1. phase = "region" /\ idx \in Nat /\ code.base + idx \in Word /\ Op = imem[code.base + idx].op
  BY AtIndex DEF AtInstruction
<1>2. GuestPc = code.base + idx /\ GuestPc \in Nat
  BY <1>1, Imem DEF GuestPc
<1>3. idx > 0 => Pending = IF LastTaken THEN LastTarget ELSE NoTarget
  BY <1>1 DEF Pending, LastTaken
<1>4. idx = 0 => Pending = IF has_delay_slot THEN branch_target ELSE NoTarget
  BY <1>1 DEF Pending
<1>5. idx > 0 /\ LastTaken => LastTarget \in Word
  BY <1>1, LastTargetKnown
<1>6. branch_target \in Word /\ NoTarget \notin Word
  BY ProgramAssumption DEF JitInv, TypeOK
<1> QED
  BY <1>1, <1>2, <1>3, <1>4, <1>5, <1>6

\* What is to be shown of an instruction of the code.
LEMMA Executes ==
  ASSUME JitInv, AtInstruction, Op # "BREAK", NEW taken \in Outcomes(Op), Leaves,
         phase' # "host",
         GuestPc' = IF Pending = NoTarget THEN Succ(GuestPc) ELSE Pending,
         Pending' = IF taken THEN TargetAfter ELSE NoTarget
  PROVE  Guest!Execute
<1>1. GuestPc = code.base + idx /\ imem[GuestPc].op = Op /\ phase = "region"
  BY GuestAt DEF AtInstruction
<1>2. taken \in BOOLEAN
      /\ TargetAfter = IF Op \in IndirectOps THEN ra ELSE imem[code.base + idx].target
  BY AfterInstruction
<1>3. Pending' = IF ~taken THEN NoTarget
                 ELSE IF imem[GuestPc].op \in IndirectOps THEN ra ELSE imem[GuestPc].target
  BY <1>1, <1>2
<1>4. Guest!NextPc = IF Pending = NoTarget THEN Succ(GuestPc) ELSE Pending
  BY SameOperators DEF Guest!NextPc
<1>5. /\ Guest!Outcomes(imem[GuestPc].op) = Outcomes(Op)
      /\ Guest!Linked(imem[GuestPc].op, GuestPc, ra) = Linked(Op, code.base + idx, ra)
  BY <1>1, SameOperators
<1>6. imem' = imem /\ ra' \in Linked(Op, code.base + idx, ra)
  BY DEF Leaves
<1> QED
  BY <1>1, <1>3, <1>4, <1>5, <1>6, SameOperators DEF Guest!Execute

\* Running into the next instruction of the region, with the branch just
\* executed in the condition and indirect registers.
LEMMA RunsOn ==
  ASSUME JitInv, AtInstruction, NEW taken \in Outcomes(Op), Leaves, GotoIndex(idx + 1),
         Info.branch => cond' = CondAfter(taken)
  PROVE  /\ phase' # "host" /\ GuestPc' = Succ(GuestPc)
         /\ Pending' = IF taken THEN TargetAfter ELSE NoTarget
<1>1. /\ phase' = "region" /\ idx' = idx + 1 /\ code' = code /\ Last' = Info /\ idx + 1 > 0
  BY ToNext DEF GotoIndex, AtInstruction
<1>2. GuestPc' = Succ(GuestPc)
  <2>1. code.base \in Nat /\ idx \in Nat /\ GuestPc = code.base + idx
    BY AtIndex, GuestAt
  <2>2. GuestPc' = (code.base + (idx + 1)) % ImemWords
    BY <1>1 DEF GuestPc
  <2>3. code.base + (idx + 1) = (code.base + idx) + 1
    BY <2>1
  <2> QED
    BY <2>1, <2>2, <2>3 DEF Succ
<1>3. /\ (Info.branch /\ (Info.conditional => CondAfter(taken))) <=> taken
      /\ taken \in BOOLEAN /\ Info.branch \in BOOLEAN
  BY AfterInstruction, InfoFields
<1>4. (Info.branch /\ (Info.conditional => cond')) <=> taken
  BY <1>3
<1>5. LastTarget' = TargetAfter
  BY <1>1 DEF LastTarget, TargetAfter, Leaves
<1>6. Pending' = IF Info.branch /\ (Info.conditional => cond') THEN LastTarget' ELSE NoTarget
  BY <1>1 DEF Pending
<1> QED
  BY <1>1, <1>2, <1>4, <1>5, <1>6

\* The program is one jit_region translates correctly.
TranslatedInv == imem \in Translated(Programs)

\* In its regions no conditional branch follows an unconditional one, and no
\* BLEZ $0 stands in front of a label.
LEMMA NoMistranslation ==
  ASSUME JitInv, TranslatedInv, phase = "region", NEW k \in 0 .. code.count - 1
  PROVE  /\ ~(/\ code.last[k].branch /\ ~code.last[k].conditional
              /\ code.info[k].branch /\ code.info[k].conditional)
         /\ ~(code.op[k] = "BLEZ0" /\ code.base + k + 1 \in code.entries)
<1>1. code.base \in Word /\ code = JitRegion(imem, code.base, RegionEnd(imem, code.base))
  BY DEF JitInv, RegionInv
<1>2. code \in Regions(imem)
  BY <1>1 DEF Regions
<1>3. ~ConditionalAfterStatic(code) /\ ~StaticBlezIntoLabel(code)
  BY <1>2 DEF TranslatedInv, Translated
<1> QED
  BY <1>3 DEF ConditionalAfterStatic, StaticBlezIntoLabel

\* An instruction of the code is an instruction of the guest.
LEMMA InstructionRefines ==
  ASSUME JitInv, TranslatedInv, Instruction
  PROVE  Guest!Execute
<1>1. AtInstruction /\ Leaves /\ Op # "BREAK" /\ phase = "region"
  BY DEF Instruction, Leaves, AtInstruction
<1>2. PICK taken \in Outcomes(Op) :
        \/ HandleLatentDelaySlot(CondAfter(taken))
        \/ HandleImpossibleDelaySlot(CondAfter(taken))
        \/ HandleDelaySlot(CondAfter(taken))
        \/ FallThrough(CondAfter(taken))
  BY DEF Instruction
<1> DEFINE c == CondAfter(taken)
           NextPc == IF Pending = NoTarget THEN Succ(GuestPc) ELSE Pending
           Left == IF taken THEN TargetAfter ELSE NoTarget
<1>3. /\ c \in BOOLEAN /\ taken \in BOOLEAN /\ Info.branch \in BOOLEAN
      /\ (Info.branch /\ (Info.conditional => c)) <=> taken
      /\ ~Info.branch => c = cond
  BY <1>1, AfterInstruction, InfoFields
<1>4. SUFFICES phase' # "host" /\ GuestPc' = NextPc /\ Pending' = Left
  BY <1>1, Executes
<1>5. /\ idx \in Nat /\ idx \in 0 .. code.count - 1
      /\ idx = 0 => Pending = IF has_delay_slot THEN branch_target ELSE NoTarget
      /\ idx > 0 => Pending = IF LastTaken THEN LastTarget ELSE NoTarget
      /\ idx = 0 /\ has_delay_slot => Pending # NoTarget
      /\ idx > 0 /\ LastTaken => Pending # NoTarget
  BY <1>1, GuestAt, AtIndex DEF AtInstruction
<1>6. ASSUME NEW target, GotoThunk(target)
      PROVE  /\ phase' # "host" /\ GuestPc' = target
             /\ Pending' = IF has_delay_slot' THEN branch_target' ELSE NoTarget
  BY <1>6 DEF GotoThunk, GuestPc, Pending
<1> HIDE DEF c
<1>7. ASSUME GotoIndex(idx + 1), Info.branch => cond' = c, Pending = NoTarget
      PROVE  phase' # "host" /\ GuestPc' = NextPc /\ Pending' = Left
  BY <1>1, <1>7, RunsOn DEF c
<1>8. CASE HandleLatentDelaySlot(c)
  <2>1. /\ idx = 0 /\ has_delay_slot /\ GotoThunk(branch_target)
        /\ has_delay_slot' = (Info.branch /\ (Info.conditional => c))
        /\ branch_target' = IF Info.branch THEN TargetAfter ELSE branch_target
    BY <1>8 DEF HandleLatentDelaySlot
  <2>2. /\ phase' # "host" /\ GuestPc' = branch_target
        /\ Pending' = IF has_delay_slot' THEN branch_target' ELSE NoTarget
    BY <1>6, <2>1
  <2>3. NextPc = branch_target
    BY <1>5, <2>1
  <2>4. Pending' = Left
    BY <1>3, <2>1, <2>2
  <2> QED
    BY <2>2, <2>3, <2>4
<1>9. CASE HandleImpossibleDelaySlot(c)
  <2>1. idx > 0 /\ Info.branch /\ Last.branch /\ cond' = c
    BY <1>9 DEF HandleImpossibleDelaySlot
  <2>2. FlushesDelaySlot
    BY <1>1, <2>1, InfoFields DEF FlushesDelaySlot
  <2>3. CASE Last.conditional => SavedCond
    <3>1. LastTaken
      BY <2>1, <2>2, <2>3 DEF LastTaken, SavedCond
    <3>2. (IF Last.indirect THEN SavedIndirect ELSE Last.target) = LastTarget
      BY <2>1, <2>2 DEF SavedIndirect, LastTarget
    <3>3. /\ GotoThunk(LastTarget) /\ branch_target' = TargetAfter
          /\ has_delay_slot' = (Info.conditional => (Last.conditional /\ c))
      BY <1>9, <2>3, <3>2 DEF HandleImpossibleDelaySlot
    <3>4. Info.conditional => Last.conditional
      BY <1>1, <1>5, <2>1, NoMistranslation DEF Info, Last
    <3>5. has_delay_slot' <=> taken
      BY <1>3, <2>1, <3>3, <3>4
    <3>6. /\ phase' # "host" /\ GuestPc' = LastTarget
          /\ Pending' = IF has_delay_slot' THEN branch_target' ELSE NoTarget
      BY <1>6, <3>3
    <3>7. NextPc = LastTarget
      BY <1>5, <2>1, <3>1
    <3> QED
      BY <3>3, <3>5, <3>6, <3>7
  <2>4. CASE ~(Last.conditional => SavedCond)
    <3>1. GotoIndex(idx + 1)
      BY <1>9, <2>4 DEF HandleImpossibleDelaySlot
    <3>2. ~LastTaken
      BY <2>1, <2>2, <2>4 DEF LastTaken, SavedCond
    <3> QED
      BY <1>5, <1>7, <2>1, <3>1, <3>2
  <2> QED
    BY <2>3, <2>4
<1>10. CASE HandleDelaySlot(c)
  <2>1. /\ idx > 0 /\ ~Info.branch /\ Last.branch /\ cond' = FALSE
        /\ ~has_delay_slot /\ ~has_delay_slot' /\ c = cond
    BY <1>1, <1>3, <1>10 DEF HandleDelaySlot, JitInv, LatentInv, latentVars
  <2>2. Left = NoTarget
    BY <1>3, <2>1
  <2>3. CASE (Last.conditional => c) /\ IsLocal(Last)
    <3>1. LastTaken /\ GotoIndex(Last.target - code.base)
      BY <1>10, <2>1, <2>3 DEF HandleDelaySlot, LastTaken
    <3>2. /\ Last.target \in Word /\ code.base \in Nat /\ code.count \in Nat
          /\ Last.target \in code.entries /\ LastTarget = Last.target
      BY <1>1, <2>1, <2>3, LastFields, RegionArrays, LabelExists DEF LastTarget, IsLocal
    <3>3. /\ Last.target - code.base \in 0 .. code.count - 1
          /\ idx' = Last.target - code.base /\ code' = code
          /\ idx' > 0 /\ LastTaken' => code.op[idx' - 1] = "BLEZ0"
      BY <1>1, <2>1, <2>3, <3>1, ToLabel
    <3>4. phase' = "region"
      BY <1>1, <3>1 DEF GotoIndex
    <3>5. GuestPc' = Last.target
      <4>1. Last.target \in Nat /\ code.base + (Last.target - code.base) = Last.target
            /\ Last.target % ImemWords = Last.target
        BY <3>2, Imem
      <4> QED
        BY <3>3, <3>4, <4>1 DEF GuestPc
    <3>6. idx' > 0 => ~LastTaken'
      <4> SUFFICES ASSUME idx' > 0, LastTaken' PROVE FALSE
        OBVIOUS
      <4> DEFINE k == idx' - 1
      <4>1. k \in 0 .. code.count - 1 /\ code.base + k + 1 = Last.target
        <5>1. Last.target \in Nat
          BY <3>2, Imem
        <5> QED
          BY <3>2, <3>3, <5>1
      <4>2. code.op[k] = "BLEZ0"
        BY <3>3
      <4> HIDE DEF k
      <4> QED
        BY <1>1, <3>2, <4>1, <4>2, NoMistranslation
    <3>7. Pending' = NoTarget
      BY <2>1, <3>4, <3>6 DEF Pending, LastTaken
    <3>8. NextPc = Last.target
      BY <1>5, <2>1, <3>1, <3>2
    <3> QED
      BY <2>2, <3>4, <3>5, <3>7, <3>8
  <2>4. CASE (Last.conditional => c) /\ ~IsLocal(Last)
    <3>1. GotoThunk(LastTarget) /\ LastTaken
      BY <1>10, <2>1, <2>4 DEF HandleDelaySlot, LastTaken
    <3>2. phase' # "host" /\ GuestPc' = LastTarget /\ Pending' = NoTarget
      BY <1>6, <2>1, <3>1
    <3>3. NextPc = LastTarget
      BY <1>5, <2>1, <3>1
    <3> QED
      BY <2>2, <3>2, <3>3
  <2>5. CASE ~(Last.conditional => c)
    <3>1. GotoIndex(idx + 1) /\ ~LastTaken
      BY <1>10, <2>1, <2>5 DEF HandleDelaySlot, LastTaken
    <3> QED
      BY <1>5, <1>7, <2>1, <3>1
  <2> QED
    BY <2>3, <2>4, <2>5
<1>11. CASE FallThrough(c)
  <2>1. GotoIndex(idx + 1) /\ cond' = c
    BY <1>11 DEF FallThrough
  <2>2. Pending = NoTarget
    BY <1>5, <1>11 DEF FallThrough, LastTaken
  <2> QED
    BY <1>7, <2>1, <2>2
<1> QED
  BY <1>2, <1>8, <1>9, <1>10, <1>11 DEF c

\* The end of a region and the enter thunk are not steps of the guest.
LEMMA GlueStutters ==
  ASSUME JitInv, EndOfBlock \/ EnterThunk
  PROVE  UNCHANGED Guest!isaVars
<1>1. SUFFICES phase # "host" /\ phase' # "host" /\ UNCHANGED <<imem, GuestPc, Pending, ra>>
  BY DEF Guest!isaVars
<1>2. CASE EndOfBlock
  <2>1. /\ phase = "region" /\ idx = code.count /\ GotoThunk((code.base + idx) % ImemWords)
        /\ UNCHANGED <<imem, ra>>
    BY <1>2 DEF EndOfBlock, indirectVars
  <2>2. idx > 0 /\ ~has_delay_slot
    BY <2>1, RegionArrays DEF JitInv, LatentInv
  <2>3. /\ phase' = "enter" /\ next_pc' = (code.base + idx) % ImemWords
    BY <2>1 DEF GotoThunk
  <2>4. GuestPc' = GuestPc
    BY <2>1, <2>3 DEF GuestPc
  <2>5. Pending = IF LastTaken THEN LastTarget ELSE NoTarget
    BY <2>1, <2>2 DEF Pending, LastTaken
  <2>6. Pending' = IF has_delay_slot' THEN branch_target' ELSE NoTarget
    BY <2>3 DEF Pending
  <2>7. CASE LastTaken
    BY <1>2, <2>5, <2>6, <2>7, <2>1, <2>3, <2>4 DEF EndOfBlock, LastTaken
  <2>8. CASE ~LastTaken
    BY <1>2, <2>5, <2>6, <2>8, <2>1, <2>2, <2>3, <2>4 DEF EndOfBlock, LastTaken, latentVars
  <2> QED
    BY <2>7, <2>8
<1>3. CASE EnterThunk
  <2>1. /\ phase = "enter" /\ phase' = "region" /\ idx' = 0
        /\ code' = JitRegion(imem, next_pc, RegionEnd(imem, next_pc))
        /\ UNCHANGED <<imem, has_delay_slot, branch_target, ra>>
    BY <1>3 DEF EnterThunk, latentVars, indirectVars
  <2>2. next_pc \in Word /\ next_pc + 0 = next_pc /\ next_pc % ImemWords = next_pc
    BY Imem DEF JitInv, TypeOK
  <2>3. code'.base = next_pc
    BY <2>1 DEF JitRegion
  <2>4. GuestPc' = GuestPc
    BY <2>1, <2>2, <2>3 DEF GuestPc
  <2>5. Pending' = Pending
    BY <2>1 DEF Pending
  <2> QED
    BY <2>1, <2>4, <2>5
<1> QED
  BY <1>2, <1>3

\* Leaving the code is leaving the guest, with no branch left behind.
LEMMA ExitRefines ==
  ASSUME JitInv, Exit
  PROVE  Guest!Leave
<1>1. /\ AtInstruction /\ phase = "region" /\ Op \in {"BREAK", "COP0"} /\ phase' = "host"
      /\ pc' = ExitPc /\ UNCHANGED <<imem, ra>>
      /\ has_delay_slot' = IF idx = 0 THEN FALSE ELSE has_delay_slot
  BY DEF Exit, indirectVars, AtInstruction
<1>2. /\ GuestPc = code.base + idx /\ imem[GuestPc].op = Op /\ idx \in Nat
      /\ idx = 0 => Pending = IF has_delay_slot THEN branch_target ELSE NoTarget
      /\ idx > 0 => Pending = IF LastTaken THEN LastTarget ELSE NoTarget
      /\ idx = 0 /\ has_delay_slot => Pending # NoTarget
      /\ idx > 0 /\ LastTaken => Pending # NoTarget
  BY <1>1, GuestAt, AtIndex
<1>3. GuestPc' = ExitPc /\ Pending' = IF has_delay_slot' THEN branch_target' ELSE NoTarget
  BY <1>1 DEF GuestPc, Pending
<1>4. ~has_delay_slot'
  BY <1>1, <1>2 DEF JitInv, LatentInv
<1>5. ExitPc = IF Pending = NoTarget THEN Succ(GuestPc) ELSE Pending
  <2>1. CASE idx = 0 /\ has_delay_slot
    BY <1>2, <2>1 DEF ExitPc
  <2>2. CASE idx > 0 /\ LastTaken
    BY <1>2, <2>2 DEF ExitPc, LastTaken
  <2>3. CASE ~(idx = 0 /\ has_delay_slot) /\ ~(idx > 0 /\ LastTaken)
    <3>1. ExitPc = Succ(code.base + idx)
      BY <1>2, <2>3 DEF ExitPc, LastTaken
    <3>2. Pending = NoTarget
      BY <1>2, <2>3
    <3> QED
      BY <1>2, <3>1, <3>2
  <2> QED
    BY <2>1, <2>2, <2>3
<1>6. Guest!NextPc = IF Pending = NoTarget THEN Succ(GuestPc) ELSE Pending
  BY SameOperators DEF Guest!NextPc
<1> QED
  BY <1>1, <1>2, <1>3, <1>4, <1>5, <1>6 DEF Guest!Leave

\* The emulator resumes the guest.
LEMMA ResumeRefines ==
  ASSUME JitInv, NEW start \in Word, Resume(start)
  PROVE  Guest!Resume(start)
<1>1. /\ phase = "host" /\ phase' = "enter" /\ next_pc' = start
      /\ UNCHANGED <<imem, has_delay_slot, branch_target, ra>>
  BY DEF Resume, latentVars
<1>2. GuestPc' = start /\ Pending' = Pending
  BY <1>1 DEF GuestPc, Pending
<1> QED
  BY <1>1, <1>2 DEF Guest!Resume

\* For every program without the two mistranslated shapes, however it is cut into
\* regions: the generated code of jit_region and its handlers implements the
\* guest's control flow, RspIsa.
THEOREM Refinement == Spec /\ imem \in Translated(Programs) => RefinesIsa
<1>1. Init => Guest!Init
  <2> SUFFICES ASSUME Init PROVE Guest!Init
    OBVIOUS
  <2>1. imem \in [Word -> Instructions] /\ ra \in Word /\ 0 \in Word
    BY ProgramAssumption, Imem DEF Init
  <2>2. GuestPc = 0 /\ Pending = NoTarget /\ phase = "host"
    BY DEF Init, GuestPc, Pending
  <2> QED
    BY <2>1, <2>2, SameOperators DEF Guest!Init
<1>2. JitInv /\ TranslatedInv /\ [Next]_vars => [Guest!Next]_(Guest!isaVars)
  <2> SUFFICES ASSUME JitInv, TranslatedInv, [Next]_vars
               PROVE  [Guest!Next]_(Guest!isaVars)
    OBVIOUS
  <2>1. CASE Instruction
    BY <2>1, InstructionRefines DEF Guest!Next
  <2>2. CASE EndOfBlock \/ EnterThunk
    BY <2>2, GlueStutters
  <2>3. CASE Exit
    BY <2>3, ExitRefines DEF Guest!Next
  <2>4. ASSUME NEW start \in Word, Resume(start) PROVE Guest!Next
    BY <2>4, ResumeRefines, SameOperators DEF Guest!Next
  <2>5. CASE UNCHANGED vars
    <3>1. UNCHANGED <<imem, phase, pc, next_pc, code, idx, has_delay_slot, branch_target, cond,
                      indirect, ra>>
      BY <2>5 DEF vars, latentVars, indirectVars
    <3>2. GuestPc' = GuestPc /\ Pending' = Pending
      BY <3>1 DEF GuestPc, Pending, Last, LastTarget
    <3> QED
      BY <3>1, <3>2 DEF Guest!isaVars
  <2> QED
    BY <2>1, <2>2, <2>3, <2>4, <2>5 DEF Next
<1>3. TranslatedInv /\ [Next]_vars => TranslatedInv'
  <2>1. ASSUME [Next]_vars PROVE imem' = imem
    BY <2>1 DEF Next, Instruction, EndOfBlock, Exit, EnterThunk, Resume, vars
  <2> QED
    BY <2>1 DEF TranslatedInv
<1>4. imem \in Translated(Programs) => TranslatedInv
  BY DEF TranslatedInv
<1> QED
  BY <1>1, <1>2, <1>3, <1>4, JitInvariance, PTL DEF Spec, RefinesIsa, Guest!Spec

=============================================================================
