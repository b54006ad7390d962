------------------------------ MODULE VectorUnit ------------------------------
(***************************************************************************)
(* One lane of the RSP vector unit (src/rsp/vfunctions.cpp and the SSE     *)
(* bodies in src/arch/simd/rsp/v*.h).  The eight lanes of an instruction   *)
(* never look at each other once LOAD_VT has shuffled its operand, so a    *)
(* lane with arbitrary operands stands for all of them; the shuffle, the   *)
(* moves and the divisions are in Cop2 and Divider.                        *)
(*                                                                         *)
(* A lane is H = 2^15 wide on each side of zero in the code; H is a        *)
(* parameter here.  A 16-bit element is its unsigned value in Lane, S(x)   *)
(* its signed one; a comparison mask, all zeroes or all ones in the code,  *)
(* is a BOOLEAN, and subtracting a mask adds Bit(mask).                    *)
(***************************************************************************)
EXTENDS Integers, Sequences

CONSTANTS H,            \* 2^(width - 1): 32768 in the code
          G,            \* the granule of VMULQ and VMACQ: 16 in the code
          BitAnd(_, _), \* the bitwise and of two elements
          Operand       \* the elements that other instructions load

ASSUME LaneAssumption == H \in Nat \ {0} /\ G \in Nat \ {0}

M == 2 * H
Lane == 0 .. M - 1

ASSUME OperandAssumption == Operand \subseteq Lane
ASSUME BitAndAssumption == \A a, b \in Lane : BitAnd(a, b) \in Lane

VARIABLES vs, vt,  \* the operands, as LOAD_VS and LOAD_VT give them
          acc,    \* the accumulator: [hi, md, lo], an element each
          vd,     \* the destination element
          vco,    \* [hi (not equal), lo (carry, borrow or sign)]
          vcc,    \* [hi (ge), lo (le, the selection)]
          vce,
          chain   \* history: the flag-passing instructions in progress

vars == <<vs, vt, acc, vd, vco, vcc, vce, chain>>
flags == <<vco, vcc, vce>>

Clear == [hi |-> FALSE, lo |-> FALSE]

Bit(b) == IF b THEN 1 ELSE 0
Min2(a, b) == IF a < b THEN a ELSE b
Max2(a, b) == IF a < b THEN b ELSE a
S(x) == IF x < H THEN x ELSE x - M
Neg(x) == x >= H
Clamp16s(n) == Max2(-H, Min2(H - 1, n))

-----------------------------------------------------------------------------
(* The SSE2 instructions the bodies are made of.                           *)

U(n) == n % M
add(a, b) == U(a + b)
sub(a, b) == U(a - b)
adds(a, b) == U(Clamp16s(S(a) + S(b)))
subs(a, b) == U(Clamp16s(S(a) - S(b)))
addsu(a, b) == Min2(M - 1, a + b)
subsu(a, b) == Max2(0, a - b)
mullo(a, b) == U(a * b)
mulhi(a, b) == U((S(a) * S(b)) \div M)
mulhu(a, b) == (a * b) \div M
srai15(a) == IF Neg(a) THEN M - 1 ELSE 0
Not(a) == M - 1 - a
Mask(b) == IF b THEN M - 1 ELSE 0

(* adds_epu16 against add_epi16: the carry out of an unsigned sum.         *)
CarryOut(a, b) == addsu(a, b) # add(a, b)

-----------------------------------------------------------------------------
(* Clamping an accumulator to an element.                                  *)

rsp_sclamp_acc_tomd(a) == U(Clamp16s(S(a.hi) * M + a.md))

rsp_uclamp_acc(a) ==
    IF Neg(a.hi) = Neg(a.md) /\ a.hi = srai15(a.hi) THEN a.lo
    ELSE IF Neg(a.hi) THEN 0 ELSE M - 1

-----------------------------------------------------------------------------
(* The accumulator after a product, and the result taken from it.          *)

rsp_vmulf_vmulu ==
    LET lo == mullo(vs, vt)
        twice == add(lo, lo)
        md == add(U(2 * mulhi(vs, vt)), Bit(Neg(lo)) + Bit(Neg(twice)))
    IN  [lo |-> add(H, twice), md |-> md, hi |-> Mask(Neg(md) /\ vs # vt)]

VmulfResult(a) == add(a.md, Mask(vs = vt /\ Neg(a.md)))
VmuluResult(a) ==
    IF a.hi = M - 1 THEN 0 ELSE IF Neg(a.md) THEN M - 1 ELSE a.md

(* A changed form: a carry into a middle word of all ones is lost.         *)
rsp_vmacf_vmacu_LosesCarry ==
    LET plo == mullo(vs, vt)
        phi == mulhi(vs, vt)
        lo == U(2 * plo)
        md == add(U(2 * phi) + Bit(Neg(plo)), Bit(CarryOut(acc.lo, lo)))
    IN  [lo |-> add(acc.lo, lo), md |-> add(acc.md, md),
         hi |-> add(add(acc.hi, srai15(phi)), Bit(CarryOut(acc.md, md)))]

rsp_vmacf_vmacu ==
    LET plo == mullo(vs, vt)
        phi == mulhi(vs, vt)
        lo == U(2 * plo)
        c == CarryOut(acc.lo, lo)
        md == add(U(2 * phi) + Bit(Neg(plo)), Bit(c))
        hi == add(srai15(phi), Bit(c /\ md = 0))
    IN  [lo |-> add(acc.lo, lo), md |-> add(acc.md, md),
         hi |-> add(add(acc.hi, hi), Bit(CarryOut(acc.md, md)))]

VmacuResult(a) ==
    IF S(a.hi) > 0 THEN M - 1
    ELSE IF Neg(a.hi) THEN 0 ELSE IF Neg(a.md) THEN M - 1 ELSE a.md

rsp_vmudh == [lo |-> 0, md |-> mullo(vs, vt), hi |-> mulhi(vs, vt)]

rsp_vmadh ==
    LET lo == mullo(vs, vt)
        hi == add(mulhi(vs, vt), Bit(CarryOut(acc.md, lo)))
    IN  [acc EXCEPT !.md = add(@, lo), !.hi = add(@, hi)]

rsp_vmudl == [lo |-> mulhu(vs, vt), md |-> 0, hi |-> 0]

rsp_vmadl ==
    LET lo == mulhu(vs, vt)
        c == Bit(CarryOut(acc.lo, lo))
    IN  [lo |-> add(acc.lo, lo), md |-> add(acc.md, c),
         hi |-> add(acc.hi, Bit(CarryOut(acc.md, c)))]

(* A signed by an unsigned factor: the unsigned product, its upper half    *)
(* corrected when the signed factor is negative.                           *)
MixedProduct(signed, unsigned) ==
    [lo |-> mullo(signed, unsigned),
     hi |-> sub(mulhu(signed, unsigned), IF Neg(signed) THEN unsigned ELSE 0)]

SetMixed(p) == [lo |-> p.lo, md |-> p.hi, hi |-> srai15(p.hi)]

AddMixed(p) ==
    LET hi == add(p.hi, Bit(CarryOut(acc.lo, p.lo)))
    IN  [lo |-> add(acc.lo, p.lo), md |-> add(acc.md, hi),
         hi |-> add(add(acc.hi, srai15(hi)), Bit(CarryOut(acc.md, hi)))]

-----------------------------------------------------------------------------
(* What an instruction writes.  The instructions that hand flags to one    *)
(* another (a low half, a high half, a merge) are recorded in chain; the   *)
(* others leave it alone, as they leave VCO, VCC and VCE alone.            *)

Link(op) == [op |-> op, vs |-> vs, vt |-> vt, vd |-> vd']

(* The full accumulator and the result (write_acc_*, STORE_RESULT).        *)
WriteAcc(a, result) == acc' = a /\ vd' = result /\ UNCHANGED <<flags, chain>>

(* write_acc_lo and STORE_RESULT.                                          *)
WriteLow(lo, result) == acc' = [acc EXCEPT !.lo = lo] /\ vd' = result

LogicOp(result) == WriteLow(result, result) /\ UNCHANGED <<flags, chain>>

(* VADDC, VSUBC and VCH leave flags for an instruction on the high (for    *)
(* VCH: the low) halves; the comparison after a VSUBC leaves VCC for VMRG. *)
FirstHalf(op) == chain' = <<Link(op)>>
SecondHalf(op) ==
    chain' = IF Len(chain) = 1 /\ chain[1].op = "VSUBC"
             THEN <<chain[1], Link(op)>> ELSE <<>>
LastHalf == chain' = <<>>

-----------------------------------------------------------------------------
(* Sums and differences.                                                   *)

(* A changed form: the carry is added after the sum has been saturated.    *)
VADD_SaturatesTwice ==
    /\ WriteLow(add(add(vs, vt), Bit(vco.lo)), subs(adds(vs, vt), Mask(vco.lo)))
    /\ vco' = Clear
    /\ UNCHANGED <<vcc, vce>>
    /\ LastHalf

VADD ==
    LET c == vco.lo
        low == IF S(vs) < S(vt) THEN vs ELSE vt
        high == IF S(vs) < S(vt) THEN vt ELSE vs
    IN  /\ WriteLow(add(add(vs, vt), Bit(c)), adds(subs(low, Mask(c)), high))
        /\ vco' = Clear
        /\ UNCHANGED <<vcc, vce>>
        /\ LastHalf

VADDC ==
    /\ WriteLow(add(vs, vt), add(vs, vt))
    /\ vco' = [hi |-> FALSE, lo |-> CarryOut(vs, vt)]
    /\ UNCHANGED <<vcc, vce>>
    /\ FirstHalf("VADDC")

VSUB ==
    LET unsat == sub(vt, Mask(vco.lo))
        sat == subs(vt, Mask(vco.lo))
    IN  /\ WriteLow(sub(vs, unsat), adds(subs(vs, sat), Mask(S(sat) > S(unsat))))
        /\ vco' = Clear
        /\ UNCHANGED <<vcc, vce>>
        /\ LastHalf

VSUBC ==
    /\ WriteLow(sub(vs, vt), sub(vs, vt))
    /\ vco' = [hi |-> vs # vt, lo |-> vs # vt /\ subsu(vs, vt) = 0]
    /\ UNCHANGED <<vcc, vce>>
    /\ FirstHalf("VSUBC")

(* sign is VS's sign as a mask; VT is dropped where VS is zero.            *)
VABS ==
    LET t == IF vs = 0 THEN 0 ELSE vt
        x == IF Neg(vs) THEN Not(t) ELSE t
    IN  /\ WriteLow(sub(x, srai15(vs)), subs(x, srai15(vs)))
        /\ UNCHANGED <<flags, chain>>

VAND == LogicOp(BitAnd(vs, vt))
VNAND == LogicOp(Not(BitAnd(vs, vt)))
VOR == LogicOp(Not(BitAnd(Not(vs), Not(vt))))
VNOR == LogicOp(BitAnd(Not(vs), Not(vt)))
Xor(a, b) == U(a + b - 2 * BitAnd(a, b))
VXOR == LogicOp(Xor(vs, vt))
VNXOR == LogicOp(Not(Xor(vs, vt)))
RESERVED == WriteLow(add(vs, vt), 0) /\ UNCHANGED <<flags, chain>>

-----------------------------------------------------------------------------
(* Comparisons: they read the flags of a VSUBC of the low halves.          *)

Compare(op, le) ==
    LET result == IF le THEN vs ELSE vt
    IN  /\ WriteLow(result, result)
        /\ vcc' = [hi |-> FALSE, lo |-> le]
        /\ vco' = Clear
        /\ UNCHANGED vce
        /\ SecondHalf(op)

VEQ == Compare("VEQ", vs = vt /\ ~vco.hi)
VNE == Compare("VNE", vs # vt \/ vco.hi)
(* A changed form: the borrow of the low halves is not looked at.          *)
VGE_IgnoresBorrow == Compare("VGE", S(vs) >= S(vt))

VGE ==
    Compare("VGE", S(vs) > S(vt) \/ (vs = vt /\ ~(vco.hi /\ vco.lo)))
VLT ==
    Compare("VLT", S(vs) < S(vt) \/ (vs = vt /\ vco.hi /\ vco.lo))

(* Changed forms: VCO survives the merge; the other operand is selected.   *)
VMRG_KeepsCarry ==
    LET result == IF vcc.lo THEN vs ELSE vt
    IN  WriteLow(result, result) /\ UNCHANGED flags /\ LastHalf

VMRG_SelectsOther ==
    LET result == IF vcc.lo THEN vt ELSE vs
    IN  /\ WriteLow(result, result)
        /\ vco' = Clear
        /\ UNCHANGED <<vcc, vce>>
        /\ LastHalf

(* VMRG selects by the last comparison.                                    *)
VMRG ==
    LET result == IF vcc.lo THEN vs ELSE vt
    IN  /\ WriteLow(result, result)
        /\ vco' = Clear
        /\ UNCHANGED <<vcc, vce>>
        /\ LastHalf

-----------------------------------------------------------------------------
(* Clips.  sign says the operands' signs differ.                           *)

VCH ==
    LET sign == Neg(vs) # Neg(vt)
        signNegvt == IF sign THEN U(-vt) ELSE vt
        diff == sub(vs, signNegvt)
        le == IF sign THEN S(diff) <= 0 ELSE Neg(vt)
        ge == IF sign THEN Neg(vt) ELSE S(diff) >= 0
        ce == sign /\ diff = M - 1
        result == IF (IF sign THEN le ELSE ge) THEN signNegvt ELSE vs
    IN  /\ WriteLow(result, result)
        /\ vcc' = [hi |-> ge, lo |-> le]
        /\ vco' = [hi |-> diff # 0 /\ ~ce, lo |-> sign]
        /\ vce' = ce
        /\ FirstHalf("VCH")

(* A changed form: VCE is not looked at.                                   *)
VCL_IgnoresVce ==
    LET sign == vco.lo
        signNegvt == IF sign THEN U(-vt) ELSE vt
        diff == sub(vs, signNegvt)
        ncarry == diff = addsu(vs, vt)
        le == IF sign /\ ~vco.hi THEN diff = 0 /\ ncarry ELSE vcc.lo
        ge == IF sign \/ vco.hi THEN vcc.hi ELSE subsu(vt, vs) = 0
        result == IF (IF sign THEN le ELSE ge) THEN signNegvt ELSE vs
    IN  /\ WriteLow(result, result)
        /\ vcc' = [hi |-> ge, lo |-> le]
        /\ vco' = Clear
        /\ vce' = FALSE
        /\ LastHalf

VCL ==
    LET sign == vco.lo
        signNegvt == IF sign THEN U(-vt) ELSE vt
        diff == sub(vs, signNegvt)
        ncarry == diff = addsu(vs, vt)
        leEq == IF vce THEN diff = 0 \/ ncarry ELSE diff = 0 /\ ncarry
        geEq == subsu(vt, vs) = 0
        le == IF sign /\ ~vco.hi THEN leEq ELSE vcc.lo
        ge == IF sign \/ vco.hi THEN vcc.hi ELSE geEq
        result == IF (IF sign THEN le ELSE ge) THEN signNegvt ELSE vs
    IN  /\ WriteLow(result, result)
        /\ vcc' = [hi |-> ge, lo |-> le]
        /\ vco' = Clear
        /\ vce' = FALSE
        /\ LastHalf

VCR ==
    LET sign == Neg(vs) # Neg(vt)
        le == Neg(add(IF sign THEN vs ELSE 0, vt))
        ge == S(vt) <= (IF sign THEN -1 ELSE S(vs))
        signNotvt == IF sign THEN Not(vt) ELSE vt
        result == IF (IF sign THEN le ELSE ge) THEN signNotvt ELSE vs
    IN  /\ WriteLow(result, result)
        /\ vcc' = [hi |-> ge, lo |-> le]
        /\ vco' = Clear
        /\ vce' = FALSE
        /\ LastHalf

-----------------------------------------------------------------------------
(* Multiplications.                                                        *)

VMULF ==
    LET a == rsp_vmulf_vmulu IN WriteAcc(a, VmulfResult(a))
VMULU ==
    LET a == rsp_vmulf_vmulu IN WriteAcc(a, VmuluResult(a))
VMACF ==
    LET a == rsp_vmacf_vmacu IN WriteAcc(a, rsp_sclamp_acc_tomd(a))
VMACU ==
    LET a == rsp_vmacf_vmacu IN WriteAcc(a, VmacuResult(a))
VMUDH ==
    LET a == rsp_vmudh IN WriteAcc(a, rsp_sclamp_acc_tomd(a))
VMADH ==
    LET a == rsp_vmadh IN WriteAcc(a, rsp_sclamp_acc_tomd(a))
VMUDL ==
    LET a == rsp_vmudl IN WriteAcc(a, a.lo)
VMADL ==
    LET a == rsp_vmadl IN WriteAcc(a, rsp_uclamp_acc(a))
VMUDM ==
    LET a == SetMixed(MixedProduct(vs, vt)) IN WriteAcc(a, a.md)
VMADM ==
    LET a == AddMixed(MixedProduct(vs, vt)) IN WriteAcc(a, rsp_sclamp_acc_tomd(a))
VMUDN ==
    LET a == SetMixed(MixedProduct(vt, vs)) IN WriteAcc(a, a.lo)
VMADN ==
    LET a == AddMixed(MixedProduct(vt, vs)) IN WriteAcc(a, rsp_uclamp_acc(a))

(* & ~15: down to a multiple of the granule.                               *)
Granular(n) == n - (n % G)

VMULQ ==
    LET p == S(vs) * S(vt)
        prod == IF p < 0 THEN p + 2 * G - 1 ELSE p
    IN  WriteAcc([hi |-> U(prod \div M), md |-> U(prod), lo |-> 0],
                 U(Granular(Clamp16s(prod \div 2))))

(* Bit 5 of the product, the parity of its multiple of 32.                 *)
OddBit(n) == (n \div (2 * G)) % 2 = 1

VMACQ ==
    LET p == S(acc.hi) * M + acc.md
        prod == IF OddBit(p) THEN p
                ELSE IF p < 0 THEN p + 2 * G
                ELSE IF p >= 2 * G THEN p - 2 * G ELSE p
    IN  WriteAcc([acc EXCEPT !.hi = U(prod \div M), !.md = U(prod)],
                 U(Granular(Clamp16s(prod \div 2))))

(* The accumulator as one signed number, and back.                         *)
Acc48(a) == (S(a.hi) * M + a.md) * M + a.lo
Parts(n) == [hi |-> U(n \div (M * M)), md |-> U(n \div M), lo |-> U(n)]

(* RSP_VRND; shifted is the low bit of the VS field.                       *)
RSP_VRND(shifted, onNegative) ==
    LET n == Acc48(acc)
        value == IF shifted THEN S(vt) * M ELSE S(vt)
        a == Parts(IF onNegative = (n < 0) THEN n + value ELSE n)
    IN  WriteAcc(a, rsp_sclamp_acc_tomd(a))

VRNDN(shifted) == RSP_VRND(shifted, TRUE)
VRNDP(shifted) == RSP_VRND(shifted, FALSE)

(* VSAR reads a third of the accumulator, or zero.                         *)
VSAR(e) ==
    /\ vd' = CASE e = 8 -> acc.hi [] e = 9 -> acc.md [] e = 10 -> acc.lo
             [] OTHER -> 0
    /\ UNCHANGED <<acc, flags, chain>>

-----------------------------------------------------------------------------
(* Another instruction has left other elements in the operand registers.   *)
Load ==
    /\ \/ vs' \in Operand /\ UNCHANGED vt
       \/ vt' \in Operand /\ UNCHANGED vs
    /\ UNCHANGED <<acc, vd, flags, chain>>

Init ==
    /\ vs = 0 /\ vt = 0
    /\ acc = [hi |-> 0, md |-> 0, lo |-> 0]
    /\ vd = 0
    /\ vco = Clear /\ vcc = Clear /\ vce = FALSE
    /\ chain = <<>>

FlagStep ==
    \/ VADD \/ VADDC \/ VSUB \/ VSUBC
    \/ VEQ \/ VNE \/ VGE \/ VLT \/ VMRG
    \/ VCH \/ VCL \/ VCR

LogicStep ==
    \/ VABS
    \/ VAND \/ VNAND \/ VOR \/ VNOR \/ VXOR \/ VNXOR
    \/ RESERVED

MultiplyStep ==
    \/ VMULF \/ VMULU \/ VMACF \/ VMACU
    \/ VMUDH \/ VMADH \/ VMUDL \/ VMADL
    \/ VMUDM \/ VMADM \/ VMUDN \/ VMADN
    \/ VMULQ

AccumulatorStep ==
    \/ VMACQ
    \/ \E shifted \in BOOLEAN : VRNDN(shifted) \/ VRNDP(shifted)
    \/ \E e \in {0, 8, 9, 10} : VSAR(e)

Next ==
    \/ Load
    \/ /\ FlagStep \/ LogicStep \/ MultiplyStep \/ AccumulatorStep
       /\ UNCHANGED <<vs, vt>>

Spec == Init /\ [][Next]_vars

-----------------------------------------------------------------------------
FlagPair == [hi : BOOLEAN, lo : BOOLEAN]

(* Every element the instructions write is an element: each intermediate   *)
(* of the SSE bodies has been brought back to 16 bits.                     *)
TypeOK ==
    /\ acc \in [hi : Lane, md : Lane, lo : Lane]
    /\ vd \in Lane /\ vs \in Lane /\ vt \in Lane
    /\ vco \in FlagPair /\ vcc \in FlagPair /\ vce \in BOOLEAN
    /\ Len(chain) \in 0 .. 2

-----------------------------------------------------------------------------
(* Two elements as one double-width number.                                *)
Double(hi, lo) == S(hi) * M + lo

ChainIs(op) == Len(chain) = 1 /\ chain[1].op = op

(* VADDC on the low halves and VADD on the high halves is the double-width *)
(* sum, its high half saturated; likewise VSUBC and VSUB, whatever runs    *)
(* between the two (vadd.h and vsub.h: "Since we have to saturate the sum  *)
(* of all three, we have to be clever").                                   *)
SumStep ==
    LET total(sgn) == Double(vs, chain[1].vs) + sgn * Double(vt, chain[1].vt)
        exact(n) == chain[1].vd = U(n) /\ vd' = U(Clamp16s(n \div M))
    IN  /\ ChainIs("VADDC") /\ VADD => exact(total(1))
        /\ ChainIs("VSUBC") /\ VSUB => exact(total(-1))

DoubleSum == [][SumStep]_vars

(* No carry is left behind: an addition, subtraction or comparison outside *)
(* a chain sees none, because every consumer of VCO clears it.             *)
NoStaleCarry == Len(chain) # 1 => vco = Clear

(* VSUBC of the low halves, then a comparison of the high halves, compares *)
(* the double-width numbers, whatever runs between the two.                *)
CompareStep ==
    LET a == Double(vs, chain[1].vs)
        b == Double(vt, chain[1].vt)
    IN  ChainIs("VSUBC") =>
          /\ VEQ => vcc'.lo = (a = b)
          /\ VNE => vcc'.lo = (a # b)
          /\ VGE => vcc'.lo = (a >= b)
          /\ VLT => vcc'.lo = (a < b)

DoubleCompare == [][CompareStep]_vars

(* Followed by VMRG of the low halves, VLT and VGE leave the minimum and   *)
(* the maximum of the two double-width numbers in the two results.         *)
MergeStep ==
    LET a == Double(chain[2].vs, vs)
        b == Double(chain[2].vt, vt)
        merged == Double(chain[2].vd, vd')
    IN  VMRG /\ Len(chain) = 2 /\ chain[1].vs = vs /\ chain[1].vt = vt =>
          /\ chain[2].op = "VLT" => merged = Min2(a, b)
          /\ chain[2].op = "VGE" => merged = Max2(a, b)

DoubleMinMax == [][MergeStep]_vars

(* VCH of the high halves, then VCL of the low halves, is the double-width *)
(* clip test: of operands of one sign, ge says VS reaches VT; of operands  *)
(* of opposite signs, le says VS reaches -VT (vch.h, vcl.h: "we don't      *)
(* update the results of ge/le if ne is false, so be careful").            *)
DoubleClipStep ==
    LET a == Double(chain[1].vs, vs)
        b == Double(chain[1].vt, vt)
    IN  ChainIs("VCH") /\ VCL =>
          IF (a < 0) = (b < 0) THEN vcc'.hi = (a >= b)
          ELSE vcc'.lo = (a <= -b)

(* A clip by a bound that is not negative leaves a value between the       *)
(* bounds: VCH and VCR on a single element clip to VT and to its negative  *)
(* or its complement.                                                      *)
ClipStep ==
    /\ VCH /\ ~Neg(vt) => S(vd') = Max2(-vt, Min2(vt, S(vs)))
    /\ VCR /\ ~Neg(vt) => S(vd') = Max2(-vt - 1, Min2(vt, S(vs)))

(* Both: the clip tests of vch.h, vcl.h and vcr.h are exact.               *)
ClipsExactly == [][DoubleClipStep /\ ClipStep]_vars

-----------------------------------------------------------------------------
(* What the multiplications promise: the three words of the accumulator    *)
(* are one signed number, three elements wide, that wraps around.  It is   *)
(* set to a product or a product is added to it, and the result is a clamp *)
(* of it, whatever the instructions before have left there.  The code      *)
(* works word by word and carries by hand (vmul.h to vmuln.h: "Tricky      *)
(* part: start accumulating everything").                                  *)
Signed(n) == ((n + H * M * M) % (M * M * M)) - H * M * M

Middle(n) == U(Clamp16s(n \div M))
MiddleUnsigned(n) == LET t == n \div M IN
                     IF t < 0 THEN 0 ELSE IF t >= H THEN M - 1 ELSE t
Low(n) == LET t == n \div M IN
          IF t < -H THEN 0 ELSE IF t >= H THEN M - 1 ELSE U(n)

Becomes(n, Result(_)) ==
    LET m == Signed(n) IN Acc48(acc') = m /\ vd' = Result(m)

MultiplyExact ==
    /\ VMULF => Becomes(2 * S(vs) * S(vt) + H, Middle)
    /\ VMACF => Becomes(Acc48(acc) + 2 * S(vs) * S(vt), Middle)
    /\ VMULU => Becomes(2 * S(vs) * S(vt) + H, MiddleUnsigned)
    /\ VMACU => Becomes(Acc48(acc) + 2 * S(vs) * S(vt), MiddleUnsigned)
    /\ VMUDH => Becomes(S(vs) * S(vt) * M, Middle)
    /\ VMADH => Becomes(Acc48(acc) + S(vs) * S(vt) * M, Middle)
    /\ VMUDM => Becomes(S(vs) * vt, Middle)
    /\ VMADM => Becomes(Acc48(acc) + S(vs) * vt, Middle)
    /\ VMUDN => Becomes(vs * S(vt), Low)
    /\ VMADN => Becomes(Acc48(acc) + vs * S(vt), Low)
    /\ VMUDL => Becomes((vs * vt) \div M, Low)
    /\ VMADL => Becomes(Acc48(acc) + (vs * vt) \div M, Low)

(* VMACQ settles: it reaches an odd multiple of 32, or less than 32, in    *)
(* one step and does not cross zero.                                       *)
OddifyStep ==
    VMACQ => LET p == S(acc.hi) * M + acc.md
                 q == S(acc'.hi) * M + acc'.md
             IN  /\ OddBit(q) \/ q \in 0 .. 2 * G - 1
                 /\ (q < 0) = (p < 0)

(* Every step of the multiplier is exact, and each intermediate of the SSE *)
(* bodies has been brought back to an element (TypeOK).                    *)
MultipliesExactly == [][TypeOK' /\ MultiplyExact /\ OddifyStep]_vars

=============================================================================
