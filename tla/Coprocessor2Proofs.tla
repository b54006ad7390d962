------------------------- MODULE Coprocessor2Proofs -------------------------
(***************************************************************************)
(* Proofs about coprocessor 2: the divider and the moves at the end, and   *)
(* one lane of the vector unit for every width, the code's sixteen bits    *)
(* included, which TLC cannot enumerate.                                   *)
(*                                                                         *)
(* The flags carry the state of a computation that several instructions do *)
(* together.  ChainInv says, for each point such a computation can be at,  *)
(* what the flags say about the operands of its first half; the properties *)
(* of the last half follow from it by arithmetic.                          *)
(*                                                                         *)
(* The multiplications keep a number of three words, with the carries done *)
(* by hand.  For each of them the proof names the number k that its high   *)
(* word stands for before it wraps: the three words then make up the exact *)
(* number (Number), and the accumulator is that number wrapped (Holding).  *)
(***************************************************************************)
EXTENDS VectorUnit, Divider, Cop2, Sequences, TLAPS

Half(op, a, b, v) == [op |-> op, vs |-> a, vt |-> b, vd |-> v]

NoChain == chain = <<>> /\ vco = Clear

AfterVADDC ==
  \E a, b \in Lane : /\ chain = <<Half("VADDC", a, b, add(a, b))>>
                     /\ vco = [hi |-> FALSE, lo |-> CarryOut(a, b)]

Borrow(a, b) == [hi |-> a # b, lo |-> a # b /\ subsu(a, b) = 0]

AfterVSUBC ==
  \E a, b \in Lane : /\ chain = <<Half("VSUBC", a, b, sub(a, b))>>
                     /\ vco = Borrow(a, b)

\* What the flags of a VCH say about its operands: whether their signs differ,
\* whether VS reaches VT or -VT, and whether the low halves can still matter.
ClipFlags(a, b) ==
  /\ vco \in FlagPair /\ vcc \in FlagPair /\ vce \in BOOLEAN
  /\ vco.lo <=> ~(S(a) < 0 <=> S(b) < 0)
  /\ vco.lo =>
       /\ (vcc.lo <=> S(a) + S(b) <= 0)
       /\ (vce <=> S(a) + S(b) = -1)
       /\ (vco.hi <=> S(a) + S(b) \notin {0, -1})
  /\ ~vco.lo =>
       /\ (vcc.hi <=> S(a) >= S(b))
       /\ (vco.hi <=> a # b)

AfterVCH ==
  \E a, b \in Lane : \E v : chain = <<Half("VCH", a, b, v)>> /\ ClipFlags(a, b)

CompareOps == {"VEQ", "VNE", "VGE", "VLT"}

Holds(op, x, y) ==
  \/ op = "VEQ" /\ x = y
  \/ op = "VNE" /\ x # y
  \/ op = "VGE" /\ x >= y
  \/ op = "VLT" /\ x < y

AfterCompare ==
  \E a, b, c, d \in Lane, op \in CompareOps :
    /\ chain = <<Half("VSUBC", a, b, sub(a, b)), Half(op, c, d, IF vcc.lo THEN c ELSE d)>>
    /\ vco = Clear
    /\ vcc.lo \in BOOLEAN /\ (vcc.lo <=> Holds(op, Double(c, a), Double(d, b)))

ChainInv ==
  /\ vs \in Lane /\ vt \in Lane
  /\ NoChain \/ AfterVADDC \/ AfterVSUBC \/ AfterVCH \/ AfterCompare

-----------------------------------------------------------------------------
(***************************************************************************)
(* Arithmetic of elements and of pairs of elements.                        *)
(***************************************************************************)

\* M is the number of values of an element.
LEMMA LaneSize == M \in Nat \ {0} /\ M = 2 * H /\ H \in Nat \ {0}
BY LaneAssumption DEF M

\* Bringing a number back to an element, where it is off by less than one turn.
LEMMA Wrapped ==
  ASSUME NEW n \in Int
  PROVE  /\ n \in 0 .. M - 1 => U(n) = n
         /\ n \in M .. 2 * M - 1 => U(n) = n - M
         /\ n \in -M .. -1 => U(n) = n + M
<1>1. n \in 0 .. M - 1 => n % M = n
  BY LaneSize
<1>2. n \in M .. 2 * M - 1 => n % M = n - M
  BY LaneSize
<1>3. n \in -M .. -1 => n % M = n + M
  BY LaneSize
<1> QED
  BY <1>1, <1>2, <1>3 DEF U

\* The two halves of a double-width number are its quotient and its rest.
LEMMA Halves ==
  ASSUME NEW h \in Int, NEW l \in Lane
  PROVE  (h * M + l) \div M = h /\ U(h * M + l) = l
<1>1. l \in 0 .. M - 1 /\ M \in Nat \ {0}
  BY LaneSize DEF Lane
<1>2. (h * M + l) \div M = h
  BY <1>1
<1>3. (h * M + l) % M = l
  BY <1>1
<1> QED
  BY <1>2, <1>3 DEF U

\* Double-width numbers are ordered by their high halves, then by their low halves.
LEMMA DoubleOrder ==
  ASSUME NEW x \in Int, NEW y \in Int, NEW a \in Lane, NEW b \in Lane
  PROVE  /\ (x * M + a < y * M + b) <=> (x < y \/ (x = y /\ a < b))
         /\ (x * M + a = y * M + b) <=> (x = y /\ a = b)
<1>1. a \in 0 .. M - 1 /\ b \in 0 .. M - 1 /\ M \in Nat \ {0}
  BY LaneSize DEF Lane
<1>2. ASSUME NEW p \in Int, NEW q \in Int, p < q PROVE p * M + M <= q * M
  <2>1. (q - p - 1) * M >= 0
    BY <1>1, <1>2
  <2>2. (q - p - 1) * M = q * M - p * M - M
    BY <1>1
  <2> QED
    BY <2>1, <2>2, <1>1
<1>3. x * M \in Int /\ y * M \in Int
  BY <1>1
<1>4. CASE x < y
  BY <1>1, <1>2, <1>3, <1>4
<1>5. CASE y < x
  BY <1>1, <1>2, <1>3, <1>5
<1>6. CASE x = y
  BY <1>1, <1>3, <1>6
<1> QED
  BY <1>4, <1>5, <1>6

\* The signed value of an element, and that different elements have different ones.
LEMMA SignedElement ==
  ASSUME NEW x \in Lane, NEW y \in Lane
  PROVE  /\ S(x) \in Int /\ S(x) \in -H .. H - 1
         /\ (S(x) = S(y)) <=> (x = y)
         /\ U(S(x)) = x
<1>1. S(x) \in -H .. H - 1 /\ ((S(x) = S(y)) <=> (x = y))
  BY LaneSize DEF S, Lane
<1>2. U(S(x)) = x
  BY LaneSize, Wrapped DEF S, Lane
<1> QED
  BY <1>1, <1>2

\* The flags of VADDC and VSUBC are the carry and the borrow of exact arithmetic.
LEMMA CarryAndBorrow ==
  ASSUME NEW a \in Lane, NEW b \in Lane
  PROVE  /\ CarryOut(a, b) <=> a + b >= M
         /\ add(a, b) = IF a + b >= M THEN a + b - M ELSE a + b
         /\ sub(a, b) = IF a < b THEN a - b + M ELSE a - b
         /\ Borrow(a, b).lo <=> a < b
         /\ Borrow(a, b).hi <=> a # b
<1>1. add(a, b) = IF a + b >= M THEN a + b - M ELSE a + b
  BY LaneSize, Wrapped DEF Lane, add
<1>2. sub(a, b) = IF a < b THEN a - b + M ELSE a - b
  BY LaneSize, Wrapped DEF Lane, sub
<1>3. CarryOut(a, b) <=> a + b >= M
  BY <1>1, LaneSize DEF CarryOut, addsu, Min2, Lane
<1>4. (a # b /\ subsu(a, b) = 0) <=> a < b
  BY LaneSize DEF subsu, Max2, Lane
<1>5. /\ Borrow(a, b).lo = (a # b /\ subsu(a, b) = 0)
      /\ Borrow(a, b).hi = (a # b)
  BY DEF Borrow
<1> QED
  BY <1>1, <1>2, <1>3, <1>4, <1>5


\* A clamped number survives being stored in an element.
LEMMA Clamped ==
  ASSUME NEW n \in Int
  PROVE  /\ Clamp16s(n) \in -H .. H - 1
         /\ Clamp16s(n) = IF n < -H THEN -H ELSE IF n >= H THEN H - 1 ELSE n
         /\ U(Clamp16s(n)) \in Lane
         /\ S(U(Clamp16s(n))) = Clamp16s(n)
<1>1. /\ Clamp16s(n) \in -H .. H - 1
      /\ Clamp16s(n) = IF n < -H THEN -H ELSE IF n >= H THEN H - 1 ELSE n
  BY LaneSize DEF Clamp16s, Max2, Min2
<1> DEFINE v == Clamp16s(n)
<1>2. ASSUME NEW w \in -H .. H - 1 PROVE U(w) \in Lane /\ S(U(w)) = w
  <2>1. CASE w < 0
    BY <2>1, LaneSize, Wrapped DEF S, Lane
  <2>2. CASE w >= 0
    BY <2>2, LaneSize, Wrapped DEF S, Lane
  <2> QED
    BY <2>1, <2>2, LaneSize
<1> QED
  BY <1>1, <1>2

\* A mask is minus one or zero.
LEMMA MaskElement ==
  ASSUME NEW c \in BOOLEAN
  PROVE  Mask(c) \in Lane /\ S(Mask(c)) = -Bit(c) /\ Bit(c) \in 0 .. 1
BY LaneSize DEF Mask, Bit, S, Lane

\* Subtracting a mask, saturated and not, adds its bit.
LEMMA MinusMask ==
  ASSUME NEW x \in Lane, NEW c \in BOOLEAN
  PROVE  /\ subs(x, Mask(c)) \in Lane
         /\ S(subs(x, Mask(c))) = Clamp16s(S(x) + Bit(c))
         /\ sub(x, Mask(c)) \in Lane
         /\ S(sub(x, Mask(c))) = IF S(x) + Bit(c) = H THEN -H ELSE S(x) + Bit(c)
<1>1. S(x) - S(Mask(c)) = S(x) + Bit(c) /\ S(x) + Bit(c) \in Int
  BY MaskElement, SignedElement, LaneSize
<1>2. subs(x, Mask(c)) = U(Clamp16s(S(x) + Bit(c)))
  BY <1>1 DEF subs
<1>3. subs(x, Mask(c)) \in Lane /\ S(subs(x, Mask(c))) = Clamp16s(S(x) + Bit(c))
  BY <1>1, <1>2, Clamped
<1>4. CASE c
  <2>1. sub(x, Mask(c)) = IF x = M - 1 THEN 0 ELSE x + 1
    BY <1>4, LaneSize, Wrapped DEF sub, Mask, Lane
  <2>2. sub(x, Mask(c)) \in Lane
    BY <2>1, LaneSize DEF Lane
  <2>3. S(sub(x, Mask(c))) = IF S(x) + 1 = H THEN -H ELSE S(x) + 1
    BY <2>1, LaneSize DEF Lane, S
  <2> QED
    BY <1>3, <1>4, <2>2, <2>3 DEF Bit
<1>5. CASE ~c
  <2>1. sub(x, Mask(c)) = x
    BY <1>5, LaneSize, Wrapped DEF sub, Mask, Lane
  <2>2. S(x) # H /\ S(x) + 0 = S(x)
    BY SignedElement, LaneSize
  <2> QED
    BY <1>3, <1>5, <2>1, <2>2 DEF Bit
<1> QED
  BY <1>4, <1>5

\* The saturated sum with a carry, as VADD computes it, is the exact sum clamped.
LEMMA SaturatedSum ==
  ASSUME NEW x \in Lane, NEW y \in Lane, NEW c \in BOOLEAN, S(x) <= S(y)
  PROVE  adds(subs(x, Mask(c)), y) = U(Clamp16s(S(x) + S(y) + Bit(c)))
<1>1. /\ S(x) \in -H .. H - 1 /\ S(y) \in -H .. H - 1 /\ Bit(c) \in 0 .. 1
      /\ S(subs(x, Mask(c))) = Clamp16s(S(x) + Bit(c))
  BY SignedElement, MaskElement, MinusMask
<1>2. Clamp16s(Clamp16s(S(x) + Bit(c)) + S(y)) = Clamp16s(S(x) + S(y) + Bit(c))
  BY <1>1, LaneSize DEF Clamp16s, Max2, Min2
<1> QED
  BY <1>1, <1>2 DEF adds

\* The saturated difference with a borrow, as VSUB computes it, is the exact one clamped.
LEMMA SaturatedDifference ==
  ASSUME NEW x \in Lane, NEW y \in Lane, NEW c \in BOOLEAN,
         NEW unsat, unsat = sub(y, Mask(c)), NEW sat, sat = subs(y, Mask(c))
  PROVE  adds(subs(x, sat), Mask(S(sat) > S(unsat))) = U(Clamp16s(S(x) - S(y) - Bit(c)))
<1>1. /\ S(x) \in -H .. H - 1 /\ S(y) \in -H .. H - 1 /\ Bit(c) \in 0 .. 1
      /\ S(sat) = Clamp16s(S(y) + Bit(c))
      /\ S(unsat) = IF S(y) + Bit(c) = H THEN -H ELSE S(y) + Bit(c)
  BY SignedElement, MaskElement, MinusMask
<1>2. (S(sat) > S(unsat)) \in BOOLEAN /\ (S(sat) > S(unsat) <=> S(y) + Bit(c) = H)
  BY <1>1, LaneSize DEF Clamp16s, Max2, Min2
<1>3. S(subs(x, sat)) = Clamp16s(S(x) - Clamp16s(S(y) + Bit(c)))
  <2>1. S(x) - S(sat) \in Int
    BY <1>1, LaneSize DEF Clamp16s, Max2, Min2
  <2> QED
    BY <1>1, <2>1, Clamped DEF subs
<1>4. S(Mask(S(sat) > S(unsat))) = IF S(y) + Bit(c) = H THEN -1 ELSE 0
  <2> DEFINE o == S(sat) > S(unsat)
  <2>1. S(Mask(o)) = -Bit(o)
    BY <1>2, MaskElement
  <2>2. Bit(o) = IF S(y) + Bit(c) = H THEN 1 ELSE 0
    BY <1>2 DEF Bit
  <2> HIDE DEF o
  <2>3. -Bit(o) = IF S(y) + Bit(c) = H THEN -1 ELSE 0
    BY <2>2
  <2> QED
    BY <2>1, <2>3 DEF o
<1>5. Clamp16s(Clamp16s(S(x) - Clamp16s(S(y) + Bit(c))) + (IF S(y) + Bit(c) = H THEN -1 ELSE 0))
        = Clamp16s(S(x) - S(y) - Bit(c))
  BY <1>1, LaneSize DEF Clamp16s, Max2, Min2
<1> QED
  BY <1>3, <1>4, <1>5 DEF adds

-----------------------------------------------------------------------------
(***************************************************************************)
(* What the two halves of a computation make together.                     *)
(***************************************************************************)

\* The high half of a sum or difference takes in the carry or borrow of the low half.
LEMMA CarryIsExact ==
  ASSUME NEW x \in Lane, NEW y \in Lane, NEW a \in Lane, NEW b \in Lane
  PROVE  /\ LET n == Double(x, a) + 1 * Double(y, b)
            IN  add(a, b) = U(n) /\ n \div M = S(x) + S(y) + Bit(CarryOut(a, b))
         /\ LET n == Double(x, a) + (-1) * Double(y, b)
            IN  sub(a, b) = U(n) /\ n \div M = S(x) - S(y) - Bit(a < b)
<1>1. /\ S(x) \in Int /\ S(y) \in Int
      /\ a \in 0 .. M - 1 /\ b \in 0 .. M - 1 /\ M \in Nat \ {0}
  BY SignedElement, LaneSize DEF Lane
<1>2. /\ Bit(CarryOut(a, b)) = IF a + b >= M THEN 1 ELSE 0
      /\ Bit(a < b) = IF a < b THEN 1 ELSE 0
  BY CarryAndBorrow DEF Bit
<1> DEFINE c == IF a + b >= M THEN 1 ELSE 0
           d == IF a < b THEN 1 ELSE 0
           h == S(x) + S(y) + c
           g == S(x) - S(y) - d
<1>3. /\ c \in Int /\ d \in Int /\ h \in Int /\ g \in Int
      /\ add(a, b) = a + b - c * M /\ add(a, b) \in Lane
      /\ sub(a, b) = a - b + d * M /\ sub(a, b) \in Lane
  <2>1. c \in {0, 1} /\ d \in {0, 1}
    OBVIOUS
  <2>2. h \in Int /\ g \in Int
    BY <1>1
  <2>3. add(a, b) = a + b - c * M /\ add(a, b) \in Lane
    <3>1. add(a, b) = IF a + b >= M THEN a + b - M ELSE a + b
      BY CarryAndBorrow
    <3>2. CASE a + b >= M
      BY <1>1, <3>1, <3>2 DEF Lane
    <3>3. CASE a + b < M
      BY <1>1, <3>1, <3>3 DEF Lane
    <3> QED
      BY <3>2, <3>3, <1>1
  <2>4. sub(a, b) = a - b + d * M /\ sub(a, b) \in Lane
    BY <1>1, CarryAndBorrow DEF Lane
  <2> QED
    BY <2>1, <2>2, <2>3, <2>4
<1>4. Double(x, a) + 1 * Double(y, b) = h * M + add(a, b)
  <2>1. h * M = S(x) * M + S(y) * M + c * M
    BY <1>1, <1>3
  <2> HIDE DEF h, c
  <2>2. S(x) * M \in Int /\ S(y) * M \in Int /\ c * M \in Int
    BY <1>1, <1>3
  <2>3. 1 * Double(y, b) = S(y) * M + b
    BY <2>2, <1>1 DEF Double
  <2>4. add(a, b) = a + b - c * M
    BY <1>3
  <2> QED
    BY <2>1, <2>2, <2>3, <2>4, <1>1 DEF Double
<1>5. Double(x, a) + (-1) * Double(y, b) = g * M + sub(a, b)
  <2>1. g * M = S(x) * M - S(y) * M - d * M
    BY <1>1, <1>3
  <2> HIDE DEF g, d
  <2>2. S(x) * M \in Int /\ S(y) * M \in Int /\ d * M \in Int
    BY <1>1, <1>3
  <2>3. (-1) * Double(y, b) = -(S(y) * M + b)
    BY <2>2, <1>1 DEF Double
  <2> QED
    BY <2>1, <2>2, <2>3, <1>1, <1>3 DEF Double
<1>6. /\ (h * M + add(a, b)) \div M = h /\ U(h * M + add(a, b)) = add(a, b)
      /\ (g * M + sub(a, b)) \div M = g /\ U(g * M + sub(a, b)) = sub(a, b)
  BY <1>3, Halves
<1> QED
  BY <1>2, <1>4, <1>5, <1>6

\* With the flags of a VSUBC, each comparison decides the double-width one.
LEMMA ComparesDouble ==
  ASSUME NEW x \in Lane, NEW y \in Lane, NEW a \in Lane, NEW b \in Lane
  PROVE  /\ (x = y /\ ~Borrow(a, b).hi) <=> Double(x, a) = Double(y, b)
         /\ (S(x) > S(y) \/ (x = y /\ ~(Borrow(a, b).hi /\ Borrow(a, b).lo)))
              <=> Double(x, a) >= Double(y, b)
         /\ (S(x) < S(y) \/ (x = y /\ Borrow(a, b).hi /\ Borrow(a, b).lo))
              <=> Double(x, a) < Double(y, b)
         /\ Double(x, a) \in Int /\ Double(y, b) \in Int
<1>1. /\ S(x) \in Int /\ S(y) \in Int /\ ((S(x) = S(y)) <=> x = y)
      /\ a \in Int /\ b \in Int /\ M \in Int
  BY SignedElement, LaneSize DEF Lane
<1>2. Double(x, a) \in Int /\ Double(y, b) \in Int
  BY <1>1 DEF Double
<1>3. /\ Double(x, a) = Double(y, b) <=> x = y /\ a = b
      /\ Double(x, a) < Double(y, b) <=> S(x) < S(y) \/ (x = y /\ a < b)
  <2>1. \A p, q \in Int :
          /\ (p * M + a < q * M + b) <=> (p < q \/ (p = q /\ a < b))
          /\ (p * M + a = q * M + b) <=> (p = q /\ a = b)
    BY DoubleOrder
  <2>2. /\ (S(x) * M + a < S(y) * M + b) <=> (S(x) < S(y) \/ (S(x) = S(y) /\ a < b))
        /\ (S(x) * M + a = S(y) * M + b) <=> (S(x) = S(y) /\ a = b)
    BY <1>1, <2>1, Zenon
  <2> QED
    BY <2>2, <1>1, Zenon DEF Double
<1>4. (Borrow(a, b).hi <=> a # b) /\ (Borrow(a, b).lo <=> a < b)
  BY CarryAndBorrow
<1>5. Double(x, a) >= Double(y, b) <=> ~(Double(x, a) < Double(y, b))
  BY <1>2
<1>6. (S(x) > S(y) \/ (x = y /\ ~(a < b))) <=> ~(S(x) < S(y) \/ (x = y /\ a < b))
  BY <1>1
<1>7. a < b => a # b
  BY <1>1
<1> QED
  BY <1>2, <1>3, <1>4, <1>5, <1>6, <1>7

\* The difference VCH and VCL look at: VS - VT, or VS + VT if the signs differ.
LEMMA ClipDifference ==
  ASSUME NEW x \in Lane, NEW y \in Lane
  PROVE  /\ Neg(x) <=> S(x) < 0
         /\ U(-y) \in Lane
         /\ sub(x, U(-y)) = IF x + y >= M THEN x + y - M ELSE x + y
         /\ ~(Neg(x) <=> Neg(y)) =>
              S(sub(x, U(-y))) = S(x) + S(y)
         /\ (Neg(x) <=> Neg(y)) => S(sub(x, y)) = S(x) - S(y)
<1>1. x \in 0 .. M - 1 /\ y \in 0 .. M - 1 /\ M \in Nat \ {0} /\ M = 2 * H /\ H \in Nat
  BY LaneSize DEF Lane
<1>2. Neg(x) <=> S(x) < 0
  BY <1>1 DEF Neg, S
<1>3. U(-y) = IF y = 0 THEN 0 ELSE M - y
  BY <1>1, Wrapped
<1>4. U(-y) \in 0 .. M - 1
  BY <1>1, <1>3
<1>5. sub(x, U(-y)) = IF x < U(-y) THEN x - U(-y) + M ELSE x - U(-y)
  BY <1>4, CarryAndBorrow DEF Lane
<1>6. sub(x, U(-y)) = IF x + y >= M THEN x + y - M ELSE x + y
  BY <1>1, <1>3, <1>5
<1>7. ~(Neg(x) <=> Neg(y)) => S(sub(x, U(-y))) = S(x) + S(y)
  BY <1>1, <1>6 DEF Neg, S
<1>8. sub(x, y) = IF x < y THEN x - y + M ELSE x - y
  BY CarryAndBorrow
<1>9. (Neg(x) <=> Neg(y)) => S(sub(x, y)) = S(x) - S(y)
  BY <1>1, <1>8 DEF Neg, S
<1> QED
  BY <1>2, <1>4, <1>6, <1>7, <1>9 DEF Lane

\* The flags VCH leaves (rsp_vch).
LEMMA VchFlags ==
  ASSUME NEW a \in Lane, NEW b \in Lane, a = vs, b = vt, VCH PROVE ClipFlags(a, b)'
<1> DEFINE sign == Neg(a) # Neg(b)
           signNegvt == IF sign THEN U(-b) ELSE b
           diff == sub(a, signNegvt)
           le == IF sign THEN S(diff) <= 0 ELSE Neg(b)
           ge == IF sign THEN Neg(b) ELSE S(diff) >= 0
           ce == sign /\ diff = M - 1
<1>1. /\ vcc' = [hi |-> ge, lo |-> le]
      /\ vco' = [hi |-> diff # 0 /\ ~ce, lo |-> sign]
      /\ vce' = ce
  BY DEF VCH
<1>2. /\ S(a) \in -H .. H - 1 /\ S(b) \in -H .. H - 1 /\ ((S(a) = S(b)) <=> a = b)
      /\ M \in Nat \ {0} /\ M = 2 * H /\ H \in Nat \ {0}
      /\ a \in 0 .. M - 1 /\ b \in 0 .. M - 1
  BY SignedElement, LaneSize DEF Lane
<1>3. (Neg(a) <=> S(a) < 0) /\ (Neg(b) <=> S(b) < 0) /\ Neg(a) \in BOOLEAN /\ Neg(b) \in BOOLEAN
  BY ClipDifference DEF Neg
<1>4. sign \in BOOLEAN /\ (sign <=> ~(Neg(a) <=> Neg(b))) /\ (sign <=> ~(S(a) < 0 <=> S(b) < 0))
  BY <1>3, Zenon
<1>5. CASE sign
  <2>1. diff = IF a + b >= M THEN a + b - M ELSE a + b
    BY <1>5, ClipDifference
  <2>2. S(diff) = S(a) + S(b)
    <3>1. ~(Neg(a) <=> Neg(b))
      BY <1>4, <1>5
    <3>2. diff = sub(a, U(-b))
      BY <1>5
    <3> HIDE DEF diff, sign
    <3> QED
      BY <3>1, <3>2, ClipDifference
  <2> HIDE DEF diff, sign
  <2>3. (S(diff) <= 0) <=> S(a) + S(b) <= 0
    BY <2>2
  <2>4. (diff = M - 1) <=> S(a) + S(b) = -1
    BY <1>2, <2>1, <2>2 DEF S
  <2>5. (diff = 0) <=> S(a) + S(b) = 0
    BY <1>2, <2>1, <2>2 DEF S
  <2>6. le \in BOOLEAN /\ (le <=> S(a) + S(b) <= 0) /\ ge \in BOOLEAN
    BY <1>3, <1>5, <2>3
  <2>7. ce \in BOOLEAN /\ (ce <=> S(a) + S(b) = -1)
    BY <1>5, <2>4
  <2>8. (diff # 0 /\ ~ce) <=> S(a) + S(b) \notin {0, -1}
    BY <2>5, <2>7
  <2> DEFINE ne == diff # 0 /\ ~ce
  <2>9. ne \in BOOLEAN /\ (ne <=> S(a) + S(b) \notin {0, -1})
    BY <2>8
  <2> HIDE DEF le, ge, ce, ne
  <2>10. /\ vcc' \in FlagPair /\ vco' \in FlagPair /\ vce' \in BOOLEAN
         /\ vcc'.lo = le /\ vco'.lo = sign /\ vco'.hi = ne /\ vce' = ce
    BY <1>1, <1>4, <2>6, <2>7, <2>9 DEF FlagPair, ne
  <2> QED
    BY <1>4, <1>5, <2>6, <2>7, <2>9, <2>10, Zenon DEF ClipFlags
<1>6. CASE ~sign
  <2>1. diff = sub(a, b) /\ diff = IF a < b THEN a - b + M ELSE a - b
    BY <1>6, CarryAndBorrow
  <2>2. S(diff) = S(a) - S(b)
    BY <1>3, <1>6, <2>1, ClipDifference
  <2> HIDE DEF diff, sign
  <2>3. (S(diff) >= 0) <=> S(a) >= S(b)
    BY <1>2, <2>2
  <2>4. (diff = 0) <=> a = b
    BY <1>2, <2>1
  <2>5. le \in BOOLEAN /\ (ge <=> S(a) >= S(b)) /\ ge \in BOOLEAN /\ ~ce
    BY <1>3, <1>6, <2>3
  <2> DEFINE ne == diff # 0 /\ ~ce
  <2>6. ne \in BOOLEAN /\ (ne <=> a # b) /\ ce \in BOOLEAN
    BY <2>4, <2>5
  <2> HIDE DEF le, ge, ce, ne
  <2>7. /\ vcc' \in FlagPair /\ vco' \in FlagPair /\ vce' \in BOOLEAN
        /\ vcc'.hi = ge /\ vco'.lo = sign /\ vco'.hi = ne
    BY <1>1, <1>4, <2>5, <2>6 DEF FlagPair, ne
  <2> QED
    BY <1>4, <1>6, <2>5, <2>6, <2>7, Zenon DEF ClipFlags
<1> QED
  BY <1>4, <1>5, <1>6

-----------------------------------------------------------------------------
(***************************************************************************)
(* ChainInv is inductive.                                                  *)
(***************************************************************************)
Shapes == NoChain \/ AfterVADDC \/ AfterVSUBC \/ AfterVCH \/ AfterCompare

\* The instructions outside the flag family leave the flags alone.
LEMMA OthersKeepFlags ==
  LogicStep \/ MultiplyStep \/ AccumulatorStep => UNCHANGED <<flags, chain>>
<1>1. LogicStep => UNCHANGED <<flags, chain>>
  BY DEF LogicStep, VABS, VAND, VNAND, VOR, VNOR, VXOR, VNXOR, RESERVED, LogicOp
<1>2. MultiplyStep => UNCHANGED <<flags, chain>>
  BY DEF MultiplyStep, VMULF, VMULU, VMACF, VMACU, VMUDH, VMADH, VMUDL, VMADL,
         VMUDM, VMADM, VMUDN, VMADN, VMULQ, WriteAcc
<1>3. AccumulatorStep => UNCHANGED <<flags, chain>>
  BY DEF AccumulatorStep, VMACQ, VRNDN, VRNDP, RSP_VRND, VSAR, WriteAcc
<1> QED
  BY <1>1, <1>2, <1>3

\* A point of a computation is kept with the flags that describe it.
LEMMA ShapesKept == Shapes /\ UNCHANGED <<flags, chain>> => Shapes'
BY DEF Shapes, flags, NoChain, AfterVADDC, AfterVSUBC, AfterVCH, ClipFlags, AfterCompare

\* What the four comparisons decide.
LEMMA HoldsMeans ==
  ASSUME NEW x \in Int, NEW y \in Int
  PROVE  /\ Holds("VEQ", x, y) <=> x = y
         /\ Holds("VNE", x, y) <=> x # y
         /\ Holds("VGE", x, y) <=> x >= y
         /\ Holds("VLT", x, y) <=> x < y
BY DEF Holds

\* VEQ, VNE, VGE and VLT with the flags of a VSUBC, or of nothing.
LEMMA CompareKeeps ==
  ASSUME ChainInv, NEW op \in CompareOps, NEW le \in BOOLEAN, Compare(op, le),
         \A a, b \in Lane : vco = Borrow(a, b) =>
           (le <=> Holds(op, Double(vs, a), Double(vt, b)))
  PROVE  Shapes'
<1>1. /\ vd' = IF le THEN vs ELSE vt
      /\ vcc' = [hi |-> FALSE, lo |-> le] /\ vcc'.lo = le
      /\ vco' = Clear
      /\ SecondHalf(op)
  BY DEF Compare, WriteLow
<1>2. Link(op) = Half(op, vs, vt, IF vcc'.lo THEN vs ELSE vt)
  BY <1>1 DEF Link, Half
<1>3. CASE AfterVSUBC
  <2>1. PICK a \in Lane, b \in Lane :
          chain = <<Half("VSUBC", a, b, sub(a, b))>> /\ vco = Borrow(a, b)
    BY <1>3 DEF AfterVSUBC
  <2>2. chain' = <<Half("VSUBC", a, b, sub(a, b)), Link(op)>>
    <3>1. Len(chain) = 1 /\ chain[1] = Half("VSUBC", a, b, sub(a, b))
      BY <2>1
    <3>2. chain[1].op = "VSUBC"
      BY <3>1 DEF Half
    <3> QED
      BY <1>1, <3>1, <3>2 DEF SecondHalf
  <2>3. vcc'.lo \in BOOLEAN /\ (vcc'.lo <=> Holds(op, Double(vs, a), Double(vt, b)))
    BY <2>1, <1>1
  <2>4. AfterCompare'
    BY <1>1, <1>2, <2>2, <2>3 DEF AfterCompare, ChainInv
  <2> QED
    BY <2>4 DEF Shapes
<1>4. CASE NoChain \/ AfterVADDC \/ AfterVCH \/ AfterCompare
  <2>1. ~(Len(chain) = 1 /\ chain[1].op = "VSUBC")
    <3>1. CASE NoChain
      BY <3>1 DEF NoChain
    <3>2. CASE AfterVADDC
      <4>1. PICK a \in Lane, b \in Lane : chain = <<Half("VADDC", a, b, add(a, b))>>
        BY <3>2 DEF AfterVADDC
      <4>2. chain[1] = Half("VADDC", a, b, add(a, b))
        BY <4>1
      <4> QED
        BY <4>2 DEF Half
    <3>3. CASE AfterVCH
      <4> PICK a \in Lane, b \in Lane : \E v : chain = <<Half("VCH", a, b, v)>>
        BY <3>3 DEF AfterVCH
      <4>1. PICK v : chain = <<Half("VCH", a, b, v)>>
        OBVIOUS
      <4>2. chain[1] = Half("VCH", a, b, v)
        BY <4>1
      <4> QED
        BY <4>2 DEF Half
    <3>4. CASE AfterCompare
      <4>1. PICK e, f : chain = <<e, f>>
        BY <3>4 DEF AfterCompare
      <4> QED
        BY <4>1
    <3> QED
      BY <1>4, <3>1, <3>2, <3>3, <3>4
  <2> QED
    BY <1>1, <2>1 DEF SecondHalf, Shapes, NoChain
<1> QED
  BY <1>3, <1>4 DEF ChainInv

\* The first and the last halves.
LEMMA FlagStepKeeps ==
  ASSUME ChainInv, FlagStep PROVE Shapes'
<1> USE DEF ChainInv
<1>1. CASE VADD \/ VSUB \/ VMRG \/ VCL \/ VCR
  <2>1. chain' = <<>> /\ vco' = Clear
    BY <1>1 DEF VADD, VSUB, VMRG, VCL, VCR, LastHalf
  <2> QED
    BY <2>1 DEF Shapes, NoChain
<1>2. CASE VADDC
  <2>1. /\ chain' = <<Half("VADDC", vs, vt, add(vs, vt))>>
        /\ vco' = [hi |-> FALSE, lo |-> CarryOut(vs, vt)]
    BY <1>2 DEF VADDC, FirstHalf, Link, WriteLow, Half
  <2> QED
    BY <2>1 DEF Shapes, AfterVADDC
<1>3. CASE VSUBC
  <2>1. /\ chain' = <<Half("VSUBC", vs, vt, sub(vs, vt))>>
        /\ vco' = Borrow(vs, vt)
    BY <1>3 DEF VSUBC, FirstHalf, Link, WriteLow, Half, Borrow
  <2> QED
    BY <2>1 DEF Shapes, AfterVSUBC
<1>4. CASE VCH
  <2> PICK a \in Lane, b \in Lane : a = vs /\ b = vt
    OBVIOUS
  <2>1. chain' = <<Half("VCH", a, b, vd')>>
    BY <1>4 DEF VCH, FirstHalf, Link, Half
  <2>2. ClipFlags(a, b)'
    BY <1>4, VchFlags
  <2> QED
    BY <2>1, <2>2 DEF Shapes, AfterVCH
<1>5. CASE VEQ
  <2> DEFINE le == vs = vt /\ ~vco.hi
  <2>1. ASSUME NEW a \in Lane, NEW b \in Lane, vco = Borrow(a, b)
        PROVE  le <=> Holds("VEQ", Double(vs, a), Double(vt, b))
    <3>1. /\ (vs = vt /\ ~Borrow(a, b).hi) <=> Double(vs, a) = Double(vt, b)
          /\ Double(vs, a) \in Int /\ Double(vt, b) \in Int
      BY ComparesDouble
    <3> QED
      BY <2>1, <3>1, HoldsMeans, Zenon
  <2>2. Compare("VEQ", le) /\ le \in BOOLEAN /\ "VEQ" \in CompareOps
    BY <1>5 DEF VEQ, CompareOps
  <2> HIDE DEF le
  <2> QED
    BY <2>1, <2>2, CompareKeeps
<1>6. CASE VNE
  <2> DEFINE le == vs # vt \/ vco.hi
  <2>1. ASSUME NEW a \in Lane, NEW b \in Lane, vco = Borrow(a, b)
        PROVE  le <=> Holds("VNE", Double(vs, a), Double(vt, b))
    <3>1. /\ (vs # vt \/ Borrow(a, b).hi) <=> Double(vs, a) # Double(vt, b)
          /\ Double(vs, a) \in Int /\ Double(vt, b) \in Int
      BY ComparesDouble
    <3> QED
      BY <2>1, <3>1, HoldsMeans, Zenon
  <2>2. Compare("VNE", le) /\ le \in BOOLEAN /\ "VNE" \in CompareOps
    BY <1>6 DEF VNE, CompareOps
  <2> HIDE DEF le
  <2> QED
    BY <2>1, <2>2, CompareKeeps
<1>7. CASE VGE
  <2> DEFINE le == S(vs) > S(vt) \/ (vs = vt /\ ~(vco.hi /\ vco.lo))
  <2>1. ASSUME NEW a \in Lane, NEW b \in Lane, vco = Borrow(a, b)
        PROVE  le <=> Holds("VGE", Double(vs, a), Double(vt, b))
    <3>1. /\ (S(vs) > S(vt) \/ (vs = vt /\ ~(Borrow(a, b).hi /\ Borrow(a, b).lo))) <=> Double(vs, a) >= Double(vt, b)
          /\ Double(vs, a) \in Int /\ Double(vt, b) \in Int
      BY ComparesDouble
    <3> QED
      BY <2>1, <3>1, HoldsMeans, Zenon
  <2>2. Compare("VGE", le) /\ le \in BOOLEAN /\ "VGE" \in CompareOps
    BY <1>7 DEF VGE, CompareOps
  <2> HIDE DEF le
  <2> QED
    BY <2>1, <2>2, CompareKeeps
<1>8. CASE VLT
  <2> DEFINE le == S(vs) < S(vt) \/ (vs = vt /\ vco.hi /\ vco.lo)
  <2>1. ASSUME NEW a \in Lane, NEW b \in Lane, vco = Borrow(a, b)
        PROVE  le <=> Holds("VLT", Double(vs, a), Double(vt, b))
    <3>1. /\ (S(vs) < S(vt) \/ (vs = vt /\ Borrow(a, b).hi /\ Borrow(a, b).lo)) <=> Double(vs, a) < Double(vt, b)
          /\ Double(vs, a) \in Int /\ Double(vt, b) \in Int
      BY ComparesDouble
    <3> QED
      BY <2>1, <3>1, HoldsMeans, Zenon
  <2>2. Compare("VLT", le) /\ le \in BOOLEAN /\ "VLT" \in CompareOps
    BY <1>8 DEF VLT, CompareOps
  <2> HIDE DEF le
  <2> QED
    BY <2>1, <2>2, CompareKeeps
<1> QED
  BY <1>1, <1>2, <1>3, <1>4, <1>5, <1>6, <1>7, <1>8 DEF FlagStep

\* At every point the flags belong to the computation in progress.
THEOREM FlagsBelong == Spec => []ChainInv
<1>1. Init => ChainInv
  BY LaneSize DEF Init, ChainInv, NoChain, Lane
<1>2. ChainInv /\ [Next]_vars => ChainInv'
  <2> SUFFICES ASSUME ChainInv, [Next]_vars PROVE ChainInv'
    OBVIOUS
  <2>1. CASE Load
    BY <2>1, ShapesKept, OperandAssumption DEF Load, ChainInv, Shapes
  <2>2. CASE FlagStep /\ UNCHANGED <<vs, vt>>
    BY <2>2, FlagStepKeeps DEF ChainInv, Shapes
  <2>3. CASE (LogicStep \/ MultiplyStep \/ AccumulatorStep) /\ UNCHANGED <<vs, vt>>
    BY <2>3, OthersKeepFlags, ShapesKept DEF ChainInv, Shapes
  <2>4. CASE UNCHANGED vars
    BY <2>4, ShapesKept DEF vars, flags, ChainInv, Shapes
  <2> QED
    BY <2>1, <2>2, <2>3, <2>4 DEF Next
<1> QED
  BY <1>1, <1>2, PTL DEF Spec

-----------------------------------------------------------------------------
(***************************************************************************)
(* The properties.                                                         *)
(***************************************************************************)

\* Which shape a chain with one entry, or two, has.
LEMMA ShapeOf ==
  ASSUME ChainInv
  PROVE  /\ ChainIs("VADDC") => AfterVADDC
         /\ ChainIs("VSUBC") => AfterVSUBC
         /\ ChainIs("VCH") => AfterVCH
         /\ Len(chain) = 2 => AfterCompare
         /\ Len(chain) # 1 => vco = Clear
<1>1. CASE NoChain
  BY <1>1 DEF NoChain, ChainIs
<1>2. CASE AfterVADDC
  <2>1. PICK a \in Lane, b \in Lane : chain = <<Half("VADDC", a, b, add(a, b))>>
    BY <1>2 DEF AfterVADDC
  <2>2. Len(chain) = 1 /\ chain[1] = Half("VADDC", a, b, add(a, b))
    BY <2>1
  <2>3. chain[1].op = "VADDC"
    BY <2>2 DEF Half
  <2> QED
    BY <1>2, <2>2, <2>3 DEF ChainIs
<1>3. CASE AfterVSUBC
  <2>1. PICK a \in Lane, b \in Lane : chain = <<Half("VSUBC", a, b, sub(a, b))>>
    BY <1>3 DEF AfterVSUBC
  <2>2. Len(chain) = 1 /\ chain[1] = Half("VSUBC", a, b, sub(a, b))
    BY <2>1
  <2>3. chain[1].op = "VSUBC"
    BY <2>2 DEF Half
  <2> QED
    BY <1>3, <2>2, <2>3 DEF ChainIs
<1>4. CASE AfterVCH
  <2> PICK a \in Lane, b \in Lane : \E v : chain = <<Half("VCH", a, b, v)>>
    BY <1>4 DEF AfterVCH
  <2>1. PICK v : chain = <<Half("VCH", a, b, v)>>
    OBVIOUS
  <2>2. Len(chain) = 1 /\ chain[1] = Half("VCH", a, b, v)
    BY <2>1
  <2>3. chain[1].op = "VCH"
    BY <2>2 DEF Half
  <2> QED
    BY <1>4, <2>2, <2>3 DEF ChainIs
<1>5. CASE AfterCompare
  <2>1. PICK e, f : chain = <<e, f>>
    BY <1>5 DEF AfterCompare
  <2>2. Len(chain) = 2 /\ vco = Clear
    BY <1>5, <2>1 DEF AfterCompare
  <2> QED
    BY <1>5, <2>2 DEF ChainIs
<1> QED
  BY <1>1, <1>2, <1>3, <1>4, <1>5 DEF ChainInv

(* No carry is left behind, at any width: every instruction that uses VCO  *)
(* clears it (RSP_VADD to RSP_VCR).                                        *)
THEOREM CarryIsConsumed == Spec => []NoStaleCarry
<1>1. ChainInv => NoStaleCarry
  BY ShapeOf DEF NoStaleCarry
<1> QED
  BY <1>1, FlagsBelong, PTL

(* VADDC then VADD, and VSUBC then VSUB, make the exact double-width sum   *)
(* and difference, the high half saturated once, at any width              *)
(* (rsp_vadd, rsp_vsub).                                                   *)
THEOREM SumsAreExact == Spec => DoubleSum
<1>1. ASSUME ChainInv PROVE SumStep
  <2>1. ASSUME ChainIs("VADDC"), VADD
        PROVE  LET n == Double(vs, chain[1].vs) + 1 * Double(vt, chain[1].vt)
               IN  chain[1].vd = U(n) /\ vd' = U(Clamp16s(n \div M))
    <3>1. PICK a \in Lane, b \in Lane :
            /\ chain = <<Half("VADDC", a, b, add(a, b))>>
            /\ vco = [hi |-> FALSE, lo |-> CarryOut(a, b)]
      BY <1>1, <2>1, ShapeOf DEF AfterVADDC
    <3>2. chain[1] = Half("VADDC", a, b, add(a, b))
      BY <3>1
    <3>3. chain[1].vs = a /\ chain[1].vt = b /\ chain[1].vd = add(a, b)
      BY <3>2 DEF Half
    <3>4. vco.lo = CarryOut(a, b) /\ CarryOut(a, b) \in BOOLEAN
      BY <3>1 DEF CarryOut
    <3>5. vs \in Lane /\ vt \in Lane /\ S(vs) \in Int /\ S(vt) \in Int
      BY <1>1, SignedElement DEF ChainInv
    <3>6. vd' = U(Clamp16s(S(vs) + S(vt) + Bit(CarryOut(a, b))))
      <4>1. CASE S(vs) < S(vt)
        <5>1. vd' = adds(subs(vs, Mask(CarryOut(a, b))), vt)
          BY <2>1, <3>4, <4>1 DEF VADD, WriteLow
        <5> QED
          BY <5>1, <3>4, <3>5, <4>1, SaturatedSum
      <4>2. CASE ~(S(vs) < S(vt))
        <5>1. vd' = adds(subs(vt, Mask(CarryOut(a, b))), vs)
          BY <2>1, <3>4, <4>2 DEF VADD, WriteLow
        <5>2. S(vt) + S(vs) = S(vs) + S(vt) /\ S(vt) <= S(vs)
          BY <3>5, <4>2
        <5> QED
          BY <5>1, <5>2, <3>4, <3>5, SaturatedSum
      <4> QED
        BY <4>1, <4>2
    <3> QED
      BY <3>3, <3>5, <3>6, CarryIsExact
  <2>2. ASSUME ChainIs("VSUBC"), VSUB
        PROVE  LET n == Double(vs, chain[1].vs) + (-1) * Double(vt, chain[1].vt)
               IN  chain[1].vd = U(n) /\ vd' = U(Clamp16s(n \div M))
    <3>1. PICK a \in Lane, b \in Lane :
            chain = <<Half("VSUBC", a, b, sub(a, b))>> /\ vco = Borrow(a, b)
      BY <1>1, <2>2, ShapeOf DEF AfterVSUBC
    <3>2. chain[1] = Half("VSUBC", a, b, sub(a, b))
      BY <3>1
    <3>3. chain[1].vs = a /\ chain[1].vt = b /\ chain[1].vd = sub(a, b)
      BY <3>2 DEF Half
    <3>4. vco.lo \in BOOLEAN /\ (vco.lo <=> a < b)
      BY <3>1, CarryAndBorrow DEF Borrow
    <3>5. vs \in Lane /\ vt \in Lane
      BY <1>1 DEF ChainInv
    <3>6. vd' = U(Clamp16s(S(vs) - S(vt) - Bit(vco.lo)))
      <4>1. vd' = adds(subs(vs, subs(vt, Mask(vco.lo))),
                       Mask(S(subs(vt, Mask(vco.lo))) > S(sub(vt, Mask(vco.lo)))))
        BY <2>2 DEF VSUB, WriteLow
      <4> QED
        BY <4>1, <3>4, <3>5, SaturatedDifference
    <3>7. Bit(vco.lo) = Bit(a < b)
      BY <3>4 DEF Bit
    <3> QED
      BY <3>3, <3>5, <3>6, <3>7, CarryIsExact
  <2> QED
    BY <2>1, <2>2 DEF SumStep
<1> QED
  BY <1>1, FlagsBelong, PTL DEF DoubleSum

(* A comparison after a VSUBC compares the double-width numbers, at any    *)
(* width (rsp_veq, rsp_vne, rsp_vge, rsp_vlt).                             *)
THEOREM ComparesExactly == Spec => DoubleCompare
<1>1. ASSUME ChainInv, ChainIs("VSUBC")
      PROVE  LET x == Double(vs, chain[1].vs)
                 y == Double(vt, chain[1].vt)
             IN  /\ VEQ => vcc'.lo = (x = y)
                 /\ VNE => vcc'.lo = (x # y)
                 /\ VGE => vcc'.lo = (x >= y)
                 /\ VLT => vcc'.lo = (x < y)
  <2> DEFINE x == Double(vs, chain[1].vs)
             y == Double(vt, chain[1].vt)
  <2>1. PICK a \in Lane, b \in Lane :
          chain = <<Half("VSUBC", a, b, sub(a, b))>> /\ vco = Borrow(a, b)
    BY <1>1, ShapeOf DEF AfterVSUBC
  <2>2. chain[1] = Half("VSUBC", a, b, sub(a, b))
    BY <2>1
  <2>3. x = Double(vs, a) /\ y = Double(vt, b)
    BY <2>2 DEF Half
  <2> HIDE DEF x, y
  <2>4. /\ (vs = vt /\ ~vco.hi) <=> (x = y)
        /\ (S(vs) > S(vt) \/ (vs = vt /\ ~(vco.hi /\ vco.lo))) <=> (x >= y)
        /\ (S(vs) < S(vt) \/ (vs = vt /\ vco.hi /\ vco.lo)) <=> (x < y)
    BY <1>1, <2>1, <2>3, ComparesDouble DEF ChainInv
  <2>5. (x >= y) \in BOOLEAN /\ (x < y) \in BOOLEAN
    BY <1>1, <2>3, ComparesDouble DEF ChainInv
  <2>6. ASSUME VEQ PROVE vcc'.lo = (x = y)
    <3>1. vcc'.lo = (vs = vt /\ ~vco.hi)
      BY <2>6 DEF VEQ, Compare
    <3> QED
      BY <3>1, <2>4, <2>5, Zenon
  <2>7. ASSUME VNE PROVE vcc'.lo = (x # y)
    <3>1. vcc'.lo = (vs # vt \/ vco.hi)
      BY <2>7 DEF VNE, Compare
    <3> QED
      BY <3>1, <2>4, <2>5, Zenon
  <2>8. ASSUME VGE PROVE vcc'.lo = (x >= y)
    <3>1. vcc'.lo = (S(vs) > S(vt) \/ (vs = vt /\ ~(vco.hi /\ vco.lo)))
      BY <2>8 DEF VGE, Compare
    <3> QED
      BY <3>1, <2>4, <2>5, Zenon
  <2>9. ASSUME VLT PROVE vcc'.lo = (x < y)
    <3>1. vcc'.lo = (S(vs) < S(vt) \/ (vs = vt /\ vco.hi /\ vco.lo))
      BY <2>9 DEF VLT, Compare
    <3> QED
      BY <3>1, <2>4, <2>5, Zenon
  <2> QED
    BY <2>6, <2>7, <2>8, <2>9 DEF x, y
<1>2. ChainInv => CompareStep
  BY <1>1 DEF CompareStep
<1> QED
  BY <1>2, FlagsBelong, PTL DEF DoubleCompare

(* VSUBC, then VLT or VGE, then VMRG leave the double-width minimum or     *)
(* maximum, at any width (rsp_vlt, rsp_vge, rsp_vmrg).                     *)
THEOREM MergesExactly == Spec => DoubleMinMax
<1>1. ASSUME ChainInv, VMRG, Len(chain) = 2, chain[1].vs = vs, chain[1].vt = vt
      PROVE  LET x == Double(chain[2].vs, vs)
                 y == Double(chain[2].vt, vt)
                 merged == Double(chain[2].vd, vd')
             IN  /\ chain[2].op = "VLT" => merged = Min2(x, y)
                 /\ chain[2].op = "VGE" => merged = Max2(x, y)
  <2>1. PICK a \in Lane, b \in Lane, c \in Lane, d \in Lane, op \in CompareOps :
          /\ chain = <<Half("VSUBC", a, b, sub(a, b)),
                       Half(op, c, d, IF vcc.lo THEN c ELSE d)>>
          /\ vcc.lo \in BOOLEAN /\ (vcc.lo <=> Holds(op, Double(c, a), Double(d, b)))
    BY <1>1, ShapeOf DEF AfterCompare
  <2>2. /\ chain[1] = Half("VSUBC", a, b, sub(a, b))
        /\ chain[2] = Half(op, c, d, IF vcc.lo THEN c ELSE d)
    BY <2>1
  <2>3. /\ a = vs /\ b = vt /\ chain[2].op = op /\ chain[2].vs = c /\ chain[2].vt = d
        /\ chain[2].vd = IF vcc.lo THEN c ELSE d
    BY <1>1, <2>2 DEF Half
  <2>4. vd' = IF vcc.lo THEN vs ELSE vt
    BY <1>1 DEF VMRG, WriteLow
  <2>5. Double(chain[2].vd, vd') = IF vcc.lo THEN Double(c, a) ELSE Double(d, b)
    BY <2>3, <2>4
  <2>6. Double(c, a) \in Int /\ Double(d, b) \in Int
    BY ComparesDouble
  <2>7. /\ op = "VLT" => (vcc.lo <=> Double(c, a) < Double(d, b))
        /\ op = "VGE" => (vcc.lo <=> Double(c, a) >= Double(d, b))
    BY <2>1, <2>6, HoldsMeans
  <2> QED
    BY <2>3, <2>5, <2>6, <2>7 DEF Min2, Max2
<1>2. ChainInv => MergeStep
  BY <1>1 DEF MergeStep
<1> QED
  BY <1>2, FlagsBelong, PTL DEF DoubleMinMax

-----------------------------------------------------------------------------
(***************************************************************************)
(* The clips.                                                              *)
(***************************************************************************)

\* The sign of a double-width number is that of its high half; a sum of two of
\* them is decided by the high halves unless these add up to 0 or -1.
LEMMA DoubleSign ==
  ASSUME NEW a \in Lane, NEW b \in Lane, NEW x \in Lane, NEW y \in Lane
  PROVE  /\ Double(a, x) \in Int /\ Double(b, y) \in Int
         /\ (Double(a, x) < 0) <=> (S(a) < 0)
         /\ Double(a, x) <= -Double(b, y) <=>
              \/ S(a) + S(b) < -1
              \/ S(a) + S(b) = -1 /\ x + y <= M
              \/ S(a) + S(b) = 0 /\ x + y = 0
<1>1. /\ S(a) \in Int /\ S(b) \in Int /\ M \in Nat \ {0} /\ M \in Int
      /\ x \in 0 .. M - 1 /\ y \in 0 .. M - 1
  BY SignedElement, LaneSize DEF Lane
<1> DEFINE p == S(a)
           q == S(b)
           n == p + q
<1>2. p \in Int /\ q \in Int /\ n \in Int
  BY <1>1
<1> HIDE DEF p, q
<1>3. p * M \in Int /\ q * M \in Int /\ n * M \in Int /\ n * M = p * M + q * M
  BY <1>1, <1>2
<1>4. ASSUME NEW k \in Int
      PROVE  /\ k < 0 => k * M <= -M
             /\ k < -1 => k * M <= -2 * M
             /\ k >= 0 => k * M >= 0
             /\ k > 0 => k * M >= M
  <2>1. k < 0 => (-1 - k) * M >= 0
    BY <1>1
  <2>2. k < -1 => (-2 - k) * M >= 0
    BY <1>1
  <2>3. k >= 0 => k * M >= 0
    BY <1>1
  <2>4. k > 0 => (k - 1) * M >= 0
    BY <1>1
  <2>5. (-1 - k) * M = -M - k * M /\ (-2 - k) * M = -2 * M - k * M /\ (k - 1) * M = k * M - M
    BY <1>1
  <2>6. k * M \in Int
    BY <1>1
  <2> QED
    BY <2>1, <2>2, <2>3, <2>4, <2>5, <2>6, <1>1
<1>5. Double(a, x) = p * M + x /\ Double(b, y) = q * M + y
  BY DEF Double, p, q
<1>6. (p * M + x < 0) <=> (p < 0)
  <2>1. (p < 0 => p * M <= -M) /\ (p >= 0 => p * M >= 0)
    BY <1>2, <1>4
  <2> QED
    BY <2>1, <1>1, <1>2, <1>3
<1>7. (p * M + x <= -(q * M + y)) <=> n * M + x + y <= 0
  BY <1>1, <1>3
<1>8. n * M + x + y <= 0 <=> (n < -1 \/ (n = -1 /\ x + y <= M) \/ (n = 0 /\ x + y = 0))
  <2> HIDE DEF n
  <2>1. CASE n < -1
    <3>1. n * M <= -2 * M
      BY <1>2, <1>4, <2>1
    <3> QED
      BY <1>1, <1>3, <2>1, <3>1
  <2>2. CASE n = -1
    <3>1. n * M = -M
      BY <1>1, <2>2
    <3> QED
      BY <1>1, <2>2, <3>1
  <2>3. CASE n = 0
    <3>1. n * M = 0
      BY <1>1, <2>3
    <3> QED
      BY <1>1, <2>3, <3>1
  <2>4. CASE n > 0
    <3>1. n * M >= M
      BY <1>2, <1>4, <2>4
    <3> QED
      BY <1>1, <1>2, <1>3, <2>4, <3>1
  <2> QED
    BY <1>2, <2>1, <2>2, <2>3, <2>4
<1>9. Double(a, x) \in Int /\ Double(b, y) \in Int
  BY <1>1, <1>3, <1>5
<1> QED
  BY <1>5, <1>6, <1>7, <1>8, <1>9 DEF p, q

\* What VCL makes of the low halves where the signs differ: with VCE the sum may
\* carry by exactly one turn, without it must be zero (rsp_vcl).
LEMMA LowHalves ==
  ASSUME NEW x \in Lane, NEW y \in Lane
  PROVE  LET diff == sub(x, U(-y))
             ncarry == diff = addsu(x, y)
         IN  /\ (diff = 0 \/ ncarry) <=> x + y <= M
             /\ (diff = 0 /\ ncarry) <=> x + y = 0
             /\ (subsu(y, x) = 0) <=> y <= x
<1>1. x \in 0 .. M - 1 /\ y \in 0 .. M - 1 /\ M \in Nat /\ M >= 2
  BY LaneSize DEF Lane
<1>2. sub(x, U(-y)) = IF x + y >= M THEN x + y - M ELSE x + y
  BY ClipDifference
<1>3. addsu(x, y) = IF x + y >= M THEN M - 1 ELSE x + y
  BY <1>1 DEF addsu, Min2
<1>4. (subsu(y, x) = 0) <=> y <= x
  BY <1>1 DEF subsu, Max2
<1> QED
  BY <1>1, <1>2, <1>3, <1>4

(* VCH of the high and VCL of the low halves make the exact double-width   *)
(* clip test, and VCH and VCR clip an element to its bounds, at any width  *)
(* (rsp_vch, rsp_vcl, rsp_vcr).                                            *)
THEOREM ClipsAreExact == Spec => ClipsExactly
<1>1. ASSUME ChainInv, ChainIs("VCH"), VCL
      PROVE  LET A == Double(chain[1].vs, vs)
                 B == Double(chain[1].vt, vt)
             IN  IF (A < 0) = (B < 0) THEN vcc'.hi = (A >= B) ELSE vcc'.lo = (A <= -B)
  <2> PICK a \in Lane, b \in Lane :
        \E v : chain = <<Half("VCH", a, b, v)>> /\ ClipFlags(a, b)
    BY <1>1, ShapeOf DEF AfterVCH
  <2>1. PICK v : chain = <<Half("VCH", a, b, v)>> /\ ClipFlags(a, b)
    OBVIOUS
  <2>2. chain[1] = Half("VCH", a, b, v)
    BY <2>1
  <2>3. chain[1].vs = a /\ chain[1].vt = b
    BY <2>2 DEF Half
  <2>4. vs \in Lane /\ vt \in Lane /\ vco.lo \in BOOLEAN /\ vco.hi \in BOOLEAN /\ vce \in BOOLEAN
        /\ vcc.lo \in BOOLEAN /\ vcc.hi \in BOOLEAN
    BY <1>1, <2>1 DEF ChainInv, ClipFlags, FlagPair
  <2> DEFINE A == Double(a, vs)
             B == Double(b, vt)
             diff == sub(vs, U(-vt))
             ncarry == diff = addsu(vs, vt)
             leEq == IF vce THEN diff = 0 \/ ncarry ELSE diff = 0 /\ ncarry
             le == IF ~vco.hi THEN leEq ELSE vcc.lo
             ge == IF vco.hi THEN vcc.hi ELSE subsu(vt, vs) = 0
  <2>5. /\ vco.lo => vcc'.lo = le
        /\ ~vco.lo => vcc'.hi = ge
    BY <1>1, <2>4 DEF VCL
  <2>6. /\ A \in Int /\ B \in Int
        /\ (A < 0) <=> (S(a) < 0)
        /\ (B < 0) <=> (S(b) < 0)
        /\ A <= -B <=>
             \/ S(a) + S(b) < -1
             \/ S(a) + S(b) = -1 /\ vs + vt <= M
             \/ S(a) + S(b) = 0 /\ vs + vt = 0
    BY <2>4, DoubleSign
  <2>7. A >= B <=> S(a) > S(b) \/ (a = b /\ ~(vs < vt))
    <3>1. /\ (S(a) > S(b) \/ (a = b /\ ~(Borrow(vs, vt).hi /\ Borrow(vs, vt).lo))) <=> A >= B
          /\ (Borrow(vs, vt).hi <=> vs # vt) /\ (Borrow(vs, vt).lo <=> vs < vt)
      BY <2>4, ComparesDouble, CarryAndBorrow
    <3>2. vs < vt => vs # vt
      BY <2>4, LaneSize DEF Lane
    <3> QED
      BY <3>1, <3>2
  <2>8. /\ (diff = 0 \/ ncarry) <=> vs + vt <= M
        /\ (diff = 0 /\ ncarry) <=> vs + vt = 0
        /\ (subsu(vt, vs) = 0) <=> vt <= vs
    BY <2>4, LowHalves
  <2>9. /\ S(a) \in Int /\ S(b) \in Int /\ ((S(a) = S(b)) <=> a = b)
        /\ vs \in Int /\ vt \in Int
    BY <2>4, SignedElement, LaneSize DEF Lane
  <2> HIDE DEF A, B, diff, ncarry
  <2>10. CASE vco.lo
    <3>1. ~(A < 0 <=> B < 0)
      BY <2>1, <2>6, <2>10 DEF ClipFlags
    <3>2. /\ vcc.lo <=> S(a) + S(b) <= 0
          /\ vce <=> S(a) + S(b) = -1
          /\ vco.hi <=> S(a) + S(b) \notin {0, -1}
      BY <2>1, <2>10 DEF ClipFlags
    <3>3. leEq <=> IF vce THEN vs + vt <= M ELSE vs + vt = 0
      BY <2>8
    <3>4. le \in BOOLEAN /\ (le <=> A <= -B)
      BY <3>2, <3>3, <2>4, <2>6, <2>9
    <3> HIDE DEF le
    <3>5. vcc'.lo = (A <= -B)
      BY <2>5, <2>10, <3>4
    <3>6. (A < 0) # (B < 0)
      BY <3>1
    <3> QED
      BY <2>3, <3>5, <3>6 DEF A, B
  <2>11. CASE ~vco.lo
    <3>1. A < 0 <=> B < 0
      BY <2>1, <2>6, <2>11 DEF ClipFlags
    <3>2. (vcc.hi <=> S(a) >= S(b)) /\ (vco.hi <=> a # b)
      BY <2>1, <2>11 DEF ClipFlags
    <3>3. ge \in BOOLEAN /\ (ge <=> A >= B)
      BY <3>2, <2>4, <2>7, <2>8, <2>9
    <3> HIDE DEF ge
    <3>4. vcc'.hi = (A >= B)
      BY <2>5, <2>11, <3>3
    <3>5. (A < 0) = (B < 0)
      BY <3>1
    <3> QED
      BY <2>3, <3>4, <3>5 DEF A, B
  <2> QED
    BY <2>10, <2>11
<1>2. ChainInv => DoubleClipStep
  BY <1>1 DEF DoubleClipStep
<1>3. ASSUME ChainInv, VCH, ~Neg(vt) PROVE S(vd') = Max2(-vt, Min2(vt, S(vs)))
  <2>1. /\ vs \in 0 .. M - 1 /\ vt \in 0 .. H - 1 /\ M = 2 * H /\ H \in Nat \ {0}
        /\ vs \in Lane /\ vt \in Lane /\ S(vs) \in -H .. H - 1 /\ S(vt) = vt
    BY <1>3, SignedElement, LaneSize DEF ChainInv, Lane, Neg, S
  <2>2. S(U(-vt)) = -vt
    BY <2>1, Wrapped DEF S
  <2>3. CASE Neg(vs)
    <3>1. S(sub(vs, U(-vt))) = S(vs) + S(vt) /\ S(vs) < 0
      BY <1>3, <2>1, <2>3, ClipDifference
    <3>2. vd' = IF S(sub(vs, U(-vt))) <= 0 THEN U(-vt) ELSE vs
      BY <1>3, <2>3 DEF VCH, WriteLow
    <3> QED
      BY <2>1, <2>2, <3>1, <3>2 DEF Max2, Min2
  <2>4. CASE ~Neg(vs)
    <3>1. S(sub(vs, vt)) = S(vs) - S(vt) /\ ~(S(vs) < 0)
      BY <1>3, <2>1, <2>4, ClipDifference
    <3>2. ~(Neg(vs) # Neg(vt))
      BY <1>3, <2>4 DEF Neg
    <3>3. vd' = IF S(sub(vs, vt)) >= 0 THEN vt ELSE vs
      BY <1>3, <3>2 DEF VCH, WriteLow
    <3> QED
      BY <2>1, <3>1, <3>3 DEF Max2, Min2
  <2> QED
    BY <2>3, <2>4
<1>4. ASSUME ChainInv, VCR, ~Neg(vt) PROVE S(vd') = Max2(-vt - 1, Min2(vt, S(vs)))
  <2>1. /\ vs \in 0 .. M - 1 /\ vt \in 0 .. H - 1 /\ M = 2 * H /\ H \in Nat \ {0}
        /\ vs \in Lane /\ vt \in Lane /\ S(vs) \in -H .. H - 1 /\ S(vt) = vt
    BY <1>4, SignedElement, LaneSize DEF ChainInv, Lane, Neg, S
  <2>2. S(Not(vt)) = -vt - 1
    BY <2>1 DEF S, Not
  <2>3. CASE Neg(vs)
    <3>1. vd' = IF Neg(add(vs, vt)) THEN Not(vt) ELSE vs
      BY <1>4, <2>3 DEF VCR, WriteLow
    <3>2. add(vs, vt) = IF vs + vt >= M THEN vs + vt - M ELSE vs + vt
      BY <2>1, CarryAndBorrow
    <3> QED
      BY <2>1, <2>2, <2>3, <3>1, <3>2 DEF Max2, Min2, Neg, S
  <2>4. CASE ~Neg(vs)
    <3>1. ~(Neg(vs) # Neg(vt))
      BY <1>4, <2>4 DEF Neg
    <3>2. vd' = IF S(vt) <= S(vs) THEN vt ELSE vs
      BY <1>4, <3>1 DEF VCR, WriteLow
    <3> QED
      BY <2>1, <2>4, <3>2 DEF Max2, Min2, Neg, S
  <2> QED
    BY <2>3, <2>4
<1>5. ChainInv => DoubleClipStep /\ ClipStep
  BY <1>2, <1>3, <1>4 DEF ClipStep
<1> QED
  BY <1>5, FlagsBelong, PTL DEF ClipsExactly

-----------------------------------------------------------------------------
(***************************************************************************)
(* Words of a number: what wraps around, and what carries into the next.   *)
(***************************************************************************)

\* A number is its upper words and its low word.
LEMMA Words ==
  ASSUME NEW n \in Int
  PROVE  U(n) \in Lane /\ U(n) \in Int /\ n \div M \in Int /\ n = (n \div M) * M + U(n)
<1>1. M \in Nat \ {0}
  BY LaneSize
<1>2. n % M \in 0 .. M - 1 /\ n \div M \in Int
  BY <1>1
<1>3. n = M * (n \div M) + (n % M)
  BY <1>1
<1>4. M * (n \div M) = (n \div M) * M
  BY <1>1, <1>2
<1>5. n % M \in Int
  BY <1>1, <1>2
<1> QED
  BY <1>2, <1>3, <1>4, <1>5, Zenon DEF U, Lane

\* Whole turns do not show in the low word.
LEMMA Turns ==
  ASSUME NEW n \in Int, NEW k \in Int
  PROVE  U(n + k * M) = U(n) /\ (n + k * M) \div M = (n \div M) + k
<1> DEFINE q == n \div M
           r == U(n)
<1>1. r \in Lane /\ r \in Int /\ q \in Int /\ n = q * M + r
  BY Words
<1> HIDE DEF q, r
<1>2. M \in Int
  BY LaneSize
<1>3. (q + k) * M = q * M + k * M /\ q * M \in Int /\ k * M \in Int /\ q + k \in Int
  BY <1>1, <1>2
<1>4. n + k * M = (q + k) * M + r
  BY <1>1, <1>3
<1>5. ((q + k) * M + r) \div M = q + k /\ U((q + k) * M + r) = r
  BY <1>1, <1>3, Halves
<1> QED
  BY <1>4, <1>5 DEF q, r

\* Low words may be wrapped before or after they are added.
LEMMA WrapSum ==
  ASSUME NEW x \in Int, NEW y \in Int
  PROVE  U(U(x) + y) = U(x + y) /\ U(x + U(y)) = U(x + y)
<1>1. ASSUME NEW u \in Int, NEW v \in Int PROVE U(U(u) + v) = U(u + v)
  <2> DEFINE k == u \div M
             r == U(u)
  <2>1. k \in Int /\ r \in Int /\ u = k * M + r
    BY Words
  <2> HIDE DEF k, r
  <2>2. M \in Int
    BY LaneSize
  <2>3. k * M \in Int /\ r + v \in Int
    BY <2>1, <2>2
  <2>4. u + v = (r + v) + k * M
    BY <2>1, <2>3
  <2>5. U((r + v) + k * M) = U(r + v)
    BY <2>1, <2>3, Turns
  <2> QED
    BY <2>4, <2>5 DEF r
<1>2. U(x) \in Int /\ U(y) \in Int
  BY Words
<1>3. U(U(x) + y) = U(x + y) /\ U(U(y) + x) = U(y + x)
  BY <1>1
<1>4. U(y) + x = x + U(y) /\ y + x = x + y
  BY <1>2
<1> QED
  BY <1>3, <1>4

\* A signed element and its bits differ by a turn.
LEMMA SignedTurn ==
  ASSUME NEW x \in Lane
  PROVE  /\ Bit(Neg(x)) \in {0, 1} /\ S(x) = x - Bit(Neg(x)) * M /\ x = S(x) + Bit(Neg(x)) * M
         /\ \A y \in Int : U(S(x) + y) = U(x + y)
<1>1. x \in 0 .. M - 1 /\ M \in Int /\ x \in Int /\ H \in Nat
  BY LaneSize DEF Lane
<1>2. Bit(Neg(x)) \in {0, 1} /\ S(x) = x - Bit(Neg(x)) * M /\ S(x) \in Int /\ x = S(x) + Bit(Neg(x)) * M
  BY <1>1, LaneSize DEF Bit, Neg, S
<1>3. ASSUME NEW y \in Int PROVE U(S(x) + y) = U(x + y)
  <2>1. x + y = (S(x) + y) + Bit(Neg(x)) * M /\ S(x) + y \in Int /\ Bit(Neg(x)) \in Int
    <3> DEFINE t == Bit(Neg(x)) * M
    <3>1. t \in Int
      BY <1>1, <1>2
    <3> HIDE DEF t
    <3>2. x = S(x) + t
      BY <1>2 DEF t
    <3>3. x + y = (S(x) + y) + t
      BY <1>1, <1>2, <3>1, <3>2
    <3> QED
      BY <1>2, <3>3 DEF t
  <2> QED
    BY <2>1, Turns
<1> QED
  BY <1>2, <1>3

\* An element of a number in the signed range has that number as its signed value.
LEMMA InRange ==
  ASSUME NEW n \in -H .. H - 1
  PROVE  U(n) \in Lane /\ S(U(n)) = n /\ (Neg(U(n)) <=> n < 0)
<1>1. H \in Nat \ {0} /\ M = 2 * H
  BY LaneSize
<1>2. n \in Int
  BY <1>1
<1>3. U(n) = IF n < 0 THEN n + M ELSE n
  BY <1>1, <1>2, Wrapped
<1> QED
  BY <1>1, <1>2, <1>3 DEF Lane, S, Neg

\* The sum of two elements is its low word and its carry.
LEMMA SumWords ==
  ASSUME NEW a \in Lane, NEW b \in Lane
  PROVE  /\ add(a, b) \in Lane /\ Bit(CarryOut(a, b)) \in {0, 1}
         /\ a + b = add(a, b) + Bit(CarryOut(a, b)) * M
<1>1. a \in 0 .. M - 1 /\ b \in 0 .. M - 1 /\ M \in Nat \ {0}
  BY LaneSize DEF Lane
<1>2. add(a, b) = IF a + b >= M THEN a + b - M ELSE a + b
  BY CarryAndBorrow
<1>3. Bit(CarryOut(a, b)) = IF a + b >= M THEN 1 ELSE 0
  BY CarryAndBorrow DEF Bit
<1> QED
  BY <1>1, <1>2, <1>3 DEF Lane

\* A number below A with one more word is below A * M.
LEMMA Nested ==
  ASSUME NEW A \in Nat, NEW a \in 0 .. A - 1, NEW l \in Lane
  PROVE  a * M + l \in 0 .. A * M - 1
<1>1. l \in 0 .. M - 1 /\ M \in Nat \ {0} /\ a \in Nat /\ A \in Nat
  BY LaneSize DEF Lane
<1>2. (A - 1 - a) * M >= 0 /\ a * M >= 0
  BY <1>1
<1>3. (A - 1 - a) * M = A * M - M - a * M /\ A * M \in Int /\ a * M \in Int
  BY <1>1
<1> QED
  BY <1>1, <1>2, <1>3

\* A rest is the only one in its range.
LEMMA RestUnique ==
  ASSUME NEW c \in Nat \ {0}, NEW r \in 0 .. c - 1, NEW t \in Int
  PROVE  (r + t * c) % c = r
OBVIOUS

\* The accumulator as upper words and a low word.
LEMMA AccWords ==
  ASSUME NEW hi \in Lane, NEW md \in Lane, NEW lo \in Lane,
         NEW a, a = [hi |-> hi, md |-> md, lo |-> lo]
  PROVE  /\ Acc48(a) = (S(hi) * M + md) * M + lo
         /\ Acc48(a) \in Int
         /\ Acc48(a) \div M = S(hi) * M + md
         /\ U(Acc48(a)) = lo
<1>1. Acc48(a) = (S(hi) * M + md) * M + lo
  BY DEF Acc48
<1>2. S(hi) \in Int /\ M \in Int /\ md \in Int /\ lo \in Int
  BY SignedElement, LaneSize DEF Lane
<1>3. S(hi) * M + md \in Int
  BY <1>2
<1>4. /\ ((S(hi) * M + md) * M + lo) \div M = S(hi) * M + md
      /\ U((S(hi) * M + md) * M + lo) = lo
  BY <1>3, Halves
<1>5. (S(hi) * M + md) * M + lo \in Int
  BY <1>2, <1>3
<1> QED
  BY <1>1, <1>4, <1>5

\* Three words that make up n, the high one wrapped, are n wrapped to three words.
LEMMA ThreeWords ==
  ASSUME NEW hi \in Lane, NEW md \in Lane, NEW lo \in Lane, NEW k \in Int, NEW n,
         hi = U(k), n = (k * M + md) * M + lo
  PROVE  (S(hi) * M + md) * M + lo = Signed(n)
<1>1. /\ M \in Nat \ {0} /\ M = 2 * H /\ H \in Nat \ {0}
      /\ md \in Int /\ lo \in Int /\ S(hi) \in -H .. H - 1
  BY SignedElement, LaneSize DEF Lane
<1> DEFINE e == Bit(Neg(hi))
           t == (k \div M) + e
           c == M * M * M
           w == H * M * M
           r == ((S(hi) + H) * M + md) * M + lo
<1>2. t \in Int /\ k = S(hi) + t * M
  <2> DEFINE q == k \div M
  <2>1. q \in Int /\ k = q * M + hi
    BY Words
  <2>2. e \in {0, 1} /\ hi = S(hi) + e * M
    BY SignedTurn
  <2> HIDE DEF q, e
  <2>3. (q + e) * M = q * M + e * M /\ q * M \in Int /\ e * M \in Int
    BY <1>1, <2>1, <2>2
  <2>4. S(hi) \in Int
    BY <1>1
  <2>5. k = S(hi) + (q + e) * M
    BY <2>1, <2>2, <2>3, <2>4
  <2>6. q + e \in Int
    BY <2>1, <2>2
  <2> QED
    BY <2>5, <2>6 DEF q
<1>3. c \in Nat \ {0} /\ w \in Nat
  <2>1. M * M \in Nat \ {0} /\ H * M \in Nat
    BY <1>1
  <2> QED
    BY <1>1, <2>1
<1>4. r \in 0 .. c - 1
  <2>1. S(hi) + H \in 0 .. M - 1 /\ M \in Nat
    BY <1>1
  <2>2. (S(hi) + H) * M + md \in 0 .. M * M - 1
    BY <2>1, Nested
  <2>3. M * M \in Nat
    BY <1>1
  <2> QED
    BY <2>2, <2>3, Nested
<1> HIDE DEF t
<1>5. n + w = r + t * c
  <2> DEFINE s == S(hi)
             f == t * M
  <2>1. s \in Int /\ f \in Int /\ k = s + f
    BY <1>1, <1>2
  <2>2. t * c = f * M * M
    BY <1>1, <1>2
  <2> HIDE DEF s, f
  <2>3. (k * M + md) * M + lo = s * M * M + f * M * M + md * M + lo
    BY <1>1, <2>1
  <2>4. ((s + H) * M + md) * M + lo = s * M * M + H * M * M + md * M + lo
    BY <1>1, <2>1
  <2>5. s * M * M \in Int /\ f * M * M \in Int /\ md * M \in Int /\ H * M * M \in Int
    BY <1>1, <2>1
  <2> DEFINE x1 == s * M * M
             x2 == f * M * M
             x3 == md * M
  <2>6. r = x1 + w + x3 + lo
    BY <2>4 DEF s
  <2>7. n = x1 + x2 + x3 + lo
    BY <2>3
  <2>8. t * c = x2 /\ x1 \in Int /\ x2 \in Int /\ x3 \in Int
    BY <2>2, <2>5
  <2> HIDE DEF r, c, w, x1, x2, x3
  <2> QED
    BY <1>1, <1>3, <2>6, <2>7, <2>8
<1> HIDE DEF c, r, w
<1>6. (n + w) % c = r
  BY <1>2, <1>3, <1>4, <1>5, RestUnique
<1>7. Signed(n) = ((n + w) % c) - w
  BY DEF Signed, w, c
<1>8. r - w = (S(hi) * M + md) * M + lo
  <2> DEFINE s == S(hi)
  <2>1. s \in Int
    BY <1>1
  <2> HIDE DEF s
  <2>2. (((s + H) * M + md) * M + lo) - H * M * M = (s * M + md) * M + lo
    BY <1>1, <2>1
  <2>3. r = ((s + H) * M + md) * M + lo /\ w = H * M * M
    BY DEF s, r, w
  <2>4. r - w = (s * M + md) * M + lo
    BY <2>2, <2>3, Zenon
  <2> QED
    BY <2>4 DEF s
<1> QED
  BY <1>6, <1>7, <1>8

\* Products of bounded numbers are bounded.
LEMMA ProductBound ==
  ASSUME NEW X \in Nat, NEW Y \in Nat, NEW x \in 0 .. X, NEW y \in 0 .. Y
  PROVE  x * y \in Nat /\ x * y <= X * Y
<1>1. (X - x) * y >= 0 /\ X * (Y - y) >= 0 /\ x * y >= 0
  <2>1. X - x \in Nat /\ Y - y \in Nat /\ x \in Nat /\ y \in Nat
    OBVIOUS
  <2>2. ASSUME NEW u \in Nat, NEW v \in Nat PROVE u * v >= 0
    OBVIOUS
  <2> QED
    BY <2>1, <2>2
<1>2. (X - x) * y = X * y - x * y /\ X * (Y - y) = X * Y - X * y
  OBVIOUS
<1>3. x * y \in Int /\ X * y \in Int /\ X * Y \in Int
  OBVIOUS
<1> QED
  BY <1>1, <1>2, <1>3

-----------------------------------------------------------------------------
(***************************************************************************)
(* The products the SSE instructions compute in two words.                 *)
(***************************************************************************)

\* Numbers of the signed range and the largest products they have.
LEMMA SignedBounds ==
  ASSUME NEW a \in -H .. H - 1, NEW b \in -H .. H - 1
  PROVE  /\ a * b \in Int /\ a * b <= H * H /\ a * b >= -(H * (H - 1))
         /\ a # b => a * b <= H * (H - 1)
         /\ a = b => a * b >= 0
<1>1. H \in Nat \ {0} /\ H - 1 \in Nat /\ a \in Int /\ b \in Int
  BY LaneSize
<1>2. H * H \in Int /\ H * (H - 1) \in Int /\ (H - 1) * H = H * (H - 1)
      /\ H * (H - 1) >= 0 /\ H * H = H * (H - 1) + H /\ (H - 1) * (H - 1) <= H * (H - 1)
  <2>1. H * (H - 1) \in Nat
    BY <1>1
  <2>2. H * H = H * (H - 1) + H /\ (H - 1) * (H - 1) = H * (H - 1) - (H - 1)
        /\ (H - 1) * H = H * (H - 1)
    BY <1>1
  <2> QED
    BY <1>1, <2>1, <2>2
<1>3. CASE a >= 0 /\ b >= 0
  <2>1. a * b \in Nat /\ a * b <= (H - 1) * (H - 1)
    BY <1>1, <1>3, ProductBound
  <2>2. (H - 1) * (H - 1) \in Int
    BY <1>1
  <2> QED
    BY <1>1, <1>2, <2>1, <2>2
<1>4. CASE a < 0 /\ b < 0
  <2>1. -a \in 0 .. H /\ -b \in 0 .. H /\ (-a) * (-b) = a * b
    BY <1>1, <1>4
  <2>2. a * b \in Nat /\ a * b <= H * H
    <3>1. (-a) * (-b) \in Nat /\ (-a) * (-b) <= H * H
      BY <1>1, <2>1, ProductBound
    <3> QED
      BY <2>1, <3>1
  <2>3. a # b => a * b <= H * (H - 1)
    <3>1. CASE a # -H
      <4>1. -a \in 0 .. H - 1
        BY <1>1, <2>1, <3>1
      <4>2. (-a) * (-b) <= (H - 1) * H
        BY <1>1, <2>1, <4>1, ProductBound
      <4> QED
        BY <1>2, <2>1, <4>2
    <3>2. CASE b # -H
      <4>1. -b \in 0 .. H - 1
        BY <1>1, <2>1, <3>2
      <4>2. (-a) * (-b) <= H * (H - 1)
        BY <1>1, <2>1, <4>1, ProductBound
      <4> QED
        BY <2>1, <4>2
    <3> QED
      BY <3>1, <3>2
  <2> QED
    BY <1>1, <1>2, <2>2, <2>3
<1>5. CASE a < 0 /\ b >= 0
  <2>1. -a \in 0 .. H /\ b \in 0 .. H - 1 /\ (-a) * b = -(a * b) /\ a * b \in Int
    BY <1>1, <1>5
  <2>2. (-a) * b \in Nat /\ (-a) * b <= H * (H - 1)
    BY <1>1, <2>1, ProductBound
  <2>3. a * b <= 0 /\ a * b >= -(H * (H - 1)) /\ a # b
    BY <1>1, <1>2, <1>5, <2>1, <2>2
  <2> QED
    BY <1>1, <1>2, <2>1, <2>3
<1>6. CASE a >= 0 /\ b < 0
  <2>1. a \in 0 .. H - 1 /\ -b \in 0 .. H /\ a * (-b) = -(a * b) /\ a * b \in Int
    BY <1>1, <1>6
  <2>2. a * (-b) \in Nat /\ a * (-b) <= (H - 1) * H
    BY <1>1, <2>1, ProductBound
  <2>3. a * b <= 0 /\ a * b >= -(H * (H - 1)) /\ a # b
    BY <1>1, <1>2, <1>6, <2>1, <2>2
  <2> QED
    BY <1>1, <1>2, <2>1, <2>3
<1> QED
  BY <1>1, <1>3, <1>4, <1>5, <1>6

\* mullo and mulhi are the two words of the signed product (_mm_mullo_epi16,
\* _mm_mulhi_epi16); its high word fits.
LEMMA SignedProduct ==
  ASSUME NEW x \in Lane, NEW y \in Lane, NEW p, p = S(x) * S(y)
  PROVE  /\ p \in Int /\ p <= H * H /\ p >= -(H * (H - 1))
         /\ x # y => p <= H * (H - 1)
         /\ x = y => p >= 0
         /\ mullo(x, y) = U(p) /\ mulhi(x, y) = U(p \div M)
         /\ p \div M \in -H .. H - 1 /\ (p \div M < 0 <=> p < 0)
<1>1. /\ S(x) \in -H .. H - 1 /\ S(y) \in -H .. H - 1 /\ ((S(x) = S(y)) <=> x = y)
      /\ M \in Nat \ {0} /\ M = 2 * H /\ H \in Nat \ {0}
  BY SignedElement, LaneSize
<1>2. /\ p \in Int /\ p <= H * H /\ p >= -(H * (H - 1))
      /\ x # y => p <= H * (H - 1)
      /\ x = y => p >= 0
  BY <1>1, SignedBounds
<1>3. mullo(x, y) = U(p)
  <2> DEFINE a == S(x)
             b == S(y)
             e == Bit(Neg(x))
             f == Bit(Neg(y))
             k == a * f + e * b + e * f * M
  <2>1. e \in {0, 1} /\ f \in {0, 1} /\ x = a + e * M /\ y = b + f * M
    BY SignedTurn
  <2>2. a \in Int /\ b \in Int /\ p = a * b
    BY <1>1
  <2> HIDE DEF a, b, e, f
  <2>3. x * y = p + k * M
    BY <1>1, <2>1, <2>2
  <2>4. k \in Int
    BY <1>1, <2>1, <2>2
  <2> HIDE DEF k
  <2>5. U(p + k * M) = U(p)
    BY <1>2, <2>4, Turns
  <2> QED
    BY <2>3, <2>5 DEF mullo
<1>4. mulhi(x, y) = U(p \div M)
  BY DEF mulhi
<1>5. p \div M \in -H .. H - 1 /\ (p \div M < 0 <=> p < 0)
  <2> DEFINE q == p \div M
             r == U(p)
  <2>1. q \in Int /\ r \in 0 .. M - 1 /\ p = q * M + r
    BY <1>2, Words DEF Lane
  <2> HIDE DEF q, r
  <2>2. q >= -H
    <3>1. CASE q <= -H - 1
      <4>1. (-H - 1 - q) * M >= 0
        BY <1>1, <2>1, <3>1
      <4>2. (-H - 1 - q) * M = -(H * M) - M - q * M
        BY <1>1, <2>1
      <4>3. H * M = 2 * (H * H) /\ H * (H - 1) = H * H - H /\ H * H >= 0 /\ H * H \in Int
        BY <1>1
      <4>4. q * M \in Int /\ H * M \in Int
        BY <1>1, <2>1
      <4> QED
        BY <1>1, <1>2, <2>1, <4>1, <4>2, <4>3, <4>4
    <3> QED
      BY <1>1, <2>1, <3>1
  <2>3. q <= H - 1
    <3>1. CASE q >= H
      <4>1. (q - H) * M >= 0 /\ (q - H) * M = q * M - H * M
        BY <1>1, <2>1, <3>1
      <4>2. H * M = H * H + H * H /\ H * H > 0 /\ H * H \in Int
        BY <1>1
      <4>3. q * M \in Int /\ H * M \in Int
        BY <1>1, <2>1
      <4> QED
        BY <1>1, <1>2, <2>1, <4>1, <4>2, <4>3
    <3> QED
      BY <1>1, <2>1, <3>1
  <2>4. q < 0 <=> p < 0
    <3>1. q < 0 => (-1 - q) * M >= 0
      BY <1>1, <2>1
    <3>2. q >= 0 => q * M >= 0
      BY <1>1, <2>1
    <3>3. (-1 - q) * M = -M - q * M /\ q * M \in Int
      BY <1>1, <2>1
    <3> QED
      BY <1>1, <1>2, <2>1, <3>1, <3>2, <3>3
  <2>5. q \in -H .. H - 1
    BY <1>1, <2>1, <2>2, <2>3
  <2> QED
    BY <2>4, <2>5 DEF q
<1> QED
  BY <1>2, <1>3, <1>4, <1>5

\* A number between -A whole turns and B of them has its upper words in that range.
LEMMA UpperRange ==
  ASSUME NEW A \in Int, NEW B \in Int, NEW n \in Int
  PROVE  /\ n >= A * M => n \div M >= A
         /\ n < B * M => n \div M < B
         /\ n < 0 <=> n \div M < 0
<1> DEFINE q == n \div M
           r == U(n)
<1>1. q \in Int /\ r \in 0 .. M - 1 /\ n = q * M + r /\ M \in Nat \ {0}
  BY LaneSize, Words DEF Lane
<1> HIDE DEF q, r
<1>2. ASSUME NEW x \in Int, NEW y \in Int, x < y PROVE x * M + M <= y * M
  <2>1. (y - x - 1) * M >= 0 /\ (y - x - 1) * M = y * M - x * M - M
    BY <1>1, <1>2
  <2>2. x * M \in Int /\ y * M \in Int
    BY <1>1
  <2> QED
    BY <1>1, <2>1, <2>2
<1>3. A * M \in Int /\ B * M \in Int /\ q * M \in Int
  BY <1>1
<1>4. n >= A * M => q >= A
  <2>1. CASE q < A
    BY <1>1, <1>2, <1>3, <2>1
  <2> QED
    BY <1>1, <2>1
<1>5. n < B * M => q < B
  <2>1. CASE B < q
    BY <1>1, <1>2, <1>3, <2>1
  <2>2. CASE B = q
    BY <1>1, <1>3, <2>2
  <2> QED
    BY <1>1, <2>1, <2>2
<1>6. n < 0 <=> q < 0
  <2>1. CASE q < 0
    <3>1. q * M + M <= 0 * M /\ 0 * M = 0
      BY <1>1, <1>2, <2>1
    <3> QED
      BY <1>1, <1>3, <2>1, <3>1
  <2>2. CASE q >= 0
    <3>1. q * M >= 0
      BY <1>1, <2>2
    <3> QED
      BY <1>1, <1>3, <2>2, <3>1
  <2> QED
    BY <1>1, <2>1, <2>2
<1> QED
  BY <1>4, <1>5, <1>6 DEF q

\* The two words of a signed by an unsigned factor; the high one fits even with
\* a carry out of the low one.
LEMMA MixedWords ==
  ASSUME NEW s \in Lane, NEW u \in Lane, NEW p, p = S(s) * u
  PROVE  /\ p \in Int
         /\ MixedProduct(s, u) = [lo |-> U(p), hi |-> U(p \div M)]
         /\ p \div M \in -H .. H - 1
         /\ p \div M = H - 1 => U(p) = 0
<1> DEFINE a == S(s)
           e == Bit(Neg(s))
           f == e * u
<1>1. /\ a \in -H .. H - 1 /\ a \in Int /\ u \in 0 .. M - 1 /\ u \in Int
      /\ M \in Nat \ {0} /\ M = 2 * H /\ H \in Nat \ {0}
      /\ e \in {0, 1} /\ s = a + e * M /\ p = a * u
  BY SignedElement, LaneSize, SignedTurn DEF Lane
<1>2. f = IF Neg(s) THEN u ELSE 0
  BY <1>1 DEF Bit
<1> HIDE DEF a, e
<1>3. p \in Int /\ f \in Int
  BY <1>1
<1>4. s * u = p + f * M
  BY <1>1
<1> HIDE DEF f
<1>5. U(s * u) = U(p) /\ (s * u) \div M = (p \div M) + f
  BY <1>3, <1>4, Turns
<1>6. p \div M \in Int
  BY <1>3, Words
<1>7. MixedProduct(s, u) = [lo |-> U(p), hi |-> U(p \div M)]
  <2>1. ((p \div M) + f) - f = p \div M
    BY <1>3, <1>6
  <2> QED
    BY <1>2, <1>5, <2>1 DEF MixedProduct, mullo, mulhu, sub
<1>8. p >= -(H * (M - 1)) /\ p <= (H - 1) * (M - 1)
  <2>1. CASE a >= 0
    <3>1. a * u \in Nat /\ a * u <= (H - 1) * (M - 1)
      BY <1>1, <2>1, ProductBound
    <3>2. H * (M - 1) \in Nat
      BY <1>1
    <3> QED
      BY <1>1, <3>1, <3>2
  <2>2. CASE a < 0
    <3>1. -a \in 0 .. H /\ (-a) * u = -(a * u)
      BY <1>1, <2>2
    <3>2. (-a) * u \in Nat /\ (-a) * u <= H * (M - 1)
      BY <1>1, <3>1, ProductBound
    <3>3. (H - 1) * (M - 1) \in Nat /\ H * (M - 1) \in Nat
      BY <1>1
    <3> QED
      BY <1>1, <1>3, <3>1, <3>2, <3>3
  <2> QED
    BY <1>1, <2>1, <2>2
<1>9. /\ -(H * (M - 1)) = (-H) * M + H /\ (H - 1) * (M - 1) = (H - 1) * M - (H - 1)
      /\ H * M = (H - 1) * M + M
      /\ (-H) * M \in Int /\ (H - 1) * M \in Int /\ H * M \in Int
  BY <1>1
<1>10. p >= (-H) * M /\ p < H * M /\ p <= (H - 1) * M
  BY <1>1, <1>3, <1>8, <1>9
<1>11. p \div M \in -H .. H - 1
  <2>1. p \div M >= -H /\ p \div M < H
    BY <1>1, <1>3, <1>10, UpperRange
  <2> QED
    BY <1>1, <1>6, <2>1
<1>12. p \div M = H - 1 => U(p) = 0
  <2>1. p = (p \div M) * M + U(p) /\ U(p) \in 0 .. M - 1
    BY <1>3, Words DEF Lane
  <2> QED
    BY <1>1, <1>3, <1>9, <1>10, <2>1
<1> QED
  BY <1>3, <1>7, <1>11, <1>12

-----------------------------------------------------------------------------
(***************************************************************************)
(* The accumulator and the results taken from it.                          *)
(***************************************************************************)

\* The three ways of taking a result are clamps of the accumulator's upper words.
LEMMA Results ==
  ASSUME NEW hi \in Lane, NEW md \in Lane, NEW lo \in Lane,
         NEW a, a = [hi |-> hi, md |-> md, lo |-> lo]
  PROVE  /\ rsp_sclamp_acc_tomd(a) = Middle(Acc48(a))
         /\ rsp_uclamp_acc(a) = Low(Acc48(a))
         /\ VmacuResult(a) = MiddleUnsigned(Acc48(a))
<1> DEFINE n == Acc48(a)
           t == S(hi) * M + md
           h == S(hi)
<1>1. n \div M = t /\ U(n) = lo
  BY AccWords
<1>2. a.hi = hi /\ a.md = md /\ a.lo = lo
  OBVIOUS
<1>3. /\ h \in -H .. H - 1 /\ h \in Int /\ md \in 0 .. M - 1
      /\ M \in Nat \ {0} /\ M = 2 * H /\ H \in Nat \ {0}
      /\ Neg(hi) <=> h < 0
      /\ hi = srai15(hi) <=> h \in {-1, 0}
  <2>1. h \in -H .. H - 1 /\ h \in Int /\ md \in 0 .. M - 1 /\ hi \in 0 .. M - 1
    BY SignedElement DEF Lane
  <2> QED
    BY <2>1, LaneSize DEF Neg, S, srai15
<1>4. /\ h < -1 => t < -H
      /\ h = -1 => t = md - M
      /\ h = 0 => t = md
      /\ h > 0 => t >= M
      /\ t \in Int
  <2> HIDE DEF h
  <2>1. t = h * M + md /\ h * M \in Int
    BY <1>3 DEF h
  <2>2. h < -1 => (-2 - h) * M >= 0
    BY <1>3
  <2>3. h > 0 => (h - 1) * M >= 0
    BY <1>3
  <2>4. (-2 - h) * M = -2 * M - h * M /\ (h - 1) * M = h * M - M
    BY <1>3
  <2>5. (h = -1 => h * M = -M) /\ (h = 0 => h * M = 0)
    BY <1>3
  <2> HIDE DEF t
  <2> QED
    BY <1>3, <2>1, <2>2, <2>3, <2>4, <2>5
<1> HIDE DEF n, t
<1>5. rsp_sclamp_acc_tomd(a) = Middle(n)
  BY <1>1, <1>2 DEF rsp_sclamp_acc_tomd, Middle, t
<1>6. rsp_uclamp_acc(a) = Low(n)
  <2> DEFINE same == Neg(hi) = Neg(md)
  <2>1. rsp_uclamp_acc(a) = IF same /\ h \in {-1, 0} THEN lo ELSE IF h < 0 THEN 0 ELSE M - 1
    BY <1>2, <1>3 DEF rsp_uclamp_acc
  <2>2. Low(n) = IF t < -H THEN 0 ELSE IF t >= H THEN M - 1 ELSE lo
    BY <1>1 DEF Low
  <2>3. same <=> (h < 0 <=> md >= H)
    BY <1>3 DEF Neg
  <2> HIDE DEF h, same
  <2>4. CASE h < -1
    BY <1>3, <1>4, <2>1, <2>2, <2>4
  <2>5. CASE h = -1
    BY <1>3, <1>4, <2>1, <2>2, <2>3, <2>5
  <2>6. CASE h = 0
    BY <1>3, <1>4, <2>1, <2>2, <2>3, <2>6
  <2>7. CASE h > 0
    BY <1>3, <1>4, <2>1, <2>2, <2>7
  <2> QED
    BY <1>3, <2>4, <2>5, <2>6, <2>7
<1>7. VmacuResult(a) = MiddleUnsigned(n)
  <2>1. VmacuResult(a) = IF h > 0 THEN M - 1 ELSE IF h < 0 THEN 0 ELSE IF md >= H THEN M - 1 ELSE md
    BY <1>2, <1>3 DEF VmacuResult, Neg
  <2>2. MiddleUnsigned(n) = IF t < 0 THEN 0 ELSE IF t >= H THEN M - 1 ELSE t
    BY <1>1 DEF MiddleUnsigned
  <2> HIDE DEF h
  <2> QED
    BY <1>3, <1>4, <2>1, <2>2
<1> QED
  BY <1>5, <1>6, <1>7 DEF n

\* Three words as one number, and that number in an accumulator, wrapped.
Number(k, md, lo) == (k * M + md) * M + lo
Packed(k, md, lo) == [hi |-> U(k), md |-> md, lo |-> lo]

\* An accumulator is n wrapped to three words, and so are the results taken from it.
IsNumber(a, n) ==
  /\ a \in [hi : Lane, md : Lane, lo : Lane]
  /\ Acc48(a) = Signed(n)
  /\ rsp_sclamp_acc_tomd(a) = Middle(Signed(n)) /\ Middle(Signed(n)) \in Lane
  /\ rsp_uclamp_acc(a) = Low(Signed(n)) /\ Low(Signed(n)) \in Lane
  /\ VmacuResult(a) = MiddleUnsigned(Signed(n)) /\ MiddleUnsigned(Signed(n)) \in Lane

\* Words that make up n are n in the accumulator, whatever the high one has lost.
LEMMA Holding ==
  ASSUME NEW k \in Int, NEW md \in Lane, NEW lo \in Lane,
         NEW n, n = Number(k, md, lo)
  PROVE  /\ IsNumber(Packed(k, md, lo), n)
         /\ Signed(n) \div M = S(U(k)) * M + md
         /\ U(Signed(n)) = lo
<1> DEFINE hi == U(k)
           a == Packed(k, md, lo)
<1>1. hi \in Lane /\ a = [hi |-> hi, md |-> md, lo |-> lo]
  BY Words DEF Packed
<1> HIDE DEF a
<1>2. Acc48(a) = Signed(n)
  <2>1. (S(hi) * M + md) * M + lo = Signed(n)
    BY <1>1, ThreeWords DEF Number
  <2>2. Acc48(a) = (S(hi) * M + md) * M + lo
    BY <1>1, AccWords
  <2> QED
    BY <2>1, <2>2
<1>3. Acc48(a) \div M = S(hi) * M + md /\ U(Acc48(a)) = lo
  BY <1>1, AccWords
<1>4. a \in [hi : Lane, md : Lane, lo : Lane]
  BY <1>1
<1>5. /\ rsp_sclamp_acc_tomd(a) = Middle(Acc48(a))
      /\ rsp_uclamp_acc(a) = Low(Acc48(a))
      /\ VmacuResult(a) = MiddleUnsigned(Acc48(a))
  BY <1>1, Results
<1>6. ASSUME NEW t \in Int, t = Signed(n) \div M
      PROVE  /\ Middle(Signed(n)) \in Lane /\ Low(Signed(n)) \in Lane
             /\ MiddleUnsigned(Signed(n)) \in Lane
  <2>1. Middle(Signed(n)) \in Lane
    BY <1>6, Clamped DEF Middle
  <2>2. Low(Signed(n)) = IF t < -H THEN 0 ELSE IF t >= H THEN M - 1 ELSE lo
    BY <1>2, <1>3, <1>6 DEF Low
  <2>3. MiddleUnsigned(Signed(n)) = IF t < 0 THEN 0 ELSE IF t >= H THEN M - 1 ELSE t
    BY <1>6 DEF MiddleUnsigned
  <2>4. Low(Signed(n)) \in Lane /\ MiddleUnsigned(Signed(n)) \in Lane
    BY <2>2, <2>3, LaneSize DEF Lane
  <2> QED
    BY <2>1, <2>4
<1>7. Signed(n) \div M \in Int
  <2>1. S(hi) \in Int /\ M \in Int /\ md \in Int
    BY <1>1, SignedElement, LaneSize DEF Lane
  <2>2. S(hi) * M + md \in Int
    BY <2>1
  <2> QED
    BY <1>2, <1>3, <2>2
<1> QED
  BY <1>2, <1>3, <1>4, <1>5, <1>6, <1>7 DEF IsNumber, a

\* The end of every accumulation: the low words have been added, what they carry
\* is part of md, and the two upper words follow.
LEMMA Accumulated ==
  ASSUME NEW ah \in Lane, NEW am \in Lane, NEW al \in Lane,
         NEW a, a = [hi |-> ah, md |-> am, lo |-> al],
         NEW k \in Int, NEW md \in Lane, NEW lo \in Lane, NEW p \in Int,
         p + al = Number(k, md, lo),
         NEW hi, hi = U(ah + (k + Bit(CarryOut(am, md))))
  PROVE  IsNumber([hi |-> hi, md |-> add(am, md), lo |-> lo], Acc48(a) + p)
<1> DEFINE h == S(ah)
           c == Bit(CarryOut(am, md))
           x == add(am, md)
           K == h + (k + c)
<1>1. /\ x \in Lane /\ x \in Int /\ c \in {0, 1} /\ am + md = x + c * M
      /\ h \in Int /\ M \in Int /\ am \in Int /\ md \in Int /\ lo \in Int /\ al \in Int
  BY SumWords, SignedElement, LaneSize DEF Lane
<1>2. hi = U(K) /\ K \in Int
  <2>1. k + c \in Int
    BY <1>1
  <2>2. U(h + (k + c)) = U(ah + (k + c))
    BY <2>1, SignedTurn
  <2> QED
    BY <1>1, <2>1, <2>2
<1> HIDE DEF h, c, x
<1>3. Acc48(a) + p = (K * M + x) * M + lo
  <2>1. Acc48(a) = (h * M + am) * M + al
    BY DEF Acc48, h
  <2>2. (h * M + am) * M \in Int /\ (k * M + md) * M \in Int
    BY <1>1
  <2>3. ((h * M + am) * M + al) + p = (h * M + am) * M + (k * M + md) * M + lo
    <3>1. p + al = (k * M + md) * M + lo
      BY DEF Number
    <3> DEFINE y == (h * M + am) * M
               z == (k * M + md) * M
    <3>2. y \in Int /\ z \in Int /\ p + al = z + lo
      BY <2>2, <3>1
    <3> HIDE DEF y, z
    <3>3. (y + al) + p = y + z + lo
      BY <1>1, <3>2
    <3> QED
      BY <3>3 DEF y, z
  <2>4. (h * M + am) * M + (k * M + md) * M = (h * M + k * M + (am + md)) * M
    BY <1>1
  <2>5. h * M + k * M + (am + md) = K * M + x
    BY <1>1
  <2> HIDE DEF K
  <2>6. ((h * M + am) * M + al) + p = (K * M + x) * M + lo
    BY <2>3, <2>4, <2>5
  <2> QED
    BY <2>1, <2>6
<1> HIDE DEF K
<1>4. IsNumber(Packed(K, x, lo), Acc48(a) + p)
  <2>1. Acc48(a) + p = Number(K, x, lo)
    BY <1>3 DEF Number
  <2> QED
    BY <1>1, <1>2, <2>1, Holding
<1>5. Packed(K, x, lo) = [hi |-> hi, md |-> x, lo |-> lo]
  BY <1>2 DEF Packed
<1> QED
  BY <1>4, <1>5 DEF x

-----------------------------------------------------------------------------
(***************************************************************************)
(* Each multiplication against the number it stands for.                   *)
(***************************************************************************)
Elements == vs \in Lane /\ vt \in Lane /\ acc \in [hi : Lane, md : Lane, lo : Lane]

\* The parts of the accumulator.
LEMMA AccParts ==
  ASSUME Elements
  PROVE  /\ acc.hi \in Lane /\ acc.md \in Lane /\ acc.lo \in Lane
         /\ acc = [hi |-> acc.hi, md |-> acc.md, lo |-> acc.lo]
BY DEF Elements

\* VMUDH: the signed product in the upper words (rsp_vmudh).
LEMMA VmudhExact ==
  ASSUME Elements PROVE IsNumber(rsp_vmudh, S(vs) * S(vt) * M)
<1> DEFINE p == S(vs) * S(vt)
           q == p \div M
           r == U(p)
<1>1. p \in Int /\ mullo(vs, vt) = r /\ mulhi(vs, vt) = U(q)
  BY SignedProduct DEF Elements
<1>2. q \in Int /\ r \in Lane /\ r \in Int /\ p = q * M + r /\ 0 \in Lane /\ M \in Int
  BY <1>1, Words, LaneSize DEF Lane
<1> HIDE DEF p, q, r
<1>3. p * M = Number(q, r, 0)
  <2>1. (q * M + r) * M + 0 = p * M
    BY <1>1, <1>2
  <2> QED
    BY <2>1 DEF Number
<1>4. IsNumber(Packed(q, r, 0), p * M)
  BY <1>2, <1>3, Holding
<1>5. rsp_vmudh = Packed(q, r, 0)
  BY <1>1 DEF rsp_vmudh, Packed
<1> QED
  BY <1>4, <1>5 DEF p

\* VMADH: it is added, the low word untouched (rsp_vmadh).
LEMMA VmadhExact ==
  ASSUME Elements PROVE IsNumber(rsp_vmadh, Acc48(acc) + S(vs) * S(vt) * M)
<1> DEFINE p == S(vs) * S(vt)
           q == p \div M
           r == U(p)
           c == Bit(CarryOut(acc.md, r))
           hi == add(acc.hi, add(U(q), c))
<1>1. p \in Int /\ mullo(vs, vt) = r /\ mulhi(vs, vt) = U(q)
  BY SignedProduct DEF Elements
<1>2. q \in Int /\ r \in Lane /\ r \in Int /\ p = q * M + r /\ M \in Int
  BY <1>1, Words, LaneSize
<1> HIDE DEF p, q, r
<1>3. rsp_vmadh = [hi |-> hi, md |-> add(acc.md, r), lo |-> acc.lo]
  <2>1. rsp_vmadh = [acc EXCEPT !.md = add(acc.md, r), !.hi = hi]
    BY <1>1 DEF rsp_vmadh
  <2> HIDE DEF hi
  <2> QED
    BY <2>1 DEF Elements
<1>4. /\ acc.hi \in Lane /\ acc.md \in Lane /\ acc.lo \in Lane /\ acc.lo \in Int /\ acc.hi \in Int
      /\ acc = [hi |-> acc.hi, md |-> acc.md, lo |-> acc.lo]
  BY AccParts, LaneSize DEF Lane
<1>5. c \in Int
  BY <1>2, <1>4, SumWords
<1>6. hi = U(acc.hi + (q + c))
  <2> HIDE DEF c
  <2>1. U(U(q) + c) = U(q + c) /\ q + c \in Int
    BY <1>2, <1>5, WrapSum
  <2>2. U(acc.hi + U(q + c)) = U(acc.hi + (q + c))
    BY <1>4, <2>1, WrapSum
  <2> QED
    BY <2>1, <2>2 DEF add
<1>7. p * M + acc.lo = Number(q, r, acc.lo) /\ p * M \in Int
  <2>1. p * M = (q * M + r) * M /\ p * M \in Int
    BY <1>1, <1>2
  <2> QED
    BY <2>1 DEF Number
<1> HIDE DEF hi, c
<1>8. IsNumber([hi |-> hi, md |-> add(acc.md, r), lo |-> acc.lo], Acc48(acc) + p * M)
  BY <1>2, <1>4, <1>6, <1>7, Accumulated DEF c
<1> QED
  BY <1>3, <1>8 DEF p

\* The upper word of an unsigned product is an element.
LEMMA UnsignedHigh ==
  ASSUME NEW x \in Lane, NEW y \in Lane
  PROVE  mulhu(x, y) \in Lane /\ mulhu(x, y) = (x * y) \div M /\ mulhu(x, y) \in Int
<1>1. x \in 0 .. M - 1 /\ y \in 0 .. M - 1 /\ M \in Nat \ {0}
  BY LaneSize DEF Lane
<1>2. x * y \in Nat /\ x * y <= (M - 1) * (M - 1)
  BY <1>1, ProductBound
<1>3. (M - 1) * (M - 1) < M * M /\ (M - 1) * (M - 1) \in Int /\ M * M \in Int
  <2>1. M * M = (M - 1) * (M - 1) + (M - 1) + M
    BY <1>1
  <2> DEFINE y1 == (M - 1) * (M - 1)
  <2>2. y1 \in Int
    BY <1>1
  <2> HIDE DEF y1
  <2>3. M * M = y1 + (M - 1) + M
    BY <2>1 DEF y1
  <2>4. y1 < M * M /\ M * M \in Int
    BY <1>1, <2>2, <2>3
  <2> QED
    BY <2>2, <2>4 DEF y1
<1>4. x * y < M * M /\ x * y >= 0 * M /\ x * y \in Int
  BY <1>1, <1>2, <1>3
<1> DEFINE n == x * y
<1> HIDE DEF n
<1>5. n \div M >= 0 /\ n \div M < M /\ n \div M \in Int
  <2>1. n \in Int /\ n >= 0 * M /\ n < M * M /\ M \in Int
    BY <1>1, <1>4 DEF n
  <2>2. n \div M < M
    BY <2>1, UpperRange
  <2>3. n \div M >= 0 /\ n \div M \in Int
    <3>1. n \div M \in Int
      BY <2>1, Words
    <3>2. ~(n < 0) /\ (n < 0 <=> n \div M < 0)
      BY <1>1, <2>1, UpperRange
    <3> QED
      BY <3>1, <3>2
  <2> QED
    BY <2>2, <2>3
<1>6. mulhu(x, y) = n \div M
  BY DEF mulhu, n
<1>7. n \div M \in 0 .. M - 1
  BY <1>1, <1>5
<1> QED
  BY <1>6, <1>5, <1>7 DEF n, Lane

\* VMUDL: the upper word of the unsigned product (rsp_vmudl).
LEMMA VmudlExact ==
  ASSUME Elements
  PROVE  /\ IsNumber(rsp_vmudl, (vs * vt) \div M)
         /\ rsp_vmudl.lo = Low(Signed((vs * vt) \div M))
<1> DEFINE l == mulhu(vs, vt)
<1>1. l \in Lane /\ l \in Int /\ l = (vs * vt) \div M
  BY UnsignedHigh DEF Elements
<1>2. 0 \in Lane /\ M \in Int /\ H \in Nat \ {0} /\ M = 2 * H /\ 0 \in 0 .. M - 1
  BY LaneSize DEF Lane
<1>3. U(0) = 0 /\ S(0) = 0
  BY <1>2, Wrapped DEF S
<1>4. rsp_vmudl = Packed(0, 0, l)
  BY <1>3 DEF rsp_vmudl, Packed
<1> HIDE DEF l
<1>5. l = Number(0, 0, l)
  <2>1. (0 * M + 0) * M + l = l
    BY <1>1, <1>2
  <2> QED
    BY <2>1 DEF Number
<1>6. /\ IsNumber(Packed(0, 0, l), l)
      /\ Signed(l) \div M = S(U(0)) * M + 0
      /\ U(Signed(l)) = l
  BY <1>1, <1>2, <1>5, Holding
<1>7. Signed(l) \div M = 0
  BY <1>2, <1>3, <1>6
<1>8. Low(Signed(l)) = l
  BY <1>2, <1>6, <1>7 DEF Low
<1>9. rsp_vmudl.lo = l
  BY DEF rsp_vmudl, l
<1> QED
  BY <1>1, <1>4, <1>6, <1>8, <1>9

\* VMADL: it is added (rsp_vmadl).
LEMMA VmadlExact ==
  ASSUME Elements PROVE IsNumber(rsp_vmadl, Acc48(acc) + (vs * vt) \div M)
<1> DEFINE l == mulhu(vs, vt)
           c == Bit(CarryOut(acc.lo, l))
           lo == add(acc.lo, l)
           hi == add(acc.hi, Bit(CarryOut(acc.md, c)))
<1>1. l \in Lane /\ l \in Int /\ l = (vs * vt) \div M
  BY UnsignedHigh DEF Elements
<1>2. rsp_vmadl = [hi |-> hi, md |-> add(acc.md, c), lo |-> lo]
  BY DEF rsp_vmadl
<1> HIDE DEF l
<1>3. /\ acc.hi \in Lane /\ acc.md \in Lane /\ acc.lo \in Lane /\ acc.lo \in Int /\ acc.hi \in Int
      /\ acc = [hi |-> acc.hi, md |-> acc.md, lo |-> acc.lo]
  BY AccParts, LaneSize DEF Lane
<1>4. /\ lo \in Lane /\ lo \in Int /\ c \in Lane /\ c \in Int /\ acc.lo + l = lo + c * M
      /\ M \in Int
  <2>1. lo \in Lane /\ c \in {0, 1} /\ acc.lo + l = lo + c * M
    BY <1>1, <1>3, SumWords
  <2> HIDE DEF lo, c
  <2>2. lo \in Int /\ c \in Lane /\ c \in Int /\ M \in Int
    BY <2>1, LaneSize DEF Lane
  <2> QED
    BY <2>1, <2>2
<1> HIDE DEF lo, c
<1> PICK z \in Int : z = 0
  OBVIOUS
<1>5. hi = U(acc.hi + (z + Bit(CarryOut(acc.md, c))))
  <2>1. Bit(CarryOut(acc.md, c)) \in {0, 1}
    BY <1>3, <1>4, SumWords
  <2> QED
    BY <2>1 DEF add
<1>6. l + acc.lo = Number(z, c, lo)
  <2>1. (z * M + c) * M + lo = c * M + lo /\ c * M \in Int
    BY <1>4
  <2>2. l + acc.lo = (z * M + c) * M + lo
    BY <1>1, <1>3, <1>4, <2>1
  <2> QED
    BY <2>2 DEF Number
<1> HIDE DEF hi
<1>7. IsNumber([hi |-> hi, md |-> add(acc.md, c), lo |-> lo], Acc48(acc) + l)
  BY <1>1, <1>3, <1>4, <1>5, <1>6, Accumulated
<1> QED
  BY <1>1, <1>2, <1>7

\* A sign spread over an element is minus its bit.
LEMMA SignWord ==
  ASSUME NEW x \in Lane PROVE srai15(x) = U(-Bit(Neg(x))) /\ Bit(Neg(x)) \in {0, 1}
<1>1. M \in Nat \ {0} /\ -1 \in -M .. -1 /\ 0 \in 0 .. M - 1
  BY LaneSize
<1>2. U(-1) = M - 1 /\ U(0) = 0
  BY <1>1, Wrapped
<1>3. CASE Neg(x)
  BY <1>2, <1>3 DEF srai15, Bit
<1>4. CASE ~Neg(x)
  BY <1>2, <1>4 DEF srai15, Bit
<1> QED
  BY <1>3, <1>4

\* A number of the signed range, spread over two words.
LEMMA SignExtendedLane ==
  ASSUME NEW g \in -H .. H - 1, NEW x, x = U(g)
  PROVE  x \in Lane /\ g = (-Bit(Neg(x))) * M + x /\ (Neg(x) <=> g < 0)
<1>1. x \in Lane /\ S(x) = g /\ (Neg(x) <=> g < 0)
  BY InRange
<1>2. Bit(Neg(x)) \in {0, 1} /\ x = g + Bit(Neg(x)) * M
  BY <1>1, SignedTurn
<1>3. g \in Int /\ M \in Int
  BY LaneSize
<1> QED
  BY <1>1, <1>2, <1>3

\* VMUDM and VMUDN: the product of a signed and an unsigned factor, sign-extended;
\* its middle word needs no clamp (rsp_vmudm, rsp_vmudn).
LEMMA SetMixedExact ==
  ASSUME NEW s \in Lane, NEW u \in Lane, NEW p, p = S(s) * u
  PROVE  LET a == SetMixed(MixedProduct(s, u))
         IN  IsNumber(a, p) /\ a.md = Middle(Signed(p)) /\ a.lo = Low(Signed(p))
<1> DEFINE q == p \div M
           r == U(p)
           x == U(q)
           k == -Bit(Neg(x))
           a == SetMixed(MixedProduct(s, u))
<1>1. /\ p \in Int /\ MixedProduct(s, u) = [lo |-> r, hi |-> x]
      /\ q \in -H .. H - 1
  BY MixedWords
<1>2. r \in Lane /\ r \in Int /\ p = q * M + r /\ q \in Int /\ M \in Int
  BY <1>1, Words, LaneSize
<1> HIDE DEF q, r
<1>3. x \in Lane /\ q = k * M + x
  BY <1>1, SignExtendedLane
<1>4. k \in Int /\ srai15(x) = U(k)
  BY <1>3, SignWord
<1>5. a = [hi |-> U(k), md |-> x, lo |-> r]
  BY <1>1, <1>4 DEF SetMixed
<1>6. S(U(k)) = k
  <2>1. k \in -H .. H - 1
    BY <1>3, SignWord, LaneSize
  <2> QED
    BY <2>1, InRange
<1> HIDE DEF x, k, a
<1>7. p = Number(k, x, r) /\ a = Packed(k, x, r)
  BY <1>2, <1>3, <1>5 DEF Number, Packed
<1>8. IsNumber(a, p) /\ Signed(p) \div M = S(U(k)) * M + x /\ U(Signed(p)) = r
  BY <1>2, <1>3, <1>4, <1>7, Holding
<1>9. Signed(p) \div M = q
  BY <1>3, <1>6, <1>8
<1>10. Clamp16s(q) = q
  BY <1>1, LaneSize DEF Clamp16s, Max2, Min2
<1>11. Middle(Signed(p)) = x /\ Low(Signed(p)) = r
  <2>1. Middle(Signed(p)) = x
    BY <1>9, <1>10 DEF Middle, x
  <2>2. ~(q < -H) /\ ~(q >= H)
    BY <1>1, LaneSize
  <2> QED
    BY <1>8, <1>9, <2>1, <2>2 DEF Low
<1> QED
  BY <1>5, <1>8, <1>11 DEF a

\* VMADM and VMADN: it is added; the carry out of the low words cannot leave the
\* middle one (rsp_vmadm, rsp_vmadn).
LEMMA AddMixedExact ==
  ASSUME Elements, NEW s \in Lane, NEW u \in Lane, NEW p, p = S(s) * u
  PROVE  IsNumber(AddMixed(MixedProduct(s, u)), Acc48(acc) + p)
<1> DEFINE q == p \div M
           r == U(p)
           c == Bit(CarryOut(acc.lo, r))
           lo == add(acc.lo, r)
           x == U(q + c)
           k == -Bit(Neg(x))
           hi == add(add(acc.hi, srai15(x)), Bit(CarryOut(acc.md, x)))
<1>1. /\ p \in Int /\ MixedProduct(s, u) = [lo |-> r, hi |-> U(q)]
      /\ q \in -H .. H - 1 /\ (q = H - 1 => r = 0)
  BY MixedWords
<1>2. r \in Lane /\ r \in Int /\ p = q * M + r /\ q \in Int /\ M \in Int /\ H \in Nat \ {0} /\ M = 2 * H
  BY <1>1, Words, LaneSize
<1>3. /\ acc.hi \in Lane /\ acc.md \in Lane /\ acc.lo \in Lane /\ acc.lo \in 0 .. M - 1 /\ acc.hi \in Int
      /\ acc = [hi |-> acc.hi, md |-> acc.md, lo |-> acc.lo]
  BY AccParts, LaneSize DEF Lane
<1> HIDE DEF q, r
<1>4. lo \in Lane /\ c \in {0, 1} /\ acc.lo + r = lo + c * M
  BY <1>2, <1>3, SumWords
<1>5. r = 0 => c = 0
  BY <1>2, <1>3, CarryAndBorrow DEF Bit
<1> HIDE DEF c, lo
<1>6. add(U(q), c) = x
  BY <1>2, <1>4, WrapSum DEF add
<1>7. q + c \in -H .. H - 1
  BY <1>1, <1>2, <1>4, <1>5
<1>8. x \in Lane /\ q + c = k * M + x
  BY <1>7, SignExtendedLane
<1>9. k \in Int /\ srai15(x) = U(k)
  BY <1>8, SignWord
<1>10. AddMixed(MixedProduct(s, u)) = [hi |-> hi, md |-> add(acc.md, x), lo |-> lo]
  <2> HIDE DEF x
  <2> QED
    BY <1>1, <1>6 DEF AddMixed, lo, c
<1> HIDE DEF x, k
<1>11. hi = U(acc.hi + (k + Bit(CarryOut(acc.md, x))))
  <2> DEFINE d == Bit(CarryOut(acc.md, x))
  <2>1. d \in Int
    BY <1>3, <1>8, SumWords
  <2> HIDE DEF d
  <2>2. U(acc.hi + U(k)) = U(acc.hi + k) /\ acc.hi + k \in Int
    BY <1>3, <1>9, WrapSum
  <2>3. U(U(acc.hi + k) + d) = U((acc.hi + k) + d)
    BY <2>1, <2>2, WrapSum
  <2>4. (acc.hi + k) + d = acc.hi + (k + d)
    BY <1>3, <1>9, <2>1
  <2> QED
    BY <1>9, <2>2, <2>3, <2>4 DEF add, d
<1>12. p + acc.lo = Number(k, x, lo)
  <2>1. q * M + c * M = (q + c) * M /\ q * M \in Int /\ c * M \in Int
    BY <1>2, <1>4
  <2>2. p + acc.lo = (q + c) * M + lo
    BY <1>2, <1>3, <1>4, <2>1 DEF Lane
  <2> QED
    BY <1>8, <2>2 DEF Number
<1> HIDE DEF hi
<1>13. IsNumber([hi |-> hi, md |-> add(acc.md, x), lo |-> lo], Acc48(acc) + p)
  BY <1>1, <1>3, <1>4, <1>8, <1>9, <1>11, <1>12, Accumulated
<1> QED
  BY <1>10, <1>13

\* Doubling the upper words and moving a bit into them.
LEMMA TwiceWithBit ==
  ASSUME NEW q \in Int, NEW b \in {0, 1}
  PROVE  (2 * q + b) * M = 2 * (q * M) + b * M /\ q * M \in Int /\ b * M \in Int
<1>1. M \in Int
  BY LaneSize
<1> QED
  BY <1>1

\* The words of twice a product, from the words of the product: the top bit of the
\* low word moves into the high one.
LEMMA Doubled ==
  ASSUME NEW x \in Lane, NEW y \in Lane, NEW p, p = S(x) * S(y),
         NEW q, q = p \div M, NEW r, r = U(p)
  PROVE  /\ p \in Int /\ r \in Lane /\ q \in -H .. H - 1 /\ (q < 0 <=> p < 0)
         /\ mullo(x, y) = r /\ mulhi(x, y) = U(q)
         /\ add(r, r) = U(2 * r) /\ U(2 * r) \in Lane /\ Bit(Neg(r)) \in {0, 1}
         /\ 2 * p = (2 * q + Bit(Neg(r))) * M + U(2 * r)
         /\ \A d \in Int : U(U(2 * U(q)) + d) = U(2 * q + d)
<1>1. /\ p \in Int /\ mullo(x, y) = r /\ mulhi(x, y) = U(q)
      /\ q \in -H .. H - 1 /\ (q < 0 <=> p < 0)
  BY SignedProduct
<1>2. r \in Lane /\ r \in 0 .. M - 1 /\ p = q * M + r /\ q \in Int
      /\ M \in Nat \ {0} /\ M = 2 * H /\ H \in Nat \ {0}
  BY <1>1, Words, LaneSize DEF Lane
<1>3. U(2 * r) = IF r >= H THEN 2 * r - M ELSE 2 * r
  BY <1>2, Wrapped
<1>4. U(2 * r) \in Lane /\ Bit(Neg(r)) \in {0, 1} /\ 2 * r = Bit(Neg(r)) * M + U(2 * r)
  BY <1>2, <1>3 DEF Bit, Neg, Lane
<1>5. add(r, r) = U(2 * r)
  <2>1. r + r = 2 * r
    BY <1>2
  <2> QED
    BY <2>1 DEF add
<1>6. 2 * p = (2 * q + Bit(Neg(r))) * M + U(2 * r)
  <2> DEFINE b == Bit(Neg(r))
             t == U(2 * r)
  <2>1. b \in {0, 1} /\ t \in Int /\ 2 * r = b * M + t
    BY <1>2, <1>4 DEF Lane
  <2> HIDE DEF b, t
  <2> DEFINE z == q * M
  <2>2. (2 * q + b) * M = 2 * z + b * M /\ z \in Int /\ b * M \in Int
    BY <1>2, <2>1, TwiceWithBit
  <2> HIDE DEF z
  <2>3. p = z + r
    BY <1>2 DEF z
  <2>4. 2 * p = (2 * q + b) * M + t
    BY <1>2, <2>1, <2>2, <2>3
  <2> QED
    BY <2>4 DEF b, t
<1>7. ASSUME NEW d \in Int PROVE U(U(2 * U(q)) + d) = U(2 * q + d)
  <2>1. U(q) \in Int /\ 2 * U(q) = U(q) + U(q) /\ 2 * q = q + q /\ 2 * q \in Int
        /\ 2 * U(q) \in Int
    <3>1. U(q) \in Int
      BY <1>2, Words
    <3> QED
      BY <1>2, <3>1
  <2>2. U(U(q) + U(q)) = U(q + U(q)) /\ U(q + U(q)) = U(q + q)
    BY <1>2, <2>1, WrapSum
  <2>3. U(2 * U(q)) = U(2 * q)
    BY <2>1, <2>2
  <2>4. U(U(2 * q) + d) = U(2 * q + d)
    BY <2>1, WrapSum
  <2> QED
    BY <2>3, <2>4
<1> QED
  BY <1>1, <1>2, <1>4, <1>5, <1>6, <1>7

\* VMACF and VMACU: twice the product is added; when the carry of the low words
\* makes the middle word of the product wrap, the high word takes it
\* (rsp_vmacf, rsp_vmacu).
LEMMA VmacExact ==
  ASSUME Elements PROVE IsNumber(rsp_vmacf_vmacu, Acc48(acc) + 2 * S(vs) * S(vt))
<1> DEFINE p == S(vs) * S(vt)
           q == p \div M
           r == U(p)
           b == Bit(Neg(r))
           t == U(2 * r)
           C == CarryOut(acc.lo, t)
           c == Bit(C)
           lo == add(acc.lo, t)
           m == U(2 * q + b)
           md == U(2 * q + (b + c))
           carry == Bit(C /\ md = 0)
           k == (-Bit(q < 0)) + carry
           hi == add(add(acc.hi, add(srai15(U(q)), carry)), Bit(CarryOut(acc.md, md)))
<1>1. /\ p \in Int /\ r \in Lane /\ q \in -H .. H - 1 /\ q \in Int
      /\ mullo(vs, vt) = r /\ mulhi(vs, vt) = U(q)
      /\ t \in Lane /\ b \in {0, 1}
      /\ 2 * p = (2 * q + b) * M + t
      /\ \A d \in Int : U(U(2 * U(q)) + d) = U(2 * q + d)
  <2>1. vs \in Lane /\ vt \in Lane
    BY DEF Elements
  <2>2. -H .. H - 1 \subseteq Int
    BY LaneSize
  <2> QED
    BY <2>1, <2>2, Doubled
<1>2. /\ acc.hi \in Lane /\ acc.md \in Lane /\ acc.lo \in Lane /\ acc.lo \in Int /\ acc.hi \in Int
      /\ acc = [hi |-> acc.hi, md |-> acc.md, lo |-> acc.lo]
      /\ M \in Nat \ {0} /\ M = 2 * H /\ H \in Nat \ {0}
  BY AccParts, LaneSize DEF Lane
<1> HIDE DEF p, q, r, b, t
<1>3. lo \in Lane /\ lo \in Int /\ c \in {0, 1} /\ (C <=> c = 1) /\ acc.lo + t = lo + c * M
  <2>1. lo \in Lane /\ c \in {0, 1} /\ acc.lo + t = lo + c * M
    BY <1>1, <1>2, SumWords
  <2>2. lo \in Int
    BY <2>1, LaneSize DEF Lane
  <2> QED
    BY <2>1, <2>2 DEF Bit
<1> HIDE DEF lo, c
<1>4. m \in Lane /\ 2 * q + b = (-Bit(q < 0)) * M + m
  <2>1. m = IF q < 0 THEN 2 * q + b + M ELSE 2 * q + b
    BY <1>1, <1>2, Wrapped
  <2>2. Bit(q < 0) = IF q < 0 THEN 1 ELSE 0
    BY DEF Bit
  <2> QED
    BY <1>1, <1>2, <2>1, <2>2 DEF Lane
<1>5. md \in Lane /\ carry \in {0, 1} /\ m + c = md + carry * M
  <2>1. md = U(m + c)
    <3>1. 2 * q + (b + c) = (2 * q + b) + c /\ 2 * q + b \in Int
      BY <1>1, <1>3
    <3> QED
      BY <1>3, <3>1, WrapSum
  <2>2. m \in 0 .. M - 1
    BY <1>4 DEF Lane
  <2> HIDE DEF m, md
  <2>3. md = IF m + c = M THEN 0 ELSE m + c
    BY <1>2, <1>3, <2>1, <2>2, Wrapped
  <2>4. carry = IF c = 1 /\ md = 0 THEN 1 ELSE 0
    BY <1>3 DEF Bit
  <2> QED
    BY <1>2, <1>3, <2>2, <2>3, <2>4 DEF Lane
<1>6. rsp_vmacf_vmacu = [hi |-> hi, md |-> add(acc.md, md), lo |-> lo]
  <2>1. add(U(2 * U(q)) + b, c) = md
    <3>1. b + c \in Int /\ U(2 * U(q)) \in Int
      <4>1. 2 * U(q) \in Int
        <5>1. U(q) \in Int
          BY <1>1, Words
        <5> QED
          BY <5>1
      <4> QED
        BY <1>1, <1>3, <4>1, Words
    <3>2. (U(2 * U(q)) + b) + c = U(2 * U(q)) + (b + c)
      BY <1>1, <1>3, <3>1
    <3>3. U(U(2 * U(q)) + (b + c)) = U(2 * q + (b + c))
      BY <1>1, <3>1
    <3> QED
      BY <3>2, <3>3 DEF add
  <2> HIDE DEF md
  <2> QED
    BY <1>1, <2>1 DEF rsp_vmacf_vmacu, lo, c, t, b
<1> HIDE DEF m, md, carry
<1>7. srai15(U(q)) = U(-Bit(q < 0)) /\ Bit(q < 0) \in {0, 1}
  <2>1. U(q) \in Lane /\ (Neg(U(q)) <=> q < 0)
    BY <1>1, InRange
  <2>2. Bit(Neg(U(q))) = Bit(q < 0)
    BY <2>1 DEF Bit
  <2> QED
    BY <2>1, <2>2, SignWord
<1> DEFINE n == -Bit(q < 0)
<1>8. n \in Int /\ k = n + carry /\ k \in Int
  BY <1>5, <1>7
<1>9. hi = U(acc.hi + (k + Bit(CarryOut(acc.md, md))))
  <2> DEFINE d == Bit(CarryOut(acc.md, md))
  <2>1. d \in Int
    BY <1>2, <1>5, SumWords
  <2> HIDE DEF d, n, k
  <2>2. U(U(n) + carry) = U(k)
    BY <1>5, <1>8, WrapSum
  <2>3. U(acc.hi + U(k)) = U(acc.hi + k) /\ acc.hi + k \in Int
    BY <1>2, <1>8, WrapSum
  <2>4. U(U(acc.hi + k) + d) = U((acc.hi + k) + d)
    BY <2>1, <2>3, WrapSum
  <2>5. (acc.hi + k) + d = acc.hi + (k + d)
    BY <1>2, <1>8, <2>1
  <2>6. hi = U(U(acc.hi + U(U(n) + carry)) + d)
    BY <1>7 DEF add, d, n
  <2> QED
    BY <2>2, <2>3, <2>4, <2>5, <2>6 DEF d
<1> HIDE DEF hi, n
<1>10. 2 * p + acc.lo = Number(k, md, lo)
  <2>1. 2 * q + b = n * M + m
    BY <1>4 DEF n
  <2>2. m \in Int /\ md \in Int /\ t \in Int /\ M \in Int
    BY <1>1, <1>4, <1>5, LaneSize DEF Lane
  <2> DEFINE g == 2 * q + b
  <2>3. g \in Int /\ 2 * p = g * M + t
    BY <1>1
  <2> HIDE DEF g, k
  <2>4. g * M + c * M = (g + c) * M /\ g * M \in Int /\ c * M \in Int
    BY <1>3, <2>2, <2>3
  <2>5. 2 * p + acc.lo = (g + c) * M + lo
    BY <1>1, <1>2, <1>3, <2>2, <2>3, <2>4
  <2>6. g + c = k * M + md
    <3>1. k * M = n * M + carry * M /\ n * M \in Int /\ carry * M \in Int
      BY <1>5, <1>8, <2>2
    <3> QED
      BY <1>3, <1>5, <2>1, <2>2, <3>1 DEF g
  <2> QED
    BY <2>5, <2>6 DEF Number
<1> HIDE DEF k
<1> DEFINE P == 2 * p
<1>11. P \in Int
  BY <1>1
<1> HIDE DEF P
<1>12. IsNumber([hi |-> hi, md |-> add(acc.md, md), lo |-> lo], Acc48(acc) + P)
  BY <1>2, <1>3, <1>5, <1>8, <1>9, <1>10, <1>11, Accumulated DEF P
<1>13. P = 2 * S(vs) * S(vt)
  <2>1. S(vs) \in Int /\ S(vt) \in Int
    BY SignedElement DEF Elements
  <2> QED
    BY <2>1 DEF P, p
<1> QED
  BY <1>6, <1>12, <1>13

\* VMULF and VMULU: twice the product, rounded.  Only the square of the smallest
\* element leaves the signed range of the middle word, which is why the code tests
\* vs = vt (rsp_vmulf, rsp_vmulu).
LEMMA VmulExact ==
  ASSUME Elements
  PROVE  LET n == 2 * S(vs) * S(vt) + H
         IN  /\ IsNumber(rsp_vmulf_vmulu, n)
             /\ VmulfResult(rsp_vmulf_vmulu) = Middle(Signed(n))
             /\ VmuluResult(rsp_vmulf_vmulu) = MiddleUnsigned(Signed(n))
<1> DEFINE p == S(vs) * S(vt)
           q == p \div M
           r == U(p)
           b == Bit(Neg(r))
           t == U(2 * r)
           c == Bit(Neg(t))
           lo == add(H, t)
           g == 2 * q + (b + c)
           md == U(g)
           hi == Mask(Neg(md) /\ vs # vt)
           n == 2 * p + H
<1>1. /\ p \in Int /\ r \in Lane /\ q \in Int
      /\ mullo(vs, vt) = r /\ mulhi(vs, vt) = U(q)
      /\ add(r, r) = t /\ t \in Lane /\ b \in {0, 1}
      /\ 2 * p = (2 * q + b) * M + t
      /\ \A d \in Int : U(U(2 * U(q)) + d) = U(2 * q + d)
  <2>1. vs \in Lane /\ vt \in Lane
    BY DEF Elements
  <2>2. -H .. H - 1 \subseteq Int
    BY LaneSize
  <2> QED
    BY <2>1, <2>2, Doubled
<1>2. /\ p <= H * H /\ p >= -(H * (H - 1))
      /\ vs # vt => p <= H * (H - 1)
      /\ vs = vt => p >= 0
  BY SignedProduct DEF Elements
<1>3. M \in Nat \ {0} /\ M = 2 * H /\ H \in Nat \ {0} /\ H \in Lane /\ M \in Int
  BY LaneSize DEF Lane
<1> HIDE DEF p, q, r, b, t
<1>4. lo \in Lane /\ lo \in Int /\ c \in {0, 1} /\ H + t = lo + c * M
  <2>1. lo \in Lane /\ H + t = lo + Bit(CarryOut(H, t)) * M
    BY <1>1, <1>3, SumWords
  <2>2. CarryOut(H, t) <=> H + t >= M
    BY <1>1, <1>3, CarryAndBorrow
  <2>3. Bit(CarryOut(H, t)) = c
    BY <1>1, <1>3, <2>2 DEF Bit, Neg, Lane
  <2>4. c \in {0, 1} /\ lo \in Int
    BY <1>3, <2>1 DEF Bit, Lane
  <2> QED
    BY <2>1, <2>3, <2>4
<1> HIDE DEF lo, c
<1>5. g \in Int /\ n = g * M + lo /\ n \in Int
  <2> DEFINE f == 2 * q + b
  <2>1. f \in Int /\ g = f + c /\ t \in Int
    BY <1>1, <1>4 DEF Lane
  <2>2. 2 * p = f * M + t
    BY <1>1
  <2> HIDE DEF f, g
  <2>3. g * M = f * M + c * M /\ f * M \in Int /\ c * M \in Int /\ g \in Int
    BY <1>3, <1>4, <2>1
  <2> QED
    BY <1>1, <1>3, <1>4, <2>1, <2>2, <2>3
<1>6. n \div M = g
  BY <1>4, <1>5, Halves
<1>7. rsp_vmulf_vmulu = [hi |-> hi, md |-> md, lo |-> lo]
  <2>1. b + c \in Int
    BY <1>1, <1>4
  <2>2. add(U(2 * U(q)), b + c) = md
    BY <1>1, <2>1 DEF add
  <2> HIDE DEF md
  <2> QED
    BY <1>1, <2>2 DEF rsp_vmulf_vmulu, lo, b, c
<1>8. /\ H * H \in Int /\ H * (H - 1) \in Int /\ H * (H - 1) = H * H - H
      /\ (-H) * M = -2 * (H * H) /\ H * M = 2 * (H * H) /\ (H + 1) * M = 2 * (H * H) + M
  BY <1>3
<1>9. vs # vt => g \in -H .. H - 1
  <2>1. ASSUME vs # vt PROVE g >= -H /\ g < H
    <3>1. n >= (-H) * M /\ n < H * M
      BY <1>1, <1>2, <1>3, <1>8, <2>1
    <3> HIDE DEF n, g
    <3> QED
      BY <1>3, <1>5, <1>6, <3>1, UpperRange
  <2> HIDE DEF g
  <2> QED
    BY <1>3, <1>5, <2>1
<1>10. vs = vt => g \in 0 .. H
  <2>1. ASSUME vs = vt PROVE g >= 0 /\ g < H + 1
    <3>1. n >= 0 /\ n < (H + 1) * M
      BY <1>1, <1>2, <1>3, <1>8, <2>1
    <3> HIDE DEF n, g
    <3>2. g < H + 1 /\ (n < 0 <=> g < 0)
      BY <1>3, <1>5, <1>6, <3>1, UpperRange
    <3> QED
      BY <1>5, <3>1, <3>2
  <2> HIDE DEF g
  <2> QED
    BY <1>3, <1>5, <2>1
<1> HIDE DEF g, n
<1> DEFINE a == rsp_vmulf_vmulu
<1>11. a.hi = hi /\ a.md = md
  BY <1>7
<1>12. ASSUME NEW k \in {-1, 0}, hi = U(k), md \in Lane, g = k * M + md
       PROVE  /\ IsNumber(a, n) /\ Signed(n) \div M = g
  <2>1. k \in Int /\ S(U(k)) = k
    BY <1>3, InRange
  <2> HIDE DEF md, hi
  <2>2. n = Number(k, md, lo)
    BY <1>5, <1>12 DEF Number
  <2>3. a = Packed(k, md, lo)
    BY <1>7, <1>12 DEF Packed
  <2> HIDE DEF a
  <2>4. IsNumber(Packed(k, md, lo), n) /\ Signed(n) \div M = S(U(k)) * M + md
    BY <1>4, <1>12, <2>1, <2>2, Holding
  <2> QED
    BY <1>12, <2>1, <2>3, <2>4
<1>13. ASSUME Signed(n) \div M = g
       PROVE  /\ Middle(Signed(n)) = U(Clamp16s(g))
              /\ MiddleUnsigned(Signed(n)) = IF g < 0 THEN 0 ELSE IF g >= H THEN M - 1 ELSE g
  BY <1>13 DEF Middle, MiddleUnsigned
<1>14. /\ VmulfResult(a) = add(md, Mask(vs = vt /\ Neg(md)))
       /\ VmuluResult(a) = IF hi = M - 1 THEN 0 ELSE IF Neg(md) THEN M - 1 ELSE md
  BY <1>11 DEF VmulfResult, VmuluResult
<1>15. n = 2 * S(vs) * S(vt) + H
  <2>1. S(vs) \in Int /\ S(vt) \in Int
    BY SignedElement DEF Elements
  <2>2. 2 * (S(vs) * S(vt)) = 2 * S(vs) * S(vt)
    BY <2>1
  <2> QED
    BY <2>2 DEF n, p
<1>16. CASE vs # vt
  <2>1. g \in -H .. H - 1
    BY <1>9, <1>16
  <2>2. md \in Lane /\ g = (-Bit(Neg(md))) * M + md /\ (Neg(md) <=> g < 0)
    BY <2>1, SignExtendedLane
  <2>3. hi = srai15(md)
    BY <1>16 DEF Mask, srai15
  <2>4. hi = U(-Bit(Neg(md))) /\ -Bit(Neg(md)) \in {-1, 0}
    BY <2>2, <2>3, SignWord
  <2> DEFINE k == -Bit(Neg(md))
  <2>5. k \in {-1, 0} /\ hi = U(k) /\ g = k * M + md
    BY <2>2, <2>4
  <2> HIDE DEF k
  <2>6. IsNumber(a, n) /\ Signed(n) \div M = g
    <3> HIDE DEF md, hi, a
    <3> QED
      BY <1>12, <2>2, <2>5
  <2>7. Clamp16s(g) = g
    BY <1>3, <2>1 DEF Clamp16s, Max2, Min2
  <2>8. add(md, Mask(vs = vt /\ Neg(md))) = md
    <3>1. Mask(vs = vt /\ Neg(md)) = 0
      BY <1>16 DEF Mask
    <3> HIDE DEF md
    <3>2. md \in 0 .. M - 1 /\ md + 0 = md /\ md \in Int
      BY <1>3, <2>2 DEF Lane
    <3>3. U(md) = md
      BY <3>2, Wrapped
    <3> QED
      BY <3>1, <3>2, <3>3 DEF add
  <2>9. VmulfResult(a) = Middle(Signed(n))
    BY <1>13, <1>14, <2>6, <2>7, <2>8
  <2>10. VmuluResult(a) = MiddleUnsigned(Signed(n))
    <3> HIDE DEF a
    <3>1. (hi = M - 1) <=> g < 0
      BY <1>3, <2>2, <2>3 DEF srai15
    <3>2. ~(g >= H) /\ (~(g < 0) => md = g)
      <4> HIDE DEF md
      <4>1. ~(g < 0) => Bit(Neg(md)) = 0
        BY <2>2 DEF Bit
      <4> QED
        BY <1>3, <2>1, <2>2, <4>1 DEF Lane
    <3> HIDE DEF md, hi
    <3>3. MiddleUnsigned(Signed(n)) = IF g < 0 THEN 0 ELSE IF g >= H THEN M - 1 ELSE g
      BY <1>13, <2>6
    <3> QED
      BY <1>14, <2>2, <3>1, <3>2, <3>3
  <2> QED
    BY <1>15, <2>6, <2>9, <2>10
<1>17. CASE vs = vt
  <2>1. g \in 0 .. H
    BY <1>10, <1>17
  <2>2. md = g /\ md \in Lane
    BY <1>3, <2>1, Wrapped DEF Lane
  <2>3. hi = 0
    BY <1>17 DEF Mask
  <2>4. U(0) = 0
    BY <1>3, Wrapped
  <2> HIDE DEF md, hi
  <2>5. g = 0 * M + md
    BY <1>3, <2>1, <2>2
  <2>6. IsNumber(a, n) /\ Signed(n) \div M = g
    <3> HIDE DEF a
    <3> QED
      BY <1>12, <2>2, <2>3, <2>4, <2>5
  <2> HIDE DEF a
  <2>7. Clamp16s(g) = IF g = H THEN H - 1 ELSE g
    BY <1>3, <2>1 DEF Clamp16s, Max2, Min2
  <2>8. add(md, Mask(vs = vt /\ Neg(md))) = IF g = H THEN H - 1 ELSE g
    <3>1. Mask(vs = vt /\ Neg(md)) = IF g = H THEN M - 1 ELSE 0
      BY <1>3, <1>17, <2>1, <2>2 DEF Mask, Neg
    <3>2. CASE g = H
      <4>1. U(H + (M - 1)) = H - 1
        <5> DEFINE w == H + (M - 1)
        <5>1. w \in Int /\ w \in M .. 2 * M - 1 /\ w - M = H - 1
          BY <1>3
        <5> HIDE DEF w
        <5>2. U(w) = H - 1
          BY <5>1, Wrapped
        <5> QED
          BY <5>2 DEF w
      <4> QED
        BY <2>2, <3>1, <3>2, <4>1 DEF add
    <3>3. CASE g # H
      <4>1. g + 0 = g /\ U(g) = g
        BY <1>3, <2>1, Wrapped
      <4> QED
        BY <2>2, <3>1, <3>3, <4>1 DEF add
    <3> QED
      BY <3>2, <3>3
  <2>9. U(Clamp16s(g)) = Clamp16s(g)
    BY <1>3, <2>1, <2>7, Wrapped
  <2>10. VmulfResult(a) = Middle(Signed(n))
    BY <1>13, <1>14, <2>6, <2>7, <2>8, <2>9
  <2>11. VmuluResult(a) = MiddleUnsigned(Signed(n))
    <3>1. MiddleUnsigned(Signed(n)) = IF g < 0 THEN 0 ELSE IF g >= H THEN M - 1 ELSE g
      BY <1>13, <2>6
    <3>2. Neg(md) <=> g >= H
      BY <2>2 DEF Neg
    <3>3. ~(g < 0) /\ hi # M - 1
      BY <1>3, <2>1, <2>3
    <3> QED
      BY <1>14, <2>2, <3>1, <3>2, <3>3
  <2> QED
    BY <1>15, <2>6, <2>10, <2>11 DEF a
<1> QED
  BY <1>16, <1>17

\* Every multiplication that accumulates by hand is exact.
LEMMA MultipliesRight ==
  ASSUME Elements PROVE MultiplyExact
<1> USE DEF WriteAcc, Becomes
<1>1. VMULF => Becomes(2 * S(vs) * S(vt) + H, Middle)
  BY VmulExact DEF VMULF, IsNumber
<1>2. VMULU => Becomes(2 * S(vs) * S(vt) + H, MiddleUnsigned)
  BY VmulExact DEF VMULU, IsNumber
<1>3. VMACF => Becomes(Acc48(acc) + 2 * S(vs) * S(vt), Middle)
  BY VmacExact DEF VMACF, IsNumber
<1>4. VMACU => Becomes(Acc48(acc) + 2 * S(vs) * S(vt), MiddleUnsigned)
  BY VmacExact DEF VMACU, IsNumber
<1>5. VMUDH => Becomes(S(vs) * S(vt) * M, Middle)
  BY VmudhExact DEF VMUDH, IsNumber
<1>6. VMADH => Becomes(Acc48(acc) + S(vs) * S(vt) * M, Middle)
  BY VmadhExact DEF VMADH, IsNumber
<1>7. VMUDM => Becomes(S(vs) * vt, Middle)
  BY SetMixedExact DEF VMUDM, IsNumber, Elements
<1>8. VMADM => Becomes(Acc48(acc) + S(vs) * vt, Middle)
  BY AddMixedExact DEF VMADM, IsNumber, Elements
<1>9. S(vt) * vs = vs * S(vt)
  <2>1. S(vt) \in Int /\ vs \in Int
    BY SignedElement DEF Elements, Lane
  <2> QED
    BY <2>1
<1>10. VMUDN => Becomes(vs * S(vt), Low)
  BY <1>9, SetMixedExact DEF VMUDN, IsNumber, Elements
<1>11. VMADN => Becomes(Acc48(acc) + vs * S(vt), Low)
  BY <1>9, AddMixedExact DEF VMADN, IsNumber, Elements
<1>12. VMUDL => Becomes((vs * vt) \div M, Low)
  BY VmudlExact DEF VMUDL, IsNumber
<1>13. VMADL => Becomes(Acc48(acc) + (vs * vt) \div M, Low)
  BY VmadlExact DEF VMADL, IsNumber
<1> QED
  BY <1>1, <1>2, <1>3, <1>4, <1>5, <1>6, <1>7, <1>8, <1>10, <1>11, <1>12, <1>13
  DEF MultiplyExact

\* Moving a number by one divisor.
LEMMA OneMore ==
  ASSUME NEW D \in Nat \ {0}, NEW n \in Int
  PROVE  /\ n \div D \in Int /\ n % D \in 0 .. D - 1 /\ n = (n \div D) * D + (n % D)
         /\ (n + D) \div D = (n \div D) + 1
         /\ (n - D) \div D = (n \div D) - 1
<1> DEFINE e == n \div D
           r == n % D
<1>1. e \in Int /\ r \in 0 .. D - 1 /\ n = D * e + r
  OBVIOUS
<1> HIDE DEF e, r
<1>2. n = e * D + r /\ n + D = (e + 1) * D + r /\ n - D = (e - 1) * D + r
  BY <1>1
<1>3. ASSUME NEW f \in Int PROVE (f * D + r) \div D = f
  BY <1>1
<1>4. ((e + 1) * D + r) \div D = e + 1 /\ ((e - 1) * D + r) \div D = e - 1
  <2>1. e + 1 \in Int /\ e - 1 \in Int
    BY <1>1
  <2> QED
    BY <1>3, <2>1
<1>5. (n + D) \div D = e + 1 /\ (n - D) \div D = e - 1
  BY <1>2, <1>4, Zenon
<1> QED
  BY <1>1, <1>2, <1>5 DEF e, r

\* VMACQ: an even multiple of the granule moves to the odd one next to it towards
\* zero, so it stays on its side of zero and in the two words (rsp_vmacq).
LEMMA Oddified ==
  ASSUME Elements, VMACQ PROVE OddifyStep
<1> DEFINE p == S(acc.hi) * M + acc.md
           D == 2 * G
           e == p \div D
           prod == IF OddBit(p) THEN p
                   ELSE IF p < 0 THEN p + 2 * G
                   ELSE IF p >= 2 * G THEN p - 2 * G ELSE p
<1>1. acc'.hi = U(prod \div M) /\ acc'.md = U(prod)
  BY DEF VMACQ, WriteAcc, Elements
<1>2. /\ p \in Int /\ p >= (-H) * M /\ p < H * M
      /\ (-H) * M \in Int /\ H * M \in Int
      /\ H \in Nat \ {0} /\ M \in Nat \ {0} /\ D \in Nat \ {0}
  <2> DEFINE h == S(acc.hi)
             m == acc.md
  <2>1. /\ h \in -H .. H - 1 /\ h \in Int /\ m \in 0 .. M - 1
        /\ H \in Nat \ {0} /\ M \in Nat \ {0} /\ D \in Nat \ {0}
    BY SignedElement, LaneSize, LaneAssumption DEF Elements, Lane
  <2>2. p = h * M + m
    OBVIOUS
  <2> HIDE DEF h, m, p
  <2>3. (h + H) * M >= 0 /\ (H - 1 - h) * M >= 0
    BY <2>1
  <2>4. (h + H) * M = h * M - (-H) * M /\ (H - 1 - h) * M = H * M - M - h * M
        /\ h * M \in Int /\ H * M \in Int /\ (-H) * M \in Int
    BY <2>1
  <2> QED
    BY <2>1, <2>2, <2>3, <2>4
<1> HIDE DEF p, D
<1>3. /\ e \in Int /\ p % D \in 0 .. D - 1 /\ p = e * D + (p % D) /\ e * D \in Int
      /\ (p + D) \div D = e + 1 /\ (p - D) \div D = e - 1
  <2>1. /\ e \in Int /\ p % D \in 0 .. D - 1 /\ p = e * D + (p % D)
        /\ (p + D) \div D = e + 1 /\ (p - D) \div D = e - 1
    BY <1>2, OneMore, Zenon
  <2> HIDE DEF e
  <2>2. e * D \in Int
    BY <1>2, <2>1
  <2> QED
    BY <2>1, <2>2
<1>4. D = 2 * G
  BY DEF D
<1>5. OddBit(p) <=> e % 2 = 1
  BY DEF OddBit, D
<1>6. OddBit(p + D) <=> (e + 1) % 2 = 1
  BY <1>3 DEF OddBit, D
<1>7. OddBit(p - D) <=> (e - 1) % 2 = 1
  BY <1>3 DEF OddBit, D
<1> HIDE DEF e
<1>8. /\ prod \in Int /\ prod >= (-H) * M /\ prod < H * M
      /\ OddBit(prod) \/ prod \in 0 .. D - 1
      /\ (prod < 0) <=> (p < 0)
  <2>1. CASE OddBit(p)
    BY <1>2, <2>1
  <2>2. CASE ~OddBit(p) /\ p < 0
    <3>1. e < 0
      <4>1. e >= 0 => e * D >= 0
        BY <1>2, <1>3
      <4> QED
        BY <1>2, <1>3, <2>2, <4>1
    <3>2. e <= -2
      BY <1>3, <1>5, <2>2, <3>1
    <3>3. e * D <= -2 * D
      <4>1. (-2 - e) * D >= 0 /\ (-2 - e) * D = -2 * D - e * D
        BY <1>2, <1>3, <3>2
      <4> QED
        BY <1>2, <1>3, <4>1
    <3>4. p + D < 0
      BY <1>2, <1>3, <3>3
    <3>5. OddBit(p + D)
      BY <1>3, <1>5, <1>6, <2>2
    <3>6. prod = p + D
      BY <1>4, <2>2
    <3> QED
      BY <1>2, <2>2, <3>4, <3>5, <3>6
  <2>3. CASE ~OddBit(p) /\ p >= D
    <3>1. OddBit(p - D)
      BY <1>3, <1>5, <1>7, <2>3
    <3>2. prod = p - D
      BY <1>2, <1>4, <2>3
    <3>3. (-H) * M <= 0
      BY <1>2
    <3> QED
      BY <1>2, <2>3, <3>1, <3>2, <3>3
  <2>4. CASE ~OddBit(p) /\ p >= 0 /\ p < D
    <3>1. prod = p
      BY <1>2, <1>4, <2>4
    <3> QED
      BY <1>2, <2>4, <3>1
  <2> QED
    BY <1>2, <2>1, <2>2, <2>3, <2>4
<1> HIDE DEF prod
<1>9. S(acc'.hi) * M + acc'.md = prod
  <2>1. prod \div M >= -H /\ prod \div M < H
    BY <1>2, <1>8, UpperRange
  <2>2. prod \div M \in Int /\ prod = (prod \div M) * M + U(prod)
    BY <1>8, Words
  <2>3. prod \div M \in -H .. H - 1
    BY <1>2, <2>1, <2>2
  <2>4. S(U(prod \div M)) = prod \div M
    BY <2>3, InRange
  <2> QED
    BY <1>1, <2>2, <2>4
<1> DEFINE q == S(acc'.hi) * M + acc'.md
<1>10. (OddBit(q) \/ q \in 0 .. 2 * G - 1) /\ (q < 0) = (p < 0)
  <2>1. OddBit(prod) \/ prod \in 0 .. 2 * G - 1
    BY <1>4, <1>8
  <2>2. (prod < 0) = (p < 0)
    BY <1>8
  <2> QED
    BY <1>9, <2>1, <2>2
<1> QED
  BY <1>10 DEF OddifyStep, p

-----------------------------------------------------------------------------
(***************************************************************************)
(* Every word an instruction writes is an element.                         *)
(***************************************************************************)

\* The SSE instructions bring their results back to an element.
LEMMA StaysElement ==
  ASSUME NEW x \in Lane, NEW y \in Lane
  PROVE  /\ add(x, y) \in Lane /\ sub(x, y) \in Lane
         /\ adds(x, y) \in Lane /\ subs(x, y) \in Lane
         /\ Not(x) \in Lane /\ srai15(x) \in Lane /\ Xor(x, y) \in Lane
<1>1. x \in Int /\ y \in Int /\ S(x) \in Int /\ S(y) \in Int /\ BitAnd(x, y) \in Int
  BY SignedElement, BitAndAssumption, LaneSize DEF Lane
<1>2. /\ x + y \in Int /\ x - y \in Int /\ S(x) + S(y) \in Int /\ S(x) - S(y) \in Int
      /\ x + y - 2 * BitAnd(x, y) \in Int
  BY <1>1
<1>3. add(x, y) \in Lane /\ sub(x, y) \in Lane /\ Xor(x, y) \in Lane
  BY <1>2, Words DEF add, sub, Xor
<1>4. adds(x, y) \in Lane /\ subs(x, y) \in Lane
  BY <1>2, Clamped DEF adds, subs
<1>5. Not(x) \in Lane /\ srai15(x) \in Lane
  BY LaneSize DEF Not, srai15, Lane
<1> QED
  BY <1>3, <1>4, <1>5

\* A step that writes the low word and a result of elements.
LEMMA LowWritten ==
  ASSUME acc \in [hi : Lane, md : Lane, lo : Lane],
         NEW lo \in Lane, NEW result \in Lane, WriteLow(lo, result)
  PROVE  acc' \in [hi : Lane, md : Lane, lo : Lane] /\ vd' \in Lane
BY DEF WriteLow

Written == acc' \in [hi : Lane, md : Lane, lo : Lane] /\ vd' \in Lane
Flagged == vco' \in FlagPair /\ vcc' \in FlagPair /\ vce' \in BOOLEAN

\* The sums, comparisons and clips.
LEMMA FlagStepTypes ==
  ASSUME TypeOK, FlagStep PROVE Written /\ Flagged
<1>1. /\ vs \in Lane /\ vt \in Lane /\ acc \in [hi : Lane, md : Lane, lo : Lane]
      /\ vco \in FlagPair /\ vcc \in FlagPair /\ vce \in BOOLEAN
      /\ vco.lo \in BOOLEAN /\ vco.hi \in BOOLEAN /\ vcc.lo \in BOOLEAN /\ vcc.hi \in BOOLEAN
  BY DEF TypeOK, FlagPair
<1>2. Clear \in FlagPair
  BY DEF Clear, FlagPair
<1>3. Mask(TRUE) \in Lane /\ Mask(FALSE) \in Lane /\ Bit(TRUE) \in Lane /\ Bit(FALSE) \in Lane
      /\ 0 \in Lane
  BY LaneSize DEF Mask, Bit, Lane
<1>4. ASSUME NEW c \in BOOLEAN PROVE Mask(c) \in Lane /\ Bit(c) \in Lane
  BY <1>3, <1>4
<1>5. CASE VADD
  <2> DEFINE low == IF S(vs) < S(vt) THEN vs ELSE vt
             high == IF S(vs) < S(vt) THEN vt ELSE vs
             lo == add(add(vs, vt), Bit(vco.lo))
             result == adds(subs(low, Mask(vco.lo)), high)
  <2>1. low \in Lane /\ high \in Lane
    BY <1>1
  <2>2. WriteLow(lo, result) /\ vco' = Clear /\ UNCHANGED <<vcc, vce>>
    BY <1>5 DEF VADD
  <2> HIDE DEF low, high
  <2>3. lo \in Lane /\ result \in Lane
    BY <1>1, <1>4, <2>1, StaysElement
  <2> HIDE DEF lo, result
  <2> QED
    BY <1>1, <1>2, <2>2, <2>3, LowWritten DEF Written, Flagged
<1>6. CASE VADDC
  <2>1. add(vs, vt) \in Lane /\ WriteLow(add(vs, vt), add(vs, vt))
    BY <1>1, <1>6, StaysElement DEF VADDC
  <2>2. Flagged
    BY <1>1, <1>6 DEF VADDC, Flagged, FlagPair, CarryOut
  <2> QED
    BY <1>1, <2>1, <2>2, LowWritten DEF Written
<1>7. CASE VSUB
  <2> DEFINE unsat == sub(vt, Mask(vco.lo))
             sat == subs(vt, Mask(vco.lo))
             over == S(sat) > S(unsat)
             result == adds(subs(vs, sat), Mask(over))
  <2>1. WriteLow(sub(vs, unsat), result) /\ vco' = Clear /\ UNCHANGED <<vcc, vce>>
    BY <1>7 DEF VSUB
  <2>2. unsat \in Lane /\ sat \in Lane
    BY <1>1, <1>4, StaysElement
  <2> HIDE DEF unsat, sat
  <2>3. over \in BOOLEAN
    BY <2>2, SignedElement
  <2> HIDE DEF over
  <2>4. sub(vs, unsat) \in Lane /\ result \in Lane
    BY <1>1, <1>4, <2>2, <2>3, StaysElement
  <2> HIDE DEF result
  <2> QED
    BY <1>1, <1>2, <2>1, <2>4, LowWritten DEF Written, Flagged
<1>8. CASE VSUBC
  <2>1. sub(vs, vt) \in Lane /\ WriteLow(sub(vs, vt), sub(vs, vt))
    BY <1>1, <1>8, StaysElement DEF VSUBC
  <2>2. Flagged
    BY <1>1, <1>8 DEF VSUBC, Flagged, FlagPair
  <2> QED
    BY <1>1, <2>1, <2>2, LowWritten DEF Written
<1>9. ASSUME NEW op, NEW le \in BOOLEAN, Compare(op, le) PROVE Written /\ Flagged
  <2> DEFINE result == IF le THEN vs ELSE vt
  <2>1. result \in Lane /\ WriteLow(result, result)
    BY <1>1, <1>9 DEF Compare
  <2>2. Flagged
    BY <1>1, <1>2, <1>9 DEF Compare, Flagged, FlagPair
  <2> HIDE DEF result
  <2> QED
    BY <1>1, <2>1, <2>2, LowWritten DEF Written
<1>10. CASE VEQ
  BY <1>9, <1>10 DEF VEQ
<1>11. CASE VNE
  BY <1>9, <1>11 DEF VNE
<1>12. CASE VGE
  BY <1>9, <1>12 DEF VGE
<1>13. CASE VLT
  BY <1>9, <1>13 DEF VLT
<1>14. CASE VMRG
  <2> DEFINE result == IF vcc.lo THEN vs ELSE vt
  <2>1. result \in Lane /\ WriteLow(result, result) /\ vco' = Clear /\ UNCHANGED <<vcc, vce>>
    BY <1>1, <1>14 DEF VMRG
  <2> HIDE DEF result
  <2> QED
    BY <1>1, <1>2, <2>1, LowWritten DEF Written, Flagged
<1>15. U(-vt) \in Lane
  BY <1>1, ClipDifference
<1>16. CASE VCH
  <2>1. \E result \in Lane : WriteLow(result, result)
    BY <1>1, <1>15, <1>16 DEF VCH
  <2>2. Flagged
    <3> PICK a \in Lane, b \in Lane : a = vs /\ b = vt
      BY <1>1
    <3>1. ClipFlags(a, b)'
      BY <1>16, VchFlags
    <3> QED
      BY <3>1 DEF ClipFlags, Flagged
  <2> QED
    BY <1>1, <2>1, <2>2, LowWritten DEF Written
<1>17. CASE VCL
  <2>1. \E result \in Lane : WriteLow(result, result)
    BY <1>1, <1>15, <1>17 DEF VCL
  <2>2. Flagged
    <3> DEFINE diff == sub(vs, IF vco.lo THEN U(-vt) ELSE vt)
               ncarry == diff = addsu(vs, vt)
               leEq == IF vce THEN diff = 0 \/ ncarry ELSE diff = 0 /\ ncarry
               le == IF vco.lo /\ ~vco.hi THEN leEq ELSE vcc.lo
               ge == IF vco.lo \/ vco.hi THEN vcc.hi ELSE subsu(vt, vs) = 0
    <3>1. vcc' = [hi |-> ge, lo |-> le] /\ vco' = Clear /\ vce' = FALSE
      BY <1>17 DEF VCL
    <3>2. le \in BOOLEAN /\ ge \in BOOLEAN
      BY <1>1
    <3> HIDE DEF le, ge
    <3> QED
      BY <1>2, <3>1, <3>2 DEF Flagged, FlagPair
  <2> QED
    BY <1>1, <2>1, <2>2, LowWritten DEF Written
<1>18. CASE VCR
  <2>1. \E result \in Lane : WriteLow(result, result)
    <3>1. Not(vt) \in Lane
      BY <1>1, StaysElement
    <3> QED
      BY <1>1, <1>18, <3>1 DEF VCR
  <2>2. Flagged
    <3> DEFINE sign == Neg(vs) # Neg(vt)
               le == Neg(add(IF sign THEN vs ELSE 0, vt))
               ge == S(vt) <= (IF sign THEN -1 ELSE S(vs))
    <3>1. vcc' = [hi |-> ge, lo |-> le] /\ vco' = Clear /\ vce' = FALSE
      BY <1>18 DEF VCR
    <3>2. le \in BOOLEAN /\ ge \in BOOLEAN
      BY DEF Neg
    <3> HIDE DEF le, ge
    <3> QED
      BY <1>2, <3>1, <3>2 DEF Flagged, FlagPair
  <2> QED
    BY <1>1, <2>1, <2>2, LowWritten DEF Written
<1> QED
  BY <1>5, <1>6, <1>7, <1>8, <1>10, <1>11, <1>12, <1>13, <1>14, <1>16, <1>17, <1>18
  DEF FlagStep

\* The absolute value and the bitwise instructions.
LEMMA LogicStepTypes ==
  ASSUME TypeOK, LogicStep PROVE Written
<1>1. /\ vs \in Lane /\ vt \in Lane /\ acc \in [hi : Lane, md : Lane, lo : Lane]
      /\ 0 \in Lane
  BY LaneSize DEF TypeOK, Lane
<1>2. /\ BitAnd(vs, vt) \in Lane /\ Not(vs) \in Lane /\ Not(vt) \in Lane
      /\ Not(BitAnd(vs, vt)) \in Lane /\ Xor(vs, vt) \in Lane /\ Not(Xor(vs, vt)) \in Lane
      /\ add(vs, vt) \in Lane /\ srai15(vs) \in Lane
  BY <1>1, BitAndAssumption, StaysElement
<1>3. BitAnd(Not(vs), Not(vt)) \in Lane /\ Not(BitAnd(Not(vs), Not(vt))) \in Lane
  BY <1>2, BitAndAssumption, StaysElement
<1>4. \E lo \in Lane, result \in Lane : WriteLow(lo, result)
  <2>1. CASE VABS
    <3> DEFINE t == IF vs = 0 THEN 0 ELSE vt
               x == IF Neg(vs) THEN Not(t) ELSE t
    <3>1. t \in Lane
      BY <1>1
    <3>2. WriteLow(sub(x, srai15(vs)), subs(x, srai15(vs)))
      BY <2>1 DEF VABS
    <3> HIDE DEF t
    <3>3. x \in Lane
      BY <3>1, StaysElement
    <3> HIDE DEF x
    <3>4. sub(x, srai15(vs)) \in Lane /\ subs(x, srai15(vs)) \in Lane
      BY <1>2, <3>3, StaysElement
    <3> QED
      BY <3>2, <3>4
  <2>2. CASE VAND \/ VNAND \/ VOR \/ VNOR \/ VXOR \/ VNXOR
    BY <1>2, <1>3, <2>2 DEF VAND, VNAND, VOR, VNOR, VXOR, VNXOR, LogicOp
  <2>3. CASE RESERVED
    BY <1>1, <1>2, <2>3 DEF RESERVED
  <2> QED
    BY <2>1, <2>2, <2>3 DEF LogicStep
<1> QED
  BY <1>1, <1>4, LowWritten DEF Written

\* The result of VMULQ and VMACQ.
LEMMA GranularElement ==
  ASSUME NEW n \in Int PROVE U(Granular(Clamp16s(n \div 2))) \in Lane
<1>1. n \div 2 \in Int
  OBVIOUS
<1>2. Clamp16s(n \div 2) \in Int
  <2>1. Clamp16s(n \div 2) \in -H .. H - 1
    BY <1>1, Clamped
  <2> QED
    BY <2>1, LaneSize
<1> DEFINE c == Clamp16s(n \div 2)
<1> HIDE DEF c
<1>3. c \in Int
  BY <1>2 DEF c
<1>4. c % G \in Int
  BY <1>3, LaneAssumption
<1>5. Granular(c) \in Int
  BY <1>3, <1>4 DEF Granular
<1> QED
  BY <1>5, Words DEF c

\* The multiplications.
LEMMA MultiplyStepTypes ==
  ASSUME Elements, MultiplyStep PROVE Written
<1> USE DEF WriteAcc, Written
<1>1. CASE VMULF
  BY <1>1, VmulExact DEF VMULF, IsNumber
<1>2. CASE VMULU
  BY <1>2, VmulExact DEF VMULU, IsNumber
<1>3. CASE VMACF
  BY <1>3, VmacExact DEF VMACF, IsNumber
<1>4. CASE VMACU
  BY <1>4, VmacExact DEF VMACU, IsNumber
<1>5. CASE VMUDH
  BY <1>5, VmudhExact DEF VMUDH, IsNumber
<1>6. CASE VMADH
  BY <1>6, VmadhExact DEF VMADH, IsNumber
<1>7. CASE VMUDL
  BY <1>7, VmudlExact DEF VMUDL, IsNumber
<1>8. CASE VMADL
  BY <1>8, VmadlExact DEF VMADL, IsNumber
<1>9. CASE VMUDM
  BY <1>9, SetMixedExact DEF VMUDM, IsNumber, Elements
<1>10. CASE VMADM
  BY <1>10, AddMixedExact DEF VMADM, IsNumber, Elements
<1>11. CASE VMUDN
  BY <1>11, SetMixedExact DEF VMUDN, IsNumber, Elements
<1>12. CASE VMADN
  BY <1>12, AddMixedExact DEF VMADN, IsNumber, Elements
<1>13. CASE VMULQ
  <2> DEFINE p == S(vs) * S(vt)
             prod == IF p < 0 THEN p + 2 * G - 1 ELSE p
  <2>1. /\ acc' = [hi |-> U(prod \div M), md |-> U(prod), lo |-> 0]
        /\ vd' = U(Granular(Clamp16s(prod \div 2)))
    BY <1>13 DEF VMULQ
  <2>2. p \in Int
    BY SignedProduct DEF Elements
  <2> HIDE DEF p
  <2>3. prod \in Int
    BY <2>2, LaneAssumption
  <2> HIDE DEF prod
  <2>4. U(prod) \in Lane /\ prod \div M \in Int
    BY <2>3, Words
  <2>5. U(prod \div M) \in Lane
    BY <2>4, Words
  <2>6. 0 \in Lane
    BY LaneSize DEF Lane
  <2> QED
    BY <2>1, <2>3, <2>4, <2>5, <2>6, GranularElement
<1> QED
  BY <1>1, <1>2, <1>3, <1>4, <1>5, <1>6, <1>7, <1>8, <1>9, <1>10, <1>11, <1>12, <1>13
  DEF MultiplyStep

\* The other instructions on the accumulator.
LEMMA AccumulatorStepTypes ==
  ASSUME Elements, vd \in Lane, AccumulatorStep PROVE Written
<1>1. /\ acc.hi \in Lane /\ acc.md \in Lane /\ acc.lo \in Lane
      /\ acc = [hi |-> acc.hi, md |-> acc.md, lo |-> acc.lo]
  BY AccParts
<1>2. CASE VMACQ
  <2> DEFINE p == S(acc.hi) * M + acc.md
             prod == IF OddBit(p) THEN p
                     ELSE IF p < 0 THEN p + 2 * G
                     ELSE IF p >= 2 * G THEN p - 2 * G ELSE p
  <2>1. /\ acc' = [acc EXCEPT !.hi = U(prod \div M), !.md = U(prod)]
        /\ vd' = U(Granular(Clamp16s(prod \div 2)))
    BY <1>2 DEF VMACQ, WriteAcc
  <2>2. p \in Int
    <3>1. S(acc.hi) \in Int /\ M \in Int /\ acc.md \in Int
      BY <1>1, SignedElement, LaneSize DEF Lane
    <3> QED
      BY <3>1
  <2> HIDE DEF p
  <2>3. prod \in Int
    BY <2>2, LaneAssumption
  <2> HIDE DEF prod
  <2>4. U(prod) \in Lane /\ prod \div M \in Int
    BY <2>3, Words
  <2>5. U(prod \div M) \in Lane
    BY <2>4, Words
  <2>6. vd' \in Lane
    BY <2>1, <2>3, GranularElement
  <2> DEFINE h == U(prod \div M)
             m == U(prod)
  <2>7. h \in Lane /\ m \in Lane /\ acc' = [acc EXCEPT !.hi = h, !.md = m]
    BY <2>1, <2>4, <2>5
  <2> HIDE DEF h, m
  <2>8. acc' \in [hi : Lane, md : Lane, lo : Lane]
    BY <2>7 DEF Elements
  <2> QED
    BY <2>6, <2>8 DEF Written
<1>3. ASSUME NEW shifted \in BOOLEAN, NEW onNegative \in BOOLEAN, RSP_VRND(shifted, onNegative)
      PROVE  Written
  <2> DEFINE n == Acc48(acc)
             value == IF shifted THEN S(vt) * M ELSE S(vt)
             s == IF onNegative = (n < 0) THEN n + value ELSE n
             a == Parts(s)
  <2>1. acc' = a /\ vd' = rsp_sclamp_acc_tomd(a)
    BY <1>3 DEF RSP_VRND, WriteAcc
  <2>2. n \in Int
    BY <1>1, AccWords
  <2>3. value \in Int
    <3>1. S(vt) \in Int /\ M \in Int
      BY SignedElement, LaneSize DEF Elements
    <3> QED
      BY <3>1
  <2> HIDE DEF n, value
  <2>4. s \in Int
    BY <2>2, <2>3
  <2> HIDE DEF s
  <2>5. s \div M \in Int /\ U(s) \in Lane /\ s \div (M * M) \in Int
    <3>1. s \div M \in Int /\ U(s) \in Lane
      BY <2>4, Words
    <3>2. M * M \in Nat \ {0}
      BY LaneSize
    <3> DEFINE D == M * M
    <3>3. D \in Nat \ {0}
      BY <3>2
    <3> HIDE DEF D
    <3>4. s \div D \in Int
      BY <2>4, <3>3
    <3> QED
      BY <3>1, <3>4 DEF D
  <2>6. U(s \div M) \in Lane /\ U(s \div (M * M)) \in Lane
    BY <2>5, Words
  <2>7. a = [hi |-> U(s \div (M * M)), md |-> U(s \div M), lo |-> U(s)]
    BY DEF Parts
  <2> HIDE DEF a
  <2>8. a \in [hi : Lane, md : Lane, lo : Lane]
    BY <2>5, <2>6, <2>7
  <2>9. rsp_sclamp_acc_tomd(a) \in Lane
    <3>1. a.hi \in Lane /\ a.md \in Lane
      BY <2>8
    <3>2. S(a.hi) \in Int /\ M \in Int /\ a.md \in Int
      BY <3>1, SignedElement, LaneSize DEF Lane
    <3>3. S(a.hi) * M + a.md \in Int
      BY <3>2
    <3> QED
      BY <3>3, Clamped DEF rsp_sclamp_acc_tomd
  <2> QED
    BY <2>1, <2>8, <2>9 DEF Written
<1>4. CASE \E shifted \in BOOLEAN : VRNDN(shifted) \/ VRNDP(shifted)
  BY <1>3, <1>4 DEF VRNDN, VRNDP
<1>5. CASE \E e \in {0, 8, 9, 10} : VSAR(e)
  <2>1. acc' = acc
    BY <1>5 DEF VSAR
  <2>2. vd' \in {acc.hi, acc.md, acc.lo, 0}
    BY <1>5 DEF VSAR
  <2>3. 0 \in Lane
    BY LaneSize DEF Lane
  <2> QED
    BY <1>1, <2>1, <2>2, <2>3 DEF Written, Elements
<1> QED
  BY <1>2, <1>4, <1>5 DEF AccumulatorStep

(* Each intermediate of the SSE bodies has been brought back to an element *)
(* and the flags are masks, at any width (src/rsp/vfunctions.cpp).         *)
THEOREM TypeCorrect == Spec => []TypeOK
<1>1. Init => TypeOK
  <2>1. 0 \in Lane /\ Clear \in FlagPair
    BY LaneSize DEF Lane, FlagPair, Clear
  <2>2. Len(<<>>) \in 0 .. 2
    OBVIOUS
  <2>3. ASSUME Init PROVE TypeOK
    <3>1. acc \in [hi : Lane, md : Lane, lo : Lane]
      BY <2>1, <2>3 DEF Init
    <3>2. /\ vd \in Lane /\ vs \in Lane /\ vt \in Lane
          /\ vco \in FlagPair /\ vcc \in FlagPair /\ vce \in BOOLEAN
      BY <2>1, <2>3, Zenon DEF Init
    <3>3. Len(chain) \in 0 .. 2
      BY <2>2, <2>3 DEF Init
    <3> QED
      BY <3>1, <3>2, <3>3 DEF TypeOK
  <2> QED
    BY <2>3
<1>2. ASSUME ChainInv PROVE vs \in Lane /\ vt \in Lane /\ Len(chain) \in 0 .. 2
  <2>1. Len(chain) \in 0 .. 2
    BY <1>2 DEF ChainInv, NoChain, AfterVADDC, AfterVSUBC, AfterVCH, AfterCompare
  <2> QED
    BY <1>2, <2>1 DEF ChainInv
<1>3. ASSUME TypeOK, ChainInv', [Next]_vars PROVE TypeOK'
  <2>1. (vs \in Lane /\ vt \in Lane /\ Len(chain) \in 0 .. 2)'
    BY <1>3, <1>2, PTL
  <2>2. Elements
    BY <1>3 DEF TypeOK, Elements
  <2>3. Written /\ Flagged
    <3>1. ASSUME UNCHANGED <<acc, vd>> PROVE Written
      BY <1>3, <3>1 DEF TypeOK, Written
    <3>2. ASSUME UNCHANGED flags PROVE Flagged
      BY <1>3, <3>2 DEF TypeOK, Flagged, flags
    <3>3. CASE Load
      BY <3>1, <3>2, <3>3 DEF Load
    <3>4. CASE FlagStep
      BY <1>3, <3>4, FlagStepTypes
    <3>5. CASE LogicStep
      BY <1>3, <3>2, <3>5, LogicStepTypes, OthersKeepFlags
    <3>6. CASE MultiplyStep
      BY <2>2, <3>2, <3>6, MultiplyStepTypes, OthersKeepFlags
    <3>7. CASE AccumulatorStep
      <4>1. vd \in Lane
        BY <1>3 DEF TypeOK
      <4> QED
        BY <2>2, <3>2, <3>7, <4>1, AccumulatorStepTypes, OthersKeepFlags
    <3>8. CASE UNCHANGED vars
      BY <3>1, <3>2, <3>8 DEF vars, flags
    <3> QED
      BY <1>3, <3>3, <3>4, <3>5, <3>6, <3>7, <3>8 DEF Next
  <2> QED
    BY <2>1, <2>3 DEF TypeOK, Written, Flagged
<1> QED
  BY <1>1, <1>3, FlagsBelong, PTL DEF Spec

(* The multiplications set the accumulator to the exact product, or add it *)
(* with every carry, wrapping at three words, and their results are clamps *)
(* of that number; VMACQ settles.  At any width, from any accumulator      *)
(* (rsp_vmulf to rsp_vmadn, rsp_vmacq).                                    *)
THEOREM MultipliesAreExact == Spec => MultipliesExactly
<1>1. ASSUME TypeOK PROVE MultiplyExact /\ OddifyStep
  <2>1. Elements
    BY <1>1 DEF TypeOK, Elements
  <2>2. OddifyStep
    <3>1. CASE VMACQ
      BY <2>1, <3>1, Oddified
    <3>2. CASE ~VMACQ
      BY <3>2 DEF OddifyStep
    <3> QED
      BY <3>1, <3>2
  <2> QED
    BY <2>1, <2>2, MultipliesRight
<1> QED
  BY <1>1, TypeCorrect, PTL DEF MultipliesExactly

-----------------------------------------------------------------------------
(* The divider.  Everything the code shifts by is a power of two, which    *)
(* the provers know as a table; the ROM is another table of which they     *)
(* check every entry (RomNear, RomRootOdd, RomRootEven).  From these       *)
(* bounds on 1024 products the precision follows for all 2^32 operands.    *)
PowerOfTwo == <<1, 2, 4, 8, 16, 32, 64, 128, 256, 512, 1024, 2048, 4096, 8192, 16384, 32768,
   65536, 131072, 262144, 524288, 1048576, 2097152, 4194304, 8388608, 16777216, 33554432,
   67108864, 134217728, 268435456, 536870912, 1073741824>>

\* The table is that of the powers of two.
LEMMA Powers == \A k \in 0 .. 30 : 2^k = PowerOfTwo[k + 1]
<1> DEFINE P(j) == 2^j = PowerOfTwo[j + 1]
<1>1. /\ P(0) /\ P(1) /\ P(2) /\ P(3) /\ P(4) /\ P(5) /\ P(6) /\ P(7) /\ P(8) /\ P(9) /\ P(10)
      /\ P(11) /\ P(12) /\ P(13) /\ P(14) /\ P(15) /\ P(16) /\ P(17) /\ P(18) /\ P(19) /\ P(20)
      /\ P(21) /\ P(22) /\ P(23) /\ P(24) /\ P(25) /\ P(26) /\ P(27) /\ P(28) /\ P(29) /\ P(30)
  BY SMT DEF PowerOfTwo
<1> HIDE DEF P
<1>2. \A k \in 0 .. 30 : P(k)  BY <1>1, SMT
<1> QED BY <1>2 DEF P

\* Its entries are positive,
LEMMA PowersPositive == \A j \in 1 .. 31 : PowerOfTwo[j] \in Nat /\ PowerOfTwo[j] >= 1
BY SMTT(20) DEF PowerOfTwo

\* ascending,
LEMMA PowersAscend == \A i, j \in 1 .. 31 : i < j => 2 * PowerOfTwo[i] <= PowerOfTwo[j]
BY SMTT(60) DEF PowerOfTwo

\* and every word has its top bit among them.
LEMMA TopPower == ASSUME NEW d \in Nat, d >= 1, d < 2^31
  PROVE \E j \in 1 .. 31 : PowerOfTwo[j] <= d /\ d < 2 * PowerOfTwo[j]
<1>1. d < 2147483648  BY SMT
<1> QED BY <1>1, SMTT(60) DEF PowerOfTwo

\* An operand with ten bits or more: nine of them stay below the top one.
LEMMA HighPower == ASSUME NEW k \in 9 .. 30
  PROVE PowerOfTwo[k + 1] = 512 * PowerOfTwo[k - 8] 
BY SMTT(60) DEF PowerOfTwo

\* A shorter operand is shifted up to ten bits.
LEMMA LowPower == ASSUME NEW k \in 0 .. 8
  PROVE PowerOfTwo[k + 1] * PowerOfTwo[10 - k] = 512 
BY SMTT(60) DEF PowerOfTwo

\* Products keep an order.
LEMMA TimesMonotone ==
  ASSUME NEW a \in Int, NEW b \in Int, a <= b, NEW c \in Nat
  PROVE  a * c <= b * c /\ c * a <= c * b
BY SMT

\* A common positive factor can be cancelled.
LEMMA TimesCancel ==
  ASSUME NEW a \in Int, NEW b \in Int, NEW c \in Nat, c >= 1, a * c <= b * c
  PROVE  a <= b
<1> SUFFICES ASSUME b + 1 <= a PROVE FALSE
  BY SMT
<1>1. (b + 1) * c <= a * c  BY TimesMonotone, SMT
<1> QED BY <1>1, SMT

\* A quotient is what its remainder shows it to be.
LEMMA QuotientIs ==
  ASSUME NEW a \in Nat, NEW p \in Nat, p >= 1, NEW q \in Nat, q * p <= a, a < q * p + p
  PROVE  a \div p = q
<1> DEFINE b == a \div p
<1>1. b \in Nat /\ b * p <= a /\ a < (b + 1) * p
  BY SMT
<1> HIDE DEF b
<1>2. ASSUME b < q PROVE FALSE
  <2>1. (b + 1) * p <= q * p  BY <1>1, <1>2, TimesMonotone, SMT
  <2> QED BY <2>1, <1>1, SMT
<1>3. ASSUME q < b PROVE FALSE
  <2>1. (q + 1) * p <= b * p  BY <1>1, <1>3, TimesMonotone, SMT
  <2> QED BY <2>1, <1>1, SMT
<1> QED BY <1>1, <1>2, <1>3, SMT DEF b

\* Products of naturals are naturals, in either order.
LEMMA Products == \A a, b \in Nat : a * b \in Nat /\ a * b = b * a
BY SMT

\* Entries are 16-bit numbers.
LEMMA RomRange == \A i \in 0 .. 1023 : Entry(i) >= 65536 /\ Entry(i) <= 131071
BY SMTT(60) DEF Entry, rsp_reciprocal_rom

\* Entries are integers.
LEMMA RomInt == \A i \in 0 .. 1023 : Entry(i) \in Int
BY SMTT(60) DEF Entry, rsp_reciprocal_rom

\* The same of indices that are naturals.
LEMMA RomNat == \A i \in Nat : i <= 1023 => Entry(i) \in Nat /\ Entry(i) >= 65536 /\ Entry(i) <= 131071
BY RomRange, RomInt, SMT

\* Of the reciprocals, entry times index is close to 2^26.
LEMMA RomReciprocal ==
  \A f \in 0 .. 511 : /\ Entry(f) * (512 + f) <= 67108866
                      /\ Entry(f) * (512 + f) >= 67108864 - (512 + f)
BY SMTT(60) DEF Entry, rsp_reciprocal_rom

\* The same of indices that are naturals.
LEMMA RomNear == \A i \in Nat : i <= 511 => Entry(i) * (512 + i) <= 67108866 /\ Entry(i) * (512 + i) >= 67108864 - (512 + i)
BY RomReciprocal, SMT

\* The square of an entry for a root is close to 2^15 * c over its weight.
RootFits(t, w, c) == t * (t * w) <= 32768 * c /\ t * (t * w) >= 32767 * c
Two27 == 134217728
Two28 == 268435456

\* Of the roots, the even entries are for odd shifts, the odd ones for even shifts.
LEMMA RomRootOdd == \A m \in 0 .. 255 : RootFits(Entry(512 + 2 * m), 512 + 2 * m, Two27)
BY SMTT(60) DEF Entry, rsp_reciprocal_rom, RootFits, Two27

\* And the even entries are 2^15 times 2^28 over their weight.
LEMMA RomRootEven == \A m \in 0 .. 255 : RootFits(Entry(513 + 2 * m), 512 + 2 * m, Two28)
BY SMTT(60) DEF Entry, rsp_reciprocal_rom, RootFits, Two28

\* Rearranged, for the next lemma.
LEMMA Spread ==
  ASSUME NEW e \in Int, NEW m \in Int, NEW p \in Int, NEW s \in Int,
         (e + m + 3) * p <= (e + 1) * (p + s) + 64
  PROVE  (m + 2) * p <= (e + 1) * s + 64
BY SMT

\* A long operand d: n its top ten bits, s what their last bit stands for, t the entry.
LEMMA NearAbove ==
  ASSUME NEW n \in Nat, n >= 512, n <= 1023, NEW t \in Nat, t * n <= 67108866, t * n >= 67108864 - n,
         NEW s \in Nat, s >= 1, NEW d \in Nat, d >= n * s, d <= n * s + s, NEW r \in Nat, r = (32 * t) \div s,
         NEW e \in Nat, e = 2147483647 \div d
  PROVE  r - e <= 2 + e \div 512 /\ e - r <= 2 + e \div 512
<1> DEFINE m == e \div 512
<1>1. m \in Nat /\ 512 * m <= e /\ e + 1 <= 512 * (m + 1)
  BY SMT
<1> HIDE DEF m
<1>2. d >= 1
  <2>1. n * s >= 512 * s  BY SMT
  <2> QED BY <2>1, SMT
<1>3. r * s <= 32 * t /\ 32 * t < (r + 1) * s
  BY SMT
<1>4. e * d <= 2147483647 /\ 2147483648 <= (e + 1) * d
  BY <1>2, SMT
<1>5. (e + 1) * d <= (e + 1) * (n * s + s)
  BY TimesMonotone, SMT
<1>6. (r * s) * n <= 2147483712 /\ (r * s + s) * n > 2147483648 - 32 * n
  <2>1. (r * s) * n <= (32 * t) * n  BY <1>3, TimesMonotone, SMT
  <2>2. (32 * t + 1) * n <= (r * s + s) * n  BY <1>3, TimesMonotone, SMT
  <2> QED BY <2>1, <2>2, SMT
<1>7. ASSUME r >= e + m + 3 PROVE FALSE
  <2>1. (e + m + 3) * (n * s) <= r * (n * s)  BY <1>1, <1>7, TimesMonotone, SMT
  <2>2. (e + m + 3) * (n * s) <= (e + 1) * (n * s + s) + 64
    <3>1. r * (n * s) = (r * s) * n  BY SMT
    <3> QED BY <2>1, <3>1, <1>1, <1>4, <1>5, <1>6, SMT
  <2>3. (m + 2) * (n * s) <= (e + 1) * s + 64
    <3>1. n * s \in Int /\ m \in Int  BY <1>1, SMT
    <3> QED BY <2>2, <3>1, Spread
  <2>4. (e + 1) * s <= (512 * (m + 1)) * s  BY <1>1, TimesMonotone, SMT
  <2>5. (m + 2) * (512 * s) <= (m + 2) * (n * s)  BY <1>1, TimesMonotone, SMT
  <2> QED BY <2>3, <2>4, <2>5, <1>1, SMT
<1>8. ASSUME e >= r + m + 3 PROVE FALSE
  <2>1. e * (n * s) <= e * d  BY TimesMonotone, SMT
  <2>2. (r + m + 3) * (n * s) <= e * (n * s)  BY <1>1, <1>8, TimesMonotone, SMT
  <2>3. (m + 2) * (n * s) < 32 * n  BY <2>1, <2>2, <1>1, <1>4, <1>6, SMT
  <2>4. (m + 2) * s < 32
    <3>1. ((m + 2) * s) * n < 32 * n  BY <2>3, <1>1, SMT
    <3> QED BY <3>1, <1>1, SMT
  <2>5. (e + 1) * (n * s + s) <= (e + 1) * (1024 * s)
    <3>1. n * s + s <= 1024 * s  BY SMT
    <3> QED BY <3>1, TimesMonotone, SMT
  <2>6. ((e + 1) * s) * 1024 >= 2147483648  BY <2>5, <1>4, <1>5, SMT
  <2>7. (e + 1) * s <= (512 * (m + 1)) * s  BY <1>1, TimesMonotone, SMT
  <2> QED BY <2>4, <2>6, <2>7, <1>1, SMT
<1> QED BY <1>7, <1>8, <1>1, SMT DEF m

\* A short operand d: n is d shifted up by the factor s, t the entry.
LEMMA NearBelow ==
  ASSUME NEW n \in Nat, n >= 512, n <= 1023, NEW t \in Nat, t * n <= 67108866, t * n >= 67108864 - n,
         NEW s \in Nat, s >= 1, NEW d \in Nat, d >= 1, d * s = n, NEW r \in Nat, r = 32 * t * s,
         NEW e \in Nat, e = 2147483647 \div d
  PROVE  r - e <= 2 + e \div 512 /\ e - r <= 2 + e \div 512
<1> DEFINE m == e \div 512
<1>1. m \in Nat /\ 512 * m <= e /\ e + 1 <= 512 * (m + 1)
  BY SMT
<1> HIDE DEF m
<1>2. e * d <= 2147483647 /\ 2147483648 <= (e + 1) * d
  BY SMT
<1>3. r * d = 32 * (t * n)
  <2>1. r * d = (32 * t) * (d * s)  BY SMT
  <2> QED BY <2>1, SMT
<1>4. m + 1 >= 4096 * s
  <2>1. ((e + 1) * d) * s >= 2147483648 * s  BY <1>2, TimesMonotone, SMT
  <2>2. ((e + 1) * d) * s = (e + 1) * n
    <3>1. ((e + 1) * d) * s = (e + 1) * (d * s)  BY SMT
    <3> QED BY <3>1
  <2>3. (e + 1) * n <= 1024 * (e + 1)  BY TimesMonotone, SMT
  <2> QED BY <2>1, <2>2, <2>3, <1>1, SMT
<1>5. ASSUME r >= e + m + 3 PROVE FALSE
  <2>1. (e + m + 3) * d <= r * d  BY <1>1, <1>5, TimesMonotone, SMT
  <2>2. (e + m + 3) * d <= (e + 1) * d + 64
    <3>1. r * d <= 2147483712  BY <1>3, SMT
    <3> QED BY <2>1, <3>1, <1>1, <1>2, SMT
  <2>3. (m + 2) * d <= 64
    <3>1. m \in Int  BY <1>1
    <3>2. (e + m + 3) * d = (e + 1) * d + (m + 2) * d  BY <3>1, SMT
    <3> QED BY <2>2, <3>1, <3>2, SMT
  <2>4. m + 2 <= (m + 2) * d  BY <1>1, TimesMonotone, SMT
  <2> QED BY <2>3, <2>4, <1>1, <1>4, SMT
<1>6. ASSUME e >= r + m + 3 PROVE FALSE
  <2>1. (r + m + 3) * d <= e * d  BY <1>1, <1>6, TimesMonotone, SMT
  <2>2. (r + m + 3) * d = r * d + (m + 3) * d
    <3>1. m \in Int  BY <1>1
    <3> QED BY <3>1, SMT
  <2>3. (m + 3) * d <= 32 * (d * s)  BY <2>1, <2>2, <1>1, <1>2, <1>3, SMT
  <2>4. (4096 * s) * d <= (m + 1) * d  BY <1>1, <1>4, TimesMonotone, SMT
  <2>5. (m + 3) * d = (m + 1) * d + 2 * d
    <3>1. m \in Int  BY <1>1
    <3> QED BY <3>1, SMT
  <2>6. (4096 * s) * d = 4096 * (d * s)  BY SMT
  <2> QED BY <2>3, <2>4, <2>5, <2>6, <1>1, SMT
<1> QED BY <1>5, <1>6, <1>1, SMT DEF m

\* TopBit is the number of the highest bit set, and shifts keep it.
LEMMA TopBitIs ==
  ASSUME NEW d \in Nat, d >= 1, d < 2^31
  PROVE  /\ TopBit(d) \in 0 .. 30
         /\ PowerOfTwo[TopBit(d) + 1] <= d /\ d < 2 * PowerOfTwo[TopBit(d) + 1]
<1>1. ASSUME NEW k \in 0 .. 30
      PROVE  d \div 2^k = 1 <=> PowerOfTwo[k + 1] <= d /\ d < 2 * PowerOfTwo[k + 1]
  <2> DEFINE p == PowerOfTwo[k + 1]
  <2>1. 2^k = p  BY Powers
  <2>2. p \in Nat /\ p >= 1  BY PowersPositive, SMT
  <2> HIDE DEF p
  <2>3. d \div p = 1 <=> p <= d /\ d < 2 * p  BY <2>2, SMT
  <2> QED BY <2>1, <2>3 DEF p
<1>2. PICK j \in 1 .. 31 : PowerOfTwo[j] <= d /\ d < 2 * PowerOfTwo[j]
  BY TopPower
<1>3. j - 1 \in 0 .. 30 /\ (j - 1) + 1 = j
  BY SMT
<1>4. \E k \in 0 .. 30 : d \div 2^k = 1
  BY <1>1, <1>2, <1>3
<1>5. TopBit(d) \in 0 .. 30 /\ d \div 2^TopBit(d) = 1
  BY <1>4, Zenon DEF TopBit
<1> QED BY <1>1, <1>5

\* The top ten bits of d.
Lead(d) == IF TopBit(d) >= 9 THEN d \div 2^(TopBit(d) - 9) ELSE d * 2^(9 - TopBit(d))

\* Fraction is the top ten bits without the first, and they stand at TopBit.
LEMMA Normalized ==
  ASSUME NEW d \in Nat, d >= 1, d < 2^31
  PROVE  /\ Lead(d) \in Nat /\ Lead(d) >= 512 /\ Lead(d) <= 1023
         /\ Fraction(d) = Lead(d) - 512
         /\ TopBit(d) >= 9 =>
              \E s \in Nat : /\ s >= 1 /\ s = PowerOfTwo[TopBit(d) - 8]
                             /\ 2^TopBit(d) = 512 * s
                             /\ Lead(d) * s <= d /\ d < Lead(d) * s + s
         /\ TopBit(d) < 9 =>
              \E s \in Nat : s >= 1 /\ s = PowerOfTwo[10 - TopBit(d)] /\ 2^TopBit(d) * s = 512 /\ d * s = Lead(d)
<1> DEFINE k == TopBit(d)
           p == PowerOfTwo[k + 1]
<1>1. k \in 0 .. 30 /\ p <= d /\ d < 2 * p /\ 2^k = p
  BY TopBitIs, Powers
<1>2. CASE k >= 9
  <2> DEFINE s == PowerOfTwo[k - 8]
             n == d \div s
  <2>1. k - 9 \in 0 .. 30 /\ (k - 9) + 1 = k - 8 /\ k - 8 \in 1 .. 31 /\ k \in 9 .. 30
    BY <1>1, <1>2, SMT
  <2>2. 2^(k - 9) = s /\ s \in Nat /\ s >= 1  BY <2>1, Powers, PowersPositive
  <2>3. p = 512 * s  BY <2>1, HighPower
  <2>4. Lead(d) = n /\ Fraction(d) = n % 512  BY <1>2, <2>2, Zenon DEF Lead, Fraction
  <2> HIDE DEF s, p
  <2>5. n \in Nat /\ n * s <= d /\ d < n * s + s  BY <2>2, SMT
  <2>6. n >= 512 /\ n <= 1023
    <3> HIDE DEF n
    <3>1. ASSUME n <= 511 PROVE FALSE
      <4>1. n * s <= 511 * s  BY <2>2, <2>5, <3>1, TimesMonotone, SMT
      <4> QED BY <4>1, <2>2, <2>3, <2>5, <1>1, SMT
    <3>2. ASSUME n >= 1024 PROVE FALSE
      <4>1. 1024 * s <= n * s  BY <2>2, <2>5, <3>2, TimesMonotone, SMT
      <4> QED BY <4>1, <2>2, <2>3, <2>5, <1>1, SMT
    <3> QED BY <2>5, <3>1, <3>2, SMT
  <2>7. n % 512 = n - 512
    <3> HIDE DEF n
    <3> QED BY <2>5, <2>6, SMT
  <2> QED BY <1>1, <1>2, <2>2, <2>3, <2>4, <2>5, <2>6, <2>7 DEF s
<1>3. CASE k < 9
  <2> DEFINE s == PowerOfTwo[10 - k]
             n == d * s
  <2>1. 9 - k \in 0 .. 30 /\ (9 - k) + 1 = 10 - k /\ 10 - k \in 1 .. 31 /\ k \in 0 .. 8
    BY <1>1, <1>3, SMT
  <2>2. 2^(9 - k) = s /\ s \in Nat /\ s >= 1  BY <2>1, Powers, PowersPositive
  <2>3. p * s = 512  BY <2>1, LowPower
  <2>4. ~(k >= 9) BY <1>1, <1>3, SMT
  <2>5. Lead(d) = n /\ Fraction(d) = n % 512  BY <2>4, <2>2, Zenon DEF Lead, Fraction
  <2>6. p \in Nat  BY <1>1, PowersPositive, SMT
  <2> HIDE DEF s, p
  <2>7. n >= 512 /\ n <= 1023
    <3>1. p * s <= d * s  BY <2>2, <2>6, <1>1, TimesMonotone, SMT
    <3>2. (d + 1) * s <= (2 * p) * s  BY <2>2, <2>6, <1>1, TimesMonotone, SMT
    <3> QED BY <3>1, <3>2, <2>2, <2>3, <2>6, SMT
  <2>8. n \in Nat  BY <2>2, SMT
  <2>9. n % 512 = n - 512
    <3> HIDE DEF n
    <3> QED BY <2>8, <2>7, SMT
  <2> QED BY <1>1, <1>3, <2>2, <2>3, <2>4, <2>5, <2>7, <2>8, <2>9 DEF s
<1> QED BY <1>1, <1>2, <1>3, SMT

\* What the table gives for the magnitude d, shifted back.
Scaled(d, i) == ShiftedBack(Entry(i), 2^TopBit(d))

\* The shift by fourteen bits and the one back are one shift.
LEMMA ShiftBack ==
  ASSUME NEW t \in Nat, NEW p \in Nat, NEW s \in Nat, s >= 1
  PROVE  /\ p = 512 * s => (t * 16384) \div p = (32 * t) \div s
         /\ p * s = 512 => (t * 16384) \div p = 32 * t * s
<1>1. ASSUME p = 512 * s PROVE (t * 16384) \div p = (32 * t) \div s
  <2> DEFINE r == (32 * t) \div s
  <2>1. r \in Nat /\ r * s <= 32 * t /\ 32 * t < (r + 1) * s  BY SMT
  <2> HIDE DEF r
  <2>2. r * p <= t * 16384 /\ t * 16384 < r * p + p
    <3>1. r * p = 512 * (r * s)  BY <1>1, <2>1, SMT
    <3> QED BY <3>1, <1>1, <2>1, SMT
  <2>3. p >= 1 /\ t * 16384 \in Nat  BY <1>1, SMT
  <2>4. (t * 16384) \div p = r  BY <2>1, <2>2, <2>3, QuotientIs
  <2> QED BY <2>4 DEF r
<1>2. ASSUME p * s = 512 PROVE (t * 16384) \div p = 32 * t * s
  <2>1. t * 16384 = (32 * t * s) * p
    <3>1. (32 * t * s) * p = (32 * t) * (p * s)  BY SMT
    <3> QED BY <3>1, <1>2, SMT
  <2>2. p >= 1 /\ t * 16384 \in Nat /\ 32 * t * s \in Nat
    <3>1. p # 0  BY <1>2, SMT
    <3> QED BY <3>1, SMT
  <2> QED BY <2>1, <2>2, QuotientIs, SMT
<1> QED BY <1>1, <1>2

\* The reciprocals are as precise as the property asks.
LEMMA ReciprocalNear ==
  ASSUME NEW d \in Nat, d >= 1, d < 2^31
  PROVE  /\ Scaled(d, Fraction(d)) \in Nat
         /\ NearReciprocal(d, Scaled(d, Fraction(d)))
         /\ d >= 512 => NearReciprocal(d + 1, Scaled(d, Fraction(d)))
<1> DEFINE n == Lead(d)
           t == Entry(Fraction(d))
           r == Scaled(d, Fraction(d))
<1>1. n \in Nat /\ n >= 512 /\ n <= 1023 /\ Fraction(d) = n - 512
  BY Normalized
<1>2. Fraction(d) \in Nat /\ Fraction(d) <= 511 /\ Fraction(d) <= 1023 /\ 512 + Fraction(d) = n
  BY <1>1, SMT
<1>3. t \in Nat /\ t * n <= 67108866 /\ t * n >= 67108864 - n
  BY <1>2, RomNat, RomNear
<1>4. TopBit(d) \in 0 .. 30 /\ 2^TopBit(d) = PowerOfTwo[TopBit(d) + 1] /\ TopBit(d) + 1 \in 1 .. 31
  <2>1. TopBit(d) \in 0 .. 30  BY TopBitIs
  <2>2. TopBit(d) + 1 \in 1 .. 31  BY <2>1, SMT
  <2> QED BY <2>1, <2>2, Powers
<1>5. 2^TopBit(d) \in Nat
  BY <1>4, PowersPositive
<1>6. ASSUME NEW c \in Nat, c >= 1, NEW x \in Nat,
             x - 2147483647 \div c <= 2 + (2147483647 \div c) \div 512,
             2147483647 \div c - x <= 2 + (2147483647 \div c) \div 512
      PROVE  NearReciprocal(c, x)
  <2> DEFINE e == 2147483647 \div c
  <2>1. e \in Nat  BY <1>6, SMT
  <2> HIDE DEF e
  <2>2. x >= e - (2 + e \div 512) /\ x - e <= 2 + e \div 512  BY <1>6, <2>1, SMT DEF e
  <2> QED BY <2>2, SMT DEF NearReciprocal, e
<1>7. CASE TopBit(d) >= 9
  <2>1. PICK s \in Nat : s >= 1 /\ 2^TopBit(d) = 512 * s /\ n * s <= d /\ d < n * s + s
    BY <1>7, Normalized
  <2>2. r = (32 * t) \div s  BY <1>3, <1>5, <2>1, ShiftBack DEF Scaled, ShiftedBack
  <2>3. r \in Nat  BY <2>1, <2>2, <1>3, SMT
  <2>4. ASSUME NEW c \in Nat, c >= n * s, c <= n * s + s PROVE NearReciprocal(c, r)
    <3>1. c >= 1
      <4>1. \A m, l \in Nat : m >= 512 => 512 * l <= m * l  BY TimesMonotone, SMT
      <4>2. 512 * s <= n * s  BY <4>1, <1>1, <2>1
      <4> HIDE DEF n
      <4> QED BY <4>2, <1>1, <2>1, <2>4, SMT
    <3>2. 2147483647 \div c \in Nat  BY <3>1, SMT
    <3>3. /\ r - 2147483647 \div c <= 2 + (2147483647 \div c) \div 512
          /\ 2147483647 \div c - r <= 2 + (2147483647 \div c) \div 512
      BY <1>1, <1>3, <2>1, <2>2, <2>3, <2>4, <3>2, NearAbove
    <3> QED BY <1>6, <2>3, <3>1, <3>3
  <2>5. n * s \in Nat  BY <1>1, <2>1, SMT
  <2>6. d + 1 \in Nat /\ d <= n * s + s /\ d + 1 >= n * s /\ d + 1 <= n * s + s  BY <2>1, <2>5, SMT
  <2> QED BY <2>1, <2>3, <2>4, <2>6
<1>8. CASE TopBit(d) < 9
  <2>1. PICK s \in Nat : s >= 1 /\ 2^TopBit(d) * s = 512 /\ d * s = n
    BY <1>8, Normalized
  <2>2. r = 32 * t * s  BY <1>3, <1>5, <2>1, ShiftBack DEF Scaled, ShiftedBack
  <2>3. r \in Nat
    <3>1. \A a, b \in Nat : 32 * a * b \in Nat  BY SMT
    <3> QED BY <3>1, <2>1, <2>2, <1>3
  <2>4. 2147483647 \div d \in Nat  BY SMT
  <2>5. /\ r - 2147483647 \div d <= 2 + (2147483647 \div d) \div 512
        /\ 2147483647 \div d - r <= 2 + (2147483647 \div d) \div 512
    BY <1>1, <1>3, <2>1, <2>2, <2>3, <2>4, NearBelow
  <2>6. d < 512
    <3>1. TopBit(d) + 1 <= 9  BY <1>4, <1>8, SMT
    <3>2. 2 * PowerOfTwo[TopBit(d) + 1] <= 512  BY <3>1, <1>4, SMT DEF PowerOfTwo
    <3> QED BY <3>2, <1>4, <1>5, TopBitIs, SMT
  <2> QED BY <1>6, <2>3, <2>5, <2>6, SMT
<1> QED BY <1>4, <1>7, <1>8, SMT

\* The shift and the weight's place undo the scale of the table.
Rescaled(c, p, D) == (32768 * c) * p = 549755813888 * (D * D)
\* t squared and its successor squared, times x, on the two sides of 2^30.
Squares(x, t) == /\ 512 * ((t * t) * x) <= 551903297536
                 /\ 32768 * (((t + 1) * (t + 1)) * x) >= 32767 * 1073741824

\* q * q * w is close to C, t the quotient of q by D, x close to w * p / 512.
LEMMA RootBounds ==
  ASSUME NEW w \in Nat, w >= 512, NEW q \in Nat, q >= 1, NEW D \in Nat, D >= 1, NEW p \in Nat,
         NEW c \in Nat, RootFits(q, w, c), Rescaled(c, p, D),
         NEW x \in Nat, w * p <= 512 * x, 512 * x <= (w + 2) * p,
         NEW t \in Nat, t * D <= q, q < (t + 1) * D
  PROVE  Squares(x, t)
<1> DEFINE Q == q * q
           DD == D * D
           u == t * t
           v == (t + 1) * (t + 1)
           C == 32768 * c
<1>1. Q \in Nat /\ DD \in Nat /\ DD >= 1 /\ u \in Nat /\ v \in Nat /\ C \in Nat
  <2>1. \A a \in Nat : a * a \in Nat  BY SMT
  <2>2. \A a \in Nat : a >= 1 => a * a >= 1  BY SMT
  <2>3. t + 1 \in Nat /\ C \in Nat  BY SMT
  <2> QED BY <2>1, <2>2, <2>3
<1>2. u * DD <= Q /\ Q <= v * DD
  <2>1. \A a, b \in Nat : a <= b => a * a <= b * b
    <3> SUFFICES ASSUME NEW a \in Nat, NEW b \in Nat, a <= b PROVE a * a <= b * b
      OBVIOUS
    <3>1. a * a <= a * b /\ a * b <= b * b  BY TimesMonotone, SMT
    <3> QED BY <3>1, SMT
  <2>2. t * D \in Nat /\ (t + 1) * D \in Nat  BY SMT
  <2>3. (t * D) * (t * D) <= q * q /\ q * q <= ((t + 1) * D) * ((t + 1) * D)
    BY <2>1, <2>2, SMT
  <2>4. \A a, b \in Nat : (a * b) * (a * b) = (a * a) * (b * b)  BY SMT
  <2>5. t + 1 \in Nat  BY SMT
  <2> QED BY <2>3, <2>4, <2>5
<1>3. q * (q * w) = Q * w /\ Q * w \in Nat
  BY SMT
<1>4. C * p = 549755813888 * DD /\ Q * w <= C /\ 32768 * (Q * w) >= 32767 * C
  <2>1. C * p = 549755813888 * DD  BY SMT DEF Rescaled
  <2>2. q * (q * w) <= 32768 * c /\ q * (q * w) >= 32767 * c  BY SMT DEF RootFits
  <2> QED BY <1>3, <2>1, <2>2, SMT
<1> HIDE DEF Q, DD, u, v, C
<1>5. 512 * (u * x) <= 551903297536
  <2>1. 512 * Q <= Q * w  BY <1>1, TimesMonotone, SMT
  <2>2. 512 * (Q * (w + 2)) <= 514 * C
    <3>1. Q * (w + 2) = Q * w + 2 * Q  BY <1>1, SMT
    <3> QED BY <2>1, <3>1, <1>1, <1>3, <1>4, SMT
  <2>3. (512 * x) * Q <= ((w + 2) * p) * Q  BY <1>1, TimesMonotone, SMT
  <2>4. ((w + 2) * p) * Q = (Q * (w + 2)) * p  BY <1>1, SMT
  <2>5. (512 * (Q * (w + 2))) * p <= (514 * C) * p
    <3>1. Q * (w + 2) \in Nat  BY <1>1, SMT
    <3> QED BY <2>2, <3>1, <1>1, TimesMonotone, SMT
  <2>6. (u * DD) * (512 * x) <= Q * (512 * x)
    <3>1. u * DD \in Nat  BY <1>1, SMT
    <3> QED BY <3>1, <1>1, <1>2, TimesMonotone, SMT
  <2>7. 512 * ((u * DD) * (512 * x)) <= 514 * (549755813888 * DD)
    <3>1. Q * (512 * x) = (512 * x) * Q
      <4>1. 512 * x \in Nat  BY SMT
      <4> QED BY <4>1, <1>1, Products
    <3>2. (u * DD) * (512 * x) <= (Q * (w + 2)) * p
      <4>1. 512 * x \in Nat /\ w + 2 \in Nat  BY SMT
      <4>7. u * DD \in Nat  BY <1>1, Products
      <4>2. Q * (w + 2) \in Nat  BY <4>1, <1>1, Products
      <4>8. (u * DD) * (512 * x) \in Nat  BY <4>1, <4>7, Products
      <4>9. (512 * x) * Q \in Nat  BY <4>1, <1>1, Products
      <4>10. (Q * (w + 2)) * p \in Nat  BY <4>2, Products
      <4>3. (u * DD) * (512 * x) \in Nat /\ (512 * x) * Q \in Nat /\ (Q * (w + 2)) * p \in Nat
        BY <4>8, <4>9, <4>10
      <4>4. \A a, b, d \in Nat : a <= b /\ b <= d => a <= d  BY SMT
      <4>5. (512 * x) * Q <= (Q * (w + 2)) * p  BY <2>3, <2>4
      <4>6. (u * DD) * (512 * x) <= (512 * x) * Q  BY <2>6, <3>1
      <4> QED BY <4>3, <4>4, <4>5, <4>6
    <3>3. (512 * (Q * (w + 2))) * p = 512 * ((Q * (w + 2)) * p)
      <4>1. \A a, b \in Nat : (512 * a) * b = 512 * (a * b)  BY SMT
      <4>2. Q * (w + 2) \in Nat  BY <1>1, SMT
      <4> QED BY <4>1, <4>2
    <3>4. (514 * C) * p = 514 * (C * p)  BY <1>1, SMT
    <3>5. (u * DD) * (512 * x) \in Nat /\ (Q * (w + 2)) * p \in Nat
      <4>1. 512 * x \in Nat /\ w + 2 \in Nat  BY SMT
      <4>2. u * DD \in Nat  BY <1>1, Products
      <4>3. Q * (w + 2) \in Nat  BY <4>1, <1>1, Products
      <4>4. (u * DD) * (512 * x) \in Nat  BY <4>1, <4>2, Products
      <4>5. (Q * (w + 2)) * p \in Nat  BY <4>3, Products
      <4> QED BY <4>4, <4>5
    <3> QED BY <2>5, <3>2, <3>3, <3>4, <3>5, <1>1, <1>4, SMT
  <2>8. (u * DD) * (512 * x) = (512 * (u * x)) * DD  BY <1>1, SMT
  <2>9. (512 * (512 * (u * x))) * DD <= (514 * 549755813888) * DD
    <3>1. 512 * ((512 * (u * x)) * DD) = (512 * (512 * (u * x))) * DD  BY <1>1, SMT
    <3> QED BY <2>7, <2>8, <3>1, <1>1, SMT
  <2>10. u * x \in Nat  BY <1>1, SMT
  <2> QED BY <2>9, <2>10, <1>1, TimesCancel, SMT
<1>6. 32768 * (v * x) >= 32767 * 1073741824
  <2>1. (w * p) * Q <= (512 * x) * Q
    <3>1. w * p \in Nat  BY SMT
    <3> QED BY <3>1, <1>1, TimesMonotone, SMT
  <2>2. (w * p) * Q = (Q * w) * p  BY <1>1, SMT
  <2>3. (32767 * C) * p <= (32768 * (Q * w)) * p  BY <1>1, <1>3, <1>4, TimesMonotone, SMT
  <2>4. Q * (512 * x) <= (v * DD) * (512 * x)
    <3>1. v * DD \in Nat  BY <1>1, SMT
    <3> QED BY <3>1, <1>1, <1>2, TimesMonotone, SMT
  <2>5. 32767 * (549755813888 * DD) <= 32768 * ((v * DD) * (512 * x))
    <3>1. Q * (512 * x) = (512 * x) * Q
      <4>1. 512 * x \in Nat  BY SMT
      <4> QED BY <4>1, <1>1, Products
    <3>2. (Q * w) * p <= (v * DD) * (512 * x)  BY <2>1, <2>2, <2>4, <3>1, <1>1, SMT
    <3>3. (32768 * (Q * w)) * p = 32768 * ((Q * w) * p)
      <4>1. \A a, b \in Nat : (32768 * a) * b = 32768 * (a * b)  BY SMT
      <4> QED BY <4>1, <1>3
    <3>4. (32767 * C) * p = 32767 * (C * p)  BY <1>1, SMT
    <3>5. (v * DD) * (512 * x) \in Nat /\ (Q * w) * p \in Nat
      <4>1. 512 * x \in Nat  BY SMT
      <4>2. v * DD \in Nat  BY <1>1, Products
      <4> QED BY <4>1, <4>2, <1>1, <1>3, Products
    <3> QED BY <2>3, <3>2, <3>3, <3>4, <3>5, <1>1, <1>4, SMT
  <2>6. (v * DD) * (512 * x) = (512 * (v * x)) * DD  BY <1>1, SMT
  <2>7. (32767 * 549755813888) * DD <= (32768 * (512 * (v * x))) * DD
    <3>1. 32768 * ((512 * (v * x)) * DD) = (32768 * (512 * (v * x))) * DD  BY <1>1, SMT
    <3> QED BY <2>5, <2>6, <3>1, <1>1, SMT
  <2>8. v * x \in Nat  BY <1>1, SMT
  <2> QED BY <2>7, <2>8, <1>1, TimesCancel, SMT
<1> QED BY <1>5, <1>6, SMT DEF u, v, Squares

\* From the bounds on the products to the bounds on the square.
LEMMA SquareNear ==
  ASSUME NEW x \in Nat, x >= 1, x < 4096, NEW t \in Nat, t >= 512,
         Squares(x, t)
  PROVE  LET e == 1073741824 \div x
         IN  t * t - e <= e \div 64 /\ e - t * t <= e \div 64
<1> DEFINE e == 1073741824 \div x
           u == t * t
           v == (t + 1) * (t + 1)
           m == e \div 64
<1>1. e \in Nat /\ e * x <= 1073741824 /\ 1073741824 <= (e + 1) * x
  BY SMT
<1>2. u \in Nat /\ v \in Nat
  <2>1. t + 1 \in Nat  BY SMT
  <2> QED BY <2>1, Products
<1>3. 512 * v <= 515 * u
  <2>1. 512 * t <= t * t  BY TimesMonotone, SMT
  <2>2. v = u + 2 * t + 1  BY SMT
  <2> HIDE DEF u, v
  <2> QED BY <2>1, <2>2, <1>2, SMT DEF u
<1> HIDE DEF e, u, v
<1>4. m \in Nat /\ 64 * m <= e /\ e <= 64 * m + 63
  BY <1>1, SMT
<1> HIDE DEF m
<1>5. e >= 262144
  <2>1. ASSUME e <= 262143 PROVE FALSE
    <3>1. (e + 1) * x <= 262144 * x  BY <1>1, <2>1, TimesMonotone, SMT
    <3> QED BY <3>1, <1>1, SMT
  <2> QED BY <2>1, <1>1, SMT
<1>6. 512 * u <= 514 * (e + 1)
  <2>1. (512 * u) * x = 512 * (u * x) /\ (514 * (e + 1)) * x = 514 * ((e + 1) * x)
    BY <1>1, <1>2, SMT
  <2>2. (e + 1) * x \in Nat /\ u * x \in Nat
    <3>1. e + 1 \in Nat  BY <1>1, SMT
    <3> QED BY <3>1, <1>2, Products
  <2>3. 512 * (u * x) <= 551903297536  BY SMT DEF u, Squares
  <2>4. (512 * u) * x <= (514 * (e + 1)) * x  BY <2>1, <2>2, <2>3, <1>1, SMT
  <2>5. 512 * u \in Int /\ 514 * (e + 1) \in Int  BY <1>1, <1>2, SMT
  <2> QED BY <2>4, <2>5, TimesCancel
<1>7. 32767 * e <= 32768 * v
  <2>1. (32767 * e) * x = 32767 * (e * x) /\ (32768 * v) * x = 32768 * (v * x)
    BY <1>1, <1>2, SMT
  <2>2. e * x \in Nat /\ v * x \in Nat  BY <1>1, <1>2, Products
  <2>3. 32768 * (v * x) >= 32767 * 1073741824  BY SMT DEF v, Squares
  <2>4. (32767 * e) * x <= (32768 * v) * x  BY <2>1, <2>2, <2>3, <1>1, SMT
  <2>5. 32767 * e \in Int /\ 32768 * v \in Int  BY <1>1, <1>2, SMT
  <2> QED BY <2>4, <2>5, TimesCancel
<1>8. u - e <= m /\ e - u <= m
  BY <1>1, <1>2, <1>3, <1>4, <1>5, <1>6, <1>7, SMT
<1> QED BY <1>8 DEF e, u, m

\* Two shifts are one.
LEMMA ShiftTwice ==
  ASSUME NEW q \in Nat, NEW half \in Nat, half >= 1
  PROVE  LET r == ShiftedBack(q, half)
             t == r \div 65536
         IN  r \in Nat /\ t \in Nat /\ t * (4 * half) <= q /\ q < (t + 1) * (4 * half)
<1> DEFINE r == ShiftedBack(q, half)
           t == r \div 65536
<1>1. r \in Nat /\ r * half <= q * 16384 /\ q * 16384 < (r + 1) * half
  <2>1. q * 16384 \in Nat  BY SMT
  <2> QED BY <2>1, SMT DEF ShiftedBack
<1> HIDE DEF r
<1>2. t \in Nat /\ t * 65536 <= r /\ r + 1 <= (t + 1) * 65536
  BY <1>1, SMT
<1> HIDE DEF t
<1>3. (t * 65536) * half <= r * half /\ (r + 1) * half <= ((t + 1) * 65536) * half
  BY <1>1, <1>2, TimesMonotone, SMT
<1>4. t * half \in Nat /\ (t + 1) * half \in Nat
  <2>1. t + 1 \in Nat  BY <1>2, SMT
  <2> QED BY <2>1, <1>2, Products
<1>5. (t * 65536) * half = 65536 * (t * half) /\ ((t + 1) * 65536) * half = 65536 * ((t + 1) * half)
  BY <1>2, SMT
<1>6. t * (4 * half) = 4 * (t * half) /\ (t + 1) * (4 * half) = 4 * ((t + 1) * half)
  BY <1>2, SMT
<1>7. r * half \in Nat /\ (r + 1) * half \in Nat
  <2>1. r + 1 \in Nat  BY <1>1, SMT
  <2> QED BY <2>1, <1>1, Products
<1>8. t * (4 * half) <= q /\ q < (t + 1) * (4 * half)
  BY <1>1, <1>3, <1>4, <1>5, <1>6, <1>7, SMT
<1> QED BY <1>1, <1>2, <1>8 DEF r, t

\* The top ten bits of d, back at their place.
LEMMA LeadBounds ==
  ASSUME NEW d \in Nat, d >= 1, d < 2^31
  PROVE  LET p == PowerOfTwo[TopBit(d) + 1]
         IN  p \in Nat /\ Lead(d) * p <= 512 * d /\ 512 * d <= (Lead(d) + 1) * p
<1> DEFINE n == Lead(d)
           p == PowerOfTwo[TopBit(d) + 1]
<1>1. TopBit(d) \in 0 .. 30 /\ TopBit(d) + 1 \in 1 .. 31
  <2>1. TopBit(d) \in 0 .. 30  BY TopBitIs
  <2> QED BY <2>1, SMT
<1>2. 2^TopBit(d) = p /\ p \in Nat  BY <1>1, Powers, PowersPositive
<1>3. n \in Nat  BY Normalized
<1>4. CASE TopBit(d) >= 9
  <2>1. PICK s \in Nat : 2^TopBit(d) = 512 * s /\ n * s <= d /\ d < n * s + s
    BY <1>4, Normalized
  <2>2. p = 512 * s  BY <2>1, <1>2
  <2> HIDE DEF n, p
  <2>3. n * s \in Nat  BY <1>3, Products
  <2>4. n * p = 512 * (n * s) /\ (n + 1) * p = 512 * (n * s) + 512 * s  BY <2>2, <1>3, SMT
  <2> QED BY <2>1, <2>3, <2>4, <1>2, SMT DEF n, p
<1>5. CASE TopBit(d) < 9
  <2>1. PICK s \in Nat : 2^TopBit(d) * s = 512 /\ d * s = n
    BY <1>5, Normalized
  <2>2. p * s = 512  BY <2>1, <1>2
  <2> HIDE DEF n, p
  <2>3. n * p = d * (p * s)  BY <2>1, <1>2, SMT
  <2>4. (n + 1) * p = n * p + p  BY <1>2, <1>3, SMT
  <2> QED BY <2>2, <2>3, <2>4, <1>2, <1>3, SMT DEF n, p
<1> QED BY <1>1, <1>2, <1>4, <1>5, SMT

\* Where rsp_vrcp_vrsq looks for the root of d.
RootIndex(d) == RomIndex(d, TRUE)

\* What the root half of the table gives for d, shifted back.
Rooted(d) == ShiftedBack(Entry(RootIndex(d)), 2^(TopBit(d) \div 2))

\* What its entries approximate, over 2^15: for an even top, for an odd one.
RootTop(k) == IF k % 2 = 0 THEN Two28 ELSE Two27
RootWeight(d) == 512 + 2 * (Fraction(d) \div 2)

HalfPower(k) == PowerOfTwo[(k \div 2) + 1]

\* The tops of the operands NearRoot speaks of, the halved shift and the
\* constant the table's entries approximate.
LEMMA RootShift ==
  ASSUME NEW k \in 0 .. 11
  PROVE  /\ 2^(k \div 2) = HalfPower(k)
         /\ HalfPower(k) \in Nat /\ HalfPower(k) >= 1 /\ HalfPower(k) <= 32
         /\ Rescaled(RootTop(k), PowerOfTwo[k + 1], 4 * HalfPower(k))
<1> DEFINE half(h) == PowerOfTwo[h + 1]
           P(j) == (IF j % 2 = 0 THEN 8796093022208 ELSE 4398046511104) * PowerOfTwo[j + 1]
                     = 549755813888 * ((4 * half(j \div 2)) * (4 * half(j \div 2)))
<1>1. k \div 2 \in 0 .. 5 /\ k \div 2 \in 0 .. 30 /\ (k \div 2) + 1 \in 1 .. 31 /\ (k \div 2) + 1 \in 1 .. 6
  BY SMT
<1>2. \A j \in 1 .. 6 : PowerOfTwo[j] <= 32
  BY SMTT(20) DEF PowerOfTwo
<1>3. 2^(k \div 2) = half(k \div 2) /\ half(k \div 2) \in Nat /\ half(k \div 2) >= 1 /\ half(k \div 2) <= 32
  BY <1>1, <1>2, Powers, PowersPositive
<1>4. P(0) /\ P(1) /\ P(2) /\ P(3) /\ P(4) /\ P(5) /\ P(6) /\ P(7) /\ P(8) /\ P(9) /\ P(10) /\ P(11)
  BY SMTT(60) DEF PowerOfTwo
<1> HIDE DEF P
<1>5. P(k)
  BY <1>4, SMT
<1>6. 32768 * (IF k % 2 = 0 THEN Two28 ELSE Two27)
        = IF k % 2 = 0 THEN 8796093022208 ELSE 4398046511104
  BY SMT DEF Two27, Two28
<1> QED BY <1>3, <1>5, <1>6 DEF P, Rescaled, RootTop, HalfPower

\* Operands of at most twelve bits, of whose roots the property speaks.
FewBits(d) == d >= 1 /\ d < 4096

\* The entry's index and weight: the nine bits without the last, and the
\* parity of the shift.
LEMMA RootEntry ==
  ASSUME NEW d \in Nat, FewBits(d)
  PROVE  LET t == Entry(RootIndex(d))
             w == RootWeight(d)
         IN  /\ TopBit(d) \in 0 .. 11
             /\ w \in Nat /\ w >= 512 /\ w <= Lead(d) /\ Lead(d) <= w + 1
             /\ RootIndex(d) \in Nat /\ RootIndex(d) <= 1023
             /\ RootTop(TopBit(d)) \in Nat
             /\ RootFits(t, w, RootTop(TopBit(d)))
<1> DEFINE k == TopBit(d)
           n == Lead(d)
           f == Fraction(d)
           m == f \div 2
           i == RootIndex(d)
<1>0. d >= 1 /\ d < 2^31
  BY SMT DEF FewBits
<1>1. n \in Nat /\ n >= 512 /\ n <= 1023 /\ f = n - 512
  BY <1>0, Normalized
<1>2. k \in 0 .. 30 /\ PowerOfTwo[k + 1] <= d
  BY <1>0, TopBitIs
<1>3. k \in 0 .. 11
  <2>1. \A j \in 13 .. 31 : PowerOfTwo[j] >= 4096
    BY SMTT(20) DEF PowerOfTwo
  <2>2. ASSUME k \in 12 .. 30 PROVE FALSE
    <3>1. k + 1 \in 13 .. 31  BY <2>2, SMT
    <3>2. PowerOfTwo[k + 1] >= 4096  BY <3>1, <2>1
    <3>3. PowerOfTwo[k + 1] \in Nat
      <4>1. k + 1 \in 1 .. 31  BY <2>2, SMT
      <4> QED BY <4>1, PowersPositive
    <3> QED BY <3>2, <3>3, <1>2, SMT DEF FewBits
  <2> QED BY <2>2, <1>2, SMT
<1>4. i = 512 + (f - (f % 2)) + ((31 - k) % 2)
  BY Zenon DEF RomIndex, RootIndex
<1>5. m \in 0 .. 255 /\ f - (f % 2) = 2 * m /\ 512 + 2 * m <= n /\ n <= 512 + 2 * m + 1
  <2> HIDE DEF f, n
  <2> QED BY <1>1, SMT DEF m
<1>6. 512 + 2 * m \in Nat /\ 512 + 2 * m >= 512
  <2> HIDE DEF m
  <2> QED BY <1>5, SMT
<1>9. RootWeight(d) \in Nat /\ RootWeight(d) >= 512 /\ RootWeight(d) <= n /\ n <= RootWeight(d) + 1
  BY <1>5, <1>6 DEF RootWeight
<1>7. CASE k % 2 = 0
  <2>1. i = 513 + 2 * m
    <3> HIDE DEF m, f, i, k
    <3> QED BY <1>3, <1>4, <1>5, <1>7, SMT
  <2>2. RootFits(Entry(i), 512 + 2 * m, Two28)
    BY <2>1, <1>5, RomRootEven, Zenon
  <2>3. i \in Nat /\ i <= 1023
    <3> HIDE DEF m, i
    <3> QED BY <2>1, <1>5, SMT
  <2>4. RootTop(TopBit(d)) = Two28  BY <1>7, Zenon DEF RootTop
  <2>5. Two28 \in Nat  BY SMT DEF Two28
  <2> QED BY <1>3, <1>9, <2>2, <2>3, <2>4, <2>5, Zenon DEF RootWeight
<1>8. CASE k % 2 # 0
  <2>1. i = 512 + 2 * m
    <3> HIDE DEF m, f, i, k
    <3> QED BY <1>3, <1>4, <1>5, <1>8, SMT
  <2>2. RootFits(Entry(i), 512 + 2 * m, Two27)
    BY <2>1, <1>5, RomRootOdd, Zenon
  <2>3. i \in Nat /\ i <= 1023
    <3> HIDE DEF m, i
    <3> QED BY <2>1, <1>5, SMT
  <2>4. RootTop(TopBit(d)) = Two27  BY <1>8, Zenon DEF RootTop
  <2>5. Two27 \in Nat  BY SMT DEF Two27
  <2> QED BY <1>3, <1>9, <2>2, <2>3, <2>4, <2>5, Zenon DEF RootWeight
<1> QED BY <1>7, <1>8, Zenon

\* The roots of small operands are as precise as the property asks.
LEMMA RootNear ==
  ASSUME NEW d \in Nat, FewBits(d)
  PROVE  NearRoot(d, Rooted(d))
<1> DEFINE k == TopBit(d)
           q == Entry(RootIndex(d))
           w == RootWeight(d)
           c == RootTop(k)
           p == PowerOfTwo[k + 1]
           half == HalfPower(k)
           r == Rooted(d)
           t == r \div 65536
<1>1. /\ k \in 0 .. 11
      /\ w \in Nat /\ w >= 512 /\ w <= Lead(d) /\ Lead(d) <= w + 1
      /\ c \in Nat /\ RootFits(q, w, c)
      /\ RootIndex(d) \in Nat /\ RootIndex(d) <= 1023
  BY RootEntry
<1>2. q \in Nat /\ q >= 65536
  BY <1>1, RomNat, SMT
<1>3. 2^(k \div 2) = half /\ half \in Nat /\ half >= 1 /\ half <= 32 /\ Rescaled(c, p, 4 * half)
  <2>1. k \in 0 .. 11  BY <1>1
  <2> HIDE DEF k
  <2>2. /\ 2^(k \div 2) = HalfPower(k)
        /\ HalfPower(k) \in Nat /\ HalfPower(k) >= 1 /\ HalfPower(k) <= 32
        /\ Rescaled(RootTop(k), PowerOfTwo[k + 1], 4 * HalfPower(k))
    BY <2>1, RootShift
  <2> QED BY <2>2
<1>4. p \in Nat /\ w * p <= 512 * d /\ 512 * d <= (w + 2) * p
  <2> DEFINE n == Lead(d)
  <2>1. d >= 1 /\ d < 2^31  BY SMT DEF FewBits
  <2>2. p \in Nat /\ n * p <= 512 * d /\ 512 * d <= (n + 1) * p  BY <2>1, LeadBounds
  <2>3. n \in Nat  BY <2>1, Normalized
  <2> HIDE DEF n, w, p
  <2>4. w * p <= n * p /\ (n + 1) * p <= (w + 2) * p
    BY <1>1, <2>2, <2>3, TimesMonotone, SMT DEF n
  <2>5. w * p \in Nat /\ n * p \in Nat /\ (n + 1) * p \in Nat /\ (w + 2) * p \in Nat
    <3>1. n + 1 \in Nat /\ w + 2 \in Nat  BY <1>1, <2>3, SMT
    <3> QED BY <3>1, <1>1, <2>2, <2>3, Products
  <2> QED BY <2>2, <2>4, <2>5, SMT
<1>5. r \in Nat /\ t \in Nat /\ t * (4 * half) <= q /\ q < (t + 1) * (4 * half)
  <2>1. r = ShiftedBack(q, half)  BY <1>3, Zenon DEF Rooted
  <2> HIDE DEF r, q, half
  <2> QED BY <2>1, <1>2, <1>3, ShiftTwice
<1> HIDE DEF q, w, c, p, half, r, t, k
<1>6. t >= 512
  <2>1. ASSUME t <= 511 PROVE FALSE
    <3>1. (t + 1) * (4 * half) <= 512 * (4 * half)
      <4>1. 4 * half \in Nat /\ t + 1 <= 512 /\ t + 1 \in Int  BY <1>3, <1>5, <2>1, SMT
      <4> QED BY <4>1, TimesMonotone, SMT
    <3>2. (t + 1) * (4 * half) \in Nat
      <4>1. 4 * half \in Nat /\ t + 1 \in Nat  BY <1>3, <1>5, SMT
      <4> QED BY <4>1, Products
    <3> QED BY <3>1, <3>2, <1>2, <1>3, <1>5, SMT
  <2> QED BY <2>1, <1>5, SMT
<1>7. Squares(d, t)
  <2>1. 4 * half \in Nat /\ 4 * half >= 1 /\ q >= 1  BY <1>2, <1>3, SMT
  <2> QED BY <2>1, <1>1, <1>2, <1>3, <1>4, <1>5, RootBounds
<1>8. d >= 1 /\ d < 4096
  BY SMT DEF FewBits
<1>9. LET e == 1073741824 \div d
      IN  t * t - e <= e \div 64 /\ e - t * t <= e \div 64
  BY <1>5, <1>6, <1>7, <1>8, SquareNear
<1>10. t * t \in Nat /\ 1073741824 \div d \in Nat
  BY <1>5, <1>8, Products, SMT
<1>11. NearRoot(d, r)
  <2> DEFINE u == t * t
             e == 1073741824 \div d
  <2>1. 2^30 = 1073741824  BY SMT
  <2>2. u \in Nat /\ e \in Nat /\ u - e <= e \div 64 /\ e - u <= e \div 64  BY <1>9, <1>10
  <2> HIDE DEF u, e
  <2>3. u - e \in -(e \div 64) .. e \div 64  BY <2>2, SMT
  <2> QED BY <2>1, <2>3, SMT DEF NearRoot, t, u, e
<1> QED BY <1>11 DEF r

\* The range of the operands rsp_vrcp_vrsq takes, and of its results.
Word(x) == x \in Int /\ x >= -2147483648 /\ x <= 2147483647
\* The range of the magnitudes it looks up.
NatWord(r) == r \in Nat /\ r <= 2147483647
Magnitudes(d) == d \in Nat /\ d >= 1 /\ d <= 2147483647

\* The two halves of the ROM.
LEMMA LookedIs ==
  ASSUME NEW d
  PROVE  Looked(d, TRUE) = Rooted(d) /\ Looked(d, FALSE) = Scaled(d, Fraction(d))
<1>1. Shift(d, TRUE) = TopBit(d) \div 2 /\ Shift(d, FALSE) = TopBit(d)
  BY Zenon DEF Shift
<1>2. RomIndex(d, FALSE) = Fraction(d)
  BY Zenon DEF RomIndex
<1> QED BY <1>1, <1>2, Zenon DEF Looked, Rooted, Scaled, RootIndex

\* Which of the cases of rsp_vrcp_vrsq an operand takes.
LEMMA QuotientCases ==
  ASSUME NEW x \in Int, Word(x), NEW sqrt \in BOOLEAN
  PROVE  LET d == Magnitude(x)
         IN  /\ x = 0 => Quotient(x, sqrt) = 2147483647
             /\ x = -32768 => Quotient(x, sqrt) = -65536
             /\ x > 0 => d = x /\ Magnitudes(d) /\ Quotient(x, sqrt) = Looked(d, sqrt)
             /\ x < 0 /\ x # -32768 => /\ d = IF x > -32768 THEN -x ELSE -(x + 1)
                                     /\ Magnitudes(d)
                                     /\ Quotient(x, sqrt) = -Looked(d, sqrt) - 1
<1> DEFINE d == Magnitude(x)
           r == Looked(d, sqrt)
<1>1. Quotient(x, sqrt) = IF x = 0 THEN 2147483647
                          ELSE IF x = -32768 THEN -65536
                          ELSE IF x < 0 THEN -r - 1 ELSE r
  BY SMT DEF Quotient
<1>3. x > 0 => d = x /\ Magnitudes(d)
  BY SMT DEF Magnitude, Magnitudes, Word
<1>4. x < 0 /\ x # -32768 => d = (IF x > -32768 THEN -x ELSE -(x + 1)) /\ Magnitudes(d)
  BY SMT DEF Magnitude, Magnitudes, Word
<1> HIDE DEF d, r
<1> QED BY <1>1, <1>3, <1>4, SMT DEF d, r

\* What is looked up fits 31 bits.
LEMMA LookedRange ==
  ASSUME NEW d, Magnitudes(d), NEW sqrt \in BOOLEAN
  PROVE  NatWord(Looked(d, sqrt))
<1> DEFINE k == TopBit(d)
           f == Fraction(d)
<1>1. d \in Nat /\ d >= 1 /\ d < 2^31
  BY SMT DEF Magnitudes
<1>2. k \in 0 .. 30
  BY <1>1, TopBitIs
<1>3. f \in Nat /\ f <= 511
  <2>1. Lead(d) \in Nat /\ Lead(d) >= 512 /\ Lead(d) <= 1023 /\ f = Lead(d) - 512
    BY <1>1, Normalized
  <2> HIDE DEF f
  <2> QED BY <2>1, SMT
<1>4. ASSUME NEW i \in Nat, i <= 1023, NEW h \in 0 .. 30
      PROVE  NatWord(ShiftedBack(Entry(i), 2^h))
  <2> DEFINE t == Entry(i)
             s == PowerOfTwo[h + 1]
             a == t * 16384
             b == ShiftedBack(t, s)
  <2>1. t \in Nat /\ t <= 131071  BY <1>4, RomNat, SMT
  <2>2. h + 1 \in 1 .. 31  BY <1>4, SMT
  <2>3. 2^h = s /\ s \in Nat /\ s >= 1  BY <2>2, Powers, PowersPositive
  <2> HIDE DEF t, s
  <2>4. a \in Nat /\ a <= 2147483647  BY <2>1, SMT
  <2>5. b = a \div s  BY SMT DEF ShiftedBack
  <2> HIDE DEF a, b
  <2>6. b \in Nat /\ b * s <= a  BY <2>3, <2>4, <2>5, SMT
  <2>7. b <= b * s /\ b * s \in Nat  BY <2>3, <2>6, TimesMonotone, Products, SMT
  <2>8. b <= 2147483647  BY <2>4, <2>6, <2>7, SMT
  <2>9. NatWord(b)  BY <2>6, <2>8, SMT DEF NatWord
  <2> QED BY <2>3, <2>9, Zenon DEF b, t
<1>5. NatWord(Looked(d, TRUE))
  <2> DEFINE i == RootIndex(d)
             h == k \div 2
  <2>1. i = 512 + (f - (f % 2)) + ((31 - k) % 2)  BY Zenon DEF RomIndex, RootIndex
  <2>2. i \in Nat /\ i <= 1023
    <3> HIDE DEF i, f, k
    <3> QED BY <2>1, <1>2, <1>3, SMT
  <2>3. h \in 0 .. 30
    <3> HIDE DEF k
    <3> QED BY <1>2, SMT
  <2>4. Looked(d, TRUE) = ShiftedBack(Entry(i), 2^h)  BY LookedIs, Zenon DEF Rooted
  <2> HIDE DEF i, h
  <2> QED BY <1>4, <2>2, <2>3, <2>4, Zenon
<1>6. NatWord(Looked(d, FALSE))
  <2>1. Looked(d, FALSE) = ShiftedBack(Entry(f), 2^k)  BY LookedIs, Zenon DEF Scaled
  <2> HIDE DEF f, k
  <2>2. f <= 1023  BY <1>3, SMT
  <2> QED BY <1>2, <1>3, <1>4, <2>1, <2>2, Zenon
<1> QED BY <1>5, <1>6, Zenon

\* A quotient fits 32 bits.
LEMMA QuotientWord ==
  ASSUME NEW x, Word(x), NEW sqrt \in BOOLEAN
  PROVE  Word(Quotient(x, sqrt))
<1> DEFINE d == Magnitude(x)
           r == Looked(d, sqrt)
           q == Quotient(x, sqrt)
<1>1. x \in Int
  BY DEF Word
<1>2. ASSUME Magnitudes(d) PROVE r \in Nat /\ r <= 2147483647
  BY <1>2, LookedRange, SMT DEF NatWord
<1> HIDE DEF d, r, q
<1>3. CASE x = 0
  <2>1. q = 2147483647  BY <1>1, <1>3, QuotientCases, SMT DEF q
  <2>2. Word(q)  BY <2>1, SMT DEF Word
  <2> QED BY <2>2 DEF q
<1>4. CASE x = -32768
  <2>1. q = -65536  BY <1>1, <1>4, QuotientCases, SMT DEF q
  <2>2. Word(q)  BY <2>1, SMT DEF Word
  <2> QED BY <2>2 DEF q
<1>5. CASE x > 0
  <2>1. Magnitudes(d) /\ q = r  BY <1>1, <1>5, QuotientCases, SMT DEF d, q, r
  <2>2. Word(q)  BY <2>1, <1>2, SMT DEF Word
  <2> QED BY <2>2 DEF q
<1>6. CASE x < 0 /\ x # -32768
  <2>1. Magnitudes(d) /\ q = -r - 1  BY <1>1, <1>6, QuotientCases, SMT DEF d, q, r
  <2>2. Word(q)  BY <2>1, <1>2, SMT DEF Word
  <2> QED BY <2>2 DEF q
<1> QED BY <1>1, <1>3, <1>4, <1>5, <1>6, SMT

\* The reciprocal of a magnitude, and of its successor where the code
\* complements a negative operand instead of negating it; the root of a small one.
LEMMA LookedNear ==
  ASSUME NEW d, Magnitudes(d), NEW sqrt \in BOOLEAN
  PROVE  /\ d \in Nat /\ NatWord(Looked(d, sqrt))
         /\ ~sqrt => NearReciprocal(d, Looked(d, sqrt))
         /\ ~sqrt /\ d >= 512 => NearReciprocal(d + 1, Looked(d, sqrt))
         /\ sqrt => NearRoot(d, Looked(d, sqrt))
<1>1. d \in Nat /\ d >= 1 /\ d < 2^31
  BY SMT DEF Magnitudes
<1>2. Looked(d, FALSE) = Scaled(d, Fraction(d)) /\ Looked(d, TRUE) = Rooted(d)
  BY LookedIs, Zenon
<1>3. /\ NearReciprocal(d, Scaled(d, Fraction(d)))
      /\ d >= 512 => NearReciprocal(d + 1, Scaled(d, Fraction(d)))
  BY <1>1, ReciprocalNear
<1>4. NearRoot(d, Rooted(d))
  <2> DEFINE small == d < 4096
  <2>1. CASE small
    <3>1. FewBits(d)  BY <1>1, <2>1, SMT DEF FewBits
    <3> QED BY <3>1, <1>1, RootNear
  <2>2. CASE ~small
    BY <2>2, SMT DEF NearRoot
  <2> HIDE DEF small
  <2> QED BY <2>1, <2>2, Zenon
<1>5. NatWord(Looked(d, sqrt))
  BY LookedRange
<1>6. CASE sqrt
  <2>1. sqrt = TRUE  BY <1>6
  <2> QED BY <2>1, <1>1, <1>2, <1>4, <1>5, Zenon
<1>7. CASE ~sqrt
  <2>1. sqrt = FALSE  BY <1>7
  <2> QED BY <2>1, <1>1, <1>2, <1>3, <1>5, Zenon
<1> QED BY <1>6, <1>7, Zenon

\* The quotient of every 32-bit operand is as precise as the property asks.
LEMMA QuotientAccurate ==
  ASSUME NEW x, Word(x), NEW sqrt \in BOOLEAN
  PROVE  Accurate(x, sqrt, Quotient(x, sqrt))
<1> DEFINE d == Magnitude(x)
           r == Looked(d, sqrt)
           q == Quotient(x, sqrt)
<1>1. x \in Int
  BY DEF Word
<1>2. ASSUME Magnitudes(d)
      PROVE  /\ d \in Nat /\ r \in Nat
             /\ ~sqrt => NearReciprocal(d, r)
             /\ ~sqrt /\ d >= 512 => NearReciprocal(d + 1, r)
             /\ sqrt => NearRoot(d, r)
  <2>1. /\ d \in Nat /\ NatWord(r)
        /\ ~sqrt => NearReciprocal(d, r)
        /\ ~sqrt /\ d >= 512 => NearReciprocal(d + 1, r)
        /\ sqrt => NearRoot(d, r)
    BY <1>2, LookedNear
  <2>2. r \in Nat
    <3> HIDE DEF r
    <3> QED BY <2>1, SMT DEF NatWord
  <2> QED BY <2>1, <2>2
<1> HIDE DEF d, r, q
<1>3. CASE x = 0
  <2>1. q = 2147483647  BY <1>1, <1>3, QuotientCases, SMT DEF q
  <2>2. Accurate(x, sqrt, q)  BY <2>1, <1>3, SMT DEF Accurate
  <2> QED BY <2>2 DEF q
<1>4. CASE x = -32768
  <2>1. q = -65536  BY <1>1, <1>4, QuotientCases, SMT DEF q
  <2>2. NearReciprocal(-x, -1 - q)  BY <2>1, <1>4, SMT DEF NearReciprocal
  <2>3. Accurate(x, sqrt, q)  BY <2>2, <1>4, SMT DEF Accurate
  <2> QED BY <2>3 DEF q
<1>5. CASE x > 0
  <2>1. d = x /\ Magnitudes(d) /\ q = r
    BY <1>1, <1>5, QuotientCases, SMT DEF d, q, r
  <2>2. (~sqrt => NearReciprocal(x, q)) /\ (sqrt => NearRoot(x, q))
    BY <2>1, <1>2, Zenon
  <2>3. Accurate(x, sqrt, q)  BY <2>2, <1>1, <1>5, SMT DEF Accurate
  <2> QED BY <2>3 DEF q
<1>6. CASE x < 0 /\ x > -32768
  <2>1. d = -x /\ Magnitudes(d) /\ q = -r - 1
    BY <1>1, <1>6, QuotientCases, SMT DEF d, q, r
  <2>2. -1 - q = r  BY <2>1, <1>2, SMT
  <2>3. ~sqrt => NearReciprocal(-x, -1 - q)  BY <2>1, <2>2, <1>2, Zenon
  <2>4. Accurate(x, sqrt, q)  BY <2>3, <1>1, <1>6, SMT DEF Accurate
  <2> QED BY <2>4 DEF q
<1>7. CASE x < -32768
  <2>1. d = -(x + 1) /\ Magnitudes(d) /\ q = -r - 1
    BY <1>1, <1>7, QuotientCases, SMT DEF d, q, r
  <2>2. -1 - q = r /\ d >= 512 /\ d + 1 = -x  BY <2>1, <1>1, <1>2, <1>7, SMT
  <2>3. ~sqrt => NearReciprocal(-x, -1 - q) /\ NearReciprocal(-(x + 1), -1 - q)
    BY <2>1, <2>2, <1>2, Zenon
  <2>4. Accurate(x, sqrt, q)  BY <2>3, <1>1, <1>7, SMT DEF Accurate
  <2> QED BY <2>4 DEF q
<1> QED BY <1>1, <1>3, <1>4, <1>5, <1>6, <1>7, SMT

-----------------------------------------------------------------------------
(* The registers of the divider and the instructions before agree on what  *)
(* is being divided.                                                       *)
DivInv ==
    /\ DividerTypeOK
    /\ given \in Element \cup {Nothing}
    /\ dp_flag = (IF given = Nothing THEN 0 ELSE 1)
    /\ given # Nothing => div_in = int16(given)
    /\ last.done =>
          /\ last.sqrt \in BOOLEAN
          /\ Word(last.operand)
          /\ Joined(div_out, last.low) = Quotient(last.operand, last.sqrt)

\* The halves of a word.
LEMMA WordHalves ==
  ASSUME NEW q, Word(q)
  PROVE  /\ Upper(q) \in Int16
         /\ Lower(q) \in Unsigned16
         /\ Joined(Upper(q), Lower(q)) = q
<1> DEFINE h == q \div 65536
           l == q % 65536
<1>1. q \in Int /\ q >= -2147483648 /\ q <= 2147483647
  BY SMT DEF Word
<1>2. h \in Int /\ l \in Int /\ 0 <= l /\ l <= 65535 /\ q = 65536 * h + l
  BY <1>1, SMT
<1> HIDE DEF h, l
<1>3. -32768 <= h /\ h <= 32767
  BY <1>1, <1>2, SMT
<1>4. h \in Int16 /\ l \in Unsigned16
  BY <1>2, <1>3, SMT DEF Int16, Unsigned16
<1>5. Upper(q) = h /\ Lower(q) = l
  BY SMT DEF Upper, Lower, h, l
<1>6. Joined(h, l) = q
  BY <1>2, SMT DEF Joined
<1> QED BY <1>4, <1>5, <1>6, Zenon

\* Operands put together from elements are words.
LEMMA Operands ==
  ASSUME NEW x \in Unsigned16, NEW h \in Unsigned16
  PROVE  /\ int16(x) \in Int16
         /\ Word(int16(x)) /\ Word(Joined(int16(h), x))
BY SMT DEF Unsigned16, Int16, int16, Word, Joined

\* An element is never mistaken for the absence of one.
LEMMA ProgramElements == \A x \in Element : x \in Unsigned16 /\ x # Nothing
<1>1. \A x \in Unsigned16 : x # Nothing
  BY SMT DEF Unsigned16, Nothing
<1> QED BY <1>1, ElementAssumption

\* A division of what was asked keeps the invariant.
LEMMA DivideKeeps ==
  ASSUME DivInv, NEW input, Word(input), NEW sqrt \in BOOLEAN,
         Divide(input, sqrt, input)
  PROVE  DivInv'
<1> DEFINE q == Quotient(input, sqrt)
<1>1. Word(q)
  BY QuotientWord
<1>2. /\ Upper(q) \in Int16
      /\ Lower(q) \in Unsigned16
      /\ Joined(Upper(q), Lower(q)) = q
  BY <1>1, WordHalves
<1>3. /\ div_out' = Upper(q) /\ out' = Lower(q) /\ dp_flag' = 0
      /\ given' = Nothing /\ div_in' = div_in
      /\ last' = [done |-> TRUE, sqrt |-> sqrt, operand |-> input, low |-> Lower(q)]
  BY DEF Divide
<1> HIDE DEF q
<1>4. DividerTypeOK'
  BY <1>2, <1>3, SMT DEF DivInv, DividerTypeOK
<1>5. last'.sqrt = sqrt /\ last'.operand = input /\ last'.low = Lower(q)
  BY <1>3
<1>6. Joined(div_out', last'.low) = q
  BY <1>2, <1>3, <1>5, Zenon
<1> QED BY <1>3, <1>4, <1>5, <1>6, Zenon DEF DivInv, q

\* So does VRCPH or VRSQH.
LEMMA HighKeeps ==
  ASSUME DivInv, NEW x \in Element, High(x)
  PROVE  DivInv'
<1>1. x \in Unsigned16 /\ x # Nothing
  BY ProgramElements
<1>2. int16(x) \in Int16
  BY <1>1, Operands
<1>3. /\ dp_flag' = 1 /\ div_in' = int16(x) /\ out' = Lower(div_out) /\ given' = x
      /\ div_out' = div_out /\ last' = last
  BY DEF High
<1>4. Lower(div_out) \in Unsigned16
  <2>1. Word(div_out)  BY SMT DEF DivInv, DividerTypeOK, Int16, Word
  <2> QED BY <2>1, WordHalves
<1>5. DividerTypeOK'
  BY <1>2, <1>3, <1>4, SMT DEF DivInv, DividerTypeOK
<1> QED BY <1>1, <1>3, <1>5, Zenon DEF DivInv

\* VRCPL and VRSQL divide what the program has asked for.
LEMMA DoubleIsAsked ==
  ASSUME DivInv, NEW x \in Element
  PROVE  DoubleOperand(x) = Asked(x) /\ Word(Asked(x)) /\ Word(int16(x))
<1>1. x \in Unsigned16
  BY ProgramElements
<1>2. CASE given = Nothing
  <2>1. dp_flag = 0  BY <1>2, Zenon DEF DivInv
  <2>2. ~(dp_flag % 2 = 1)  BY <2>1, SMT
  <2> QED BY <2>2, <1>1, <1>2, Operands, Zenon DEF DoubleOperand, Asked
<1>3. CASE given # Nothing
  <2>1. dp_flag = 1 /\ div_in = int16(given) /\ given \in Element  BY <1>3, Zenon DEF DivInv
  <2>2. dp_flag % 2 = 1  BY <2>1, SMT
  <2>3. given \in Unsigned16  BY <2>1, ProgramElements
  <2> QED BY <2>1, <2>2, <2>3, <1>1, <1>3, Operands, Zenon DEF DoubleOperand, Asked
<1> QED BY <1>2, <1>3

\* The invariant holds of every execution.
LEMMA DivInvInductive == DivSpec => []DivInv
<1>1. DivInit => DivInv
  <2> SUFFICES ASSUME DivInit PROVE DivInv
    OBVIOUS
  <2>1. DividerTypeOK  BY SMT DEF DivInit, DividerTypeOK, Int16, Unsigned16
  <2> QED BY <2>1, Zenon DEF DivInit, DivInv
<1>2. DivInv /\ [DivNext]_divVars => DivInv'
  <2> SUFFICES ASSUME DivInv, [DivNext]_divVars PROVE DivInv'
    OBVIOUS
  <2> USE DoubleIsAsked
  <2>1. ASSUME NEW x \in Element, VRCP(x) PROVE DivInv'
    BY <2>1, DivideKeeps, Zenon DEF VRCP
  <2>2. ASSUME NEW x \in Element, VRSQ(x) PROVE DivInv'
    BY <2>2, DivideKeeps, Zenon DEF VRSQ
  <2>3. ASSUME NEW x \in Element, VRCPL(x) PROVE DivInv'
    BY <2>3, DivideKeeps, Zenon DEF VRCPL
  <2>4. ASSUME NEW x \in Element, VRSQL(x) PROVE DivInv'
    BY <2>4, DivideKeeps, Zenon DEF VRSQL
  <2>5. ASSUME NEW x \in Element, VRCPH(x) PROVE DivInv'
    BY <2>5, HighKeeps, Zenon DEF VRCPH
  <2>6. ASSUME NEW x \in Element, VRSQH(x) PROVE DivInv'
    BY <2>6, HighKeeps, Zenon DEF VRSQH
  <2>7. CASE UNCHANGED divVars
    BY <2>7, Zenon DEF divVars, DivInv, DividerTypeOK
  <2> QED BY <2>1, <2>2, <2>3, <2>4, <2>5, <2>6, <2>7 DEF DivNext
<1> QED BY <1>1, <1>2, PTL DEF DivSpec

\* Whatever program of VRCP, VRSQ and their halves runs, the quotient left in
\* div_out and the destination is that of the operand the program put
\* together, to the precision of the ROM, for every 32-bit operand.
THEOREM DividesItsOperand == DivSpec => []QuotientOfOperand
<1>1. DivInv => QuotientOfOperand
  <2> SUFFICES ASSUME DivInv PROVE QuotientOfOperand
    OBVIOUS
  <2>1. DividerTypeOK  BY DEF DivInv
  <2>2. ASSUME last.done
        PROVE  Accurate(last.operand, last.sqrt, Joined(div_out, last.low))
    BY <2>2, QuotientAccurate, Zenon DEF DivInv
  <2> QED BY <2>1, <2>2 DEF QuotientOfOperand
<1> QED BY <1>1, DivInvInductive, PTL

-----------------------------------------------------------------------------
(* The moves between register files and the operand shuffles.              *)

\* The widths, as inequalities.
LEMMA Widths ==
  /\ \A x \in Int : x \in Bits16 <=> 0 <= x /\ x <= 65535
  /\ \A x \in Int : x \in SignExtended16 <=> -32768 <= x /\ x <= 32767
  /\ \A x \in Bits16 : x \in Int /\ 0 <= x /\ x <= 65535
  /\ \A x \in SignExtended16 : x \in Int /\ -32768 <= x /\ x <= 32767
<1>1. \A x \in Int : x \in Bits16 <=> 0 <= x /\ x <= 65535
  BY SMT DEF Bits16
<1>2. \A x \in Int : x \in SignExtended16 <=> -32768 <= x /\ x <= 32767
  BY SMT DEF SignExtended16
<1>3. \A x \in Bits16 : x \in Int
  BY SMT DEF Bits16
<1>4. \A x \in SignExtended16 : x \in Int
  BY SMT DEF SignExtended16
<1> QED BY <1>1, <1>2, <1>3, <1>4, SMT

\* The results of sign extension.
LEMMA SignExtends == \A x \in Bits16 : SignExtended(x) \in SignExtended16
BY Widths, SMT DEF SignExtended

\* A scalar register holds sixteen bits, r0 zero.
LEMMA SRWidth ==
  ASSUME MovesTypeOK, NEW rt \in Scalar
  PROVE  SR(rt) \in Bits16
<1>1. CASE rt = 0
  <2>1. 0 \in Bits16  BY SMT DEF Bits16
  <2> QED BY <2>1, <1>1 DEF SR
<1>2. CASE rt # 0
  <2>1. sr[rt] \in SignExtended16  BY <1>2 DEF MovesTypeOK, Writable
  <2>2. \A x \in SignExtended16 : Unsigned(x) \in Bits16
    <3> SUFFICES ASSUME NEW x \in SignExtended16 PROVE Unsigned(x) \in Bits16
      OBVIOUS
    <3>1. x \in Int  BY Widths
    <3>2. Unsigned(x) \in Int /\ 0 <= Unsigned(x) /\ Unsigned(x) <= 65535
      BY <3>1, SMT DEF Unsigned
    <3> QED BY <3>2, SMT DEF Bits16
  <2> QED BY <2>1, <2>2, <1>2, Zenon DEF SR
<1> QED BY <1>1, <1>2

\* The two bytes of an element.
Pack(h, l) == 256 * h + l
HighByte(x) == x \div 256
LowByte(x) == x % 256

\* An element is its two bytes.
LEMMA Bytes ==
  ASSUME NEW x \in Bits16
  PROVE  /\ HighByte(x) \in 0 .. 255 /\ LowByte(x) \in 0 .. 255
         /\ x = Pack(HighByte(x), LowByte(x))
<1>1. x \in Int /\ 0 <= x /\ x <= 65535
  BY Widths
<1> QED BY <1>1, SMT DEF HighByte, LowByte, Pack

\* Two bytes are an element.
LEMMA Compose ==
  ASSUME NEW h \in 0 .. 255, NEW l \in 0 .. 255
  PROVE  Pack(h, l) \in Bits16 /\ HighByte(Pack(h, l)) = h /\ LowByte(Pack(h, l)) = l
<1> DEFINE x == 256 * h + l
<1>1. x \in Int /\ 0 <= x /\ x <= 65535
  BY SMT
<1>2. HighByte(x) = h /\ LowByte(x) = l
  BY SMT DEF HighByte, LowByte
<1> HIDE DEF x
<1>3. x \in Bits16
  BY <1>1, SMT DEF Bits16
<1> QED BY <1>2, <1>3 DEF x, Pack

\* What an odd move does to the elements it straddles.
LEMMA Straddle ==
  ASSUME NEW x \in Bits16, NEW v \in Bits16
  PROVE  /\ (x - (x % 256)) + (v \div 256) = Pack(HighByte(x), HighByte(v))
         /\ (v % 256) * 256 + (x % 256) = Pack(LowByte(v), LowByte(x))
<1> DEFINE a == HighByte(x)
           b == LowByte(x)
           c == HighByte(v)
           d == LowByte(v)
<1>1. a \in Int /\ b \in Int /\ c \in Int /\ d \in Int /\ x = 256 * a + b
  <2>1. a \in 0 .. 255 /\ b \in 0 .. 255 /\ c \in 0 .. 255 /\ d \in 0 .. 255 /\ x = 256 * a + b
    BY Bytes, SMT DEF Pack
  <2> HIDE DEF a, b, c, d
  <2> QED BY <2>1, SMT
<1>2. x % 256 = b /\ v \div 256 = c /\ v % 256 = d
  BY DEF HighByte, LowByte
<1> HIDE DEF a, b, c, d
<1>3. (x - b) + c = 256 * a + c /\ d * 256 + b = 256 * d + b
  BY <1>1, SMT
<1> QED BY <1>2, <1>3, SMT DEF a, b, c, d, Pack

\* MTC2 writes the bytes e and e + 1, the second unless e is the last, and no other.
LEMMA MovesTo ==
  ASSUME NEW r \in [Elem -> Bits16], NEW v \in Bits16, NEW e \in Byte
  PROVE  /\ MovedTo(r, v, e) \in [Elem -> Bits16]
         /\ \A k \in Byte : ByteAt(MovedTo(r, v, e), k) =
               IF k = e THEN v \div 256 ELSE IF k = e + 1 THEN v % 256 ELSE ByteAt(r, k)
<1> DEFINE i == e \div 2
           s == MovedTo(r, v, e)
<1>1. i \in Elem /\ e \in 0 .. 15
  BY SMT DEF Elem, Byte
<1>2. \A j \in Elem : r[j] \in Bits16
  OBVIOUS
<1>3. \A b : ByteAt(b, 0) = HighByte(b[0]) /\ ByteAt(b, 1) = LowByte(b[0])
  BY SMT DEF ByteAt, HighByte, LowByte
<1>4. \A b, k : k \in Byte => ByteAt(b, k) = IF k % 2 = 0 THEN HighByte(b[k \div 2]) ELSE LowByte(b[k \div 2])
  BY Zenon DEF ByteAt, HighByte, LowByte
<1>5. HighByte(v) = v \div 256 /\ LowByte(v) = v % 256
  BY DEF HighByte, LowByte
<1>6. CASE e % 2 = 0
  <2>1. s = [r EXCEPT ![i] = v]  BY <1>6, Zenon DEF MovedTo
  <2>2. s \in [Elem -> Bits16]  BY <2>1
  <2>3. s[i] = v /\ \A j \in Elem : j # i => s[j] = r[j]  BY <2>1, <1>1
  <2> HIDE DEF s
  <2>4. ASSUME NEW k \in Byte
        PROVE  ByteAt(s, k) = IF k = e THEN HighByte(v) ELSE IF k = e + 1 THEN LowByte(v) ELSE ByteAt(r, k)
    <3>1. k \div 2 \in Elem  BY SMT DEF Elem, Byte
    <3>2. k = e => k % 2 = 0 /\ k \div 2 = i  BY <1>6
    <3>3. k = e + 1 => k % 2 # 0 /\ k \div 2 = i /\ k # e  BY <1>1, <1>6, SMT
    <3>4. k # e /\ k # e + 1 => k \div 2 # i  BY <1>1, <1>6, SMT DEF Byte
    <3> HIDE DEF i
    <3> QED BY <3>1, <3>2, <3>3, <3>4, <2>3, <1>4, Zenon
  <2> QED BY <2>2, <2>4, <1>5 DEF s
<1>7. CASE e % 2 # 0
  <2> DEFINE x == Pack(HighByte(r[i]), HighByte(v))
             first == [r EXCEPT ![i] = x]
             y == Pack(LowByte(v), LowByte(r[i + 1]))
  <2>1. first = [r EXCEPT ![i] = (@ - (@ % 256)) + (v \div 256)]
    <3>1. (r[i] - (r[i] % 256)) + (v \div 256) = x  BY <1>1, <1>2, Straddle
    <3> QED BY <3>1
  <2>2. x \in Bits16 /\ HighByte(x) = HighByte(r[i]) /\ LowByte(x) = HighByte(v)
    BY <1>1, <1>2, Bytes, Compose
  <2> HIDE DEF x
  <2>3. first \in [Elem -> Bits16] /\ first[i] = x /\ \A j \in Elem : j # i => first[j] = r[j]
    BY <1>1, <2>2
  <2> HIDE DEF first
  <2>4. CASE e = 15
    <3>1. s = first  BY <1>7, <2>1, <2>4, Zenon DEF MovedTo
    <3> HIDE DEF s
    <3>2. ASSUME NEW k \in Byte
          PROVE  ByteAt(s, k) = IF k = e THEN HighByte(v) ELSE IF k = e + 1 THEN LowByte(v) ELSE ByteAt(r, k)
      <4>1. k \div 2 \in Elem  BY SMT DEF Elem, Byte
      <4>2. k = e => k % 2 # 0 /\ k \div 2 = i  BY <1>7
      <4>3. k # e + 1  BY <2>4, SMT DEF Byte
      <4>4. k # e => k \div 2 # i \/ k % 2 = 0  BY <1>1, <1>7, SMT DEF Byte
      <4> HIDE DEF i
      <4> QED BY <4>1, <4>2, <4>3, <4>4, <3>1, <2>2, <2>3, <1>4, Zenon
    <3> QED BY <3>1, <3>2, <2>3, <1>5 DEF s
  <2>5. CASE e # 15
    <3>1. i + 1 \in Elem /\ i + 1 # i  BY <1>1, <1>7, <2>5, SMT DEF Elem
    <3>2. first[i + 1] = r[i + 1] /\ r[i + 1] \in Bits16  BY <3>1, <2>3
    <3>3. s = [first EXCEPT ![i + 1] = y]
      <4>1. s = [first EXCEPT ![i + 1] = (v % 256) * 256 + (@ % 256)]
        BY <1>7, <2>1, <2>5, Zenon DEF MovedTo
      <4>2. (v % 256) * 256 + (first[i + 1] % 256) = y  BY <3>2, Straddle
      <4> QED BY <4>1, <4>2, <2>3, <3>1
    <3>4. y \in Bits16 /\ HighByte(y) = LowByte(v) /\ LowByte(y) = LowByte(r[i + 1])
      BY <3>2, Bytes, Compose
    <3> HIDE DEF y, s
    <3>5. s \in [Elem -> Bits16] /\ s[i] = x /\ s[i + 1] = y
          /\ \A j \in Elem : j # i /\ j # i + 1 => s[j] = r[j]
      BY <3>1, <3>3, <3>4, <2>3, <1>1
    <3>6. ASSUME NEW k \in Byte
          PROVE  ByteAt(s, k) = IF k = e THEN HighByte(v) ELSE IF k = e + 1 THEN LowByte(v) ELSE ByteAt(r, k)
      <4>1. k \div 2 \in Elem  BY SMT DEF Elem, Byte
      <4>2. k = e => k % 2 # 0 /\ k \div 2 = i  BY <1>7
      <4>3. k = e + 1 => k % 2 = 0 /\ k \div 2 = i + 1 /\ k # e  BY <1>1, <1>7, SMT
      <4>4. k # e => k \div 2 # i \/ k % 2 = 0  BY <1>1, <1>7, SMT DEF Byte
      <4>5. k # e + 1 => k \div 2 # i + 1 \/ k % 2 # 0  BY <1>1, <1>7, SMT DEF Byte
      <4> HIDE DEF i
      <4> QED BY <4>1, <4>2, <4>3, <4>4, <4>5, <3>1, <3>4, <3>5, <2>2, <1>4, Zenon
    <3> QED BY <3>5, <3>6, <1>5 DEF s
  <2> QED BY <2>4, <2>5
<1> QED BY <1>6, <1>7

\* MFC2 reads the bytes e and e + 1, wrapping.
LEMMA MovesFrom ==
  ASSUME NEW r \in [Elem -> Bits16], NEW e \in Byte
  PROVE  /\ MovedFrom(r, e) = SignExtended(256 * ByteAt(r, e) + ByteAt(r, (e + 1) % 16))
         /\ MovedFrom(r, e) \in SignExtended16
<1> DEFINE lo == e \div 2
           hi == ((e + 1) \div 2) % 8
           n == (e + 1) % 16
<1>1. lo \in Elem /\ hi \in Elem /\ n \in Byte
  BY SMT DEF Elem, Byte
<1>2. \A j \in Elem : r[j] \in Bits16
  OBVIOUS
<1>3. \A k \in Byte : ByteAt(r, k) = IF k % 2 = 0 THEN HighByte(r[k \div 2]) ELSE LowByte(r[k \div 2])
  BY Zenon DEF ByteAt, HighByte, LowByte
<1>4. \A x \in Bits16 : /\ HighByte(x) \in 0 .. 255 /\ LowByte(x) \in 0 .. 255
                       /\ Pack(HighByte(x), LowByte(x)) = x
  BY Bytes
<1>5. CASE e % 2 = 0
  <2>1. n % 2 # 0 /\ n \div 2 = lo  BY <1>5, SMT DEF Byte
  <2>2. ByteAt(r, e) = HighByte(r[lo]) /\ ByteAt(r, n) = LowByte(r[lo])
    BY <1>1, <1>3, <1>5, <2>1, Zenon
  <2>3. 256 * ByteAt(r, e) + ByteAt(r, n) = r[lo]
    BY <1>1, <1>2, <1>4, <2>2 DEF Pack
  <2>4. MovedFrom(r, e) = SignExtended(r[lo])  BY <1>5, Zenon DEF MovedFrom
  <2> QED BY <1>1, <1>2, <2>3, <2>4, SignExtends
<1>6. CASE e % 2 # 0
  <2>1. n % 2 = 0 /\ n \div 2 = hi  BY <1>6, SMT DEF Byte
  <2>2. ByteAt(r, e) = LowByte(r[lo]) /\ ByteAt(r, n) = HighByte(r[hi])
    BY <1>1, <1>3, <1>6, <2>1, Zenon
  <2>3. ASSUME NEW x \in Bits16, NEW y \in Bits16
        PROVE  Unsigned(x * 256) + (y \div 256) = Pack(LowByte(x), HighByte(y))
    <3> DEFINE h == HighByte(x)
               l == LowByte(x)
               m == HighByte(y)
    <3>1. h \in 0 .. 255 /\ l \in 0 .. 255 /\ m \in 0 .. 255 /\ x = 256 * h + l
      BY <1>4 DEF Pack
    <3>2. y \div 256 = m  BY DEF HighByte
    <3> HIDE DEF h, l, m
    <3>3. x * 256 = 65536 * h + 256 * l /\ 0 <= 256 * l /\ 256 * l <= 65535
      BY <3>1, SMT
    <3>4. (x * 256) % 65536 = 256 * l  BY <3>1, <3>3, SMT
    <3> QED BY <3>1, <3>2, <3>4, SMT DEF Unsigned, Pack, l, m
  <2>4. MovedFrom(r, e) = SignExtended(Unsigned(r[lo] * 256) + (r[hi] \div 256))
    BY <1>6, Zenon DEF MovedFrom
  <2>5. MovedFrom(r, e) = SignExtended(Pack(LowByte(r[lo]), HighByte(r[hi])))
    BY <1>1, <1>2, <2>3, <2>4
  <2>6. Pack(LowByte(r[lo]), HighByte(r[hi])) \in Bits16
    BY <1>1, <1>2, <1>4, Compose
  <2> QED BY <2>2, <2>5, <2>6, SignExtends DEF Pack
<1> QED BY <1>5, <1>6

-----------------------------------------------------------------------------
(* What rsp_set_flags takes apart, rsp_get_flags puts together again.      *)

\* The bits of a word are the parities of its halves.
LEMMA Parity ==
  ASSUME NEW x \in Nat
  PROVE  x = 2 * (x \div 2) + (x % 2) /\ x \div 2 \in Nat /\ x % 2 \in 0 .. 1
BY SMT

\* A byte is the sum of its bits.
LEMMA BitsOf ==
  ASSUME NEW x \in Nat
  PROVE  Weight(BitOf(x, 0), 1) + Weight(BitOf(x, 1), 2) + Weight(BitOf(x, 2), 4)
         + Weight(BitOf(x, 3), 8) + Weight(BitOf(x, 4), 16) + Weight(BitOf(x, 5), 32)
         + Weight(BitOf(x, 6), 64) + Weight(BitOf(x, 7), 128) = x % 256
<1> DEFINE a1 == x \div 2
           a2 == a1 \div 2
           a3 == a2 \div 2
           a4 == a3 \div 2
           a5 == a4 \div 2
           a6 == a5 \div 2
           a7 == a6 \div 2
           a8 == a7 \div 2
           b0 == x % 2
           b1 == a1 % 2
           b2 == a2 % 2
           b3 == a3 % 2
           b4 == a4 % 2
           b5 == a5 % 2
           b6 == a6 % 2
           b7 == a7 % 2
<1>1. a1 \in Nat /\ x = 2 * a1 + b0 /\ b0 \in 0 .. 1
  BY Parity
<1>2. a2 \in Nat /\ a1 = 2 * a2 + b1 /\ b1 \in 0 .. 1
  BY <1>1, Parity
<1>3. a3 \in Nat /\ a2 = 2 * a3 + b2 /\ b2 \in 0 .. 1
  BY <1>2, Parity
<1>4. a4 \in Nat /\ a3 = 2 * a4 + b3 /\ b3 \in 0 .. 1
  BY <1>3, Parity
<1>5. a5 \in Nat /\ a4 = 2 * a5 + b4 /\ b4 \in 0 .. 1
  BY <1>4, Parity
<1>6. a6 \in Nat /\ a5 = 2 * a6 + b5 /\ b5 \in 0 .. 1
  BY <1>5, Parity
<1>7. a7 \in Nat /\ a6 = 2 * a7 + b6 /\ b6 \in 0 .. 1
  BY <1>6, Parity
<1>8. a8 \in Nat /\ a7 = 2 * a8 + b7 /\ b7 \in 0 .. 1
  BY <1>7, Parity
<1> HIDE DEF a1, a2, a3, a4, a5, a6, a7, a8
<1>10. x \div 1 = x /\ x \div 2 = a1
  BY SMT DEF a1
<1>11. x \div 4 = a2
  BY <1>10, <1>1, SMT DEF a2
<1>12. x \div 8 = a3
  BY <1>11, <1>2, SMT DEF a3
<1>13. x \div 16 = a4
  BY <1>12, <1>3, SMT DEF a4
<1>14. x \div 32 = a5
  BY <1>13, <1>4, SMT DEF a5
<1>15. x \div 64 = a6
  BY <1>14, <1>5, SMT DEF a6
<1>16. x \div 128 = a7
  BY <1>15, <1>6, SMT DEF a7
<1>20. BitOf(x, 0) <=> b0 = 1
  BY <1>10, SMT DEF BitOf, b0
<1>21. BitOf(x, 1) <=> b1 = 1
  BY <1>10, SMT DEF BitOf, b1
<1>22. BitOf(x, 2) <=> b2 = 1
  BY <1>11, SMT DEF BitOf, b2
<1>23. BitOf(x, 3) <=> b3 = 1
  BY <1>12, SMT DEF BitOf, b3
<1>24. BitOf(x, 4) <=> b4 = 1
  BY <1>13, SMT DEF BitOf, b4
<1>25. BitOf(x, 5) <=> b5 = 1
  BY <1>14, SMT DEF BitOf, b5
<1>26. BitOf(x, 6) <=> b6 = 1
  BY <1>15, SMT DEF BitOf, b6
<1>27. BitOf(x, 7) <=> b7 = 1
  BY <1>16, SMT DEF BitOf, b7
<1> HIDE DEF b0, b1, b2, b3, b4, b5, b6, b7
<1>30. Weight(BitOf(x, 0), 1) = b0
  BY <1>20, <1>1, SMT DEF Weight
<1>31. Weight(BitOf(x, 1), 2) = 2 * b1
  BY <1>21, <1>2, SMT DEF Weight
<1>32. Weight(BitOf(x, 2), 4) = 4 * b2
  BY <1>22, <1>3, SMT DEF Weight
<1>33. Weight(BitOf(x, 3), 8) = 8 * b3
  BY <1>23, <1>4, SMT DEF Weight
<1>34. Weight(BitOf(x, 4), 16) = 16 * b4
  BY <1>24, <1>5, SMT DEF Weight
<1>35. Weight(BitOf(x, 5), 32) = 32 * b5
  BY <1>25, <1>6, SMT DEF Weight
<1>36. Weight(BitOf(x, 6), 64) = 64 * b6
  BY <1>26, <1>7, SMT DEF Weight
<1>37. Weight(BitOf(x, 7), 128) = 128 * b7
  BY <1>27, <1>8, SMT DEF Weight
<1>40. x = b0 + 2 * b1 + 4 * b2 + 8 * b3 + 16 * b4 + 32 * b5 + 64 * b6 + 128 * b7 + 256 * a8
  BY <1>1, <1>2, <1>3, <1>4, <1>5, <1>6, <1>7, <1>8, SMT
<1> DEFINE m == b0 + 2 * b1 + 4 * b2 + 8 * b3 + 16 * b4 + 32 * b5 + 64 * b6 + 128 * b7
<1>41. m \in Int /\ 0 <= m /\ m <= 255
  BY <1>1, <1>2, <1>3, <1>4, <1>5, <1>6, <1>7, <1>8, SMT
<1>42. x % 256 = m
  <2>1. x = m + 256 * a8  BY <1>40
  <2> HIDE DEF m
  <2> QED BY <2>1, <1>8, <1>41, SMT
<1> QED BY <1>30, <1>31, <1>32, <1>33, <1>34, <1>35, <1>36, <1>37, <1>42

\* The high byte's bits are the word's upper bits.
LEMMA UpperBits ==
  ASSUME NEW x \in Nat
  PROVE  /\ BitOf(x, 8) <=> BitOf(x \div 256, 0)
         /\ BitOf(x, 9) <=> BitOf(x \div 256, 1)
         /\ BitOf(x, 10) <=> BitOf(x \div 256, 2)
         /\ BitOf(x, 11) <=> BitOf(x \div 256, 3)
         /\ BitOf(x, 12) <=> BitOf(x \div 256, 4)
         /\ BitOf(x, 13) <=> BitOf(x \div 256, 5)
         /\ BitOf(x, 14) <=> BitOf(x \div 256, 6)
         /\ BitOf(x, 15) <=> BitOf(x \div 256, 7)
<1>1. x \div 256 = (x \div 256) \div 1
  BY SMT
<1>2. x \div 512 = (x \div 256) \div 2
  BY SMT
<1>3. x \div 1024 = (x \div 256) \div 4
  BY SMT
<1>4. x \div 2048 = (x \div 256) \div 8
  BY SMT
<1>5. x \div 4096 = (x \div 256) \div 16
  BY SMT
<1>6. x \div 8192 = (x \div 256) \div 32
  BY SMT
<1>7. x \div 16384 = (x \div 256) \div 64
  BY SMT
<1>8. x \div 32768 = (x \div 256) \div 128
  BY SMT
<1> DEFINE h == x \div 256
<1>11. BitOf(x, 8) <=> BitOf(h, 0)
  BY <1>1, SMT DEF BitOf
<1>12. BitOf(x, 9) <=> BitOf(h, 1)
  BY <1>2, SMT DEF BitOf
<1>13. BitOf(x, 10) <=> BitOf(h, 2)
  BY <1>3, SMT DEF BitOf
<1>14. BitOf(x, 11) <=> BitOf(h, 3)
  BY <1>4, SMT DEF BitOf
<1>15. BitOf(x, 12) <=> BitOf(h, 4)
  BY <1>5, SMT DEF BitOf
<1>16. BitOf(x, 13) <=> BitOf(h, 5)
  BY <1>6, SMT DEF BitOf
<1>17. BitOf(x, 14) <=> BitOf(h, 6)
  BY <1>7, SMT DEF BitOf
<1>18. BitOf(x, 15) <=> BitOf(h, 7)
  BY <1>8, SMT DEF BitOf
<1> QED BY <1>11, <1>12, <1>13, <1>14, <1>15, <1>16, <1>17, <1>18

\* rsp_get_flags undoes rsp_set_flags, whatever was written.
LEMMA FlagsBack ==
  ASSUME NEW v \in Bits16
  PROVE  rsp_get_flags(rsp_set_flags(v)) = SignExtended(v)
<1> DEFINE f == rsp_set_flags(v)
<1>1. v \in Nat /\ v <= 65535
  BY Widths, SMT
<1>2. /\ f[0] = BitOf(v, 8)
      /\ f[1] = BitOf(v, 9)
      /\ f[2] = BitOf(v, 10)
      /\ f[3] = BitOf(v, 11)
      /\ f[4] = BitOf(v, 12)
      /\ f[5] = BitOf(v, 13)
      /\ f[6] = BitOf(v, 14)
      /\ f[7] = BitOf(v, 15)
      /\ f[8] = BitOf(v, 0)
      /\ f[9] = BitOf(v, 1)
      /\ f[10] = BitOf(v, 2)
      /\ f[11] = BitOf(v, 3)
      /\ f[12] = BitOf(v, 4)
      /\ f[13] = BitOf(v, 5)
      /\ f[14] = BitOf(v, 6)
      /\ f[15] = BitOf(v, 7)
  BY SMT DEF rsp_set_flags, Byte
<1> HIDE DEF f
<1>3. MoveMask(f, 8) = v % 256
  <2>1. f[8] = BitOf(v, 0) /\ f[8 + 1] = BitOf(v, 1) /\ f[8 + 2] = BitOf(v, 2) /\ f[8 + 3] = BitOf(v, 3) /\ f[8 + 4] = BitOf(v, 4) /\ f[8 + 5] = BitOf(v, 5) /\ f[8 + 6] = BitOf(v, 6) /\ f[8 + 7] = BitOf(v, 7)
    BY <1>2, SMT
  <2> QED BY <2>1, <1>1, BitsOf DEF MoveMask
<1>4. MoveMask(f, 0) = (v \div 256) % 256
  <2>1. (f[0] <=> BitOf(v \div 256, 0)) /\ (f[0 + 1] <=> BitOf(v \div 256, 1)) /\ (f[0 + 2] <=> BitOf(v \div 256, 2)) /\ (f[0 + 3] <=> BitOf(v \div 256, 3)) /\ (f[0 + 4] <=> BitOf(v \div 256, 4)) /\ (f[0 + 5] <=> BitOf(v \div 256, 5)) /\ (f[0 + 6] <=> BitOf(v \div 256, 6)) /\ (f[0 + 7] <=> BitOf(v \div 256, 7))
    BY <1>1, <1>2, UpperBits, SMT
  <2>2. v \div 256 \in Nat  BY <1>1, SMT
  <2>3. \A b, c, w : (b <=> c) => Weight(b, w) = Weight(c, w)  BY Zenon DEF Weight
  <2> QED BY <2>1, <2>2, <2>3, BitsOf DEF MoveMask
<1>5. (v % 256) + 256 * ((v \div 256) % 256) = v
  BY <1>1, SMT
<1> QED BY <1>3, <1>4, <1>5 DEF rsp_get_flags, f

-----------------------------------------------------------------------------
(* The shuffles.                                                           *)

\* The keys of the SSSE3 body are the lanes named.
LEMMA KeysName == \A e \in Byte, i \in Elem : shuffle_keys[e + 1][i + 1] = Named(e, i)
<1> DEFINE P(e) == \A i \in Elem : shuffle_keys[e + 1][i + 1] = Named(e, i)
<1>1. P(0) /\ P(1) /\ P(2) /\ P(3)
  BY SMT DEF shuffle_keys, Named, Elem
<1>2. P(4) /\ P(5) /\ P(6) /\ P(7)
  BY SMT DEF shuffle_keys, Named, Elem
<1>3. P(8) /\ P(9) /\ P(10) /\ P(11)
  BY SMT DEF shuffle_keys, Named, Elem
<1>4. P(12) /\ P(13) /\ P(14) /\ P(15)
  BY SMT DEF shuffle_keys, Named, Elem
<1> HIDE DEF P
<1>5. \A e \in Byte : P(e)
  BY <1>1, <1>2, <1>3, <1>4, SMT DEF Byte
<1> QED BY <1>5 DEF P

\* Lanes named are lanes.
LEMMA LanesNamed == \A e \in Byte, i \in Elem : Named(e, i) \in Elem
BY SMT DEF Named, Byte, Elem

\* The SSSE3 body loads the lanes named,
LEMMA Ssse3Loads ==
  ASSUME NEW r, NEW e \in Byte, NEW i \in Elem
  PROVE  LoadVtSsse3(r, e)[i] = r[Named(e, i)]
BY KeysName, Zenon DEF LoadVtSsse3

\* and so does the SSE2 body, for each of its four kinds of specifier.
LEMMA Sse2Loads ==
  ASSUME NEW r \in [Elem -> Bits16], NEW e \in Byte, NEW i \in Elem
  PROVE  LoadVtSse2(r, e)[i] = r[Named(e, i)]
<1>1. CASE e \in 0 .. 1
  BY <1>1, SMT DEF LoadVtSse2, Named, Elem
<1>2. CASE e = 2
  BY <1>2, SMT DEF LoadVtSse2, Shuffle4, Named, Elem
<1>3. CASE e = 3
  BY <1>3, SMT DEF LoadVtSse2, Shuffle4, Named, Elem
<1>4. CASE e \in 4 .. 7
  BY <1>4, SMT DEF LoadVtSse2, Named, Elem
<1>5. CASE e \in 8 .. 15
  BY <1>5, SMT DEF LoadVtSse2, Named, Elem
<1> QED BY <1>1, <1>2, <1>3, <1>4, <1>5, SMT DEF Byte

-----------------------------------------------------------------------------
(* A flag register holds the bits last written to it; VCE has eight.       *)
Kept(c, v) == IF c = 2 THEN v % 256 ELSE v

MoveInv ==
    /\ MovesTypeOK
    /\ wrote \in [0 .. 2 -> Bits16]
    /\ flag_regs = [c \in 0 .. 2 |-> rsp_set_flags(Kept(c, wrote[c]))]

\* VCO and VCC keep sixteen bits of what is written, VCE eight.
LEMMA KeptWidth ==
  ASSUME NEW v \in Bits16, NEW c \in 0 .. 2
  PROVE  /\ Kept(c, v) \in Bits16
         /\ SignExtended(Kept(c, v)) = IF c = 2 THEN v % 256 ELSE SignExtended(v)
         /\ Kept(c, v) = IF c = 2 THEN v % 256 ELSE v
<1>1. v \in Int /\ 0 <= v /\ v <= 65535
  BY Widths
<1> DEFINE l == v % 256
<1>2. l \in Int /\ 0 <= l /\ l <= 255
  BY <1>1, SMT
<1> HIDE DEF l
<1>3. l \in Bits16 /\ SignExtended(l) = l
  BY <1>2, SMT DEF Bits16, SignExtended
<1> QED BY <1>3 DEF Kept, l

\* The numbers 2 and 3 both name VCE.
LEMMA FlagRegIs ==
  ASSUME NEW rd \in 0 .. 3
  PROVE  FlagReg(rd) \in 0 .. 2 /\ (rd % 4 >= 2 <=> FlagReg(rd) = 2)
BY SMT DEF FlagReg

\* What every instruction's own step keeps and promises.
Exact == MoveInv' /\ MoveStep /\ FlagMoveStep

\* MTC2 keeps the invariant and writes the bytes it names.
LEMMA MTC2Exact ==
  ASSUME MoveInv, NEW rt \in Scalar, NEW rd \in Reg, NEW e \in Byte, MTC2(rt, rd, e),
         move' = [op |-> "MTC2", rt |-> rt, rd |-> rd, e |-> e]
  PROVE  Exact
<1>1. SR(rt) \in Bits16
  BY SRWidth DEF MoveInv
<1>2. regs[rd] \in [Elem -> Bits16] /\ regs \in [Reg -> [Elem -> Bits16]]
  BY DEF MoveInv, MovesTypeOK
<1> DEFINE s == MovedTo(regs[rd], SR(rt), e)
<1>3. s \in [Elem -> Bits16]
  BY <1>1, <1>2, MovesTo
<1>4. regs' = [regs EXCEPT ![rd] = s] /\ UNCHANGED <<sr, flag_regs, wrote>>
  BY DEF MTC2
<1>5. regs' \in [Reg -> [Elem -> Bits16]] /\ regs'[rd] = s
  BY <1>2, <1>3, <1>4
<1>6. MoveInv'
  BY <1>4, <1>5 DEF MoveInv, MovesTypeOK
<1>7. \A k \in Byte : ByteAt(regs'[rd], k) =
          IF k = e THEN SR(rt) \div 256 ELSE IF k = e + 1 THEN SR(rt) % 256 ELSE ByteAt(regs[rd], k)
  BY <1>1, <1>2, <1>5, MovesTo
<1>8. MoveStep
  BY <1>7 DEF MoveStep
<1>9. FlagMoveStep
  BY DEF FlagMoveStep
<1> QED BY <1>6, <1>8, <1>9 DEF Exact

\* MFC2 keeps the invariant and reads the bytes it names.
LEMMA MFC2Exact ==
  ASSUME MoveInv, NEW rt \in Scalar, NEW rd \in Reg, NEW e \in Byte, MFC2(rt, rd, e),
         move' = [op |-> "MFC2", rt |-> rt, rd |-> rd, e |-> e]
  PROVE  Exact
<1>1. regs[rd] \in [Elem -> Bits16] /\ sr \in [Writable -> SignExtended16]
  BY DEF MoveInv, MovesTypeOK
<1> DEFINE v == MovedFrom(regs[rd], e)
<1>2. v \in SignExtended16
      /\ v = SignExtended(256 * ByteAt(regs[rd], e) + ByteAt(regs[rd], (e + 1) % 16))
  BY <1>1, MovesFrom
<1>3. sr' = (IF rt = 0 THEN sr ELSE [sr EXCEPT ![rt] = v]) /\ UNCHANGED <<regs, flag_regs, wrote>>
  BY DEF MFC2
<1> HIDE DEF v
<1>4. rt # 0 => rt \in Writable
  BY DEF Writable
<1>5. sr' \in [Writable -> SignExtended16] /\ (rt # 0 => sr'[rt] = v)
  BY <1>1, <1>2, <1>3, <1>4
<1>6. MoveInv'
  BY <1>3, <1>5 DEF MoveInv, MovesTypeOK
<1>7. MoveStep
  BY <1>2, <1>5 DEF MoveStep
<1>8. FlagMoveStep
  BY DEF FlagMoveStep
<1> QED BY <1>6, <1>7, <1>8 DEF Exact

\* CTC2 keeps the invariant.
LEMMA CTC2Exact ==
  ASSUME MoveInv, NEW rt \in Scalar, NEW rd \in 0 .. 3, CTC2(rt, rd),
         move' = [op |-> "CTC2", rt |-> rt, rd |-> rd]
  PROVE  Exact
<1> DEFINE c == FlagReg(rd)
           v == IF rd % 4 >= 2 THEN SR(rt) % 256 ELSE SR(rt)
<1>1. SR(rt) \in Bits16
  BY SRWidth DEF MoveInv
<1>2. c \in 0 .. 2 /\ v = Kept(c, SR(rt))
  BY FlagRegIs, Zenon DEF Kept
<1>3. /\ flag_regs' = [flag_regs EXCEPT ![c] = rsp_set_flags(v)]
      /\ wrote' = [wrote EXCEPT ![c] = SR(rt)]
      /\ UNCHANGED <<regs, sr>>
  BY DEF CTC2
<1> HIDE DEF c, v
<1>4. wrote' \in [0 .. 2 -> Bits16]
  BY <1>1, <1>3 DEF MoveInv
<1>5. flag_regs' = [b \in 0 .. 2 |-> rsp_set_flags(Kept(b, wrote'[b]))]
  <2>1. ASSUME NEW b \in 0 .. 2
        PROVE  flag_regs'[b] = rsp_set_flags(Kept(b, wrote'[b]))
    BY <1>2, <1>3 DEF MoveInv
  <2>2. flag_regs' = [b \in 0 .. 2 |-> flag_regs'[b]]
    BY <1>3 DEF MoveInv
  <2> QED BY <2>1, <2>2
<1>6. MoveInv'
  BY <1>3, <1>4, <1>5 DEF MoveInv, MovesTypeOK
<1>7. MoveStep /\ FlagMoveStep
  BY DEF MoveStep, FlagMoveStep
<1> QED BY <1>6, <1>7 DEF Exact

\* CFC2 keeps the invariant and returns what was last written.
LEMMA CFC2Exact ==
  ASSUME MoveInv, NEW rt \in Scalar, NEW rd \in 0 .. 3, CFC2(rt, rd),
         move' = [op |-> "CFC2", rt |-> rt, rd |-> rd]
  PROVE  Exact
<1> DEFINE c == FlagReg(rd)
           v == rsp_get_flags(flag_regs[c])
<1>1. c \in 0 .. 2
  BY FlagRegIs
<1>2. wrote[c] \in Bits16 /\ flag_regs[c] = rsp_set_flags(Kept(c, wrote[c]))
      /\ sr \in [Writable -> SignExtended16]
  BY <1>1 DEF MoveInv, MovesTypeOK
<1>3. Kept(c, wrote[c]) \in Bits16
  BY <1>1, <1>2, KeptWidth
<1>4. v = SignExtended(Kept(c, wrote[c]))
  BY <1>2, <1>3, FlagsBack
<1>5. v \in SignExtended16 /\ v = IF c = 2 THEN wrote[c] % 256 ELSE SignExtended(wrote[c])
  BY <1>1, <1>2, <1>3, <1>4, KeptWidth, SignExtends
<1>6. sr' = (IF rt = 0 THEN sr ELSE [sr EXCEPT ![rt] = v]) /\ UNCHANGED <<regs, flag_regs, wrote>>
  BY DEF CFC2
<1> HIDE DEF v
<1>7. rt # 0 => rt \in Writable
  BY DEF Writable
<1>8. sr' \in [Writable -> SignExtended16] /\ (rt # 0 => sr'[rt] = v)
  BY <1>2, <1>5, <1>6, <1>7
<1>9. MoveInv'
  BY <1>6, <1>8 DEF MoveInv, MovesTypeOK
<1>10. MoveStep
  BY DEF MoveStep
<1>11. FlagMoveStep
  BY <1>5, <1>8 DEF FlagMoveStep
<1> QED BY <1>9, <1>10, <1>11 DEF Exact

\* What VMOV writes is one of the registers it reads, permuted.
LEMMA VMOVExact ==
  ASSUME MoveInv, NEW dst \in Reg, NEW src \in Reg, NEW slot \in DestField, NEW e \in Byte,
         VMOV(dst, slot, src, e),
         move' = [op |-> "VMOV", vd |-> dst, vs |-> slot, vt |-> src, e |-> e]
  PROVE  /\ Exact
         /\ \A i \in Elem : acc_lo'[i] = regs[src][Named(e, i)]
         /\ regs'[dst][slot % 8] = regs[src][Named(e, slot % 8)]
<1> DEFINE j == slot % 8
<1>1. j \in Elem
  BY MoveAssumption, SMT DEF Elem
<1>2. regs \in [Reg -> [Elem -> Bits16]]
  BY DEF MoveInv, MovesTypeOK
<1>3. PICK loaded \in {LoadVtSsse3(regs[src], e), LoadVtSse2(regs[src], e)} :
         acc_lo' = loaded /\ regs' = [regs EXCEPT ![dst][j] = loaded[j]]
  BY DEF VMOV
<1>4. \A i \in Elem : loaded[i] = regs[src][Named(e, i)]
  BY <1>2, <1>3, Ssse3Loads, Sse2Loads
<1>5. \A i \in Elem : regs[src][Named(e, i)] \in Bits16
  BY <1>2, LanesNamed
<1> HIDE DEF j
<1>6. regs' \in [Reg -> [Elem -> Bits16]] /\ regs'[dst][j] = loaded[j]
  BY <1>1, <1>2, <1>3, <1>4, <1>5
<1>7. UNCHANGED <<sr, flag_regs, wrote>>
  BY DEF VMOV
<1>8. MoveInv'
  BY <1>6, <1>7 DEF MoveInv, MovesTypeOK
<1>9. MoveStep /\ FlagMoveStep
  BY DEF MoveStep, FlagMoveStep
<1>10. regs'[dst][j] = regs[src][Named(e, j)]
  BY <1>1, <1>4, <1>6
<1> QED BY <1>3, <1>4, <1>8, <1>9, <1>10 DEF Exact, j

\* The same of any instruction of a program.
LEMMA EveryMoveExact ==
  ASSUME MoveInv, MoveNext
  PROVE  /\ Exact
         /\ move'.op = "VMOV" =>
               /\ \A i \in Elem : acc_lo'[i] = regs[move'.vt][Named(move'.e, i)]
               /\ regs'[move'.vd][move'.vs % 8] = regs[move'.vt][Named(move'.e, move'.vs % 8)]
<1>1. CASE \E rt \in Scalar, rd \in Reg, e \in Byte : Move(rt, rd, e)
  <2>1. PICK rt \in Scalar, rd \in Reg, e \in Byte : Move(rt, rd, e)
    BY <1>1
  <2> QED BY <2>1, MTC2Exact, MFC2Exact DEF Move
<1>2. CASE \E rt \in Scalar, rd \in 0 .. 3 : FlagMove(rt, rd)
  <2>1. PICK rt \in Scalar, rd \in 0 .. 3 : FlagMove(rt, rd)
    BY <1>2
  <2> QED BY <2>1, CTC2Exact, CFC2Exact DEF FlagMove
<1>3. CASE \E dst, src \in Reg, slot \in DestField, e \in Byte :
             /\ VMOV(dst, slot, src, e)
             /\ move' = [op |-> "VMOV", vd |-> dst, vs |-> slot, vt |-> src, e |-> e]
  <2>1. PICK dst \in Reg, src \in Reg, slot \in DestField, e \in Byte :
             /\ VMOV(dst, slot, src, e)
             /\ move' = [op |-> "VMOV", vd |-> dst, vs |-> slot, vt |-> src, e |-> e]
    BY <1>3
  <2>2. move'.vd = dst /\ move'.vs = slot /\ move'.vt = src /\ move'.e = e
    BY <2>1
  <2> QED BY <2>1, <2>2, VMOVExact
<1> QED BY <1>1, <1>2, <1>3 DEF MoveNext

\* The invariant holds of every execution.
LEMMA MoveInvInductive == MoveSpec => []MoveInv
<1>1. MoveInit => MoveInv
  <2> SUFFICES ASSUME MoveInit PROVE MoveInv
    OBVIOUS
  <2>1. regs \in [Reg -> [Elem -> Bits16]]
    BY MoveAssumption DEF MoveInit
  <2>2. sr \in [Writable -> SignExtended16]
    BY MoveAssumption, SignExtends DEF MoveInit
  <2>3. 0 \in Bits16  BY SMT DEF Bits16
  <2>4. Kept(0, 0) = 0 /\ Kept(1, 0) = 0 /\ Kept(2, 0) = 0  BY SMT DEF Kept
  <2>5. \A i \in Byte : BitOf(0, (i + 8) % 16) = FALSE
    <3> DEFINE P(i) == ~BitOf(0, i)
    <3>1. P(0) /\ P(1) /\ P(2) /\ P(3) /\ P(4) /\ P(5) /\ P(6) /\ P(7)
          /\ P(8) /\ P(9) /\ P(10) /\ P(11) /\ P(12) /\ P(13) /\ P(14) /\ P(15)
      BY SMT DEF BitOf
    <3> HIDE DEF P
    <3>2. \A i \in Byte : P((i + 8) % 16)  BY <3>1, SMT DEF Byte
    <3> QED BY <3>2 DEF P
  <2>6. rsp_set_flags(0) = [k \in Byte |-> FALSE]
    BY <2>5, Zenon DEF rsp_set_flags
  <2> QED BY <2>1, <2>2, <2>3, <2>4, <2>6 DEF MoveInit, MoveInv, MovesTypeOK
<1>2. MoveInv /\ [MoveNext]_moveVars => MoveInv'
  BY EveryMoveExact DEF Exact, moveVars, MoveInv, MovesTypeOK
<1> QED BY <1>1, <1>2, PTL DEF MoveSpec

\* MTC2, MFC2, CTC2 and CFC2 move exactly the bytes and flags they name, for
\* every contents of the registers and programs of any length.
THEOREM MovesAreExact == MoveSpec => MovesExact
<1>1. MoveInv /\ [MoveNext]_moveVars => [MovesTypeOK' /\ MoveStep /\ FlagMoveStep]_moveVars
  BY EveryMoveExact DEF Exact, MoveInv
<1> QED BY <1>1, MoveInvInductive, PTL DEF MoveSpec, MovesExact

\* The SSSE3 and the SSE2 body of the operand shuffle both load the lanes the
\* element specifier names, for every contents of the registers.
THEOREM BuildsShuffleAlike == MoveSpec => ShufflesAgree
<1> DEFINE A == move'.op = "VMOV" =>
                   /\ \A i \in Elem : acc_lo'[i] = regs[move'.vt][Named(move'.e, i)]
                   /\ regs'[move'.vd][move'.vs % 8] = regs[move'.vt][Named(move'.e, move'.vs % 8)]
<1>1. MoveInv /\ [MoveNext]_moveVars => [A]_moveVars
  BY EveryMoveExact
<1> QED BY <1>1, MoveInvInductive, PTL DEF MoveSpec, ShufflesAgree
==============================================================================
