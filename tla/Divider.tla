------------------------------- MODULE Divider -------------------------------
(***************************************************************************)
(* The division unit of the RSP: VRCP, VRSQ and their L and H forms        *)
(* (src/rsp/vfunctions.cpp) over rsp_vrcp_vrsq and rsp_vdivh               *)
(* (src/arch/simd/rsp/vrcpsq.h and vdivh.h).                               *)
(*                                                                         *)
(* A 32-bit division takes two or three instructions: VRCPH leaves the     *)
(* high half of the operand in div_in and sets dp_flag, VRCPL takes the    *)
(* low half and leaves the high half of the quotient in div_out, and the   *)
(* next VRCPH writes that half out while it takes another operand.         *)
(***************************************************************************)
EXTENDS Integers, ReciprocalRom

CONSTANT Element     \* the 16-bit elements a program divides, unsigned

(* The values of the code's uint16_t and int16_t.                          *)
Unsigned16 == 0 .. 2^16 - 1
Int16 == -(2^15) .. 2^15 - 1

ASSUME ElementAssumption == Element \subseteq Unsigned16

VARIABLES div_in, div_out, dp_flag,
          out,      \* the element written to the destination
          given,    \* history: what the H instruction just before gave
          last      \* history: the last division asked for and its low half

divVars == <<div_in, div_out, dp_flag, out, given, last>>

int16(x) == IF x < 32768 THEN x ELSE x - 65536
Nothing == -1

(* A word as its two halves.                                               *)
Joined(h, l) == h * 65536 + l
Upper(q) == q \div 65536
Lower(q) == q % 65536

-----------------------------------------------------------------------------
(* rsp_vrcp_vrsq on a 32-bit operand.                                      *)

Magnitude(input) ==
    IF input >= 0 THEN input
    ELSE IF input > -32768 THEN -input ELSE -(input + 1)

(* 31 - __builtin_clz(data).                                               *)
TopBit(data) == CHOOSE k \in 0 .. 30 : data \div 2^k = 1

(* The nine bits below the top one.                                        *)
Fraction(data) ==
    LET k == TopBit(data)
    IN  (IF k >= 9 THEN data \div 2^(k - 9) ELSE data * 2^(9 - k)) % 512

RomIndex(data, sqrt) ==
    LET f == Fraction(data)
    IN  IF sqrt THEN 512 + (f - (f % 2)) + ((31 - TopBit(data)) % 2) ELSE f

Shift(data, sqrt) == IF sqrt THEN TopBit(data) \div 2 ELSE TopBit(data)
Entry(i) == 65536 + rsp_reciprocal_rom[i + 1]
ShiftedBack(entry, p) == (entry * 16384) \div p

(* The entry of the ROM, shifted to the place of the quotient's top bit.   *)
Looked(data, sqrt) == ShiftedBack(Entry(RomIndex(data, sqrt)), 2^Shift(data, sqrt))

Quotient(input, sqrt) ==
    LET r == Looked(Magnitude(input), sqrt)
    IN  IF input = 0 THEN 2147483647
        ELSE IF input = -32768 THEN -65536
        ELSE IF input < 0 THEN -r - 1 ELSE r

-----------------------------------------------------------------------------
(* What the instructions before ask VRCPL or VRSQL to divide: the element  *)
(* together with the half given by an H form that directly precedes it     *)
(* among the divisions.                                                    *)
Asked(x) == IF given = Nothing THEN int16(x) ELSE Joined(int16(given), x)

(* dp_flag is spent; the halves of the quotient are written.               *)
Divide(input, sqrt, asked) ==
    LET q == Quotient(input, sqrt)
    IN  /\ div_out' = Upper(q)
        /\ out' = Lower(q)
        /\ dp_flag' = 0
        /\ last' = [done |-> TRUE, sqrt |-> sqrt, operand |-> asked,
                    low |-> Lower(q)]
        /\ given' = Nothing
        /\ UNCHANGED div_in

(* Mutant: a single division does not end a double one.                    *)
VRCP_KeepsFlag(x) ==
    LET q == Quotient(int16(x), FALSE)
    IN  /\ div_out' = Upper(q)
        /\ out' = Lower(q)
        /\ last' = [done |-> TRUE, sqrt |-> FALSE, operand |-> int16(x),
                    low |-> Lower(q)]
        /\ given' = Nothing
        /\ UNCHANGED <<div_in, dp_flag>>

VRCP(x) == Divide(int16(x), FALSE, int16(x))
VRSQ(x) == Divide(int16(x), TRUE, int16(x))

DoubleOperand(x) == IF dp_flag % 2 = 1 THEN Joined(div_in, x) ELSE int16(x)

VRCPL(x) == Divide(DoubleOperand(x), FALSE, Asked(x))
VRSQL(x) == Divide(DoubleOperand(x), TRUE, Asked(x))

(* dp_flag = 1, then rsp_vdivh.                                            *)
High(x) ==
    /\ dp_flag' = 1
    /\ div_in' = int16(x)
    /\ out' = Lower(div_out)
    /\ given' = x
    /\ UNCHANGED <<div_out, last>>

VRCPH(x) == High(x)
VRSQH(x) == High(x)

-----------------------------------------------------------------------------
DivInit ==
    /\ div_in = 0 /\ div_out = 0 /\ dp_flag = 0
    /\ out = 0
    /\ given = Nothing
    /\ last = [done |-> FALSE, sqrt |-> FALSE, operand |-> 0, low |-> 0]

DivNext ==
    \E x \in Element : VRCP(x) \/ VRSQ(x) \/ VRCPL(x) \/ VRSQL(x)
                       \/ VRCPH(x) \/ VRSQH(x)

DivSpec == DivInit /\ [][DivNext]_divVars

-----------------------------------------------------------------------------
(* Every register keeps the width the code gives it.                       *)
DividerTypeOK ==
    /\ div_in \in Int16
    /\ div_out \in Int16
    /\ dp_flag \in 0 .. 1
    /\ out \in Unsigned16

(* q is within one part in 512 of 2^31 / x, for a positive x.  Written, as *)
(* Accurate is, for 32-bit words q that may be wrong in any way: no        *)
(* difference is taken that would not fit a word itself.                   *)
NearReciprocal(x, q) ==
    LET exact == 2147483647 \div x
        slack == 2 + exact \div 512
    IN  q >= exact - slack /\ q - exact <= slack

(* The square of q is near 2^62 / x; checked on the upper halves, where x  *)
(* leaves them enough bits.                                                *)
NearRoot(x, q) ==
    LET t == q \div 65536
        exact == 2^30 \div x
    IN  x < 4096 => t * t - exact \in -(exact \div 64) .. exact \div 64

(* What a quotient promises.  -32768 is the ROM's special case, and a root *)
(* of a negative number means nothing.                                     *)
Accurate(x, sqrt, q) ==
    /\ x = 0 => q = 2147483647
    /\ x > 0 /\ ~sqrt => NearReciprocal(x, q)
    /\ x > 0 /\ sqrt => NearRoot(x, q)
    /\ x < 0 /\ x >= -65536 /\ ~sqrt => NearReciprocal(-x, -1 - q)
    /\ x < -65536 /\ ~sqrt => NearReciprocal(-(x + 1), -1 - q)

(* The high half waiting in div_out and the low half written belong to one *)
(* quotient, that of the operand the program has put together: a half      *)
(* given by VRCPH or VRSQH counts for the next division only, and only if  *)
(* that is a VRCPL or VRSQL; and the quotient is the reciprocal (or the    *)
(* reciprocal root) to the ROM's precision.  All registers keep their      *)
(* widths.                                                                 *)
QuotientOfOperand ==
    /\ DividerTypeOK
    /\ last.done =>
           Accurate(last.operand, last.sqrt, Joined(div_out, last.low))
==============================================================================
