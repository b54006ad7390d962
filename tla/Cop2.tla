--------------------------------- MODULE Cop2 ---------------------------------
(***************************************************************************)
(* Coprocessor 2's moves: MTC2, MFC2, CTC2 and CFC2 (src/rsp/cp2.cpp, with *)
(* rsp_get_flags and rsp_set_flags), and the operand shuffle every vector  *)
(* instruction reads VT through (rsp_vect_load_and_shuffle_operand, one    *)
(* body for SSSE3 and one for SSE2), as VMOV uses it.                      *)
(*                                                                         *)
(* A vector register is eight 16-bit elements; MTC2 and MFC2 name a byte   *)
(* of it.  A flag register is sixteen masks, the lanes' high flags before  *)
(* their low ones.                                                         *)
(***************************************************************************)
EXTENDS Integers

CONSTANTS Reg,        \* vector registers
          Scalar,     \* scalar registers
          Value,      \* 16-bit values a scalar register may hold at first
          Contents,   \* what the vector registers hold at first
          DestField,  \* what VMOV's field for the destination element may be
          MaxSteps    \* length of a program

Elem == 0 .. 7
Byte == 0 .. 15
Bits16 == 0 .. 2^16 - 1
SignExtended16 == -(2^15) .. 2^15 - 1

ASSUME MoveAssumption ==
    /\ Scalar \subseteq 0 .. 31
    /\ Value \subseteq Bits16
    /\ Contents \in [Reg -> [Elem -> Bits16]]
    /\ DestField \subseteq 0 .. 31

VARIABLES regs,       \* the elements of the vector registers
          acc_lo,     \* the low accumulator, written by VMOV
          sr,         \* the scalar registers but r0, as 16 bits sign-extended
          flag_regs,  \* VCO, VCC and VCE
          wrote,      \* history: what CTC2 last wrote to each of them
          move,       \* history: the instruction executed
          steps

moveVars == <<regs, acc_lo, sr, flag_regs, wrote, move, steps>>

SignExtended(x) == IF x < 32768 THEN x ELSE x - 65536
Unsigned(x) == x % 65536
BitOf(v, i) == (v \div 2^i) % 2 = 1

-----------------------------------------------------------------------------
(* Moves between the register files.                                       *)

Writable == Scalar \ {0}     \* r0 reads as zero and is never written

SR(rt) == IF rt = 0 THEN 0 ELSE Unsigned(sr[rt])

(* Mutant: the second byte of an odd move goes to the element's low byte.  *)
MovedTo_LowByte(r, v, e) ==
    LET i == e \div 2
        first == [r EXCEPT ![i] = (@ - (@ % 256)) + (v \div 256)]
    IN  IF e % 2 = 0 THEN [r EXCEPT ![i] = v]
        ELSE IF e = 15 THEN first
        ELSE [first EXCEPT ![i + 1] = (@ - (@ % 256)) + (v % 256)]

(* A move to an odd byte straddles two elements; past byte 15 it stops.    *)
MovedTo(r, v, e) ==
    LET i == e \div 2
        first == [r EXCEPT ![i] = (@ - (@ % 256)) + (v \div 256)]
    IN  IF e % 2 = 0 THEN [r EXCEPT ![i] = v]
        ELSE IF e = 15 THEN first
        ELSE [first EXCEPT ![i + 1] = (v % 256) * 256 + (@ % 256)]

MTC2(rt, rd, e) ==
    /\ regs' = [regs EXCEPT ![rd] = MovedTo(@, SR(rt), e)]
    /\ UNCHANGED <<acc_lo, sr, flag_regs, wrote>>

(* A move from an odd byte straddles two elements too, and wraps.          *)
MovedFrom(r, e) ==
    LET lo == e \div 2
        hi == ((e + 1) \div 2) % 8
    IN  IF e % 2 = 0 THEN SignExtended(r[lo])
        ELSE SignExtended(Unsigned(r[lo] * 256) + (r[hi] \div 256))

MFC2(rt, rd, e) ==
    /\ sr' = IF rt = 0 THEN sr ELSE [sr EXCEPT ![rt] = MovedFrom(regs[rd], e)]
    /\ UNCHANGED <<regs, acc_lo, flag_regs, wrote>>

-----------------------------------------------------------------------------
(* The flag registers.                                                     *)

FlagReg(rd) == IF rd % 4 = 3 THEN 2 ELSE rd % 4

(* movemask of eight flags.                                                *)
Weight(b, w) == IF b THEN w ELSE 0
MoveMask(f, k) ==
    Weight(f[k], 1) + Weight(f[k + 1], 2) + Weight(f[k + 2], 4)
    + Weight(f[k + 3], 8) + Weight(f[k + 4], 16) + Weight(f[k + 5], 32)
    + Weight(f[k + 6], 64) + Weight(f[k + 7], 128)

(* The low flags (entries 8 to 15) are packed before the high ones.        *)
rsp_get_flags(f) == SignExtended(MoveMask(f, 8) + 256 * MoveMask(f, 0))

rsp_set_flags(v) == [k \in Byte |-> BitOf(v, (k + 8) % 16)]

CTC2(rt, rd) ==
    LET v == IF rd % 4 >= 2 THEN SR(rt) % 256 ELSE SR(rt)
    IN  /\ flag_regs' = [flag_regs EXCEPT ![FlagReg(rd)] = rsp_set_flags(v)]
        /\ wrote' = [wrote EXCEPT ![FlagReg(rd)] = SR(rt)]
        /\ UNCHANGED <<regs, acc_lo, sr>>

CFC2(rt, rd) ==
    /\ sr' = IF rt = 0 THEN sr
             ELSE [sr EXCEPT ![rt] = rsp_get_flags(flag_regs[FlagReg(rd)])]
    /\ UNCHANGED <<regs, acc_lo, flag_regs, wrote>>

-----------------------------------------------------------------------------
(* The lanes an element specifier selects: shuffle_keys of the SSSE3 body, *)
(* the element of each pair of key bytes.                                  *)
shuffle_keys ==
    << <<0, 1, 2, 3, 4, 5, 6, 7>>, <<0, 1, 2, 3, 4, 5, 6, 7>>,
       <<0, 0, 2, 2, 4, 4, 6, 6>>, <<1, 1, 3, 3, 5, 5, 7, 7>>,
       <<0, 0, 0, 0, 4, 4, 4, 4>>, <<1, 1, 1, 1, 5, 5, 5, 5>>,
       <<2, 2, 2, 2, 6, 6, 6, 6>>, <<3, 3, 3, 3, 7, 7, 7, 7>>,
       <<0, 0, 0, 0, 0, 0, 0, 0>>, <<1, 1, 1, 1, 1, 1, 1, 1>>,
       <<2, 2, 2, 2, 2, 2, 2, 2>>, <<3, 3, 3, 3, 3, 3, 3, 3>>,
       <<4, 4, 4, 4, 4, 4, 4, 4>>, <<5, 5, 5, 5, 5, 5, 5, 5>>,
       <<6, 6, 6, 6, 6, 6, 6, 6>>, <<7, 7, 7, 7, 7, 7, 7, 7>> >>

LoadVtSsse3(r, e) == [i \in Elem |-> r[shuffle_keys[e + 1][i + 1]]]

(* _mm_shufflelo and _mm_shufflehi by one key on a whole vector.           *)
Shuffle4(r, key) == [i \in Elem |-> r[4 * (i \div 4) + key[(i % 4) + 1]]]

(* Mutant: the halves of a vector are exchanged.                           *)
LoadVtSse2_Halves(r, e) ==
    CASE e \in 0 .. 1 -> r
      [] e = 2 -> Shuffle4(r, <<0, 0, 2, 2>>)
      [] e = 3 -> Shuffle4(r, <<1, 1, 3, 3>>)
      [] e \in 4 .. 7 -> [i \in Elem |-> IF i < 4 THEN r[e] ELSE r[e - 4]]
      [] OTHER -> [i \in Elem |-> r[e - 8]]

LoadVtSse2(r, e) ==
    CASE e \in 0 .. 1 -> r
      [] e = 2 -> Shuffle4(r, <<0, 0, 2, 2>>)
      [] e = 3 -> Shuffle4(r, <<1, 1, 3, 3>>)
      [] e \in 4 .. 7 -> [i \in Elem |-> IF i < 4 THEN r[e - 4] ELSE r[e]]
      [] OTHER -> [i \in Elem |-> r[e - 8]]

(* The build chooses one of the two bodies.                                *)
VMOV(vd, vs, vt, e) ==
    /\ \E loaded \in {LoadVtSsse3(regs[vt], e), LoadVtSse2(regs[vt], e)} :
          /\ acc_lo' = loaded
          /\ regs' = [regs EXCEPT ![vd][vs % 8] = loaded[vs % 8]]
    /\ UNCHANGED <<sr, flag_regs, wrote>>

-----------------------------------------------------------------------------
Idle == [op |-> "none"]

MoveInit ==
    /\ regs = Contents
    /\ acc_lo = [i \in Elem |-> 0]
    /\ sr \in [Writable -> {SignExtended(v) : v \in Value}]
    /\ flag_regs = [c \in 0 .. 2 |-> [k \in Byte |-> FALSE]]
    /\ wrote = [c \in 0 .. 2 |-> 0]
    /\ move = Idle
    /\ steps = 0

Move(rt, rd, e) ==
    \/ MTC2(rt, rd, e) /\ move' = [op |-> "MTC2", rt |-> rt, rd |-> rd, e |-> e]
    \/ MFC2(rt, rd, e) /\ move' = [op |-> "MFC2", rt |-> rt, rd |-> rd, e |-> e]

FlagMove(rt, rd) ==
    \/ CTC2(rt, rd) /\ move' = [op |-> "CTC2", rt |-> rt, rd |-> rd]
    \/ CFC2(rt, rd) /\ move' = [op |-> "CFC2", rt |-> rt, rd |-> rd]

MoveNext ==
    /\ steps < MaxSteps
    /\ steps' = steps + 1
    /\ \/ \E rt \in Scalar, rd \in Reg, e \in Byte : Move(rt, rd, e)
       \/ \E rt \in Scalar, rd \in 0 .. 3 : FlagMove(rt, rd)
       \/ \E vd, vt \in Reg, vs \in DestField, e \in Byte :
             /\ VMOV(vd, vs, vt, e)
             /\ move' = [op |-> "VMOV", vd |-> vd, vs |-> vs, vt |-> vt, e |-> e]

MoveSpec == MoveInit /\ [][MoveNext]_moveVars

-----------------------------------------------------------------------------
(* Registers keep their widths: elements are unsigned 16-bit numbers,      *)
(* scalar registers hold sign-extended ones.                               *)
MovesTypeOK ==
    /\ regs \in [Reg -> [Elem -> Bits16]]
    /\ sr \in [Writable -> SignExtended16]

(* A vector register as sixteen bytes, the high byte of an element first.  *)
ByteAt(r, k) == IF k % 2 = 0 THEN r[k \div 2] \div 256 ELSE r[k \div 2] % 256

(* MTC2 writes exactly the bytes e and e + 1 of the register, the second   *)
(* only if there is one; MFC2 reads the bytes e and e + 1, wrapping, so a  *)
(* value moved there and back is itself at every byte but the last.  CFC2  *)
(* returns what the last CTC2 wrote, whatever moves came between: sign-    *)
(* extended from VCO and VCC, its low byte from VCE.  All keep their       *)
(* widths.                                                                 *)
MoveStep ==
    /\ move'.op = "MTC2" =>
          \A k \in Byte : ByteAt(regs'[move'.rd], k) =
              IF k = move'.e THEN SR(move'.rt) \div 256
              ELSE IF k = move'.e + 1 THEN SR(move'.rt) % 256
              ELSE ByteAt(regs[move'.rd], k)
    /\ move'.op = "MFC2" /\ move'.rt # 0 =>
          sr'[move'.rt] =
              SignExtended(256 * ByteAt(regs[move'.rd], move'.e)
                           + ByteAt(regs[move'.rd], (move'.e + 1) % 16))

FlagMoveStep ==
    move'.op = "CFC2" /\ move'.rt # 0 =>
        LET c == FlagReg(move'.rd)
        IN  sr'[move'.rt] = IF c = 2 THEN wrote[c] % 256 ELSE SignExtended(wrote[c])

MovesExact == [][MovesTypeOK' /\ MoveStep /\ FlagMoveStep]_moveVars

(* Both builds' shuffles select the lane the element specifier names:      *)
(* vector, quarter, half or single element.                                *)
Named(e, i) ==
    CASE e < 2 -> i
      [] e \in 2 .. 3 -> 2 * (i \div 2) + (e % 2)
      [] e \in 4 .. 7 -> 4 * (i \div 4) + (e % 4)
      [] OTHER -> e % 8

ShufflesAgree ==
    [][move'.op = "VMOV" =>
          LET e == move'.e
              r == regs[move'.vt]
          IN  /\ \A i \in Elem : acc_lo'[i] = r[Named(e, i)]
              /\ regs'[move'.vd][move'.vs % 8] = r[Named(e, move'.vs % 8)]]_moveVars
==============================================================================
