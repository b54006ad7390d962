------------------------------ MODULE LoadStore -----------------------------
(***************************************************************************)
(* Loads and stores of the RSP: the scalar ones that the JIT emits         *)
(* (jit_emit_load_operation, jit_emit_store_operation and the C functions  *)
(* for unaligned addresses) and the vector ones of rsp/ls.cpp.             *)
(*                                                                         *)
(* The RSP is big-endian; the host keeps each 32-bit word of DMEM and each *)
(* 16-bit element of a vector register in its own, little-endian, order.   *)
(* dmem and regs are the bytes as the host has them, so that the accesses  *)
(* of one, two, four, eight and sixteen bytes have to agree on where the   *)
(* bytes of the RSP are.  dmem has a margin after its Size bytes for what  *)
(* is written past its end: the memory that follows DMEM in the emulator.  *)
(***************************************************************************)
EXTENDS Integers, Sequences

CONSTANTS
  Size,          \* 0x1000: the bytes of DMEM
  VecOpts,       \* USE_VEC_OPTS (and __SSSE3__): the fast paths are compiled in
  MaxOps,        \* bound on the instructions of a behaviour
  Microcode(_),  \* the instructions considered after the ones executed so far
  InitDmem, InitRegs, InitSr

Margin == 16
Host == 0 .. Size + Margin - 1     \* host bytes of DMEM and what follows
Lane == 0 .. 15                    \* bytes of a vector register
Reg  == 0 .. 7                     \* a group of eight vector registers
Byte == 0 .. 255

ASSUME SizeAssumption == Size \in Nat /\ Size >= 128 /\ Size % 16 = 0
ASSUME ContentsAssumption ==
  /\ InitDmem \in [Host -> Byte] /\ InitRegs \in [Reg -> [Lane -> Byte]]
  /\ InitSr \in [1 .. 4 -> Byte]

VARIABLES
  dmem,     \* host bytes
  regs,     \* cp2.regs: per register, 16 host bytes
  sr,       \* a scalar register: four bytes, the most significant first
  prog      \* the instructions executed so far: op, element e, and the address a,
            \* base + offset * scale, before masking

lsVars == <<dmem, regs, sr, prog>>

\* Flip the low bits of an address: addr ^ 3, addr ^ 2, addr ^ 1.
BES(a) == a - (a % 4) + 3 - (a % 4)
HES(a) == IF a % 4 < 2 THEN a + 2 ELSE a - 2
MES(i) == IF i % 2 = 0 THEN i + 1 ELSE i - 1

Masked(a) == a % Size                       \* a & 0xfff
Row8(a)   == a - (a % 8)                    \* a & ~7
READ_MEM_U8(a) == dmem[BES(a)]
READ_VEC_U8(rt, i) == regs[rt][MES(i)]
Element(rt, k) == regs[rt][2 * k] + 256 * regs[rt][2 * k + 1]

\* Byte V[k] to address A[k] for each k; and half-words, for WRITE_MEM_U16.
StoreBytes(A, V) ==
  [h \in Host |-> IF \E k \in DOMAIN A : A[k] = BES(h)
                  THEN V[CHOOSE k \in DOMAIN A : A[k] = BES(h)] ELSE dmem[h]]

StoreHalves(A, V) ==
  [h \in Host |->
     IF \E k \in DOMAIN A : HES(A[k]) = h - (h % 2)
     THEN LET v == V[CHOOSE k \in DOMAIN A : HES(A[k]) = h - (h % 2)]
          IN  IF h % 2 = 0 THEN v % 256 ELSE v \div 256
     ELSE dmem[h]]

\* Byte From[i] to byte i of register rt; sixteen-bit Of[k] to all its elements.
LoadBytes(rt, From) ==
  [regs EXCEPT ![rt] =
     [b \in Lane |-> IF MES(b) \in DOMAIN From THEN From[MES(b)] ELSE regs[rt][b]]]

LoadElements(rt, Of) ==
  [regs EXCEPT ![rt] = [b \in Lane |-> IF b % 2 = 0 THEN Of[b \div 2] % 256
                                                    ELSE Of[b \div 2] \div 256]]

\* for i = e .. end-1: byte i gets the byte at addr++ & 0xfff.
LoadRun(rt, e, end, a) ==
  LoadBytes(rt, [i \in e .. end - 1 |-> READ_MEM_U8(Masked(a + i - e))])

\* __builtin_shufflevector(v, v, 1, 0, 3, 2, ...): n host bytes, half-words swapped in pairs.
LoadShuffled(rt, e, n, a) ==
  [regs EXCEPT ![rt] = [b \in Lane |-> IF b \in e .. e + n - 1 THEN dmem[HES(a + b - e)]
                                         ELSE regs[rt][b]]]

StoreShuffled(rt, e, n, a) ==
  [h \in Host |-> IF h \in a .. a + n - 1 THEN regs[rt][e + HES(h) - a] ELSE dmem[h]]

ClipEnd(x) == IF x > 16 THEN 16 ELSE x
-----------------------------------------------------------------------------
(***************************************************************************)
(* Vector loads: the registers after the load into rt at address a.        *)
(***************************************************************************)
LBV(rt, e, a) == LoadBytes(rt, [i \in {e} |-> READ_MEM_U8(Masked(a))])

LSV(rt, e, a) == LoadRun(rt, e, ClipEnd(e + 2), a)

\* Mutant: the fast path copies the word as it is.
LLV_Unshuffled(rt, e, a) ==
  IF VecOpts /\ e % 4 = 0 /\ a % 4 = 0
  THEN [regs EXCEPT ![rt] =
          [b \in Lane |-> IF b \in e .. e + 3 THEN dmem[Masked(a) + b - e] ELSE @[b]]]
  ELSE LoadRun(rt, e, ClipEnd(e + 4), a)

LLV(rt, e, a) ==
  IF VecOpts /\ e % 4 = 0 /\ a % 4 = 0 THEN LoadShuffled(rt, e, 4, Masked(a))
  ELSE LoadRun(rt, e, ClipEnd(e + 4), a)

LDV(rt, e, a) ==
  IF VecOpts /\ e \in {0, 8} /\ a % 8 = 0 THEN LoadShuffled(rt, e, 8, Masked(a))
  ELSE LoadRun(rt, e, ClipEnd(e + 8), a)

\* Eight bytes spread over the elements, n apart, shifted to the left.
LoadPacked(rt, e, a, n, factor) ==
  LoadElements(rt, [k \in 0 .. 7 |->
    READ_MEM_U8(Masked(Row8(a) + (((a % 8) - e + n * k) % 16))) * factor])

LPV(rt, e, a) ==
  IF VecOpts /\ e = 0 /\ a % 8 = 0
  THEN LoadElements(rt, [k \in 0 .. 7 |-> dmem[BES(Masked(a) + k)] * 256])
  ELSE LoadPacked(rt, e, a, 1, 256)

\* Mutant: packed bytes, as in LUV.
LHV_Packed(rt, e, a) == LoadPacked(rt, e, a, 1, 128)

LUV(rt, e, a) == LoadPacked(rt, e, a, 1, 128)
LHV(rt, e, a) == LoadPacked(rt, e, a, 2, 128)

\* Every fourth byte, in two halves, of which the bytes e .. e + 7 are kept.
LFV(rt, e, a) ==
  LET temp(k) == READ_MEM_U8(Masked(Row8(a) + (((a % 8) - e + 4 * k + 8 * (k \div 4)) % 16))) * 128
  IN  LoadBytes(rt, [i \in e .. ClipEnd(e + 8) - 1 |->
        IF i % 2 = 0 THEN temp(i \div 2) \div 256 ELSE temp(i \div 2) % 256])

LQV(rt, e, a) ==
  IF a % 16 = 0 /\ VecOpts /\ e = 0 THEN LoadShuffled(rt, 0, 16, Masked(a))
  ELSE LoadRun(rt, e, ClipEnd(16 + e - (a % 16)), a)

\* Mutant: the end of the register instead of its start.
LRV_Left(rt, e, a) ==
  LET start == 16 - ((a % 16) - e)
  IN  LoadBytes(rt, [i \in 0 .. 15 - start |-> READ_MEM_U8(Masked(a - (a % 16) + i))])

LRV(rt, e, a) ==
  LET start == 16 - ((a % 16) - e)
  IN  LoadBytes(rt, [i \in start .. 15 |-> READ_MEM_U8(Masked(a - (a % 16) + i - start))])

\* Mutant: the first register is the same for every element.
LTV_SameRegisters(rt, e, a) ==
  LET from(i) == Masked(Row8(a) + ((e + (a % 16) - (a % 8) + i) % 16))
  IN  [r \in Reg |->
        [b \in Lane |->
          LET i == MES(b)
          IN  IF r = (i \div 2) % 8 THEN READ_MEM_U8(from(i)) ELSE regs[r][b]]]

\* One byte pair to each of the eight registers; the address goes round in 16 bytes.
LTV(rt, e, a) ==
  LET from(i) == Masked(Row8(a) + ((e + (a % 16) - (a % 8) + i) % 16))
  IN  [r \in Reg |->
        [b \in Lane |->
          LET i == MES(b)
          IN  IF r = ((e \div 2) + (i \div 2)) % 8 THEN READ_MEM_U8(from(i)) ELSE regs[r][b]]]

-----------------------------------------------------------------------------
(***************************************************************************)
(* Vector stores: DMEM after the store of rt at address a.                 *)
(***************************************************************************)
\* n bytes from byte e on, each address masked.
StoreRun(n, rt, e, a) ==
  StoreBytes([k \in 0 .. n - 1 |-> Masked(a + k)],
             [k \in 0 .. n - 1 |-> READ_VEC_U8(rt, (e + k) % 16)])

SBV(rt, e, a) == StoreRun(1, rt, e, a)
SSV(rt, e, a) == StoreRun(2, rt, e, a)

\* addr++ without a mask.
SLV(rt, e, a) ==
  StoreBytes([k \in 0 .. 3 |-> Masked(a) + k], [k \in 0 .. 3 |-> READ_VEC_U8(rt, (e + k) % 16)])

SDV(rt, e, a) ==
  IF e > 8 \/ e % 2 = 1 \/ a % 2 = 1 THEN StoreRun(8, rt, e, a)
  ELSE IF VecOpts /\ e \in {0, 8} /\ a % 8 = 0 THEN StoreShuffled(rt, e, 8, Masked(a))
  ELSE StoreHalves([k \in 0 .. 3 |-> Masked(a + 2 * k)],
                   [k \in 0 .. 3 |-> Element(rt, (e \div 2) + k)])

\* The elements from e on, shifted by one amount below 8 and another from 8 on.
Shifted(rt, e, low, high) ==
  [k \in 0 .. 7 |->
    (Element(rt, (e + k) % 8) \div (IF (e + k) % 16 < 8 THEN low ELSE high)) % 256]

\* Mutant: the address is masked once.
StorePacked_MasksOnce(rt, e, a, low, high) ==
  StoreBytes([k \in 0 .. 7 |-> Masked(a) + k], Shifted(rt, e, low, high))

StorePacked(rt, e, a, low, high) ==
  StoreBytes([k \in 0 .. 7 |-> Masked(a + k)], Shifted(rt, e, low, high))

SPV(rt, e, a) == StorePacked(rt, e, a, 256, 128)
SUV(rt, e, a) == StorePacked(rt, e, a, 128, 256)

\* The stores below add to the masked address without masking again.
Past(a, k) == Row8(Masked(a)) + (((a % 8) + k) % 16)

SHV(rt, e, a) ==
  StoreBytes([k \in 0 .. 7 |-> Past(a, 2 * k)],
             [k \in 0 .. 7 |-> (READ_VEC_U8(rt, (e + 2 * k) % 16) * 2
                               + (READ_VEC_U8(rt, (e + 2 * k + 1) % 16) \div 128)) % 256])

SFVElements(e) ==
  CASE e \in {0, 15} -> <<0, 1, 2, 3>>
    [] e = 1  -> <<6, 7, 4, 5>>
    [] e = 4  -> <<1, 2, 3, 0>>
    [] e = 5  -> <<7, 4, 5, 6>>
    [] e = 8  -> <<4, 5, 6, 7>>
    [] e = 11 -> <<3, 0, 1, 2>>
    [] e = 12 -> <<5, 6, 7, 4>>
    [] OTHER  -> <<>>

SFV(rt, e, a) ==
  StoreBytes([k \in 0 .. 3 |-> Past(a, 4 * k)],
             [k \in 0 .. 3 |-> IF SFVElements(e) = <<>> THEN 0
                               ELSE (Element(rt, SFVElements(e)[k + 1]) \div 128) % 256])

SWV(rt, e, a) ==
  StoreBytes([k \in Lane |-> Past(a, k)], [k \in Lane |-> READ_VEC_U8(rt, (e + k) % 16)])

\* Up to the end of the 16 bytes: addr++ stays inside.
SQV(rt, e, a) ==
  IF a % 16 = 0 /\ VecOpts /\ e = 0 THEN StoreShuffled(rt, 0, 16, Masked(a))
  ELSE StoreBytes([k \in 0 .. 15 - (a % 16) |-> Masked(a) + k],
                  [k \in 0 .. 15 - (a % 16) |-> READ_VEC_U8(rt, (e + k) % 16)])

\* The rest of an unaligned SQV: nothing at an aligned address.
SRV(rt, e, a) ==
  StoreBytes([k \in 0 .. (a % 16) - 1 |-> Masked(a) - (a % 16) + k],
             [k \in 0 .. (a % 16) - 1 |-> READ_VEC_U8(rt, (e + k + 16 - (a % 16)) % 16)])

STV(rt, e, a) ==
  LET even == e - (e % 2)
  IN  StoreBytes([k \in Lane |-> Past(a, k - even)],
                 [k \in Lane |-> READ_VEC_U8(k \div 2, (16 - even + k) % 16)])

-----------------------------------------------------------------------------
(***************************************************************************)
(* Scalar loads and stores: n bytes from the masked address.  Aligned ones *)
(* are one access of the host at the flipped address, the others call the  *)
(* rsp_unaligned functions, byte by byte.                                  *)
(***************************************************************************)
BYTE_ENDIAN_FIXUP(a, off) == Masked(BES(a + off))

\* The n bytes at a, most significant first.
LoadScalar(n, a) ==
  LET at   == Masked(a)
      flip == CASE n = 1 -> BES(at) [] n = 2 -> HES(at) [] n = 4 -> at
  IN  IF at % n = 0 THEN [k \in 1 .. n |-> dmem[flip + n - k]]
      ELSE [k \in 1 .. n |-> dmem[BYTE_ENDIAN_FIXUP(at, k - 1)]]

\* To 32 bits: LB and LH sign-extend, LBU and LHU do not.
Extended(bytes, signed) ==
  LET fill == IF signed /\ bytes[1] >= 128 THEN 255 ELSE 0
  IN  [k \in 1 .. 4 - Len(bytes) |-> fill] \o bytes

\* Mutant: the unaligned store is not flipped.
StoreScalar_Unflipped(n, a) ==
  [h \in Host |-> LET k == (h - Masked(a)) % Size
                  IN  IF h < Size /\ k < n THEN sr[5 - n + k] ELSE dmem[h]]

StoreScalar(n, a) ==
  LET at   == Masked(a)
      flip == CASE n = 1 -> BES(at) [] n = 2 -> HES(at) [] n = 4 -> at
  IN  IF at % n = 0
      THEN [h \in Host |-> IF h \in flip .. flip + n - 1 THEN sr[4 - (h - flip)] ELSE dmem[h]]
      ELSE [h \in Host |-> LET ks == {k \in 0 .. n - 1 : BYTE_ENDIAN_FIXUP(at, k) = h}
                           IN  IF ks = {} THEN dmem[h] ELSE sr[5 - n + (CHOOSE k \in ks : TRUE)]]

ScalarBytes(op) ==
  CASE op \in {"LB", "LBU", "SB"} -> 1 [] op \in {"LH", "LHU", "SH"} -> 2 [] OTHER -> 4

-----------------------------------------------------------------------------
(***************************************************************************)
(* The instructions, on register Rt.                                       *)
(***************************************************************************)
Rt == 3

VectorLoads == {"LBV", "LSV", "LLV", "LDV", "LPV", "LUV", "LHV", "LFV", "LQV", "LRV", "LTV"}
VectorStores == {"SBV", "SSV", "SLV", "SDV", "SPV", "SUV", "SHV", "SFV", "SWV", "SQV", "SRV", "STV"}
ScalarLoads == {"LB", "LBU", "LH", "LHU", "LW"}
ScalarStores == {"SB", "SH", "SW"}

\* The element field has four bits.
Decoded == [op : VectorLoads \cup VectorStores \cup ScalarLoads \cup ScalarStores,
            e : 0 .. 15, a : Nat]

Log(op, e, a) == prog' = Append(prog, [op |-> op, e |-> e, a |-> a])

LWC2(op, e, a) ==
  /\ Log(op, e, a)
  /\ regs' = CASE op = "LBV" -> LBV(Rt, e, a) [] op = "LSV" -> LSV(Rt, e, a)
               [] op = "LLV" -> LLV(Rt, e, a) [] op = "LDV" -> LDV(Rt, e, a)
               [] op = "LPV" -> LPV(Rt, e, a) [] op = "LUV" -> LUV(Rt, e, a)
               [] op = "LHV" -> LHV(Rt, e, a) [] op = "LFV" -> LFV(Rt, e, a)
               [] op = "LQV" -> LQV(Rt, e, a) [] op = "LRV" -> LRV(Rt, e, a)
               [] op = "LTV" -> LTV(Rt, e, a)
  /\ UNCHANGED <<dmem, sr>>

SWC2(op, e, a) ==
  /\ Log(op, e, a)
  /\ dmem' = CASE op = "SBV" -> SBV(Rt, e, a) [] op = "SSV" -> SSV(Rt, e, a)
               [] op = "SLV" -> SLV(Rt, e, a) [] op = "SDV" -> SDV(Rt, e, a)
               [] op = "SPV" -> SPV(Rt, e, a) [] op = "SUV" -> SUV(Rt, e, a)
               [] op = "SHV" -> SHV(Rt, e, a) [] op = "SFV" -> SFV(Rt, e, a)
               [] op = "SWV" -> SWV(Rt, e, a) [] op = "SQV" -> SQV(Rt, e, a)
               [] op = "SRV" -> SRV(Rt, e, a) [] op = "STV" -> STV(Rt, e, a)
  /\ UNCHANGED <<regs, sr>>

Load(op, a) ==
  /\ Log(op, 0, a)
  /\ sr' = Extended(LoadScalar(ScalarBytes(op), a), op \in {"LB", "LH"})
  /\ UNCHANGED <<dmem, regs>>

Store(op, a) ==
  /\ Log(op, 0, a)
  /\ dmem' = StoreScalar(ScalarBytes(op), a)
  /\ UNCHANGED <<regs, sr>>

LoadStoreInit == dmem = InitDmem /\ regs = InitRegs /\ sr = InitSr /\ prog = <<>>

LoadStoreNext ==
  /\ Len(prog) < MaxOps
  /\ \E in \in Microcode(prog) \cap Decoded :
       \/ in.op \in VectorLoads /\ LWC2(in.op, in.e, in.a)
       \/ in.op \in VectorStores /\ SWC2(in.op, in.e, in.a)
       \/ in.op \in ScalarLoads /\ Load(in.op, in.a)
       \/ in.op \in ScalarStores /\ Store(in.op, in.a)

LoadStoreSpec == LoadStoreInit /\ [][LoadStoreNext]_lsVars

-----------------------------------------------------------------------------
(***************************************************************************)
(* Properties, in terms of the bytes the RSP sees.                         *)
(***************************************************************************)
\* The registers and the memory hold bytes.
HoldsBytes ==
  /\ dmem \in [Host -> Byte]
  /\ regs \in [Reg -> [Lane -> Byte]]
  /\ sr \in [1 .. 4 -> Byte]

Mem(d, x) == d[BES(x)]
Vec(r, i) == r[Rt][MES(i)]

\* The bytes an instruction that only moves bytes moves: <<byte of the register, address>>.
Width(op, a) ==
  CASE op \in {"LBV", "SBV"} -> 1 [] op \in {"LSV", "SSV"} -> 2 [] op \in {"LLV", "SLV"} -> 4
    [] op \in {"LDV", "SDV"} -> 8 [] OTHER -> 16 - (a % 16)

Movers == {"LBV", "LSV", "LLV", "LDV", "LQV", "SBV", "SSV", "SLV", "SDV", "SQV"}

LoadPairs(op, e, a) ==
  {<<e + k, (a + k) % Size>> : k \in {n \in 0 .. Width(op, a) - 1 : e + n < 16}}

StorePairs(op, e, a) == {<<(e + k) % 16, (a + k) % Size>> : k \in 0 .. Width(op, a) - 1}

\* SLV does not wrap at the end of DMEM (see StaysInDmem).
Wraps(op, a) == op # "SLV" \/ a % Size <= Size - 4

Executed == prog'[Len(prog')]

Move(in) ==
  LET loads  == LoadPairs(in.op, in.e, in.a)
      stores == StorePairs(in.op, in.e, in.a)
  IN  IF in.op \in VectorLoads
      THEN /\ \A p \in loads : Vec(regs', p[1]) = Mem(dmem, p[2])
           /\ \A b \in Lane \ {p[1] : p \in loads} : Vec(regs', b) = Vec(regs, b)
      ELSE /\ \A p \in stores : Mem(dmem', p[2]) = Vec(regs, p[1])
           /\ \A x \in (0 .. Size - 1) \ {p[2] : p \in stores} : Mem(dmem', x) = Mem(dmem, x)

MoveStep == Executed.op \in Movers /\ Wraps(Executed.op, Executed.a) => Move(Executed)

(***************************************************************************)
(* A load or store of 8 to 128 bits moves the bytes from the address on,   *)
(* in order, wrapping at the end of DMEM, and touches no other: the fast   *)
(* path with its shuffle, the half-word path, the byte loop and the        *)
(* clipping at the end of the register all agree on it (ls.cpp).           *)
(***************************************************************************)
MovesInOrder == [][prog' # prog => MoveStep]_lsVars

BigEndianStep ==
  LET in == Executed
      n  == ScalarBytes(in.op)
  IN
  /\ in.op \in ScalarLoads =>
       \A k \in 0 .. n - 1 : sr'[5 - n + k] = Mem(dmem, (in.a + k) % Size)
  /\ in.op \in ScalarStores =>
       \A x \in 0 .. Size - 1 :
         LET k == (x - in.a) % Size
         IN  Mem(dmem', x) = IF k < n THEN sr[5 - n + k] ELSE Mem(dmem, x)

(***************************************************************************)
(* Scalar accesses are big-endian at every address, aligned or not, and    *)
(* wrap at the end of DMEM: what a store wrote, byte for byte, is what the *)
(* vector unit and the scalar unit read.                                   *)
(***************************************************************************)
ScalarIsBigEndian == [][prog' # prog => BigEndianStep]_lsVars

(***************************************************************************)
(* LQV and LRV sixteen bytes further load sixteen bytes from any address;  *)
(* SQV and SRV store them: the pair that microcode uses for unaligned      *)
(* vectors loses and duplicates nothing, also across the end of DMEM.      *)
(***************************************************************************)
Pair(first, second) ==
  /\ Len(prog) = 2 /\ prog[1].op = first /\ prog[2].op = second
  /\ prog[2].a = prog[1].a + 16 /\ prog[1].e = prog[2].e

UnalignedQuad ==
  /\ Pair("LQV", "LRV") /\ prog[1].e = 0 =>
       \A i \in Lane : Vec(regs, i) = Mem(InitDmem, (prog[1].a + i) % Size)
  /\ Pair("SQV", "SRV") =>
       \A i \in Lane : Mem(dmem, (prog[1].a + i) % Size) = Vec(InitRegs, (prog[1].e + i) % 16)

(***************************************************************************)
(* Bytes loaded into the elements by LPV, LUV, LHV and LFV and stored from *)
(* them by the store of the same kind come back to where they were.        *)
(***************************************************************************)
PackedBack == {<<"LPV", "SPV">>, <<"LUV", "SUV">>, <<"LHV", "SHV">>, <<"LFV", "SFV">>}

PackedRoundTrip ==
  (/\ Len(prog) = 2 /\ <<prog[1].op, prog[2].op>> \in PackedBack
   /\ prog[1].e = 0 /\ prog[2].e = 0 /\ prog[1].a = prog[2].a
   /\ Row8(prog[1].a % Size) < Size - 8)
  => dmem = InitDmem

(***************************************************************************)
(* Seven STV to seven rows of sixteen bytes, each with the next element,   *)
(* and seven LTV from the same rows with the elements the other way round  *)
(* transpose the eight elements of eight registers, in whatever order the  *)
(* rows are taken: STV and LTV agree on which diagonal a row holds.  The   *)
(* rows are aligned: at another address STV rotates a row by a % 8 and LTV *)
(* by bit 3 of the address, and they do not agree.                         *)
(***************************************************************************)
STVRow(base, k) == [op |-> "STV", e |-> 2 * k, a |-> base + 16 * k]
LTVRow(base, k) == [op |-> "LTV", e |-> 16 - 2 * k, a |-> base + 16 * k]

Transposes(p) ==
  /\ Len(p) = 14
  /\ \E base \in {p[n].a - 16 : n \in 1 .. 7} :
       /\ base % 16 = 0
       /\ \A k \in 1 .. 7 : /\ STVRow(base, k) \in {p[n] : n \in 1 .. 7}
                            /\ LTVRow(base, k) \in {p[n] : n \in 8 .. 14}

HalfOf(r, k) == <<r[2 * k], r[2 * k + 1]>>

TransposeCorrect ==
  Transposes(prog) =>
    \A r \in Reg, k \in Reg : HalfOf(regs[r], k) = HalfOf(InitRegs[k], r)

(***************************************************************************)
(* Nothing is written past the end of DMEM, except by the five stores that *)
(* mask the address once and add to it afterwards, in the last bytes; and  *)
(* what is written are bytes.                                              *)
(***************************************************************************)
MayPass(in) ==
  \/ in.op = "SLV" /\ in.a % Size > Size - 4
  \/ in.op \in {"SHV", "SFV", "SWV", "STV"} /\ in.a % Size >= Size - 8

StaysInDmem ==
  /\ HoldsBytes
  /\ (\A n \in DOMAIN prog : ~MayPass(prog[n])) =>
       \A h \in Size .. Size + Margin - 1 : dmem[h] = InitDmem[h]

=============================================================================
