--------------------------- MODULE RegionAnalysis ---------------------------
(***************************************************************************)
(* What CPU::get_jit_block, CPU::analyze_static_end and                    *)
(* CPU::jit_mark_block_entries (rsp_jit.cpp) compute about a stretch of    *)
(* IMEM before it is compiled: where the region that starts at a word ends *)
(* and which of its words can be reached by a local goto.                  *)
(*                                                                         *)
(* Addresses are word addresses 0 .. ImemWords-1.  An instruction is       *)
(* abstracted to what control flow can tell apart: its class "op" and, for *)
(* the direct branches, the word address "target" it encodes.  The relative*)
(* encoding (pc + 1 + offset) & 0x3ff and the absolute one of J and JAL    *)
(* reach every word, so the target is kept resolved.                       *)
(***************************************************************************)
EXTENDS Integers, FiniteSetsExt

CONSTANTS
  BlockWords,   \* CODE_BLOCK_WORDS, 64 in state.hpp
  CodeBlocks    \* CODE_BLOCKS, 16 in state.hpp

ASSUME BlockAssumption ==
  /\ BlockWords \in Nat \ {0}
  /\ CodeBlocks \in Nat \ {0}

ImemWords == BlockWords * CodeBlocks
Word == 0 .. ImemWords - 1

\* pc + 4 and pc + 8, both masked with 0xffc.
Succ(a) == (a + 1) % ImemWords
Link(a) == (a + 2) % ImemWords

-----------------------------------------------------------------------------
(***************************************************************************)
(* Instruction classes.                                                    *)
(*   OP       anything that neither branches nor leaves the JIT: scalar    *)
(*            ALU, loads and stores, COP2, LWC2/SWC2, undefined encodings  *)
(*   COP0     MFC0, MTC0: call out to C++ and leave the JIT if it asks to  *)
(*   BREAK    leaves the JIT                                               *)
(*   BCC      BEQ BNE BLTZ BGEZ, and BLEZ BGTZ with rs # $0                *)
(*   BEQSAME  BEQ r,r: compiled like any BEQ, its condition always holds   *)
(*   BCCAL    BLTZAL, BGEZAL                                               *)
(*   BLEZ0    BLEZ $0: "an unconditional branch"                           *)
(*   BGTZ0    BGTZ $0: "meaningless", never branches                       *)
(*   J, JAL, JR, JALR                                                      *)
(*   JALR0    JALR without a register to link                              *)
(*   LWRA     anything that loads the link register                        *)
(* JR and JALR read, and JAL, JALR and BCCAL write, the one link register  *)
(* of the model.                                                           *)
(***************************************************************************)
ComputedOps == {"BCC", "BEQSAME", "BCCAL"}
JumpOps     == {"J", "JAL", "JR", "JALR", "JALR0"}
IndirectOps == {"JR", "JALR", "JALR0"}
LinkOps     == {"JAL", "JALR", "BCCAL"}
RelativeOps == ComputedOps \cup {"BLEZ0", "BGTZ0"}
DirectOps   == RelativeOps \cup {"J", "JAL"}
PlainOps    == {"OP", "COP0", "BREAK", "LWRA"}

\* Every word that can be in IMEM; a class without a target has target 0.
Instructions ==
  [op : DirectOps, target : Word] \cup [op : PlainOps \cup IndirectOps, target : {0}]

\* Whether the branch condition can hold: BCC and BCCAL depend on registers.
Outcomes(op) ==
  CASE op \in {"BCC", "BCCAL"} -> BOOLEAN
    [] op \in JumpOps \cup {"BEQSAME", "BLEZ0"} -> {TRUE}
    [] OTHER -> {FALSE}

\* The values the link register may have after the instruction at word a.
Linked(op, a, ra) ==
  CASE op \in LinkOps -> {Link(a)} [] op = "LWRA" -> Word [] OTHER -> {ra}

-----------------------------------------------------------------------------
BlockOf(a) == a \div BlockWords

\* get_jit_block: the end of the code block after the one pc is in, capped
\* at the end of IMEM.
RegionLimit(pc) == Min({(BlockOf(pc) + 2) * BlockWords, ImemWords})

\* target >= pc && target < end, for the branches that carry a target.
IsLocalGoto(ins, pc, end) ==
  ins.op \in DirectOps /\ ins.target >= pc /\ ins.target < end

(***************************************************************************)
(* One iteration of the scan of analyze_static_end at word a.  "max" is    *)
(* max_static_pc; a forward goto over a keeps the stream alive, otherwise  *)
(* an unconditional transfer ends it, after its delay slot.                *)
(***************************************************************************)
ScanWord(m, pc, end, a, max) ==
  LET forward_goto == a + 1 < max
      reached      == IF forward_goto THEN max ELSE a + 1
  IN  IF m[a].op \in JumpOps \cup {"BREAK"} /\ ~forward_goto
      THEN [max  |-> IF m[a].op = "BREAK" THEN reached ELSE Max({a + 2, reached}),
            stop |-> TRUE]
      ELSE [max  |-> IF IsLocalGoto(m[a], pc, end)
                     THEN Max({reached, m[a].target + 1}) ELSE reached,
            stop |-> FALSE]

AnalyzeStaticEnd(m, pc, end) ==
  LET scan[n \in 0 .. end - pc] ==
        IF n = 0 THEN [max |-> pc, stop |-> FALSE]
        ELSE IF scan[n - 1].stop THEN scan[n - 1]
        ELSE ScanWord(m, pc, end, pc + n - 1, scan[n - 1].max)
  IN  Min({scan[end - pc].max, end})

\* The first word after the region get_jit_block compiles for pc.
RegionEnd(m, pc) == AnalyzeStaticEnd(m, pc, RegionLimit(pc))

\* Mutant: the entries of JAL are forgotten.
BlockEntries_NoJal(m, pc, end) ==
  {m[a].target : a \in {b \in pc .. end - 1 : IsLocalGoto(m[b], pc, end) /\ m[b].op # "JAL"}}

\* jit_mark_block_entries: the words of [pc, end) that need a label.
BlockEntries(m, pc, end) ==
  {m[a].target : a \in {b \in pc .. end - 1 : IsLocalGoto(m[b], pc, end)}}

=============================================================================
