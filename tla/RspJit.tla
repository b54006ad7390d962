------------------------------- MODULE RspJit -------------------------------
(***************************************************************************)
(* The code CPU::jit_region (rsp_jit.cpp) emits for a region of IMEM, run  *)
(* one guest instruction at a time: what each instruction leaves in the    *)
(* registers that carry branch state, and what the glue emitted after it   *)
(* does with them (latent, impossible and normal delay slots, end of       *)
(* block, exits), together with the enter and return thunks.               *)
(*                                                                         *)
(* Compile-time facts (InstructionInfo, block_entry) are operators on the  *)
(* program, run-time facts are variables.  IMEM does not change while      *)
(* compiled code runs: module CodeCache is about that.                     *)
(***************************************************************************)
EXTENDS RegionAnalysis

CONSTANTS
  Programs,     \* the contents of IMEM considered, a subset of [Word -> Instructions]
  Links,        \* what the link register may hold at first
  NoTarget      \* the content of a register or frame slot nobody has written

ASSUME ProgramAssumption ==
  /\ Programs \subseteq [Word -> Instructions]
  /\ Links \subseteq Word
  /\ NoTarget \notin Word

VARIABLES
  imem,
  phase,              \* "host"; "enter": at the enter thunk; "region": in compiled code
  pc,                 \* CPUState.pc, written by the return thunk
  next_pc,            \* JIT_REGISTER_NEXT_PC, what the thunk is about to enter
  code, idx,          \* the compiled region being run and the index of the
                      \* instruction in it; NoCode and 0 outside a region
  has_delay_slot,     \* CPUState.has_delay_slot
  branch_target,      \* CPUState.branch_target
  cond,               \* MIPS register COND_BRANCH_TAKEN
  illegal_cond,       \* its copy in the frame
  indirect,           \* JIT_REGISTER_INDIRECT_PC
  illegal_indirect,   \* its copy in the frame
  ra                  \* the guest's link register

latentVars   == <<has_delay_slot, branch_target>>
indirectVars == <<indirect, illegal_indirect, ra>>
vars == <<imem, phase, pc, next_pc, code, idx, latentVars, cond, illegal_cond, indirectVars>>

-----------------------------------------------------------------------------
(***************************************************************************)
(* Compile time: jit_region for the words b .. end-1 of program m.         *)
(***************************************************************************)
NoInfo == [branch |-> FALSE, indirect |-> FALSE, conditional |-> FALSE, target |-> 0]

(***************************************************************************)
(* The InstructionInfo jit_instruction fills in.  A jump whose delay slot  *)
(* can be branched to is compiled as a conditional branch.                 *)
(***************************************************************************)
JitInstruction(ins, next_instruction_is_branch_target) ==
  [branch      |-> ins.op \in (DirectOps \cup IndirectOps) \ {"BGTZ0"},
   indirect    |-> ins.op \in IndirectOps,
   conditional |-> \/ ins.op \in ComputedOps
                   \/ ins.op \in JumpOps /\ next_instruction_is_branch_target,
   target      |-> ins.target]

(***************************************************************************)
(* A compiled region: its first word, the labels in it and, for each       *)
(* instruction, its opcode, what was known of it and what was known of the *)
(* one before it.                                                          *)
(***************************************************************************)
JitRegion(m, b, end) ==
  LET entries == BlockEntries(m, b, end)
      info == [i \in 0 .. end - b - 1 |->
                 JitInstruction(m[b + i], b + i + 1 \in entries)]
  IN  [base    |-> b,
       count   |-> end - b,
       entries |-> entries,
       op      |-> [i \in 0 .. end - b - 1 |-> m[b + i].op],
       info    |-> info,
       last    |-> [i \in 0 .. end - b |-> IF i = 0 THEN NoInfo ELSE info[i - 1]]]

NoCode == [count |-> 0]

-----------------------------------------------------------------------------
(***************************************************************************)
(* Run time, at instruction idx of the region.                             *)
(***************************************************************************)
Op   == code.op[idx]
Info == code.info[idx]
Last == code.last[idx]

AtInstruction == phase = "region" /\ idx < code.count

\* jit_handle_delay_slot: the branch is a goto to a label of this region.
IsLocal(info) ==
  ~info.indirect /\ info.target >= code.base /\ info.target < code.base + code.count

\* FLUSH_IMPOSSIBLE_DELAY_SLOT, emitted by every branch opcode, BGTZ $0 too.
FlushesDelaySlot == Op \in DirectOps \cup IndirectOps
SavedCond == IF FlushesDelaySlot /\ Last.branch /\ Last.conditional
             THEN cond ELSE illegal_cond
\* Mutant: the illegal indirect register is not saved.
SavedIndirect_Forgotten == illegal_indirect

SavedIndirect == IF FlushesDelaySlot /\ Last.branch /\ Last.indirect
                 THEN indirect ELSE illegal_indirect

\* COND_BRANCH_TAKEN after the instruction; BLEZ $0 leaves it alone.
CondAfter(taken) ==
  CASE Op \in ComputedOps -> taken
    [] Op \in JumpOps     -> Info.conditional
    [] OTHER                  -> cond

IndirectAfter == IF Op \in IndirectOps THEN ra ELSE indirect

\* The target of the branch at idx, once its code has run.
TargetAfter == IF Info.indirect THEN IndirectAfter ELSE Info.target

\* The target of the branch before idx, seen from the code at idx.
LastTarget == IF Last.indirect THEN indirect ELSE Last.target

GotoThunk(target) ==
  /\ phase' = "enter"
  /\ next_pc' = target
  /\ code' = NoCode /\ idx' = 0

GotoIndex(i) ==
  /\ idx' = i
  /\ UNCHANGED <<phase, next_pc, code>>

-----------------------------------------------------------------------------
(***************************************************************************)
(* The glue jit_region emits after an instruction that left c in           *)
(* COND_BRANCH_TAKEN.                                                      *)
(***************************************************************************)

\* Mutant: a branch in a latent delay slot is dropped.
HandleLatentDelaySlot_DropsSecond(c) ==
  /\ idx = 0 /\ has_delay_slot
  /\ has_delay_slot' = FALSE
  /\ GotoThunk(branch_target)
  /\ cond' = c
  /\ illegal_cond' = SavedCond
  /\ UNCHANGED branch_target

(* After instruction 0: a branch of the previous region is still pending.  *)
(* jit_handle_latent_delay_slot goes to its target, and when instruction 0 *)
(* is itself a branch makes that one the pending branch.                   *)
HandleLatentDelaySlot(c) ==
  /\ idx = 0 /\ has_delay_slot
  /\ has_delay_slot' = (Info.branch /\ (Info.conditional => c))
  /\ branch_target' = IF Info.branch THEN TargetAfter ELSE branch_target
  /\ GotoThunk(branch_target)
  /\ cond' = c
  /\ illegal_cond' = SavedCond

(* Two branches in a row.  If the first is taken, go to its target with    *)
(* the second pending.  With an unconditional first branch the register    *)
(* that holds the condition of the second is the one used to clear the     *)
(* frame slot, so a conditional second branch is never left pending.       *)
HandleImpossibleDelaySlot(c) ==
  /\ idx > 0 /\ Info.branch /\ Last.branch
  /\ illegal_cond' = FALSE
  /\ cond' = c
  /\ IF Last.conditional => SavedCond
     THEN /\ has_delay_slot' = (Info.conditional => (Last.conditional /\ c))
          /\ branch_target' = TargetAfter
          /\ GotoThunk(IF Last.indirect THEN SavedIndirect ELSE Last.target)
     ELSE GotoIndex(idx + 1) /\ UNCHANGED latentVars

(* The instruction was the delay slot of a branch: clear the condition and *)
(* branch, by a goto when the target is a label of the region.             *)
HandleDelaySlot(c) ==
  /\ idx > 0 /\ ~Info.branch /\ Last.branch
  /\ cond' = FALSE
  /\ illegal_cond' = SavedCond
  /\ IF Last.conditional => c
     THEN IF IsLocal(Last)
          THEN GotoIndex(Last.target - code.base)
          ELSE GotoThunk(LastTarget)
     ELSE GotoIndex(idx + 1)
  /\ UNCHANGED latentVars

\* Nothing was pending: run into the next instruction.
FallThrough(c) ==
  /\ IF idx = 0 THEN ~has_delay_slot ELSE ~Last.branch
  /\ cond' = c
  /\ illegal_cond' = SavedCond
  /\ GotoIndex(idx + 1)
  /\ UNCHANGED latentVars

(* An instruction and the glue after it.  BREAK always leaves, MFC0 and    *)
(* MTC0 continue here when they return MODE_CONTINUE.                      *)
Instruction ==
  /\ AtInstruction
  /\ Op # "BREAK"
  /\ indirect' = IndirectAfter
  /\ illegal_indirect' = SavedIndirect
  /\ ra' \in Linked(Op, code.base + idx, ra)
  /\ \E taken \in Outcomes(Op) :
       \/ HandleLatentDelaySlot(CondAfter(taken))
       \/ HandleImpossibleDelaySlot(CondAfter(taken))
       \/ HandleDelaySlot(CondAfter(taken))
       \/ FallThrough(CondAfter(taken))
  /\ UNCHANGED <<imem, pc>>

-----------------------------------------------------------------------------
\* jit_end_of_block: move a pending branch to CPUState, enter the next word.
EndOfBlock ==
  /\ phase = "region"
  /\ idx = code.count
  /\ IF Last.branch /\ (Last.conditional => cond)
     THEN has_delay_slot' = TRUE /\ branch_target' = LastTarget
     ELSE UNCHANGED latentVars
  /\ GotoThunk((code.base + idx) % ImemWords)
  /\ UNCHANGED <<imem, pc, cond, illegal_cond, indirectVars>>

(* jit_exit_dynamic and the return thunk: CPUState.pc gets the target of   *)
(* the branch in whose delay slot the instruction is, if any.              *)
ExitPc ==
  CASE idx = 0 /\ has_delay_slot -> branch_target
    [] idx > 0 /\ Last.branch /\ (Last.conditional => cond) -> LastTarget
    [] OTHER -> Succ(code.base + idx)

Exit ==
  /\ AtInstruction
  /\ Op \in {"BREAK", "COP0"}
  /\ phase' = "host"
  /\ pc' = ExitPc
  /\ next_pc' = ExitPc
  /\ code' = NoCode /\ idx' = 0
  /\ has_delay_slot' = IF idx = 0 THEN FALSE ELSE has_delay_slot
  /\ UNCHANGED <<imem, branch_target, cond, illegal_cond, indirectVars>>

(* The enter thunk: look the region up and forget all branch state but the *)
(* latent delay slot.                                                      *)
EnterThunk ==
  /\ phase = "enter"
  /\ phase' = "region"
  /\ code' = JitRegion(imem, next_pc, RegionEnd(imem, next_pc))
  /\ idx' = 0
  /\ cond' = FALSE
  /\ illegal_cond' = FALSE
  /\ UNCHANGED <<imem, pc, next_pc, latentVars, indirectVars>>

(* DoRspCycles and CPU::enter: the emulator sets the PC and a new frame is *)
(* made, in which the saved registers hold nothing of the guest's.         *)
Resume(start) ==
  /\ phase = "host"
  /\ phase' = "enter"
  /\ pc' = start
  /\ next_pc' = start
  /\ indirect' = NoTarget
  /\ illegal_indirect' = NoTarget
  /\ UNCHANGED <<imem, code, idx, latentVars, cond, illegal_cond, ra>>

Init ==
  /\ imem \in Programs
  /\ phase = "host"
  /\ pc = 0 /\ next_pc = 0
  /\ code = NoCode /\ idx = 0
  /\ has_delay_slot = FALSE /\ branch_target = 0
  /\ cond = FALSE /\ illegal_cond = FALSE
  /\ indirect = NoTarget /\ illegal_indirect = NoTarget
  /\ ra \in Links

Next ==
  \/ Instruction
  \/ EndOfBlock
  \/ Exit
  \/ EnterThunk
  \/ \E start \in Word : Resume(start)

Spec == Init /\ [][Next]_vars

-----------------------------------------------------------------------------
(***************************************************************************)
(* Properties.                                                             *)
(***************************************************************************)

(***************************************************************************)
(* The two shapes of code that jit_region is known to mistranslate, shown  *)
(* by the runs jit_static_pair and jit_blez_entry: a conditional branch    *)
(* after an unconditional one in the same region, and a BLEZ $0 whose      *)
(* delay slot is a label.                                                  *)
(***************************************************************************)
Regions(m) == {JitRegion(m, b, RegionEnd(m, b)) : b \in Word}

ConditionalAfterStatic(region) ==
  \E i \in 0 .. region.count - 1 :
    /\ region.last[i].branch /\ ~region.last[i].conditional
    /\ region.info[i].branch /\ region.info[i].conditional

StaticBlezIntoLabel(region) ==
  \E i \in 0 .. region.count - 1 :
    region.op[i] = "BLEZ0" /\ region.base + i + 1 \in region.entries

Translated(programs) ==
  {m \in programs : \A region \in Regions(m) :
     ~ConditionalAfterStatic(region) /\ ~StaticBlezIntoLabel(region)}

\* Every value is one the generated code can hold; in particular control
\* never goes to a register or frame slot that was not written (NoTarget),
\* and a region fits the arrays of jit_region, which asserts
\* instruction_count <= CODE_BLOCK_WORDS * 2.
TypeOK ==
  /\ imem \in [Word -> Instructions]
  /\ phase \in {"host", "enter", "region"}
  /\ pc \in Word /\ next_pc \in Word /\ branch_target \in Word /\ ra \in Word
  /\ idx \in 0 .. code.count
  /\ phase = "region" => code.count \in 1 .. 2 * BlockWords
  /\ {has_delay_slot, cond, illegal_cond} \subseteq BOOLEAN
  /\ {indirect, illegal_indirect} \subseteq Word \cup {NoTarget}

(***************************************************************************)
(* The branch pending before the next instruction, as jit_region's code    *)
(* will find it: in CPUState at the start of a region, in the condition    *)
(* and indirect registers inside it.                                       *)
(***************************************************************************)
Pending ==
  IF phase = "region" /\ idx > 0
  THEN IF Last.branch /\ (Last.conditional => cond) THEN LastTarget ELSE NoTarget
  ELSE IF has_delay_slot THEN branch_target ELSE NoTarget

GuestPc ==
  CASE phase = "host"   -> pc
    [] phase = "enter"  -> next_pc
    [] phase = "region" -> (code.base + idx) % ImemWords

Guest == INSTANCE RspIsa WITH
         mode  <- IF phase = "host" THEN "host" ELSE "run",
         pc    <- GuestPc,
         delay <- Pending

(***************************************************************************)
(* The compiled code implements the guest's control flow: whatever way a   *)
(* program is cut into regions, every instruction runs at the right time,  *)
(* every taken branch is taken exactly once and after exactly one more     *)
(* instruction, and an exit from a delay slot hands the emulator the       *)
(* branch target and leaves none latent in CPUState, where it would fire   *)
(* after the first instruction of whatever is started next (jit_region and *)
(* the handlers it calls).                                                 *)
(***************************************************************************)
RefinesIsa == Guest!Spec

(***************************************************************************)
(* When jit_handle_delay_slot records a goto to a word of the region, that *)
(* word has a label: jit_region patches the goto with                      *)
(* branch_targets[local_index], which is written for block entries only.   *)
(***************************************************************************)
LocalGotoHasLabel ==
  AtInstruction /\ Last.branch /\ ~Info.branch /\ IsLocal(Last)
    => Last.target \in code.entries

(***************************************************************************)
(* "the second branch then kicks in": a branch whose condition holds, in   *)
(* the delay slot of a taken branch, is pending when the first one's       *)
(* target is entered (jit_handle_impossible_delay_slot,                    *)
(* jit_handle_latent_delay_slot).  BEQ r,r is used because its condition   *)
(* always holds.                                                           *)
(***************************************************************************)
SecondBranchKicksIn ==
  [][AtInstruction /\ Pending # NoTarget /\ Op = "BEQSAME"
       => has_delay_slot' /\ branch_target' = Info.target]_vars

(***************************************************************************)
(* An instruction that is not a branch leaves nothing pending, also when   *)
(* it is a delay slot from which the region goes on at one of its labels:  *)
(* a goto into a delay slot must not take the branch in front of it        *)
(* (jit_mark_block_entries).                                               *)
(***************************************************************************)
NothingPendingAtLabel ==
  [][AtInstruction /\ ~Info.branch => Pending' = NoTarget]_vars

=============================================================================
