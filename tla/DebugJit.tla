------------------------------ MODULE DebugJit ------------------------------
(***************************************************************************)
(* The reference the repository's tests compare the JIT with: CPU          *)
(* (debug_rsp.cpp) writes C for a region of IMEM, has it compiled and runs *)
(* it.  A region is a C function; a local branch is a goto, a call enters  *)
(* the callee's function from the caller's, a return leaves it when        *)
(* RSP_RETURN says that its caller is where JR goes, and everything else   *)
(* unwinds to CPU::run with longjmp.                                       *)
(*                                                                         *)
(* One action is one guest instruction with the glue after it.  The code   *)
(* cache of this CPU is the one of module CodeCache; IMEM does not change. *)
(***************************************************************************)
EXTENDS RegionAnalysis, Sequences

CONSTANTS
  Programs,          \* the contents of IMEM considered
  NoTarget,
  CALL_STACK_SIZE,   \* 32 in debug_rsp.hpp
  MaxFrames          \* bound on the nesting of compiled functions

ASSUME DebugAssumption ==
  /\ Programs \subseteq [Word -> Instructions]
  /\ NoTarget \notin Word
  /\ CALL_STACK_SIZE \in Nat /\ MaxFrames \in Nat \ {0}

VARIABLES
  imem,
  phase,             \* "host"; "run": in the loop of CPU::run; "region"
  pc,                \* CPUState.pc
  has_delay_slot, branch_target,    \* CPUState
  ra,                \* the guest's link register
  frames,            \* the active functions, innermost last
  call_stack         \* CPU::call_stack, call_stack_ptr being its length

latentVars == <<has_delay_slot, branch_target>>
vars == <<imem, phase, pc, latentVars, ra, frames, call_stack>>

-----------------------------------------------------------------------------
(***************************************************************************)
(* Compile time.  The scan of analyze_static_end: unlike the one of        *)
(* rsp_jit.cpp it runs on past a call, and a jump inside the limit ends    *)
(* the region wherever it goes.                                            *)
(***************************************************************************)
DebugScanWord(m, b, end, a, max) ==
  LET forward_goto == a + 1 < max
      reached      == IF forward_goto THEN max ELSE a + 1
  IN  IF m[a].op \in {"J", "JR", "BREAK"} /\ ~forward_goto
      THEN [max  |-> IF m[a].op = "BREAK" THEN reached ELSE Max({a + 2, reached}),
            stop |-> TRUE]
      ELSE [max  |-> IF m[a].op # "JAL" /\ IsLocalGoto(m[a], b, end)
                     THEN Max({reached, m[a].target + 1}) ELSE reached,
            stop |-> FALSE]

DebugRegionEnd(m, b) ==
  LET end == RegionLimit(b)
      scan[n \in 0 .. end - b] ==
        IF n = 0 THEN [max |-> b, stop |-> FALSE]
        ELSE IF scan[n - 1].stop THEN scan[n - 1]
        ELSE DebugScanWord(m, b, end, b + n - 1, scan[n - 1].max)
  IN  Min({scan[end - b].max, end})

(* What the translator holds in pipe_pending_* after an instruction of the *)
(* region b .. end-1: set_pc or set_pc_indirect, and the kind of jump.     *)
NotPending == [branch |-> FALSE, local |-> FALSE, kind |-> "branch", target |-> 0]

Pipe(ins, b, end) ==
  IF ins.op \notin DirectOps \cup IndirectOps THEN NotPending
  ELSE [branch |-> TRUE,
        local  |-> IsLocalGoto(ins, b, end),
        kind   |-> CASE ins.op \in {"JAL", "JALR", "JALR0"} -> "call"
                     [] ins.op = "JR" -> "return" [] OTHER -> "branch",
        target |-> ins.target]

-----------------------------------------------------------------------------
(***************************************************************************)
(* Run time.  A function keeps pipe_branch and pipe_branch_delay, the      *)
(* latter only written for branches that leave the region; ADVANCE_DELAY_- *)
(* SLOT makes them branch and branch_delay of the next instruction.        *)
(***************************************************************************)
NewFrame(a) ==
  [base |-> a, end |-> DebugRegionEnd(imem, a), at |-> a,
   pipe_branch |-> FALSE, pipe_branch_delay |-> 0]

Top   == frames[Len(frames)]
Ins   == imem[Top.at]
Taken == Top.pipe_branch        \* branch, at the instruction Top.at

PipeAt(a) == Pipe(imem[a], Top.base, Top.end)
Piped     == PipeAt(Top.at)
Pending   == IF Top.at = Top.base THEN NotPending ELSE PipeAt(Top.at - 1)

\* Where the pending branch goes: a constant of a goto, or branch_delay.
Goes == IF Pending.local THEN Pending.target ELSE Top.pipe_branch_delay

AtInstruction == phase = "region" /\ Top.at < Top.end

\* The emitted code writes the link register before BRANCH_INDIRECT reads rs.
DelayAfter(link) ==
  IF ~Piped.branch \/ Piped.local THEN Top.pipe_branch_delay
  ELSE IF Ins.op \in IndirectOps THEN link ELSE Ins.target

\* The innermost function goes on at word a with these locals.
Goto(a, taken, to) ==
  /\ frames' = [frames EXCEPT ![Len(frames)].at = a,
                              ![Len(frames)].pipe_branch = taken,
                              ![Len(frames)].pipe_branch_delay = to]
  /\ UNCHANGED <<phase, pc, latentVars, call_stack>>

(* EXIT(MODE_CONTINUE): longjmp to CPU::run, which empties the call stack. *)
Unwind(to) ==
  /\ pc' = to
  /\ phase' = "run"
  /\ frames' = <<>> /\ call_stack' = <<>>

\* PROMOTE_DELAY_SLOT and PROMOTE_LOCAL_DELAY_SLOT: the branch stays pending.
Promote(taken, to, otherwise) ==
  /\ has_delay_slot' = (taken \/ otherwise)
  /\ branch_target' = IF taken THEN to ELSE branch_target

\* As the translator chooses between the two.
PromotePiped(taken, to, otherwise) ==
  Promote(taken, IF Piped.local THEN Piped.target ELSE to, otherwise)

-----------------------------------------------------------------------------
(***************************************************************************)
(* The glue after an instruction that left taken and to in pipe_branch and *)
(* pipe_branch_delay.                                                      *)
(***************************************************************************)
NextIn(taken, to) == Goto(Top.at + 1, taken, to)

\* Mutant: a branch in the delay slot of an inherited branch is dropped.
InheritBranchDelay_Drops(taken, to) ==
  /\ Top.at = Top.base /\ has_delay_slot
  /\ Unwind(branch_target)
  /\ has_delay_slot' = FALSE /\ UNCHANGED branch_target

\* CHECK_INHERIT_BRANCH_DELAY, after the first instruction of a region.
InheritBranchDelay(taken, to) ==
  /\ Top.at = Top.base /\ has_delay_slot
  /\ Unwind(branch_target)
  /\ PromotePiped(taken, to, FALSE)

\* CHECK_BRANCH_DELAY, nothing to do: no branch before, or it was not taken.
NoBranchDelay(taken, to) ==
  /\ IF Top.at = Top.base THEN ~has_delay_slot ELSE ~(Pending.branch /\ Taken)
  /\ NextIn(taken, to)

BranchDelay == Top.at > Top.base /\ Pending.branch /\ Taken

\* RSP_CALL: remember where to go on and enter the callee from here.
Call(taken, to) ==
  /\ BranchDelay /\ Pending.kind = "call" /\ ~Piped.branch
  /\ Len(frames) < MaxFrames
  /\ call_stack' = IF Len(call_stack) < CALL_STACK_SIZE
                   THEN Append(call_stack, (Top.at + 1) % ImemWords) ELSE call_stack
  /\ frames' = Append([frames EXCEPT ![Len(frames)].at = @ + 1,
                                     ![Len(frames)].pipe_branch = FALSE,
                                     ![Len(frames)].pipe_branch_delay = to],
                      NewFrame(Goes))
  /\ UNCHANGED <<phase, pc, latentVars>>

(* The C function returns: to the function that called it, or to CPU::run, *)
(* which enters CPUState.pc again.                                         *)
LeaveFunction ==
  /\ frames' = SubSeq(frames, 1, Len(frames) - 1)
  /\ phase' = IF Len(frames) = 1 THEN "run" ELSE phase
  /\ UNCHANGED <<pc, latentVars>>

\* What CPU::ret answers: the entry it pops is the word JR goes to.
ReturnMatches == call_stack # <<>> /\ call_stack[Len(call_stack)] = Goes

\* Mutant: RSP_RETURN leaves the entry it matched on the stack.
Return_Peeks(taken, to) ==
  /\ BranchDelay /\ Pending.kind = "return" /\ ~Piped.branch
  /\ \/ LeaveFunction /\ UNCHANGED call_stack
     \/ Unwind(Goes) /\ UNCHANGED latentVars

(* RSP_RETURN pops the call stack, whether or not the entry is the right   *)
(* one.  The emitted code declares it int and tests its result, but it is  *)
(* defined void and drops what CPU::ret answers: whether the emitted code  *)
(* sees an answer, and which, is up to the compiler that built it.         *)
Return(taken, to) ==
  /\ BranchDelay /\ Pending.kind = "return" /\ ~Piped.branch
  /\ \/ LeaveFunction /\ call_stack' = SubSeq(call_stack, 1, Len(call_stack) - 1)
     \/ Unwind(Goes) /\ UNCHANGED latentVars

(* A branch after which another one is (or is not) pending.  For two local *)
(* branches the emitted PROMOTE_DELAY_SLOT reads pipe_branch_delay, which  *)
(* a local branch does not write.                                          *)
Branch(taken, to) ==
  /\ BranchDelay /\ (Pending.kind = "branch" \/ Piped.branch)
  /\ IF Pending.local
     THEN IF Piped.branch /\ taken
          THEN Unwind(Pending.target) /\ Promote(taken, to, has_delay_slot)
          ELSE Goto(Pending.target, taken, to)
     ELSE Unwind(Goes) /\ PromotePiped(taken, to, has_delay_slot)

Instruction ==
  /\ AtInstruction
  /\ Ins.op # "BREAK"
  /\ ra' \in Linked(Ins.op, Top.at, ra)
  /\ \E taken \in Outcomes(Ins.op) :
       LET to == DelayAfter(ra')
       IN  \/ InheritBranchDelay(taken, to)
           \/ NoBranchDelay(taken, to)
           \/ Call(taken, to)
           \/ Return(taken, to)
           \/ Branch(taken, to)
  /\ UNCHANGED imem

-----------------------------------------------------------------------------
\* Falling off the end of the region.
EndOfBlock ==
  /\ phase = "region" /\ Top.at = Top.end
  /\ Unwind(Top.end % ImemWords)
  /\ Promote(Pending.branch /\ Top.pipe_branch, Goes, has_delay_slot)
  /\ UNCHANGED <<imem, ra>>

\* EXIT_WITH_DELAY: an exit in a delay slot has already branched.
ExitPc ==
  IF Pending.branch THEN IF Taken THEN Goes ELSE Succ(Top.at)
  ELSE IF has_delay_slot THEN branch_target ELSE Succ(Top.at)

\* BREAK, or an MFC0 or MTC0 that asks to leave.
Exit ==
  /\ AtInstruction
  /\ Ins.op \in {"BREAK", "COP0"}
  /\ phase' = "host"
  /\ pc' = ExitPc
  /\ has_delay_slot' = (Pending.branch /\ has_delay_slot)
  /\ frames' = <<>> /\ call_stack' = <<>>
  /\ UNCHANGED <<imem, branch_target, ra>>

\* CPU::enter from the loop of CPU::run.
Enter ==
  /\ phase = "run"
  /\ phase' = "region"
  /\ frames' = <<NewFrame(pc)>>
  /\ UNCHANGED <<imem, pc, latentVars, ra, call_stack>>

\* The emulator sets the PC and calls CPU::run.
Resume(start) ==
  /\ phase = "host"
  /\ phase' = "run"
  /\ pc' = start
  /\ UNCHANGED <<imem, latentVars, ra, frames, call_stack>>

Init ==
  /\ imem \in Programs
  /\ phase = "host" /\ pc = 0
  /\ has_delay_slot = FALSE /\ branch_target = 0
  /\ ra \in Word
  /\ frames = <<>> /\ call_stack = <<>>

Next ==
  \/ Instruction
  \/ EndOfBlock
  \/ Exit
  \/ Enter
  \/ \E start \in Word : Resume(start)

Spec == Init /\ [][Next]_vars

-----------------------------------------------------------------------------
(***************************************************************************)
(* Properties.                                                             *)
(***************************************************************************)

(***************************************************************************)
(* Two shapes of code the reference does not translate.  Two local         *)
(* branches in a row: the emitted code loses the target of the second, and *)
(* debug-toolchain/beq-impossible-delay-slot-both-taken.s says of its      *)
(* program that it "hangs the reference".  A JALR that links the register  *)
(* it jumps through, as JALR does in this model: see DelayAfter.           *)
(***************************************************************************)
LocalPair(m, b) ==
  LET end == DebugRegionEnd(m, b)
  IN  \E a \in b .. end - 2 : /\ Pipe(m[a], b, end).local
                              /\ Pipe(m[a + 1], b, end).local

Translated(programs) ==
  {m \in programs : \A b \in Word : ~LocalPair(m, b) /\ m[b].op # "JALR"}

\* The variables and locals keep their types; no more calls are remembered
\* than call_stack has room for (CPU::call).
TypeOK ==
  /\ imem \in [Word -> Instructions]
  /\ phase \in {"host", "run", "region"}
  /\ {pc, branch_target, ra} \subseteq Word
  /\ has_delay_slot \in BOOLEAN
  /\ (frames # <<>>) = (phase = "region")
  /\ \A k \in 1 .. Len(frames) :
       /\ frames[k].base \in Word /\ frames[k].at \in frames[k].base .. frames[k].end
       /\ frames[k].pipe_branch \in BOOLEAN /\ frames[k].pipe_branch_delay \in Word
  /\ call_stack \in Seq(Word) /\ Len(call_stack) <= CALL_STACK_SIZE

(* While no call had to go unrecorded, the call stack holds, from the      *)
(* outside in, the words where the active functions go on: it mirrors the  *)
(* host's stack, so the comparison of its last entry with the target of a  *)
(* JR in CPU::ret is the right question, whatever becomes of the answer.   *)
(* All along the state is well-typed.                                      *)
CallStackMirrorsFrames ==
  /\ TypeOK
  /\ Len(frames) <= CALL_STACK_SIZE + 1 =>
       call_stack = [k \in 1 .. Len(frames) - 1 |-> frames[k].at % ImemWords]

GuestPc == IF phase = "region" THEN Top.at % ImemWords ELSE pc

GuestDelay ==
  IF phase = "region" /\ Top.at > Top.base
  THEN IF Pending.branch /\ Top.pipe_branch THEN Goes ELSE NoTarget
  ELSE IF has_delay_slot THEN branch_target ELSE NoTarget

Guest == INSTANCE RspIsa WITH
         mode  <- IF phase = "host" THEN "host" ELSE "run",
         pc    <- GuestPc,
         delay <- GuestDelay

(***************************************************************************)
(* The reference implements the guest's control flow, as the JIT does      *)
(* (RspJit): gotos, calls that nest on the host's stack, returns and       *)
(* unwinding are invisible to the guest (CPU::jit_region, call, ret, run). *)
(* This is what the emitted code is written for: it declares RSP_RETURN as *)
(* "extern int RSP_RETURN(void *opaque, unsigned pc);" and returns only    *)
(* "if (RSP_RETURN(opaque, ...)) return;".  The code does not keep it.     *)
(***************************************************************************)
RefinesIsa == Guest!Spec

\* A compiled function returns although CPU::ret answered that JR goes elsewhere.
Misled ==
  /\ AtInstruction /\ BranchDelay /\ Pending.kind = "return" /\ ~Piped.branch
  /\ ~ReturnMatches
  /\ LeaveFunction
  /\ UNCHANGED imem

(***************************************************************************)
(* The lost answer of CPU::ret is all that parts the reference from the    *)
(* guest: every other step, unwinding from a JR that matched included, is  *)
(* one of the guest or invisible to it, and so is all that comes after.    *)
(***************************************************************************)
RefinesUnlessMisled ==
  /\ Guest!Init
  /\ [][Misled \/ Guest!Next \/ UNCHANGED Guest!isaVars]_vars

=============================================================================
