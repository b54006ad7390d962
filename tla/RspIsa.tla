------------------------------- MODULE RspIsa -------------------------------
(***************************************************************************)
(* The control flow the JIT promises to the microcode: a program counter   *)
(* and at most one pending branch.  A branch takes effect after the next   *)
(* instruction; when that instruction is itself a taken branch, one        *)
(* instruction of the first target runs before the second target does      *)
(* (debug-toolchain/beq-impossible-delay-slot-both-taken.s).  An           *)
(* instruction that leaves the JIT in a delay slot has already branched.   *)
(* RspJit is shown to implement this specification.                        *)
(***************************************************************************)
EXTENDS RegionAnalysis

CONSTANT NoTarget     \* no branch is pending

VARIABLES
  imem,    \* the program
  mode,    \* "host": the emulator has control; "run": the RSP runs
  pc,      \* the word to execute next
  delay,   \* the target of the branch in whose delay slot pc is, or NoTarget
  ra       \* the link register

isaVars == <<imem, mode, pc, delay, ra>>

Init ==
  /\ imem \in [Word -> Instructions]
  /\ mode = "host"
  /\ pc \in Word
  /\ delay = NoTarget
  /\ ra \in Word

\* Where control goes after the instruction at pc.
NextPc == IF delay = NoTarget THEN Succ(pc) ELSE delay

\* The emulator starts or restarts the RSP at a word of its choice.
Resume(start) ==
  /\ mode = "host"
  /\ mode' = "run"
  /\ pc' = start
  /\ UNCHANGED <<imem, delay, ra>>

\* Any instruction that stays on the RSP.
Execute ==
  /\ mode = "run"
  /\ imem[pc].op # "BREAK"
  /\ \E taken \in Outcomes(imem[pc].op) :
       delay' = IF ~taken THEN NoTarget
                ELSE IF imem[pc].op \in IndirectOps THEN ra ELSE imem[pc].target
  /\ ra' \in Linked(imem[pc].op, pc, ra)
  /\ pc' = NextPc
  /\ UNCHANGED <<imem, mode>>

\* BREAK, or an MFC0/MTC0 after which the emulator must look at the registers.
Leave ==
  /\ mode = "run"
  /\ imem[pc].op \in {"BREAK", "COP0"}
  /\ mode' = "host"
  /\ pc' = NextPc
  /\ delay' = NoTarget
  /\ UNCHANGED <<imem, ra>>

Next == Execute \/ Leave \/ \E start \in Word : Resume(start)

Spec == Init /\ [][Next]_isaVars

=============================================================================
