----------------------------- MODULE RspPlugin ------------------------------
(***************************************************************************)
(* The plugin interface (parallel.cpp) and the coprocessor 0 operations    *)
(* (rsp/cp0.cpp) that decide when the RSP runs, stops and reports: the     *)
(* SP_STATUS register, the SP bit of MI_INTR, the poll counters behind the *)
(* status timeout, the loop of DoRspCycles around CPU::run, and the        *)
(* emulator on the other side of it.                                       *)
(*                                                                         *)
(* The emulator is single-threaded: while DoRspCycles runs, only the       *)
(* microcode changes registers.  The microcode is any sequence of the      *)
(* coprocessor operations below, with everything else it does hidden.      *)
(***************************************************************************)
EXTENDS Integers

CONSTANTS
  Regs,          \* scalar registers a status poll can read into
  NoReg,         \* not polling
  LongTimeout,   \* SP_STATUS_TIMEOUT after InitiateRSP, 0x7fff: the largest short
  ShortTimeout   \* SP_STATUS_TIMEOUT of line 195, 16

ASSUME TimeoutAssumption ==
  /\ ShortTimeout \in Nat \ {0}
  /\ LongTimeout \in Nat
  /\ ShortTimeout <= LongTimeout
  /\ NoReg \notin Regs

\* The SP_STATUS bits; SIG2 stands for the signals and SSTEP.
SettableBits == {"HALT", "INTR_BREAK", "SIG2"}
StatusBits   == SettableBits \cup {"BROKE"}

\* A value written to SP_STATUS: its SP_SET_x and its SP_CLR_x bits.
StatusWrites == [set : SUBSET (SettableBits \cup {"INTR"}),
                 clr : SUBSET (StatusBits \cup {"INTR"})]

VARIABLES
  phase,         \* "off": no CPU; "host"; "exec": in CPU::run; "loop": run returned
  status,        \* SP_STATUS_REG
  irq,           \* MI_INTR_REG & 1
  mode,          \* ReturnMode of the last CPU::run
  MFC0_count,    \* polls of SP_STATUS into each register in this DoRspCycles
  timeout,       \* SP_STATUS_TIMEOUT
  graphics_hle,  \* the emulator handles display lists itself
  polling,       \* the register the microcode polls a signal into, or NoReg
  raised,        \* history: the microcode raised irq during this DoRspCycles
  told,          \* history: CheckInterrupts was called during this DoRspCycles
  reason         \* history: what stopped the RSP last

counters == <<MFC0_count, timeout>>
history  == <<raised, told, reason>>
vars == <<phase, status, irq, mode, counters, graphics_hle, polling, history>>

-----------------------------------------------------------------------------
(***************************************************************************)
(* InitiateRSP and RomClosed.                                              *)
(***************************************************************************)
InitiateRSP(hle) ==
  /\ phase = "off"
  /\ phase' = "host"
  /\ graphics_hle' = hle
  /\ status' = {"HALT"}
  /\ timeout' = LongTimeout
  /\ polling' = NoReg
  /\ raised' = FALSE /\ told' = FALSE /\ reason' = "none"
  /\ UNCHANGED <<irq, mode, MFC0_count>>

\* The emulator tests with DMEM == IMEM: no register is touched.
InitiateDummy(hle) ==
  /\ phase = "off"
  /\ graphics_hle' = hle
  /\ UNCHANGED <<phase, status, irq, mode, counters, polling, history>>

RomClosed ==
  /\ phase = "host"
  /\ phase' = "off"
  /\ UNCHANGED <<status, irq, mode, counters, graphics_hle, polling, history>>

(***************************************************************************)
(* RSP_HANDLE_STATUS_WRITE: set and clear together change nothing.  BROKE  *)
(* can only be cleared.                                                    *)
(***************************************************************************)
StatusAfter(w) ==
  (status \cup ((w.set \ w.clr) \cap StatusBits)) \ (w.clr \ w.set)

IrqAfter(w) ==
  \/ "INTR" \in w.set \ w.clr
  \/ irq /\ "INTR" \notin w.clr \ w.set

(***************************************************************************)
(* The CPU writes SP_STATUS or acknowledges the interrupt.  External: the  *)
(* emulator does this to the registers it shares with the plugin.          *)
(***************************************************************************)
HostStatusWrite(w) ==
  /\ phase = "host"
  /\ status' = StatusAfter(w)
  /\ irq' = IrqAfter(w)
  /\ raised' = FALSE /\ reason' = "none"
  /\ UNCHANGED <<phase, mode, counters, graphics_hle, polling, told>>

-----------------------------------------------------------------------------
(***************************************************************************)
(* DoRspCycles.                                                            *)
(***************************************************************************)

\* A display list is handed to the emulator: ProcessDlist, then 0x0203.
ProcessDlist ==
  /\ phase = "host"
  /\ graphics_hle
  /\ status' = status \cup {"HALT", "BROKE", "SIG2"}
  /\ irq' = (irq \/ "INTR_BREAK" \in status)
  /\ told' = ("INTR_BREAK" \in status)
  /\ raised' = ("INTR_BREAK" \in status)
  /\ reason' = "dlist"
  /\ UNCHANGED <<phase, mode, counters, graphics_hle, polling>>

\* Mutant: the poll counts are not reset.
BeginTask_KeepsCounts ==
  /\ phase = "host"
  /\ "HALT" \notin status
  /\ phase' = "exec"
  /\ polling' \in {polling, NoReg}
  /\ raised' = FALSE /\ told' = FALSE /\ reason' = "none"
  /\ UNCHANGED <<status, irq, mode, MFC0_count, timeout, graphics_hle>>

\* Any other task, unless halted; CPU::run is entered.  It is the task that
\* was interrupted, perhaps while polling, or a new one.
BeginTask ==
  /\ phase = "host"
  /\ "HALT" \notin status
  /\ phase' = "exec"
  /\ MFC0_count' = [r \in Regs |-> 0]
  /\ polling' \in {polling, NoReg}
  /\ raised' = FALSE /\ told' = FALSE /\ reason' = "none"
  /\ UNCHANGED <<status, irq, mode, timeout, graphics_hle>>

\* Whether the loop around CPU::run is left.
LoopDone == "HALT" \in status \/ (mode = "MODE_CHECK_FLAGS" /\ irq)

RunAgain ==
  /\ phase = "loop"
  /\ ~LoopDone
  /\ phase' = "exec"
  /\ UNCHANGED <<status, irq, mode, counters, graphics_hle, polling, history>>

\* Mutants: HALT is looked at before the interrupt; BROKE is not looked at.
EndTask_HaltFirst ==
  /\ phase = "loop"
  /\ LoopDone
  /\ phase' = "host"
  /\ told' = (told \/ (irq /\ status \cap {"HALT", "BROKE"} = {}))
  /\ UNCHANGED <<status, timeout, irq, mode, MFC0_count, graphics_hle, polling, raised, reason>>

EndTask_IgnoresBroke ==
  /\ phase = "loop"
  /\ LoopDone
  /\ phase' = "host"
  /\ told' = (told \/ irq)
  /\ status' = IF irq THEN status \ {"HALT"} ELSE status
  /\ UNCHANGED <<timeout, irq, mode, MFC0_count, graphics_hle, polling, raised, reason>>

\* The part of DoRspCycles after the loop.
EndTask ==
  /\ phase = "loop"
  /\ LoopDone
  /\ phase' = "host"
  /\ \/ /\ "BROKE" \in status
        /\ UNCHANGED <<status, timeout, told>>
     \/ /\ "BROKE" \notin status
        /\ irq
        /\ told' = TRUE
        /\ status' = status \ {"HALT"}
        /\ UNCHANGED timeout
     \/ /\ "BROKE" \notin status
        /\ ~irq
        /\ IF "HALT" \in status
           THEN UNCHANGED <<status, timeout>>
           ELSE timeout' = ShortTimeout /\ status' = status \ {"HALT"}
        /\ UNCHANGED told
  /\ UNCHANGED <<irq, mode, MFC0_count, graphics_hle, polling, raised, reason>>

-----------------------------------------------------------------------------
(***************************************************************************)
(* The microcode, inside CPU::run.                                         *)
(***************************************************************************)
Returns(m) == phase' = "loop" /\ mode' = m

\* The microcode starts to wait for the CPU to set a signal.
StartPolling(r) ==
  /\ phase = "exec"
  /\ polling = NoReg
  /\ polling' = r
  /\ UNCHANGED <<phase, status, irq, mode, counters, graphics_hle, history>>

\* The count is a short.
Increment(c) == IF c = LongTimeout THEN -LongTimeout - 1 ELSE c + 1

TimedOut(c) == c >= timeout

\* Mutant: the count starts again instead of halting.
MFC0_Status_Restarts(rt) ==
  /\ phase = "exec"
  /\ polling \in {NoReg, rt}
  /\ MFC0_count' = [MFC0_count EXCEPT ![rt] = IF TimedOut(Increment(@)) THEN 0 ELSE Increment(@)]
  /\ polling' = IF "SIG2" \in status THEN NoReg ELSE polling
  /\ UNCHANGED <<status, reason, phase, mode, irq, timeout, graphics_hle, raised, told>>

\* MFC0 rt, SP_STATUS.  A poll that sees the signal ends the wait.
MFC0_Status(rt) ==
  /\ phase = "exec"
  /\ polling \in {NoReg, rt}
  /\ MFC0_count' = [MFC0_count EXCEPT ![rt] = Increment(@)]
  /\ polling' = IF "SIG2" \in status THEN NoReg ELSE polling
  /\ IF TimedOut(MFC0_count'[rt])
     THEN /\ status' = status \cup {"HALT"}
          /\ reason' = "timeout"
          /\ Returns("MODE_CHECK_FLAGS")
     ELSE UNCHANGED <<status, reason, phase, mode>>
  /\ UNCHANGED <<irq, timeout, graphics_hle, raised, told>>

\* Mutant: a microcode that halts itself goes on.
MTC0_Status_IgnoresHalt(w) ==
  /\ phase = "exec"
  /\ polling = NoReg
  /\ status' = StatusAfter(w)
  /\ irq' = IrqAfter(w)
  /\ raised' = ("INTR" \in w.set \ w.clr \/ (raised /\ irq'))
  /\ IF irq'
     THEN Returns("MODE_CHECK_FLAGS") /\ reason' = "flags"
     ELSE UNCHANGED <<phase, mode, reason>>
  /\ UNCHANGED <<counters, graphics_hle, polling, told>>

\* MTC0 SP_STATUS: rsp_status_write.
MTC0_Status(w) ==
  /\ phase = "exec"
  /\ polling = NoReg
  /\ status' = StatusAfter(w)
  /\ irq' = IrqAfter(w)
  /\ raised' = ("INTR" \in w.set \ w.clr \/ (raised /\ irq'))
  /\ IF irq' \/ "HALT" \in status'
     THEN Returns("MODE_CHECK_FLAGS") /\ reason' = "flags"
     ELSE UNCHANGED <<phase, mode, reason>>
  /\ UNCHANGED <<counters, graphics_hle, polling, told>>

\* MTC0 SP_RD_LEN with a destination in IMEM: the compiled code must be left.
MTC0_DmaReadImem ==
  /\ phase = "exec"
  /\ polling = NoReg
  /\ Returns("MODE_CHECK_FLAGS")
  /\ reason' = "dma"
  /\ UNCHANGED <<status, irq, counters, graphics_hle, polling, raised, told>>

\* BREAK, with what CPU::run does for MODE_BREAK.
Break ==
  /\ phase = "exec"
  /\ polling = NoReg
  /\ status' = status \cup {"BROKE", "HALT"}
  /\ irq' = (irq \/ "INTR_BREAK" \in status)
  /\ raised' = (raised \/ "INTR_BREAK" \in status)
  /\ reason' = "break"
  /\ Returns("MODE_BREAK")
  /\ UNCHANGED <<counters, graphics_hle, polling, told>>

-----------------------------------------------------------------------------
Init ==
  /\ phase = "off"
  /\ status = {}
  /\ irq = FALSE
  /\ mode = "MODE_ENTER"
  /\ MFC0_count = [r \in Regs |-> 0]
  /\ timeout = 0
  /\ graphics_hle = FALSE
  /\ polling = NoReg
  /\ raised = FALSE /\ told = FALSE /\ reason = "none"

Host ==
  \/ \E hle \in BOOLEAN : InitiateRSP(hle) \/ InitiateDummy(hle)
  \/ RomClosed
  \/ \E w \in StatusWrites : HostStatusWrite(w)
  \/ ProcessDlist
  \/ BeginTask

Microcode ==
  \/ \E r \in Regs : StartPolling(r)
  \/ \E r \in Regs : MFC0_Status(r)
  \/ \E w \in StatusWrites : MTC0_Status(w)
  \/ MTC0_DmaReadImem
  \/ Break

Next == Host \/ Microcode \/ RunAgain \/ EndTask

Spec == Init /\ [][Next]_vars

(***************************************************************************)
(* A call of DoRspCycles executes: the loop goes on, and microcode that    *)
(* polls keeps polling.                                                    *)
(***************************************************************************)
Fairness ==
  /\ WF_vars(RunAgain)
  /\ WF_vars(EndTask)
  /\ \A r \in Regs : WF_vars(polling = r /\ MFC0_Status(r))

FairSpec == Spec /\ Fairness

-----------------------------------------------------------------------------
(***************************************************************************)
(* Properties.                                                             *)
(***************************************************************************)

\* The registers hold values of their types; a poll count stays a short.
TypeOK ==
  /\ phase \in {"off", "host", "exec", "loop"}
  /\ status \subseteq StatusBits
  /\ {irq, graphics_hle, raised, told} \subseteq BOOLEAN
  /\ mode \in {"MODE_ENTER", "MODE_BREAK", "MODE_CHECK_FLAGS"}
  /\ MFC0_count \in [Regs -> -LongTimeout - 1 .. LongTimeout]
  /\ timeout \in {0, LongTimeout, ShortTimeout}
  /\ polling \in Regs \cup {NoReg}
  /\ reason \in {"none", "timeout", "flags", "dma", "break", "dlist"}

(***************************************************************************)
(* The poll counters of a short never wrap: a poll that reaches the        *)
(* timeout, itself the largest short, stops the RSP before the next one    *)
(* (RSP_MFC0, and the reset at the start of DoRspCycles).                  *)
(***************************************************************************)
PollCountNeverWraps == \A r \in Regs : MFC0_count[r] >= 0

(***************************************************************************)
(* Not one instruction runs while SP_STATUS says halted, whoever set the   *)
(* bit: rsp_status_write, a poll timeout, BREAK or the emulator.           *)
(***************************************************************************)
NeverRunsHalted == phase = "exec" => "HALT" \notin status

(***************************************************************************)
(* An interrupt the microcode raised is not lost: when DoRspCycles is back *)
(* in the emulator, either CheckInterrupts was called or BROKE tells the   *)
(* emulator to look (DoRspCycles, line 188-191).                           *)
(***************************************************************************)
InterruptIsReported ==
  phase = "host" /\ raised /\ irq => told \/ "BROKE" \in status

(***************************************************************************)
(* A finished task stays finished: after BREAK the emulator sees HALT and  *)
(* BROKE, and with INTR_BREAK the interrupt, until it writes the register. *)
(***************************************************************************)
BreakIsVisible ==
  phase = "host" /\ reason = "break" =>
    /\ {"HALT", "BROKE"} \subseteq status
    /\ "INTR_BREAK" \in status => irq

(***************************************************************************)
(* A task that waits for a signal does not hang the emulator, which would  *)
(* have to return to the CPU for the signal to be set: DoRspCycles returns *)
(* ("Might be waiting for the CPU to set a signal bit").                   *)
(***************************************************************************)
PollingYields ==
  (phase = "exec" /\ polling # NoReg /\ "SIG2" \notin status) ~> phase = "host"

(***************************************************************************)
(* "From now on, wait 16 times, not 0x7fff": once a status poll has timed  *)
(* out, later waits are short.                                             *)
(***************************************************************************)
LaterWaitsAreShort ==
  phase = "host" /\ reason = "timeout" => timeout = ShortTimeout

=============================================================================
