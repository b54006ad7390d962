-------------------------- MODULE RspPluginProofs ---------------------------
(***************************************************************************)
(* Proofs about RspPlugin, for every set of registers and every timeout:   *)
(* a poll counter never wraps, no instruction runs while it is halted, and *)
(* the emulator hears of every interrupt and sees every BREAK.             *)
(*                                                                         *)
(* The first two are not inductive alone.  No count wraps because one      *)
(* that reached the timeout halts the RSP, because the loop is left when   *)
(* it is halted, and because the next task starts from zero: PollInv says  *)
(* where the counts may be in each phase.                                  *)
(***************************************************************************)
EXTENDS RspPlugin, TLAPS

\* Polls may go on: no count has reached the timeout.
CountsBelow == \A r \in Regs : MFC0_count[r] < timeout

PollInv ==
  /\ TypeOK
  /\ PollCountNeverWraps
  /\ phase # "off" => timeout \in {LongTimeout, ShortTimeout}
  /\ phase = "exec" => "HALT" \notin status /\ CountsBelow
  /\ phase = "loop" /\ "HALT" \notin status => CountsBelow

-----------------------------------------------------------------------------
\* A write to SP_STATUS leaves a set of status bits (StatusAfter).
LEMMA StatusAfterType ==
  ASSUME TypeOK, NEW w \in StatusWrites
  PROVE  StatusAfter(w) \subseteq StatusBits /\ IrqAfter(w) \in BOOLEAN
<1>1. StatusAfter(w) \subseteq StatusBits
  BY DEF TypeOK, StatusAfter
<1>2. IrqAfter(w) \in BOOLEAN
  BY DEF IrqAfter
<1> QED
  BY <1>1, <1>2

\* The invariant holds before the plugin is initiated.
LEMMA PollInit == Init => PollInv
<1> SUFFICES ASSUME Init PROVE PollInv
  OBVIOUS
<1>1. MFC0_count \in [Regs -> -LongTimeout - 1 .. LongTimeout] /\ PollCountNeverWraps
  BY TimeoutAssumption DEF Init, PollCountNeverWraps
<1>2. TypeOK
  BY <1>1 DEF Init, TypeOK
<1> QED
  BY <1>1, <1>2 DEF Init, PollInv

\* Every step of the emulator, the microcode and the loop preserves it.
LEMMA PollStep == PollInv /\ [Next]_vars => PollInv'
<1> SUFFICES ASSUME PollInv, [Next]_vars PROVE PollInv'
  OBVIOUS
<1> USE TimeoutAssumption
<1>1. CASE \E hle \in BOOLEAN : InitiateRSP(hle) \/ InitiateDummy(hle)
  BY <1>1 DEF PollInv, TypeOK, PollCountNeverWraps, CountsBelow, InitiateRSP, InitiateDummy,
              counters, history, StatusBits, SettableBits
<1>2. CASE RomClosed
  BY <1>2 DEF PollInv, TypeOK, PollCountNeverWraps, CountsBelow, RomClosed, counters, history
<1>3. ASSUME NEW w \in StatusWrites, HostStatusWrite(w) PROVE PollInv'
  BY <1>3, StatusAfterType
  DEF PollInv, TypeOK, PollCountNeverWraps, CountsBelow, HostStatusWrite, counters
<1>4. CASE ProcessDlist
  BY <1>4 DEF PollInv, TypeOK, PollCountNeverWraps, CountsBelow, ProcessDlist, counters,
              StatusBits, SettableBits
<1>5. CASE BeginTask
  <2>1. timeout' \in {LongTimeout, ShortTimeout} /\ "HALT" \notin status'
    BY <1>5 DEF PollInv, BeginTask
  <2>2. (MFC0_count \in [Regs -> -LongTimeout - 1 .. LongTimeout])'
    BY <1>5 DEF BeginTask
  <2>3. PollCountNeverWraps' /\ CountsBelow'
    BY <1>5, <2>1 DEF PollCountNeverWraps, CountsBelow, BeginTask
  <2>4. TypeOK'
    BY <1>5, <2>2 DEF PollInv, TypeOK, BeginTask
  <2> QED
    BY <2>1, <2>3, <2>4 DEF PollInv
<1>6. CASE RunAgain
  BY <1>6 DEF PollInv, TypeOK, PollCountNeverWraps, CountsBelow, RunAgain, LoopDone,
              counters, history
<1>7. CASE EndTask
  BY <1>7 DEF PollInv, TypeOK, PollCountNeverWraps, CountsBelow, EndTask
<1>8. ASSUME NEW r \in Regs, StartPolling(r) PROVE PollInv'
  BY <1>8 DEF PollInv, TypeOK, PollCountNeverWraps, CountsBelow, StartPolling, counters, history
<1>9. ASSUME NEW r \in Regs, MFC0_Status(r) PROVE PollInv'
  <2>0. phase = "exec" /\ timeout \in {LongTimeout, ShortTimeout} /\ CountsBelow
    BY <1>9 DEF MFC0_Status, PollInv
  <2>1. MFC0_count' = [MFC0_count EXCEPT ![r] = MFC0_count[r] + 1]
    <3>1. MFC0_count[r] < LongTimeout /\ MFC0_count[r] \in Int
      BY <2>0 DEF PollInv, TypeOK, CountsBelow
    <3>2. Increment(MFC0_count[r]) = MFC0_count[r] + 1
      BY <3>1 DEF Increment
    <3> QED
      BY <1>9, <3>2 DEF MFC0_Status
  <2>2. PollCountNeverWraps' /\ (MFC0_count \in [Regs -> -LongTimeout - 1 .. LongTimeout])'
    BY <1>9, <2>1 DEF MFC0_Status, PollInv, TypeOK, PollCountNeverWraps, CountsBelow
  <2>3. CASE TimedOut(MFC0_count'[r])
    BY <1>9, <2>2, <2>3
    DEF MFC0_Status, Returns, PollInv, TypeOK, StatusBits, SettableBits
  <2>4. CASE ~TimedOut(MFC0_count'[r])
    BY <1>9, <2>1, <2>2, <2>4 DEF MFC0_Status, TimedOut, PollInv, TypeOK, CountsBelow
  <2> QED BY <2>3, <2>4
<1>10. ASSUME NEW w \in StatusWrites, MTC0_Status(w) PROVE PollInv'
  <2>1. status' \subseteq StatusBits /\ irq' \in BOOLEAN
    BY <1>10, StatusAfterType DEF MTC0_Status, PollInv
  <2>2. raised' \in BOOLEAN
    BY <1>10 DEF MTC0_Status
  <2> QED
    BY <1>10, <2>1, <2>2
    DEF MTC0_Status, Returns, counters, PollInv, TypeOK, PollCountNeverWraps, CountsBelow
<1>11. CASE MTC0_DmaReadImem
  BY <1>11 DEF PollInv, TypeOK, PollCountNeverWraps, CountsBelow, MTC0_DmaReadImem, Returns,
               counters
<1>12. CASE Break
  BY <1>12 DEF PollInv, TypeOK, PollCountNeverWraps, CountsBelow, Break, Returns, counters,
               StatusBits, SettableBits
<1>13. CASE UNCHANGED vars
  BY <1>13 DEF PollInv, TypeOK, PollCountNeverWraps, CountsBelow, vars, counters, history
<1> QED
  BY <1>1, <1>2, <1>3, <1>4, <1>5, <1>6, <1>7, <1>8, <1>9, <1>10, <1>11, <1>12, <1>13
  DEF Next, Host, Microcode

-----------------------------------------------------------------------------
\* The invariant behind the theorems below holds in every reachable state.
LEMMA PollInvariance == Spec => []PollInv
  BY PollInit, PollStep, PTL DEF Spec

\* The registers of the plugin keep their types (parallel.cpp, cp0.cpp).
THEOREM TypeCorrect == Spec => []TypeOK
  BY PollInvariance, PTL DEF PollInv

\* The short that RSP_MFC0 increments on every poll never overflows, although
\* the timeout is the largest short.
THEOREM NoWrap == Spec => []PollCountNeverWraps
  BY PollInvariance, PTL DEF PollInv

\* CPU::run executes no instruction while SP_STATUS says HALT.
THEOREM HaltStops == Spec => []NeverRunsHalted
<1>1. PollInv => NeverRunsHalted
  BY DEF PollInv, NeverRunsHalted
<1> QED
  BY <1>1, PollInvariance, PTL

-----------------------------------------------------------------------------
(***************************************************************************)
(* Stopping and reporting.  What the emulator may rely on when DoRspCycles *)
(* is back was already true when CPU::run returned: a microcode that runs  *)
(* has not broken, and one that broke stays halted until the loop is left. *)
(***************************************************************************)
BreakStays ==
  /\ phase = "exec" => reason # "break"
  /\ phase \in {"loop", "host"} /\ reason = "break" =>
       /\ {"HALT", "BROKE"} \subseteq status
       /\ "INTR_BREAK" \in status => irq

ReportInv == InterruptIsReported /\ BreakStays

\* Nothing is raised or broken before the plugin is initiated.
LEMMA ReportInit == Init => ReportInv
  BY DEF Init, ReportInv, InterruptIsReported, BreakStays

\* Every step of the emulator, the microcode and the loop preserves it; the
\* steps that matter are Break, which sets all at once, RunAgain, which needs
\* HALT to be clear, and EndTask, which leaves a status with BROKE alone.
LEMMA ReportStep == ReportInv /\ [Next]_vars => ReportInv'
<1> SUFFICES ASSUME ReportInv, [Next]_vars PROVE ReportInv'
  OBVIOUS
<1> USE DEF ReportInv, InterruptIsReported, BreakStays
<1>1. CASE \E hle \in BOOLEAN : InitiateRSP(hle) \/ InitiateDummy(hle)
  BY <1>1 DEF InitiateRSP, InitiateDummy, history
<1>2. CASE RomClosed
  BY <1>2 DEF RomClosed
<1>3. ASSUME NEW w \in StatusWrites, HostStatusWrite(w) PROVE ReportInv'
  BY <1>3 DEF HostStatusWrite
<1>4. CASE ProcessDlist
  BY <1>4 DEF ProcessDlist
<1>5. CASE BeginTask
  BY <1>5 DEF BeginTask
<1>6. CASE RunAgain
  BY <1>6 DEF RunAgain, LoopDone, history
<1>7. CASE EndTask
  BY <1>7 DEF EndTask
<1>8. ASSUME NEW r \in Regs, StartPolling(r) PROVE ReportInv'
  BY <1>8 DEF StartPolling, history
<1>9. ASSUME NEW r \in Regs, MFC0_Status(r) PROVE ReportInv'
  BY <1>9 DEF MFC0_Status, Returns
<1>10. ASSUME NEW w \in StatusWrites, MTC0_Status(w) PROVE ReportInv'
  BY <1>10 DEF MTC0_Status, Returns
<1>11. CASE MTC0_DmaReadImem
  BY <1>11 DEF MTC0_DmaReadImem, Returns
<1>12. CASE Break
  BY <1>12 DEF Break, Returns
<1>13. CASE UNCHANGED vars
  BY <1>13 DEF vars, history
<1> QED
  BY <1>1, <1>2, <1>3, <1>4, <1>5, <1>6, <1>7, <1>8, <1>9, <1>10, <1>11, <1>12, <1>13
  DEF Next, Host, Microcode

\* The second invariant holds in every reachable state.
LEMMA ReportInvariance == Spec => []ReportInv
  BY ReportInit, ReportStep, PTL DEF Spec

\* An interrupt the microcode raised is reported with CheckInterrupts, or BROKE
\* tells the emulator to look, whenever DoRspCycles is back (parallel.cpp:188).
THEOREM InterruptNotLost == Spec => []InterruptIsReported
  BY ReportInvariance, PTL DEF ReportInv

\* After BREAK the emulator sees HALT and BROKE, and with INTR_BREAK the
\* interrupt, until it writes SP_STATUS, whatever ran before and for however long.
THEOREM BreakSeen == Spec => []BreakIsVisible
<1>1. ReportInv => BreakIsVisible
  BY DEF ReportInv, BreakStays, BreakIsVisible
<1> QED
  BY <1>1, ReportInvariance, PTL

=============================================================================
