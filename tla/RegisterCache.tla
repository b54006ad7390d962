---------------------------- MODULE RegisterCache ---------------------------
(***************************************************************************)
(* RegisterCache (rsp_jit.cpp): which host register stands for which MIPS  *)
(* register while a region is emitted, and the code that jit_instruction   *)
(* and the delay-slot handlers emit through it.                            *)
(*                                                                         *)
(* The compile-time state (the cache entries) and the run-time state (what *)
(* the host registers and CPUState.sr hold) change together, because the   *)
(* emitted code runs in the order in which it is emitted.  Values are      *)
(* abstracted to whose value they are: "holds[i] = r" says that host       *)
(* register i contains the current value of r, "r \in mem" that sr[r] does.*)
(* Writing r makes every other copy stale.                                 *)
(*                                                                         *)
(* An instruction is a script of calls to the cache and of emitted host    *)
(* instructions; the actions below perform the calls one by one.           *)
(***************************************************************************)
EXTENDS Integers, Sequences, FiniteSetsExt

CONSTANTS
  NumRegisters,   \* NumFreeRegisters: JIT_R_NUM + (JIT_V_NUM - 3)
  CallerSaves,    \* the values of JIT_R_NUM considered
  Regs,           \* the MIPS registers other than $0
  Extensions,     \* the extensions considered: noext, sext, zext
  Zero,           \* $0
  Cond,           \* COND_BRANCH_TAKEN
  Scratch0,
  Scratch1,
  None            \* an entry that is not live; a host register nobody cares about

ASSUME RegisterAssumption ==
  /\ NumRegisters \in Nat
  /\ NumRegisters >= 3        \* no lightning port has fewer than 3 JIT_R and 3 JIT_V
  /\ CallerSaves \subseteq 0 .. NumRegisters
  /\ Extensions \subseteq {"noext", "sext", "zext"}
  /\ Zero \notin {Cond, Scratch0, Scratch1, None}
  /\ Cond \notin {Scratch0, Scratch1, None}
  /\ Scratch0 \notin {Scratch1, None}
  /\ Scratch1 # None
  /\ Regs \cap {Zero, Cond, Scratch0, Scratch1, None} = {}

Entries    == 1 .. NumRegisters
Scratch    == {Scratch0, Scratch1}
Sources    == Regs \cup {Zero}
InMemory   == Regs \cup {Zero, Cond}     \* mips_reg <= COND_BRANCH_TAKEN
MipsRegs   == InMemory \cup Scratch

VARIABLES
  numCallerSave,  \* JIT_R_NUM, fixed by the build: a call destroys the first entries
  at,         \* CacheEntry: mips_register, or None when not is_live
  locks,      \* num_locks
  sign,       \* SExt, ZExt or Unknown
  modified,
  timestamp,  \* of the entries, renumbered: only their order matters
  holds,      \* run time: whose current value a host register contains
  ext,        \* run time: how it is extended, a subset of {"sext", "zext"}
  mem,        \* run time: the registers whose current value is in sr[]
  todo,       \* what is left of the instruction being emitted
  held        \* its local variables: MIPS register -> host register it was given

cache   == <<at, locks, sign, modified, timestamp>>
machine == <<holds, ext, mem>>
vars == <<numCallerSave, cache, machine, todo, held>>

CallerSave == 1 .. numCallerSave

-----------------------------------------------------------------------------
(***************************************************************************)
(* find_register: the live entry, else the first free one, else the oldest *)
(* unlocked one.  Found is empty when the assertion at its end fails.      *)
(***************************************************************************)
Live(r)  == {i \in Entries : at[i] = r}
Unlocked == {i \in Entries : at[i] # None /\ locks[i] = 0}
Oldest(set) == {i \in set : \A j \in set : timestamp[i] <= timestamp[j]}

Found(r) ==
  IF Live(r) # {} THEN {Min(Live(r))}
  ELSE IF Live(None) # {} THEN {Min(Live(None))}
  ELSE Oldest(Unlocked)

FindRegister(r) == CHOOSE i \in Found(r) : TRUE

\* Timestamps in the same order, from 0; those that are not live have 0.
Renumbered(stamps) ==
  [i \in Entries |-> Cardinality({j \in Entries : stamps[j] < stamps[i]})]

\* timestamp = ++this->timestamp
Touch(i) == Renumbered([timestamp EXCEPT ![i] = NumRegisters])

(***************************************************************************)
(* writeback_register for the modified ones of a set of entries: sr[] gets *)
(* what the host register contains.  Scratch registers are not written.    *)
(***************************************************************************)
WriteBack(set) ==
  LET stored == {i \in set : modified[i] /\ at[i] \in InMemory}
  IN  (mem \ {at[i] : i \in stored}) \cup {at[i] : i \in {j \in stored : holds[j] = at[j]}}

\* The part of load and modify that frees an entry held by another register.
Evict(i, r) == IF at[i] \notin {None, r} THEN WriteBack({i}) ELSE mem

-----------------------------------------------------------------------------
(***************************************************************************)
(* The operations of the cache.                                            *)
(***************************************************************************)
Done == todo' = Tail(todo)

Lock(i, r) ==
  /\ at' = [at EXCEPT ![i] = r]
  /\ locks' = [locks EXCEPT ![i] = @ + 1]
  /\ timestamp' = Touch(i)
  /\ held' = [held EXCEPT ![r] = i]

\* load_mips_register_noext, _sext and _zext.
LoadMipsRegister(r, e) ==
  LET i == FindRegister(r)
      loaded == IF e = "zext" THEN "zext" ELSE "sext"
  IN  /\ Lock(i, r)
      /\ mem' = Evict(i, r)
      /\ IF at[i] # r
         THEN /\ holds' = [holds EXCEPT ![i] = IF r = Zero \/ r \in mem' THEN r ELSE None]
              /\ ext' = [ext EXCEPT ![i] = IF r = Zero THEN {"sext", "zext"} ELSE {loaded}]
              /\ sign' = [sign EXCEPT ![i] = loaded]
              /\ modified' = [modified EXCEPT ![i] = FALSE]
         ELSE /\ IF e = "noext" \/ sign[i] = e
                 THEN UNCHANGED <<sign, ext>>
                 ELSE /\ sign' = [sign EXCEPT ![i] = e]
                      /\ ext' = IF r = Zero THEN ext ELSE [ext EXCEPT ![i] = {e}]
              /\ UNCHANGED <<holds, modified>>
      /\ Done

\* Mutant: the extension state of the previous value is kept.
ModifyMipsRegister_KeepsSign(r) ==
  LET i == FindRegister(r)
  IN  /\ Lock(i, r)
      /\ mem' = Evict(i, r)
      /\ modified' = [modified EXCEPT ![i] = TRUE]
      /\ UNCHANGED <<sign, holds, ext>>
      /\ Done

ModifyMipsRegister(r) ==
  LET i == FindRegister(r)
  IN  /\ Lock(i, r)
      /\ mem' = Evict(i, r)
      /\ sign' = [sign EXCEPT ![i] = "unknown"]
      /\ modified' = [modified EXCEPT ![i] = TRUE]
      /\ UNCHANGED <<holds, ext>>
      /\ Done

\* What host and memory contain once host register i was given r's new value.
Defined(i, r) ==
  [j \in Entries |-> IF j = i THEN r ELSE IF holds[j] = r THEN None ELSE holds[j]]

ImmediateMipsRegister(r) ==
  LET i == FindRegister(r)
  IN  /\ Lock(i, r)
      /\ mem' = Evict(i, r) \ {r}
      /\ sign' = [sign EXCEPT ![i] = "sext"]
      /\ modified' = [modified EXCEPT ![i] = TRUE]
      /\ holds' = Defined(i, r)
      /\ ext' = [ext EXCEPT ![i] = {"sext"}]
      /\ Done

UnlockMipsRegister(r) ==
  /\ locks' = [locks EXCEPT ![Min(Live(r))] = @ - 1]
  /\ UNCHANGED <<at, sign, modified, timestamp, machine, held>>
  /\ Done

\* flush_register_window, flush_caller_save_registers, flush_mips_register.
Flush(set) ==
  /\ mem' = WriteBack(set)
  /\ at' = [i \in Entries |-> IF i \in set THEN None ELSE at[i]]
  /\ locks' = [i \in Entries |-> IF i \in set THEN 0 ELSE locks[i]]
  /\ sign' = [i \in Entries |-> IF i \in set THEN "sext" ELSE sign[i]]
  /\ modified' = [i \in Entries |-> IF i \in set THEN FALSE ELSE modified[i]]
  /\ timestamp' =
       Renumbered([i \in Entries |-> IF at'[i] = None THEN 0 ELSE timestamp[i] + 1])
  /\ UNCHANGED <<holds, ext, held>>
  /\ Done

-----------------------------------------------------------------------------
(***************************************************************************)
(* Emitted code.                                                           *)
(***************************************************************************)

\* A host instruction that reads the registers of src and computes dst.
EmitOp(dst) ==
  /\ holds' = Defined(held[dst], dst)
  /\ ext' = [ext EXCEPT ![held[dst]] = {}]
  /\ mem' = mem \ {dst}
  /\ UNCHANGED <<cache, held>>
  /\ Done

\* A host instruction that only reads: a store, or a jump to a label or a thunk.
EmitRead ==
  /\ UNCHANGED <<cache, machine, held>>
  /\ Done

\* A call of C++ code, which may write sr[r] for each r of dst.
EmitCall(dst) ==
  /\ holds' = [i \in Entries |-> IF i \in CallerSave \/ holds[i] \in dst THEN None ELSE holds[i]]
  /\ ext' = [i \in Entries |-> IF i \in CallerSave THEN {} ELSE ext[i]]
  /\ mem' = mem \cup dst
  /\ UNCHANGED <<cache, held>>
  /\ Done

-----------------------------------------------------------------------------
(***************************************************************************)
(* The scripts.                                                            *)
(***************************************************************************)
Load(r, e)   == [op |-> "load", r |-> r, e |-> e]
Modify(r)    == [op |-> "modify", r |-> r]
Immediate(r) == [op |-> "immediate", r |-> r]
Unlock(r)    == [op |-> "unlock", r |-> r]
FlushWindow  == [op |-> "flush", which |-> "window"]
FlushCallerSave == [op |-> "flush", which |-> "caller"]
FlushMips(r) == [op |-> "flush", which |-> "mips", r |-> r]
Emit(dst, src, e) == [op |-> "emit", dst |-> dst, src |-> src, e |-> e]
Read(src)    == [op |-> "read", src |-> src, e |-> "noext"]
Jump(src)    == [op |-> "jump", src |-> src, e |-> "noext"]
Call(src, dst) == [op |-> "call", src |-> src, dst |-> dst]

\* THREE_REG_OP, NOR, and the branches that compare two registers.
ThreeRegOp(rd, rs, rt, e) ==
  <<Load(rs, e), Load(rt, e), Modify(rd), Emit(rd, {rs, rt}, e),
    Unlock(rs), Unlock(rt), Unlock(rd)>>

\* TWO_REG_IMM_OP, SLL, SRL, SRA, and the branches that test one register.
TwoRegOp(rd, rs, e) ==
  <<Load(rs, e), Modify(rd), Emit(rd, {rs}, e), Unlock(rs), Unlock(rd)>>

\* Mutant: the shift amount's register is unlocked at the end, with the others.
ShiftOp_LateUnlock(rd, rt, rs, e) ==
  <<Load(rt, e), Load(rs, "noext"), Modify(Scratch0), Emit(Scratch0, {rs}, "noext"),
    Modify(rd), Emit(rd, {rt, Scratch0}, e),
    Unlock(rt), Unlock(rs), Unlock(rd), Unlock(Scratch0)>>

\* SLLV, SRLV, SRAV.
ShiftOp(rd, rt, rs, e) ==
  <<Load(rt, e), Load(rs, "noext"), Modify(Scratch0), Emit(Scratch0, {rs}, "noext"),
    Unlock(rs), Modify(rd), Emit(rd, {rt, Scratch0}, e),
    Unlock(rt), Unlock(rd), Unlock(Scratch0)>>

\* ADDI and ORI of $0, LUI, the link registers, the condition of a jump.
ImmediateOp(r) == <<Immediate(r), Unlock(r)>>

\* JAL.
LinkOp(r) == <<Immediate(r), Immediate(Cond), Unlock(r), Unlock(Cond)>>

\* jit_save_indirect_register and jit_save_illegal_cond_branch_taken.
SaveOp(r) == <<Load(r, "noext"), Read({r}), Unlock(r)>>

\* jit_emit_store_operation: "path" is byte, or aligned or unaligned for the
\* accesses that test the alignment.
StoreOp(rt, rs, path) ==
  LET unlocks == <<Unlock(rt), Unlock(rs), Unlock(Scratch0)>>
      store == IF path = "unaligned"
               THEN <<Read({Scratch0, rt}), Call({}, {})>> ELSE <<Read({Scratch0, rt})>>
  IN  <<Load(rt, "noext"), Load(rs, "noext"), Modify(Scratch0), Emit(Scratch0, {rs}, "noext")>>
      \o IF path = "byte" THEN store \o unlocks
         ELSE unlocks \o <<FlushCallerSave>> \o store

\* jit_emit_load_operation.
LoadOp(rt, rs, path) ==
  LET unlocks == <<Unlock(rs), Unlock(Scratch0), Unlock(Scratch1)>>
      load == IF path = "unaligned"
              THEN <<Read({Scratch0}), Call({}, {}), Emit(Scratch1, {}, "noext")>>
              ELSE <<Emit(Scratch1, {Scratch0}, "noext")>>
  IN  <<Load(rs, "noext"), Modify(Scratch0), Emit(Scratch0, {rs}, "noext"), Modify(Scratch1)>>
      \o (IF path = "byte" THEN load \o unlocks
          ELSE unlocks \o <<FlushCallerSave>> \o load)
      \o <<Modify(rt), Emit(rt, {Scratch1}, "noext"), Unlock(rt)>>

\* Vector instructions.
VectorOp == <<FlushCallerSave, Call({}, {})>>

\* Mutant: the register that C++ code writes stays in the cache.
MoveFromOp_KeepsEntry(rt) == <<FlushCallerSave, Call({}, {rt} \ {Zero})>>

\* MFC2, CFC2: RSP_MFC2 and RSP_CFC2 write sr[rt] unless rt is $0.
MoveFromOp(rt) == <<FlushCallerSave, FlushMips(rt), Call({}, {rt} \ {Zero})>>

\* Mutant: only the registers that the call destroys are written back.
MoveToOp_NoFlush(r) == <<FlushCallerSave, Call({r}, {})>>

\* MTC2, CTC2, LWC2, SWC2: the C++ code reads sr[r].
MoveToOp(r) == <<FlushCallerSave, FlushMips(r), Call({r}, {})>>

\* MFC0 and MTC0: everything is in memory, the JIT may be left.
Cop0Op(rt) == <<FlushWindow, Call(InMemory, {rt} \ {Zero})>>

\* jit_handle_delay_slot, for a conditional and an unconditional branch.
DelaySlotOp ==
  <<Load(Cond, "noext"), Modify(Cond), Modify(Scratch0),
    Emit(Scratch0, {Cond}, "noext"), Emit(Cond, {}, "noext"),
    Unlock(Cond), Unlock(Cond), Unlock(Scratch0), FlushWindow, Jump({Scratch0})>>
StaticDelaySlotOp ==
  <<Modify(Cond), Emit(Cond, {}, "noext"), Unlock(Cond), FlushWindow, Jump({})>>

\* jit_handle_impossible_delay_slot after a conditional branch: three host
\* registers stay in use after the window was flushed.  (After an unconditional
\* branch the code overwrites Cond's: RspJit!SecondBranchKicksIn is about that.)
ImpossibleDelaySlotOp ==
  <<Load(Cond, "noext"), Modify(Scratch0), Modify(Scratch1),
    Unlock(Cond), Unlock(Scratch0), Unlock(Scratch1), FlushWindow,
    Emit(Scratch1, {}, "noext"), Emit(Scratch0, {}, "noext"),
    Read({Scratch0}), Jump({Scratch1, Cond})>>

\* After the first instruction: the test of has_delay_slot.
LatentTestOp == <<Modify(Scratch0), Emit(Scratch0, {}, "noext"), Unlock(Scratch0),
                  FlushWindow, Jump({Scratch0})>>

\* The end of jit_region, and jit_end_of_block after a conditional branch.
EndOfBlockOp ==
  <<FlushWindow, Load(Cond, "noext"), Unlock(Cond), Modify(Scratch0), Unlock(Scratch0),
    FlushWindow, Read({Cond}), Emit(Scratch0, {}, "noext"), Jump({Scratch0})>>

\* A label, where control also arrives from elsewhere in the region; and jit_exit.
LabelOp == <<FlushWindow, Jump({})>>

Paths == {"byte", "aligned", "unaligned"}

Scripts ==
  {ThreeRegOp(rd, rs, rt, e) : rd \in Regs, rs \in Sources, rt \in Sources, e \in Extensions}
  \cup {ThreeRegOp(Cond, rs, rt, "sext") : rs \in Sources, rt \in Sources}
  \cup {TwoRegOp(rd, rs, e) : rd \in Regs, rs \in Sources, e \in Extensions}
  \cup {TwoRegOp(Cond, rs, "sext") : rs \in Sources}
  \cup {ShiftOp(rd, rt, rs, e) : rd \in Regs, rt \in Sources, rs \in Sources, e \in Extensions}
  \cup {ImmediateOp(r) : r \in Regs \cup {Cond}}
  \cup {LinkOp(r) : r \in Regs}
  \cup {SaveOp(r) : r \in InMemory}
  \cup {StoreOp(rt, rs, p) : rt \in Sources, rs \in Sources, p \in Paths}
  \cup {LoadOp(rt, rs, p) : rt \in Regs, rs \in Sources, p \in Paths}
  \cup {MoveFromOp(r) : r \in Sources}
  \cup {MoveToOp(r) : r \in Sources}
  \cup {Cop0Op(r) : r \in Sources}
  \cup {VectorOp, DelaySlotOp, StaticDelaySlotOp, ImpossibleDelaySlotOp, LatentTestOp,
        EndOfBlockOp, LabelOp}

-----------------------------------------------------------------------------
Quiet == todo = <<>>
Next_(op) == ~Quiet /\ Head(todo).op = op
Step == Head(todo)

(***************************************************************************)
(* The next instruction.  Host registers without an entry are not read     *)
(* across instructions, so what they contain is forgotten.                 *)
(***************************************************************************)
Begin ==
  /\ Quiet
  /\ todo' \in Scripts
  /\ holds' = [i \in Entries |-> IF at[i] = None THEN None ELSE holds[i]]
  /\ ext' = [i \in Entries |-> IF at[i] = None THEN {} ELSE ext[i]]
  /\ held' = [r \in MipsRegs |-> 0]
  /\ UNCHANGED <<cache, mem>>

FlushSet(step) ==
  {i \in Entries : /\ at[i] # None
                   /\ step.which = "caller" => i \in CallerSave
                   /\ step.which = "mips" => at[i] = step.r}

Init ==
  /\ numCallerSave \in CallerSaves
  /\ at = [i \in Entries |-> None]
  /\ locks = [i \in Entries |-> 0]
  /\ sign = [i \in Entries |-> "sext"]
  /\ modified = [i \in Entries |-> FALSE]
  /\ timestamp = [i \in Entries |-> 0]
  /\ holds = [i \in Entries |-> None]
  /\ ext = [i \in Entries |-> {}]
  /\ mem = InMemory
  /\ todo = <<>>
  /\ held = [r \in MipsRegs |-> 0]

Next ==
  /\ \/ Begin
     \/ Next_("load") /\ LoadMipsRegister(Step.r, Step.e)
     \/ Next_("modify") /\ ModifyMipsRegister(Step.r)
     \/ Next_("immediate") /\ ImmediateMipsRegister(Step.r)
     \/ Next_("unlock") /\ UnlockMipsRegister(Step.r)
     \/ Next_("flush") /\ Flush(FlushSet(Step))
     \/ Next_("emit") /\ EmitOp(Step.dst)
     \/ (Next_("read") \/ Next_("jump")) /\ EmitRead
     \/ Next_("call") /\ EmitCall(Step.dst)
  /\ UNCHANGED numCallerSave

Spec == Init /\ [][Next]_vars

-----------------------------------------------------------------------------
(***************************************************************************)
(* Properties.                                                             *)
(***************************************************************************)

\* The type of the state.
TypeOK ==
  /\ at \in [Entries -> MipsRegs \cup {None}]
  /\ locks \in [Entries -> Nat]
  /\ sign \in [Entries -> {"sext", "zext", "unknown"}]
  /\ modified \in [Entries -> BOOLEAN]
  /\ timestamp \in [Entries -> Nat]
  /\ holds \in [Entries -> MipsRegs \cup {None}]
  /\ ext \in [Entries -> SUBSET {"sext", "zext"}]
  /\ mem \subseteq InMemory
  /\ held \in [MipsRegs -> Entries \cup {0}]

\* Every emitted instruction finds its operands: the host register that the
\* cache handed out earlier in the script still contains the current value of
\* the MIPS register, extended the way the instruction needs it, although
\* other registers were loaded, evicted, unlocked or flushed in between; C++
\* code that reads sr[r] finds the current value there; and a jump leaves
\* nothing behind in host registers, because its target starts with an empty
\* cache.
OperandsInPlace ==
  ~Quiet =>
    /\ Step.op \in {"emit", "read", "jump"} =>
         \A r \in Step.src : /\ holds[held[r]] = r
                             /\ r \in Sources /\ Step.e # "noext" => Step.e \in ext[held[r]]
    /\ Step.op = "call" => Step.src \subseteq mem
    /\ Step.op = "jump" => mem = InMemory

\* Between two instructions no value is lost: a live entry contains the
\* current value of its register, sr[] that of every register that is not live
\* or not modified, and no register is live twice; the state is well-typed.
RegisterFileCoherent ==
  /\ TypeOK
  /\ Quiet =>
       /\ \A i \in Entries : at[i] \in InMemory => holds[i] = at[i]
       /\ \A r \in InMemory \ mem : \E i \in Live(r) : modified[i]
       /\ \A i, j \in Entries : at[i] = at[j] /\ at[i] # None => i = j

\* The cache never believes in an extension the host register does not have,
\* so that load_mips_register_sext and _zext may leave one out.
SignStateTrue ==
  \A i \in Entries : at[i] # None /\ sign[i] # "unknown" => sign[i] \in ext[i]

\* The assertions of the class hold: find_register always finds one
\* (rsp_jit.cpp:2102), an unlock finds a locked live register (2295), no
\* flushed register is locked (2309, 2324, 2343), $0 is never written back
\* (2109); and every instruction releases what it locked.
AssertionsHold ==
  /\ ~Quiet =>
       /\ Step.op \in {"load", "modify", "immediate"} => Found(Step.r) # {}
       /\ Step.op = "unlock" => \E i \in Live(Step.r) : locks[i] > 0
       /\ Step.op = "flush" => \A i \in FlushSet(Step) : locks[i] = 0
  /\ Quiet => \A i \in Entries : locks[i] = 0
  /\ \A i \in Entries : at[i] = Zero => ~modified[i]

=============================================================================
