----------------------------- MODULE MCDebugJit -----------------------------
(***************************************************************************)
(* The programs for the run of DebugJit.                                   *)
(***************************************************************************)
EXTENDS DebugJit, TLC

Nop == [op |-> "OP", target |-> 0]

\* The instructions of some classes, whose branches go to one of a set of words.
Classes(ops, targets) ==
  {ins \in Instructions : ins.op \in ops /\ (ins.op \in DirectOps => ins.target \in targets)}

\* The programs that are trivial outside the words the fragments fill.
ProgramsOver(fragments) ==
  {[a \in Word |-> IF a \in DOMAIN w THEN w[a] ELSE Nop] : w \in fragments}

\* Calls, returns and link registers loaded from memory in all of IMEM, and
\* all classes in its last three words.
MCPrograms ==
  Translated(ProgramsOver(
    [Word -> Classes({"OP", "LWRA", "BCCAL", "JAL", "JR", "JALR0"}, Word)]
    \cup [1 .. 3 -> Classes({"OP", "COP0", "BREAK", "BCC", "BLEZ0", "BGTZ0",
                             "J", "JAL", "JR", "JALR0"}, {1, 3})]))

=============================================================================
