------------------------------ MODULE MCRspJit ------------------------------
(***************************************************************************)
(* Sets of programs for the runs of RspJit.                                *)
(***************************************************************************)
EXTENDS RspJit, TLC

Nop == [op |-> "OP", target |-> 0]

\* The instructions of some classes, whose branches go to one of a set of words.
Classes(ops, targets) ==
  {ins \in Instructions : ins.op \in ops /\ (ins.op \in DirectOps => ins.target \in targets)}

\* The programs that are trivial outside the words the fragments fill.
ProgramsOver(fragments) ==
  {[a \in Word |-> IF a \in DOMAIN w THEN w[a] ELSE Nop] : w \in fragments}

(***************************************************************************)
(* Six words in three code blocks.  All classes in the last three words:   *)
(* across the end of the regions that start in the first code block, and   *)
(* from the last word of IMEM to the first.  The classes with the most     *)
(* delicate glue in four words in the middle: local loops, gotos into      *)
(* delay slots, and regions that overlap.                                  *)
(***************************************************************************)
MCPrograms ==
  Translated(ProgramsOver(
    [3 .. 5 -> Classes({"OP", "COP0", "BREAK", "BCC", "BCCAL", "BLEZ0", "BGTZ0",
                        "J", "JAL", "JR", "JALR"}, {2, 3, 5})]
    \cup [1 .. 4 -> Classes({"OP", "COP0", "BCC", "J", "JR"}, {1, 3, 4})]))

\* The shapes excluded above, each with the classes that show it, in four words.
StaticPairPrograms == [Word -> Classes({"OP", "BEQSAME", "J"}, Word)]
StaticBlezPrograms == [Word -> Classes({"OP", "BREAK", "J", "BLEZ0"}, Word)]

=============================================================================
