--------------------------- MODULE MCCoprocessor2 ---------------------------
(***************************************************************************)
(* The three parts of coprocessor 2 for TLC: a lane of the vector unit,    *)
(* the division unit, and the moves with the operand shuffle.  The models  *)
(* share no state, so a behaviour exercises one of them, the lane with     *)
(* either the instructions that pass flags or those that use the whole     *)
(* accumulator: "program" says which.                                      *)
(***************************************************************************)
EXTENDS VectorUnit, Divider, Cop2

LOCAL B == INSTANCE Bitwise

MCBitAnd(a, b) == B!&(a, b)

VARIABLE program

\* Around zero, the signs and the changes of exponent.
MCElement == {0, 1, 2, 3, 511, 512, 4096, 32767, 32768, 65535}

\* Every element different.
MCContents == [r \in {0, 1} |-> [i \in Elem |-> 8738 * i + 5 * r]]

allVars == <<program, vars, divVars, moveVars>>

MCInit ==
  /\ program \in {"flags", "accumulate", "divide", "move"}
  /\ Init
  /\ DivInit
  /\ MoveInit
  /\ program # "move" => sr = [r \in {1, 2} |-> 4660]

Lanes ==
  /\ \/ program \in {"flags", "accumulate"} /\ Load
     \/ program = "flags" /\ FlagStep /\ UNCHANGED <<vs, vt>>
     \/ program = "accumulate" /\ LogicStep /\ UNCHANGED <<vs, vt>>
     \/ program = "accumulate" /\ MultiplyStep /\ UNCHANGED <<vs, vt>>
     \/ program = "accumulate" /\ AccumulatorStep /\ UNCHANGED <<vs, vt>>
  /\ UNCHANGED <<divVars, moveVars>>

Divisions == program = "divide" /\ DivNext /\ UNCHANGED <<vars, moveVars>>

Moves == program = "move" /\ MoveNext /\ UNCHANGED <<vars, divVars>>

MCNext == (Lanes \/ Divisions \/ Moves) /\ UNCHANGED program

MCSpec == MCInit /\ [][MCNext]_allVars

=============================================================================
