---------------------------- MODULE MCDmaEngine -----------------------------
(***************************************************************************)
(* DmaEngine with two blocks of two words in IMEM and every word told      *)
(* apart.                                                                  *)
(***************************************************************************)
EXTENDS DmaEngine

MCSpMem == [w \in Word |-> w]
MCRdram == [w \in Rword |-> 100 + w]
MCValue == Word \cup {100 + w : w \in Rword}

=============================================================================
