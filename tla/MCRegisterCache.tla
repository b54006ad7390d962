--------------------------- MODULE MCRegisterCache --------------------------
(***************************************************************************)
(* RegisterCache for TLC.                                                  *)
(***************************************************************************)
EXTENDS RegisterCache, TLC

\* The scripts treat all general registers alike.
Symmetry == Permutations(Regs)

=============================================================================
