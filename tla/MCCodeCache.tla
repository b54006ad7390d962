---------------------------- MODULE MCCodeCache -----------------------------
(***************************************************************************)
(* CodeCache with the region analysis of the JIT, on a small IMEM.         *)
(***************************************************************************)
EXTENDS CodeCache, FiniteSetsExt

Analysis == INSTANCE RegionAnalysis

Op == [op |-> "OP", target |-> 0]
Jr == [op |-> "JR", target |-> 0]
Skip == [op |-> "BCC", target |-> ImemWords - 1]

\* The zero word is SLL $0: an instruction that does nothing.
MCZero == Op
TwoWords   == {Op, Jr}
ThreeWords == {Op, Jr, Skip}

\* analyze_static_end, called the way get_jit_block does.
MCStaticEnd(m, pc) == Analysis!RegionEnd(m, pc)

\* A hash without collisions.
MCHash(code) == code

\* Bound on the number of regions compiled since the CPU was created; one
\* more than the words of IMEM, so that some word has been compiled twice.
MaxCompiled == 4
FewRegions ==
  MapThenSumSet(LAMBDA pc : Cardinality(DOMAIN cached_blocks[pc]), Word) <= MaxCompiled

=============================================================================
