------------------------------ MODULE MCMemory ------------------------------
(***************************************************************************)
(* Host memory for TLC: the allocator of compiled code, and the loads and  *)
(* stores that move the bytes of DMEM.  The models share no state, so a    *)
(* behaviour exercises one of them, and "program" says which.              *)
(*                                                                         *)
(* Loads and stores have 128 bytes of DMEM: eight rows of sixteen, so that *)
(* an access can cross from one to the next and from the last to the       *)
(* first, and a transposition has room.  All bytes are different, and half *)
(* of them have their sign bit set.                                        *)
(***************************************************************************)
EXTENDS Allocator, LoadStore

VARIABLE program

MCDmem == [h \in Host |-> (5 * h + 3) % 256]
MCRegs == [r \in Reg |-> [b \in Lane |-> (83 * b + 31 * r + 60) % 256]]
MCSr   == <<201, 18, 135, 64>>

Instruction(ops, elems, addrs) ==
  {[op |-> op, e |-> e, a |-> a] : op \in ops, e \in elems, a \in addrs}

\* Every instruction and element, at every address and at addresses beyond
\* DMEM that the mask brings back.
Singles ==
  Instruction(VectorLoads \cup VectorStores, 0 .. 15, 0 .. Size + 3)
  \cup Instruction(ScalarLoads \cup ScalarStores, {0}, 0 .. Size + 3)

\* After one instruction, the one that completes the unaligned vector, or
\* stores what was unpacked.
Completes(in) ==
  CASE in.op = "LQV" -> {[in EXCEPT !.op = "LRV", !.a = @ + 16]}
    [] in.op = "SQV" -> {[in EXCEPT !.op = "SRV", !.a = @ + 16]}
    [] in.op \in {"LPV", "LUV", "LHV", "LFV"} ->
         Instruction({p[2] : p \in {q \in PackedBack : q[1] = in.op}}, {in.e}, {in.a})
    [] OTHER -> {}

\* The transposition through rows at base + 16 .. base + 112, starting with row r + 1.
TransposeFrom(base, r) ==
  [n \in 1 .. 14 |->
     LET k == ((n - 1 + r) % 7) + 1
     IN  [op |-> IF n <= 7 THEN "STV" ELSE "LTV",
          e  |-> IF n <= 7 THEN 2 * k ELSE 16 - 2 * k,
          a  |-> base + 16 * k]]

TransposeStep(p) ==
  {t[Len(p) + 1] : t \in {u \in {TransposeFrom(base, r) : base \in {0, 16, 48, 112}, r \in 0 .. 6} :
                            SubSeq(u, 1, Len(p)) = p}}

MCMicrocode(p) ==
  TransposeStep(p) \cup CASE p = <<>>    -> Singles
                          [] Len(p) = 1  -> Completes(p[1])
                          [] OTHER       -> {}

-----------------------------------------------------------------------------
allVars == <<program, vars, lsVars>>

MCInit ==
  /\ program \in {"allocate", "access"}
  /\ Init
  /\ LoadStoreInit
  /\ program = "access" => huge_va

Allocations == program = "allocate" /\ Next /\ UNCHANGED lsVars

Accesses == program = "access" /\ LoadStoreNext /\ UNCHANGED vars

MCNext == (Allocations \/ Accesses) /\ UNCHANGED program

MCSpec == MCInit /\ [][MCNext]_allVars

=============================================================================
