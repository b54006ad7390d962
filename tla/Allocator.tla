------------------------------ MODULE Allocator -----------------------------
(***************************************************************************)
(* The allocator of compiled code and its data (jit_allocator.cpp).  Memory *)
(* is reserved from the system in large blocks and handed out from the last *)
(* block of each kind; nothing is freed while the CPU lives.               *)
(*                                                                         *)
(* Addresses are natural numbers.  The system (mmap, mprotect) is external: *)
(* it reserves any free range of pages, or refuses.                        *)
(***************************************************************************)
EXTENDS Integers, SequencesExt

CONSTANTS
  PageSize,
  BlockSize,    \* block_size
  Sizes,        \* the sizes requested
  SpaceEnd,     \* the end of the address space
  MaxRequests   \* bound on the number of allocations

ASSUME AllocatorAssumption ==
  /\ PageSize \in Nat \ {0}
  /\ BlockSize \in Nat \ {0} /\ BlockSize % PageSize = 0
  /\ Sizes \subseteq Nat
  /\ SpaceEnd \in Nat
  /\ MaxRequests \in Nat

Null == 0
Kinds == {"code", "data"}

VARIABLES
  huge_va,     \* a 64-bit address space: fixed by the build
  blocks,      \* code_blocks and data_blocks
  allocated,   \* ghost: what was handed out, in order
  aborted      \* the process called abort

vars == <<huge_va, blocks, allocated, aborted>>

-----------------------------------------------------------------------------
\* Mutant: nothing is rounded.
AlignPage_None(offset) == offset

AlignPage(offset) == ((offset + PageSize - 1) \div PageSize) * PageSize

(***************************************************************************)
(* The system.                                                             *)
(***************************************************************************)
Reserved == UNION {Range(blocks[k]) : k \in Kinds}

\* Where the system may reserve size bytes: Null when it refuses.
Mmap(size) ==
  {Null} \cup
  {a \in {p * PageSize : p \in 1 .. SpaceEnd \div PageSize} :
     /\ a + size <= SpaceEnd
     /\ \A b \in Reserved : a + size <= b.code \/ b.code + b.size <= a}

ReserveBlock(size) == {[code |-> a, size |-> size, offset |-> 0] : a \in Mmap(size)}

-----------------------------------------------------------------------------
Fits(block, size) == block.offset + size <= block.size

\* Mutant: a large request gets a block of the usual size.
BlockFor_Fixed(size) == BlockSize

\* std::max(size, block_size)
BlockFor(size) == IF size > BlockSize THEN size ELSE BlockSize

\* Mutant: 64-bit systems also go on in another block.
MayGrow_Always(own) == TRUE

\* Another block may be reserved when there is none, or addresses are 32 bits.
MayGrow(own) == own = <<>> \/ ~huge_va

(***************************************************************************)
(* allocate.  "own" is the list of blocks of the kind once the offset of   *)
(* its last block was aligned.  A null pointer makes the caller abort, and  *)
(* so does MAP_FAILED, which is not null but which mprotect then refuses;  *)
(* a block that was not reserved is therefore never seen again.            *)
(***************************************************************************)
Aligned(own) ==
  IF own = <<>> THEN own ELSE [own EXCEPT ![Len(own)].offset = AlignPage(@)]

Take(k, own, want, size) ==
  LET block == Last(own)
  IN  /\ blocks' = [blocks EXCEPT ![k] = [own EXCEPT ![Len(own)].offset = @ + size]]
      /\ allocated' = Append(allocated, [kind |-> k, at |-> block.code + block.offset,
                                         want |-> want, size |-> size])
      /\ UNCHANGED aborted

Abort == aborted' = TRUE /\ UNCHANGED <<blocks, allocated>>

Allocate(k, want) ==
  LET own  == Aligned(blocks[k])
      size == AlignPage(want)
      fits == own # <<>> /\ Fits(Last(own), size)
  IN  /\ ~aborted
      /\ Len(allocated) < MaxRequests
      /\ UNCHANGED huge_va
      /\ CASE fits -> Take(k, own, want, size) \/ Abort   \* mprotect may fail
           [] ~fits /\ MayGrow(own) ->
                \E block \in ReserveBlock(BlockFor(size)) :
                  IF block.code = Null THEN Abort
                  ELSE Take(k, Append(own, block), want, size) \/ Abort
           [] OTHER -> Abort

AllocateCode == \E want \in Sizes : Allocate("code", want)
AllocateData == \E want \in Sizes : Allocate("data", want)

Init ==
  /\ huge_va \in BOOLEAN
  /\ blocks = [k \in Kinds |-> <<>>]
  /\ allocated = <<>>
  /\ aborted = FALSE

Next == AllocateCode \/ AllocateData

Spec == Init /\ [][Next]_vars

-----------------------------------------------------------------------------
(***************************************************************************)
(* Properties.                                                             *)
(***************************************************************************)
Requests == DOMAIN allocated
PagesOf(a) == {p \in 0 .. SpaceEnd \div PageSize :
                 p * PageSize < a.at + a.want /\ a.at < (p + 1) * PageSize}

\* No page belongs to two allocations: compiled code never overlaps other code
\* or data, whatever the sizes and however blocks fill up (allocate, align_page).
NoSharedPage ==
  \A i, j \in Requests : i # j => PagesOf(allocated[i]) \cap PagesOf(allocated[j]) = {}

\* What is handed out lies inside a block the system reserved, also when a
\* request fills a block to its last byte or is larger than block_size.
InsideReservation ==
  \A i \in Requests : \E b \in Range(blocks[allocated[i].kind]) :
    /\ b.code <= allocated[i].at
    /\ allocated[i].at + allocated[i].want <= b.code + b.size

\* On 64-bit systems all code lies within one block, "since we must ensure that
\* relative jumps are reachable in 32-bits" (jit_allocator.cpp:33).
JumpsReach ==
  huge_va => \A i, j \in Requests :
    allocated[i].kind = "code" /\ allocated[j].kind = "code"
      => allocated[j].at + allocated[j].want - allocated[i].at
           <= Max({BlockSize} \cup {allocated[n].size : n \in Requests})

=============================================================================
