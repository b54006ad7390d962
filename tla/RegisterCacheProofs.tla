------------------------ MODULE RegisterCacheProofs -------------------------
(***************************************************************************)
(* Proofs about RegisterCache, for every number of host registers from     *)
(* three on, every set of registers that a call destroys and every set of  *)
(* MIPS registers: whatever instructions follow each other, operands are   *)
(* in place, no value is lost, the extension the cache believes in is true *)
(* and the assertions of the class hold.                                   *)
(*                                                                         *)
(* Inside an instruction these depend on what is left of its script.  They *)
(* are proved the way a program is annotated.  An annotation A says what a *)
(* script knows at one of its steps.  There is one rule per call and per   *)
(* emitted instruction, relating the annotation before it to the one after *)
(* it: Rule(A, step, B).  A script is safe from A when its steps can be    *)
(* annotated from A on so that each obeys its rule and nothing stays       *)
(* locked or unwritten at the end.  The inductive invariant says that what *)
(* is left of the script is safe from an annotation that is true now.  So  *)
(* there is one lemma per operation of the cache, that it makes the next   *)
(* annotation true, and one per instruction, the annotation of its script. *)
(***************************************************************************)
EXTENDS RegisterCache, TLAPS, FiniteSetTheorems, WellFoundedInduction

-----------------------------------------------------------------------------
(***************************************************************************)
(* Annotations.                                                            *)
(*   l1, l2, l3  the registers that are locked, as often as they are, None *)
(*               for a lock that is not taken: no script takes a fourth    *)
(*   pending     locked to be modified, and no value was given yet         *)
(*   current     the host register that was handed out has the value       *)
(*   sized       ... and is extended the way e says                        *)
(*   fresh       the host register that was handed out may be overwritten  *)
(*   apart       they were handed out different host registers             *)
(*   gone        not in the cache                                          *)
(*   saved       nothing is in a register that a call destroys             *)
(***************************************************************************)
Sizes == {"noext", "sext", "zext"}

Locked(A) == {A.l1, A.l2, A.l3} \ {None}

Count(A, r) == (IF A.l1 = r THEN 1 ELSE 0) + (IF A.l2 = r THEN 1 ELSE 0) + (IF A.l3 = r THEN 1 ELSE 0)

\* One lock more, on r.
Takes(A, B, r) ==
  \/ A.l1 = None /\ B.l1 = r /\ B.l2 = A.l2 /\ B.l3 = A.l3
  \/ A.l2 = None /\ B.l2 = r /\ B.l1 = A.l1 /\ B.l3 = A.l3
  \/ A.l3 = None /\ B.l3 = r /\ B.l1 = A.l1 /\ B.l2 = A.l2

SameLocks(A, B) == B.l1 = A.l1 /\ B.l2 = A.l2 /\ B.l3 = A.l3

\* What B may still know of host registers and of the cache when nothing changed.
KeepsHeld(A, B)  == B.current \subseteq A.current /\ B.sized \subseteq A.sized
KeepsCache(A, B) ==
  /\ B.fresh \subseteq A.fresh
  /\ B.apart \subseteq A.apart
  /\ B.gone \subseteq A.gone
  /\ B.saved => A.saved
  /\ B.e = A.e

(***************************************************************************)
(* The rules.                                                              *)
(***************************************************************************)
LockRule(A, r, B) ==
  /\ r \in MipsRegs
  /\ Takes(A, B, r)
  /\ B.apart \subseteq Locked(B)
  /\ B.gone \subseteq A.gone \ {r}
  /\ ~B.saved
  /\ B.e = A.e

LoadRule(A, s, B) ==
  /\ s.op = "load" /\ s.r \in InMemory \ A.pending
  /\ s.e \in Sizes /\ s.e \in {A.e, "noext"}
  /\ LockRule(A, s.r, B)
  /\ B.pending = A.pending
  /\ B.current \subseteq (A.current \cap Locked(A)) \cup {s.r}
  /\ B.sized \subseteq (A.sized \cap Locked(A)) \cup {r \in {s.r} : s.e = A.e}
  /\ B.fresh \subseteq (A.fresh \cap Locked(A)) \ {s.r}

ModifyRule(A, s, B) ==
  /\ s.op = "modify" /\ s.r # Zero
  /\ LockRule(A, s.r, B)
  /\ B.pending = A.pending \cup ({s.r} \cap InMemory)
  /\ B.current \subseteq A.current \ ({s.r} \ Locked(A))
  /\ B.sized \subseteq A.sized \ ({s.r} \ Locked(A))
  /\ B.fresh \subseteq (A.fresh \cap Locked(A)) \cup {s.r}

ImmediateRule(A, s, B) ==
  /\ s.op = "immediate" /\ s.r \in InMemory \ {Zero}
  /\ LockRule(A, s.r, B)
  /\ B.pending = A.pending \ {s.r}
  /\ B.current \subseteq (A.current \cap Locked(A)) \cup {s.r}
  /\ B.sized \subseteq (A.sized \cap Locked(A)) \ {s.r}
  /\ B.fresh \subseteq (A.fresh \cap Locked(A)) \ {s.r}

UnlockRule(A, s, B) ==
  /\ s.op = "unlock" /\ s.r \in MipsRegs
  /\ Takes(B, A, s.r)
  /\ A.pending = {} /\ B.pending = {}
  /\ KeepsHeld(A, B) /\ KeepsCache(A, B)

FlushRule(A, s, B) ==
  /\ s.op = "flush" /\ s.which \in {"window", "caller", "mips"}
  /\ Locked(A) = {} /\ SameLocks(A, B)
  /\ A.pending = {} /\ B.pending = {}
  /\ KeepsHeld(A, B)
  /\ B.fresh \subseteq A.fresh \cup {r \in A.apart : s.which = "window"}
  /\ B.apart \subseteq A.apart
  /\ B.gone \subseteq A.gone \cup 
                   {r \in MipsRegs : s.which = "window" \/ (s.which = "mips" /\ r = s.r)}
  /\ B.saved => A.saved \/ s.which \in {"window", "caller"}
  /\ B.e = A.e

\* The operands of a host instruction are there.
Ready(A, s) ==
  /\ s.src \subseteq A.current
  /\ s.e # "noext" => s.e = A.e /\ s.src \cap Sources \subseteq A.sized

EmitRule(A, s, B) ==
  /\ s.op = "emit" /\ Ready(A, s)
  /\ s.dst \in A.fresh \cap A.apart
  /\ s.dst \in Scratch \cup Locked(A) /\ s.dst # Zero
  /\ SameLocks(A, B)
  /\ B.pending = A.pending \ {s.dst}
  /\ B.current \subseteq (A.current \cap A.apart) \cup {s.dst}
  /\ B.sized \subseteq (A.sized \cap A.apart) \ {s.dst}
  /\ KeepsCache(A, B)

ReadRule(A, s, B) ==
  /\ s.op \in {"read", "jump"} /\ Ready(A, s)
  /\ s.op = "jump" => InMemory \subseteq A.gone
  /\ SameLocks(A, B) /\ B.pending = A.pending
  /\ KeepsHeld(A, B) /\ KeepsCache(A, B)

CallRule(A, s, B) ==
  /\ s.op = "call" /\ A.saved
  /\ s.src \cup s.dst \subseteq A.gone \cap InMemory
  /\ SameLocks(A, B) /\ B.pending = A.pending
  /\ B.current = {} /\ B.sized = {} /\ KeepsCache(A, B)

Rule(A, s, B) ==
  \/ LoadRule(A, s, B) \/ ModifyRule(A, s, B) \/ ImmediateRule(A, s, B)
  \/ UnlockRule(A, s, B) \/ FlushRule(A, s, B)
  \/ EmitRule(A, s, B) \/ ReadRule(A, s, B) \/ CallRule(A, s, B)

(***************************************************************************)
(* c annotates the steps of s.                                             *)
(***************************************************************************)
Annotates(c, s) == \A k \in 1 .. Len(s) : Rule(c[k], s[k], c[k + 1])

\* Nothing is left behind.
Clean(A) == Locked(A) = {} /\ A.pending = {}

\* s can be annotated from A to B; from A to a clean end.
Leads(s, A, B) ==
  \E S, c : /\ s \in Seq(S) /\ Annotates(c, s)
            /\ c[1] = A /\ c[Len(s) + 1] = B

Safe(s, A) == \E B : Leads(s, A, B) /\ Clean(B)

-----------------------------------------------------------------------------
(***************************************************************************)
(* What an annotation means.                                               *)
(***************************************************************************)
LocksCounted(A) ==
  \A i \in Entries : locks[i] = IF at[i] = None THEN 0 ELSE Count(A, at[i])

LockedHeld(A) ==
  \A r \in Locked(A) : r \in MipsRegs /\ held[r] \in Entries /\ at[held[r]] = r

LiveCurrent(A) ==
  /\ A.pending \subseteq Locked(A)
  /\ \A i \in Entries : at[i] \in InMemory \ A.pending => holds[i] = at[i]

CurrentHeld(A) ==
  \A r \in A.current : r \in MipsRegs /\ held[r] \in Entries /\ holds[held[r]] = r

SizedHeld(A) ==
  \A r \in A.sized : /\ r \in MipsRegs /\ held[r] \in Entries
                     /\ A.e # "noext" => A.e \in ext[held[r]]

FreshHeld(A) ==
  \A r \in A.fresh : /\ r \in MipsRegs /\ held[r] \in Entries
                     /\ \/ at[held[r]] = None
                        \/ at[held[r]] = r /\ sign[held[r]] = "unknown" /\ modified[held[r]]

ApartHeld(A) ==
  /\ \A r \in A.apart : r \in MipsRegs /\ held[r] \in Entries
  /\ \A q, r \in A.apart : held[q] = held[r] => q = r

GoneFromCache(A) ==
  \A r \in A.gone : r \in MipsRegs /\ \A i \in Entries : at[i] # r

SavedFlushed(A) == A.saved => \A i \in CallerSave : at[i] = None

Matches(A) ==
  /\ LocksCounted(A) /\ LockedHeld(A) /\ LiveCurrent(A)
  /\ CurrentHeld(A) /\ SizedHeld(A) /\ FreshHeld(A) /\ ApartHeld(A)
  /\ GoneFromCache(A) /\ SavedFlushed(A)

(***************************************************************************)
(* What is always true.                                                    *)
(***************************************************************************)
LiveOnce == \A i, j \in Entries : at[i] = at[j] /\ at[i] # None => i = j

\* A value that sr[] lacks is in the cache, to be written back.
Recoverable ==
  \A r \in InMemory \ mem : \E i \in Entries : at[i] = r /\ modified[i] /\ holds[i] = r

ZeroIsZero ==
  \A i \in Entries : at[i] = Zero => ext[i] = {"sext", "zext"} /\ ~modified[i]

Always ==
  /\ TypeOK /\ numCallerSave \in CallerSaves
  /\ LiveOnce /\ Recoverable /\ SignStateTrue /\ ZeroIsZero

CacheInv == Always /\ \E A : Safe(todo, A) /\ Matches(A)

-----------------------------------------------------------------------------
(***************************************************************************)
(* Constants, minima and timestamps.                                       *)
(***************************************************************************)

\* The registers that the code tells apart are different.
LEMMA Names ==
  /\ None \notin MipsRegs /\ Zero \in InMemory /\ Cond \in InMemory /\ Regs \subseteq InMemory
  /\ Scratch0 \in Scratch /\ Scratch1 \in Scratch
  /\ Scratch \cap InMemory = {} /\ MipsRegs = InMemory \cup Scratch
  /\ InMemory = Sources \cup {Cond} /\ Scratch \cap Sources = {}
  /\ Cond # Zero /\ Scratch0 # Scratch1 /\ Zero \notin Regs /\ Cond \notin Regs
  /\ Sources = Regs \cup {Zero}
BY RegisterAssumption DEF MipsRegs, InMemory, Scratch, Sources

\* There are three host registers, and a call destroys some of the entries.
LEMMA ThreeEntries ==
  /\ 1 \in Entries /\ 2 \in Entries /\ 3 \in Entries /\ Entries \subseteq Nat
  /\ numCallerSave \in CallerSaves => CallerSave \subseteq Entries
<1>1. 1 \in Entries /\ 2 \in Entries /\ 3 \in Entries /\ Entries \subseteq Nat
  BY RegisterAssumption DEF Entries
<1>2. ASSUME numCallerSave \in CallerSaves PROVE CallerSave \subseteq Entries
  <2>1. numCallerSave \in 0 .. NumRegisters
    BY <1>2, RegisterAssumption
  <2> QED BY <2>1, RegisterAssumption DEF Entries, CallerSave
<1> QED BY <1>1, <1>2

\* A set of numbers that is not empty has a least one.
LEMMA LeastExists ==
  ASSUME NEW S \in SUBSET Nat, S # {}
  PROVE  \E m \in S : \A k \in S : m <= k
<1>1. PICK m \in S : \A k \in S : ~ (<<k, m>> \in OpToRel(<, Nat))
  BY WFMin, NatLessThanWellFounded
<1>2. \A k \in S : m <= k
  <2>1. SUFFICES ASSUME NEW k \in S, k < m PROVE FALSE
    OBVIOUS
  <2>2. <<k, m>> \in OpToRel(<, Nat)
    BY <2>1 DEF OpToRel
  <2> QED BY <1>1, <2>2
<1> QED BY <1>2

\* The first of the entries that find_live_mips_register or find_free_register meets.
LEMMA MinIsMember ==
  ASSUME NEW S \in SUBSET Entries, S # {}
  PROVE  Min(S) \in S
<1>1. \E m \in S : \A k \in S : m <= k
  BY LeastExists, ThreeEntries
<1> QED BY <1>1 DEF Min

\* find_oldest_unlocked_register returns an entry if there is one to return.
LEMMA OldestExists ==
  ASSUME NEW S \in SUBSET Entries, S # {}, timestamp \in [Entries -> Nat]
  PROVE  Oldest(S) # {}
<1> DEFINE T == {timestamp[i] : i \in S}
<1>1. T \in SUBSET Nat /\ T # {}
  OBVIOUS
<1>2. PICK m \in T : \A k \in T : m <= k
  BY <1>1, LeastExists
<1>3. PICK i \in S : timestamp[i] = m
  OBVIOUS
<1>4. \A j \in S : timestamp[i] <= timestamp[j]
  BY <1>2, <1>3
<1> QED BY <1>4 DEF Oldest

\* Renumbered timestamps are numbers.
LEMMA RenumberedType ==
  ASSUME NEW t
  PROVE  Renumbered(t) \in [Entries -> Nat]
<1>1. IsFiniteSet(Entries)
  BY FS_Interval, RegisterAssumption DEF Entries
<1>2. \A i \in Entries : Cardinality({j \in Entries : t[j] < t[i]}) \in Nat
  <2> SUFFICES ASSUME NEW i \in Entries
               PROVE  Cardinality({j \in Entries : t[j] < t[i]}) \in Nat
    OBVIOUS
  <2> DEFINE T == {j \in Entries : t[j] < t[i]}
  <2>1. IsFiniteSet(T)
    BY <1>1, FS_Subset
  <2> QED BY <2>1, FS_CardinalityType
<1> QED BY <1>2 DEF Renumbered

-----------------------------------------------------------------------------
(***************************************************************************)
(* Annotated scripts.                                                      *)
(***************************************************************************)

\* The first step of a safe script obeys its rule, and the rest is safe after it.
LEMMA SafeStep ==
  ASSUME NEW s, NEW A, Safe(s, A), s # <<>>
  PROVE  \E B : Rule(A, Head(s), B) /\ Safe(Tail(s), B)
<1>1. PICK E, S, c : /\ s \in Seq(S) /\ Annotates(c, s)
                     /\ c[1] = A /\ c[Len(s) + 1] = E /\ Clean(E)
  BY DEF Safe, Leads
<1> DEFINE d == [k \in 1 .. Len(s) |-> c[k + 1]]
<1>2. Len(s) \in Nat /\ Len(s) >= 1 /\ Head(s) = s[1]
  BY <1>1
<1>3. /\ Tail(s) \in Seq(S) /\ Len(Tail(s)) = Len(s) - 1
      /\ \A k \in 1 .. Len(s) - 1 : Tail(s)[k] = s[k + 1]
  BY <1>1
<1>4. Rule(A, Head(s), d[1])
  BY <1>1, <1>2 DEF Annotates
<1>5. Annotates(d, Tail(s))
  <2> SUFFICES ASSUME NEW k \in 1 .. Len(s) - 1
               PROVE  Rule(d[k], Tail(s)[k], d[k + 1])
    BY <1>3 DEF Annotates
  <2>1. /\ k + 1 \in 1 .. Len(s) /\ d[k] = c[k + 1] /\ d[k + 1] = c[(k + 1) + 1]
        /\ Tail(s)[k] = s[k + 1]
    BY <1>2, <1>3
  <2>2. Rule(c[k + 1], s[k + 1], c[(k + 1) + 1])
    BY <1>1, <2>1 DEF Annotates
  <2> QED BY <2>1, <2>2
<1>6. d[Len(Tail(s)) + 1] = E
  BY <1>1, <1>2, <1>3
<1>7. Leads(Tail(s), d[1], E)
  <2> HIDE DEF d
  <2> QED BY <1>3, <1>5, <1>6 DEF Leads
<1>8. Safe(Tail(s), d[1])
  BY <1>1, <1>7 DEF Safe
<1> HIDE DEF d
<1> QED BY <1>4, <1>8

\* When a safe script has ended, nothing is left behind.
LEMMA SafeEnd ==
  ASSUME NEW A, Safe(<<>>, A)
  PROVE  Clean(A)
<1>1. PICK E, S, c : c[1] = A /\ c[Len(<<>>) + 1] = E /\ Clean(E)
  BY DEF Safe, Leads
<1> QED BY <1>1

\* A script may be annotated piece by piece.
LEMMA LeadsOn ==
  ASSUME NEW s, NEW t, NEW A, NEW B, NEW C, Leads(s, A, B), Leads(t, B, C)
  PROVE  Leads(s \o t, A, C)
<1>1. PICK S, c : s \in Seq(S) /\ Annotates(c, s) /\ c[1] = A /\ c[Len(s) + 1] = B
  BY DEF Leads
<1>2. PICK T, d : t \in Seq(T) /\ Annotates(d, t) /\ d[1] = B /\ d[Len(t) + 1] = C
  BY DEF Leads
<1> DEFINE m == Len(s)
           n == Len(t)
           e == [k \in 1 .. m + n + 1 |-> IF k <= m THEN c[k] ELSE d[k - m]]
<1>3. m \in Nat /\ n \in Nat
  BY <1>1, <1>2
<1>4. /\ s \o t \in Seq(S \cup T) /\ Len(s \o t) = m + n
      /\ \A k \in 1 .. m + n : (s \o t)[k] = IF k <= m THEN s[k] ELSE t[k - m]
  <2>1. s \in Seq(S \cup T) /\ t \in Seq(S \cup T)
    BY <1>1, <1>2
  <2> QED BY <2>1
<1>5. Annotates(e, s \o t)
  <2> SUFFICES ASSUME NEW k \in 1 .. m + n
               PROVE  Rule(e[k], (s \o t)[k], e[k + 1])
    BY <1>4 DEF Annotates
  <2>1. CASE k < m
    <3>1. e[k] = c[k] /\ e[k + 1] = c[k + 1] /\ (s \o t)[k] = s[k] /\ k \in 1 .. m
      BY <1>3, <1>4, <2>1
    <3> QED BY <1>1, <3>1 DEF Annotates
  <2>2. CASE k = m
    <3>1. e[k] = c[k] /\ (s \o t)[k] = s[k] /\ k \in 1 .. m
      BY <1>3, <1>4, <2>2
    <3>2. e[k + 1] = d[1] /\ c[k + 1] = d[1]
      BY <1>1, <1>2, <1>3, <2>2
    <3>3. Rule(c[k], s[k], c[k + 1])
      BY <1>1, <3>1 DEF Annotates
    <3> QED BY <3>1, <3>2, <3>3
  <2>3. CASE k > m
    <3>1. /\ e[k] = d[k - m] /\ e[k + 1] = d[(k - m) + 1]
          /\ (s \o t)[k] = t[k - m] /\ k - m \in 1 .. n
      BY <1>3, <1>4, <2>3
    <3> QED BY <1>2, <3>1 DEF Annotates
  <2> QED BY <1>3, <2>1, <2>2, <2>3
<1>6. e[1] = A
  BY <1>1, <1>2, <1>3
<1>7. e[Len(s \o t) + 1] = C
  <2>1. e[m + n + 1] = d[n + 1]
    BY <1>3
  <2> QED BY <1>2, <1>4, <2>1
<1> HIDE DEF e
<1> QED BY <1>4, <1>5, <1>6, <1>7 DEF Leads

-----------------------------------------------------------------------------
(***************************************************************************)
(* What the operations that lock a register have in common.                *)
(***************************************************************************)

\* find_register finds an entry as long as one of three locks is not taken: the
\* live entry, or one that is not locked and then stands for a register that
\* the script has no need of.
LEMMA Allocated ==
  ASSUME Always, NEW A, Matches(A), None \in {A.l1, A.l2, A.l3}, NEW r \in MipsRegs
  PROVE  /\ Found(r) # {}
         /\ FindRegister(r) \in Entries
         /\ at[FindRegister(r)] # r =>
              /\ \A j \in Entries : at[j] # r
              /\ locks[FindRegister(r)] = 0
              /\ at[FindRegister(r)] \notin Locked(A)
<1>1. \A i \in Entries : locks[i] = 0 => at[i] \notin Locked(A)
  <2> SUFFICES ASSUME NEW i \in Entries, locks[i] = 0, at[i] \in Locked(A) PROVE FALSE
    OBVIOUS
  <2>1. Count(A, at[i]) = 0 /\ at[i] # None
    BY DEF Matches, LocksCounted, Locked
  <2> QED BY <2>1 DEF Count, Locked
<1>2. CASE Live(r) # {}
  <2>1. Found(r) = {Min(Live(r))}
    BY <1>2 DEF Found
  <2>2. Min(Live(r)) \in Live(r)
    BY <1>2, MinIsMember DEF Live
  <2>3. FindRegister(r) \in Live(r) /\ Found(r) # {}
    BY <2>1, <2>2 DEF FindRegister
  <2> QED BY <2>3 DEF Live
<1>3. CASE Live(r) = {} /\ Live(None) # {}
  <2>1. Found(r) = {Min(Live(None))}
    BY <1>3 DEF Found
  <2>2. Min(Live(None)) \in Live(None)
    BY <1>3, MinIsMember DEF Live
  <2>3. FindRegister(r) \in Live(None) /\ Found(r) # {}
    BY <2>1, <2>2 DEF FindRegister
  <2>4. FindRegister(r) \in Entries /\ at[FindRegister(r)] = None
    BY <2>3 DEF Live
  <2>5. locks[FindRegister(r)] = 0
    BY <2>4 DEF Matches, LocksCounted
  <2>6. \A j \in Entries : at[j] # r
    BY <1>3 DEF Live
  <2> QED BY <2>3, <2>4, <2>5, <2>6 DEF Locked
<1>4. CASE Live(r) = {} /\ Live(None) = {}
  <2>1. Found(r) = Oldest(Unlocked)
    BY <1>4 DEF Found
  <2>2. \A i \in Entries : at[i] # None /\ at[i] # r
    BY <1>4 DEF Live
  <2>3. Unlocked # {}
    <3> SUFFICES ASSUME Unlocked = {} PROVE FALSE
      OBVIOUS
    <3>1. \A i \in Entries : Count(A, at[i]) # 0
      BY <2>2 DEF Unlocked, Matches, LocksCounted
    <3>2. \A i \in Entries : at[i] \in {A.l1, A.l2, A.l3} \ {None}
      BY <2>2, <3>1 DEF Count
    <3>3. at[1] # at[2] /\ at[1] # at[3] /\ at[2] # at[3]
      BY <2>2, ThreeEntries DEF Always, LiveOnce
    <3> QED BY <3>2, <3>3, ThreeEntries
  <2>4. Oldest(Unlocked) # {} /\ Oldest(Unlocked) \subseteq Unlocked
    BY <2>3, OldestExists DEF Unlocked, Always, TypeOK, Oldest
  <2>5. FindRegister(r) \in Unlocked
    BY <2>1, <2>4 DEF FindRegister
  <2>6. FindRegister(r) \in Entries /\ locks[FindRegister(r)] = 0
    BY <2>5 DEF Unlocked
  <2> QED BY <1>1, <2>1, <2>2, <2>4, <2>6
<1> QED BY <1>2, <1>3, <1>4

\* One lock more counts for its register and for no other.
LEMMA CountTakes ==
  ASSUME NEW A, NEW B, NEW r, r # None, Takes(A, B, r)
  PROVE  /\ Count(B, r) = Count(A, r) + 1
         /\ \A q : q # r /\ q # None => Count(B, q) = Count(A, q)
         /\ Locked(B) = Locked(A) \cup {r}
         /\ None \in {A.l1, A.l2, A.l3}
<1>1. CASE A.l1 = None /\ B.l1 = r /\ B.l2 = A.l2 /\ B.l3 = A.l3
  BY <1>1 DEF Count, Locked
<1>2. CASE A.l2 = None /\ B.l2 = r /\ B.l1 = A.l1 /\ B.l3 = A.l3
  BY <1>2 DEF Count, Locked
<1>3. CASE A.l3 = None /\ B.l3 = r /\ B.l1 = A.l1 /\ B.l2 = A.l2
  BY <1>3 DEF Count, Locked
<1> QED BY <1>1, <1>2, <1>3 DEF Takes

\* What lock does to entries and locals, for the entry that find_register found.
LEMMA LockStep ==
  ASSUME Always, NEW A, Matches(A), NEW B, NEW r, LockRule(A, r, B),
         NEW i, i = FindRegister(r), Lock(i, r)
  PROVE  /\ i \in Entries /\ r \in MipsRegs /\ r # None
         /\ at[i] # r => (\A j \in Entries : at[j] # r) /\ at[i] \notin Locked(A)
         /\ at' \in [Entries -> MipsRegs \cup {None}] /\ at'[i] = r
         /\ \A j \in Entries : j # i => at'[j] = at[j] /\ at'[j] # r
         /\ held' \in [MipsRegs -> Entries \cup {0}] /\ held'[r] = i
         /\ \A q \in MipsRegs : q # r => held'[q] = held[q]
         /\ \A q \in Locked(A) : q # r => held[q] # i
         /\ r \in Locked(A) => held[r] = i
         /\ locks' \in [Entries -> Nat] /\ timestamp' \in [Entries -> Nat]
         /\ LiveOnce' /\ LocksCounted(B)' /\ LockedHeld(B)' /\ ApartHeld(B)'
         /\ GoneFromCache(B)' /\ SavedFlushed(B)'
         /\ Locked(B) = Locked(A) \cup {r}
<1>1. r \in MipsRegs /\ r # None /\ Takes(A, B, r)
  BY Names DEF LockRule
<1>2. /\ Count(B, r) = Count(A, r) + 1
      /\ \A q : q # r /\ q # None => Count(B, q) = Count(A, q)
      /\ Locked(B) = Locked(A) \cup {r}
      /\ None \in {A.l1, A.l2, A.l3}
  BY <1>1, CountTakes
<1>3. /\ i \in Entries
      /\ at[i] # r => /\ \A j \in Entries : at[j] # r
                      /\ locks[i] = 0
                      /\ at[i] \notin Locked(A)
  BY <1>1, <1>2, Allocated
<1>4. /\ at' = [at EXCEPT ![i] = r] /\ locks' = [locks EXCEPT ![i] = @ + 1]
      /\ held' = [held EXCEPT ![r] = i]
  BY DEF Lock
<1>5. /\ at \in [Entries -> MipsRegs \cup {None}] /\ locks \in [Entries -> Nat]
      /\ held \in [MipsRegs -> Entries \cup {0}]
  BY DEF Always, TypeOK
<1>6. /\ at' \in [Entries -> MipsRegs \cup {None}] /\ at'[i] = r
      /\ held' \in [MipsRegs -> Entries \cup {0}] /\ held'[r] = i
      /\ \A q \in MipsRegs : q # r => held'[q] = held[q]
      /\ locks' \in [Entries -> Nat] /\ locks'[i] = locks[i] + 1
      /\ \A j \in Entries : j # i => locks'[j] = locks[j]
  BY <1>1, <1>3, <1>4, <1>5
<1>7. \A j \in Entries : j # i => at'[j] = at[j] /\ at'[j] # r
  BY <1>1, <1>3, <1>4, <1>5 DEF Always, LiveOnce
<1>8. timestamp' \in [Entries -> Nat]
  BY RenumberedType DEF Lock, Touch
<1>9. LiveOnce'
  BY <1>6, <1>7 DEF Always, LiveOnce
<1>10. LocksCounted(B)'
  <2> SUFFICES ASSUME NEW j \in Entries
               PROVE  locks'[j] = IF at'[j] = None THEN 0 ELSE Count(B, at'[j])
    BY DEF LocksCounted
  <2>1. CASE j # i
    BY <1>2, <1>6, <1>7, <2>1 DEF Matches, LocksCounted
  <2>2. CASE j = i /\ at[i] = r
    BY <1>1, <1>2, <1>6, <2>2 DEF Matches, LocksCounted
  <2>3. CASE j = i /\ at[i] # r
    <3>1. r \notin Locked(A)
      BY <1>3, <2>3 DEF Matches, LockedHeld
    <3>2. Count(A, r) = 0
      BY <1>1, <3>1 DEF Count, Locked
    <3> QED BY <1>1, <1>2, <1>3, <1>6, <2>3, <3>2
  <2> QED BY <2>1, <2>2, <2>3
<1>11. \A q \in Locked(A) : q # r => held[q] # i
  BY <1>3 DEF Matches, LockedHeld
<1>12. r \in Locked(A) => held[r] = i
  BY <1>1, <1>3, <1>5 DEF Matches, LockedHeld, Always, LiveOnce
<1>13. LockedHeld(B)'
  <2> SUFFICES ASSUME NEW q \in Locked(B)
               PROVE  q \in MipsRegs /\ held'[q] \in Entries /\ at'[held'[q]] = q
    BY DEF LockedHeld
  <2>1. CASE q = r
    BY <1>1, <1>3, <1>6, <2>1
  <2>2. CASE q # r
    <3>1. q \in Locked(A)
      BY <1>2, <2>2
    <3>2. q \in MipsRegs /\ held[q] \in Entries /\ at[held[q]] = q /\ held[q] # i
      BY <1>11, <2>2, <3>1 DEF Matches, LockedHeld
    <3> QED BY <1>6, <1>7, <2>2, <3>2
  <2> QED BY <2>1, <2>2
<1>14. ApartHeld(B)'
  <2>1. B.apart \subseteq Locked(B)
    BY DEF LockRule
  <2> QED BY <1>13, <2>1 DEF LockedHeld, ApartHeld
<1>15. GoneFromCache(B)'
  <2>1. B.gone \subseteq A.gone \ {r}
    BY DEF LockRule
  <2> SUFFICES ASSUME NEW q \in B.gone, NEW j \in Entries PROVE q \in MipsRegs /\ at'[j] # q
    BY ThreeEntries DEF GoneFromCache
  <2>2. q \in MipsRegs /\ q # r /\ at[j] # q
    BY <2>1 DEF Matches, GoneFromCache
  <2> QED BY <1>6, <1>7, <2>2
<1>16. SavedFlushed(B)'
  BY DEF SavedFlushed, LockRule
<1> QED BY <1>1, <1>2, <1>3, <1>6, <1>7, <1>8, <1>9, <1>10, <1>11, <1>12, <1>13, <1>14, <1>15, <1>16

\* Making room for r loses no value: afterwards what sr[] lacks is in another
\* entry, or in the entry of r itself.
LEMMA EvictKeeps ==
  ASSUME Always, NEW A, LiveCurrent(A), NEW i \in Entries, NEW r,
         at[i] # r => at[i] \notin Locked(A)
  PROVE  /\ Evict(i, r) \subseteq InMemory
         /\ \A q \in InMemory \ Evict(i, r) :
              \E j \in Entries : /\ at[j] = q /\ modified[j] /\ holds[j] = q
                                 /\ j = i => q = r
<1>1. mem \subseteq InMemory /\ modified \in [Entries -> BOOLEAN]
  BY DEF Always, TypeOK
<1>2. CASE at[i] \in {None, r}
  <2>1. Evict(i, r) = mem
    BY <1>2 DEF Evict
  <2>2. None \notin InMemory
    BY Names
  <2> QED BY <1>1, <1>2, <2>1, <2>2 DEF Always, Recoverable
<1>3. CASE at[i] \notin {None, r}
  <2> DEFINE stored == {j \in {i} : modified[j] /\ at[j] \in InMemory}
  <2>1. at[i] \in InMemory => holds[i] = at[i]
    BY <1>3 DEF LiveCurrent
  <2>2. Evict(i, r) = (mem \ {at[j] : j \in stored})
                      \cup {at[j] : j \in {k \in stored : holds[k] = at[k]}}
    BY <1>3 DEF Evict, WriteBack
  <2>3. Evict(i, r) = mem \cup {at[j] : j \in stored}
    BY <2>1, <2>2
  <2>4. {at[j] : j \in stored} \subseteq InMemory
    OBVIOUS
  <2>5. ASSUME NEW q \in InMemory \ Evict(i, r)
        PROVE  \E j \in Entries : /\ at[j] = q /\ modified[j] /\ holds[j] = q
                                  /\ j = i => q = r
    <3>1. PICK j \in Entries : at[j] = q /\ modified[j] /\ holds[j] = q
      BY <2>3, <2>5 DEF Always, Recoverable
    <3>2. j # i
      BY <2>3, <2>5, <3>1
    <3> QED BY <3>1, <3>2
  <2> QED BY <1>1, <2>3, <2>4, <2>5
<1> QED BY <1>2, <1>3

-----------------------------------------------------------------------------
(***************************************************************************)
(* Each operation makes the next annotation true.                          *)
(***************************************************************************)

\* load_mips_register_noext, _sext and _zext.
LEMMA LoadStep ==
  ASSUME Always, NEW A, Matches(A), NEW s, NEW B, LoadRule(A, s, B),
         LoadMipsRegister(s.r, s.e), UNCHANGED numCallerSave
  PROVE  Always' /\ Matches(B)'
<1>1. PICK r, e : r = s.r /\ e = s.e
  OBVIOUS
<1>2. PICK i : i = FindRegister(r)
  OBVIOUS
<1>3. /\ r \in InMemory \ A.pending /\ e \in Sizes /\ e \in {A.e, "noext"}
      /\ LockRule(A, r, B) /\ B.e = A.e
      /\ B.pending = A.pending
      /\ B.current \subseteq (A.current \cap Locked(A)) \cup {r}
      /\ B.sized \subseteq (A.sized \cap Locked(A)) \cup {q \in {r} : e = A.e}
      /\ B.fresh \subseteq (A.fresh \cap Locked(A)) \ {r}
  BY <1>1 DEF LoadRule, LockRule
<1>4. Lock(i, r) /\ mem' = Evict(i, r)
  BY <1>1, <1>2 DEF LoadMipsRegister
<1>5. /\ i \in Entries /\ r \in MipsRegs /\ r # None
      /\ at[i] # r => (\A j \in Entries : at[j] # r) /\ at[i] \notin Locked(A)
      /\ at' \in [Entries -> MipsRegs \cup {None}] /\ at'[i] = r
      /\ \A j \in Entries : j # i => at'[j] = at[j] /\ at'[j] # r
      /\ held' \in [MipsRegs -> Entries \cup {0}] /\ held'[r] = i
      /\ \A q \in MipsRegs : q # r => held'[q] = held[q]
      /\ \A q \in Locked(A) : q # r => held[q] # i
      /\ r \in Locked(A) => held[r] = i
      /\ locks' \in [Entries -> Nat] /\ timestamp' \in [Entries -> Nat]
      /\ LiveOnce' /\ LocksCounted(B)' /\ LockedHeld(B)' /\ ApartHeld(B)'
      /\ GoneFromCache(B)' /\ SavedFlushed(B)'
      /\ Locked(B) = Locked(A) \cup {r}
  BY <1>2, <1>3, <1>4, LockStep
<1>6. /\ mem' \subseteq InMemory
      /\ \A q \in InMemory \ mem' :
           \E j \in Entries : /\ at[j] = q /\ modified[j] /\ holds[j] = q
                              /\ j = i => q = r
  BY <1>4, <1>5, EvictKeeps DEF Matches
<1>7. /\ sign \in [Entries -> {"sext", "zext", "unknown"}] /\ modified \in [Entries -> BOOLEAN]
      /\ holds \in [Entries -> MipsRegs \cup {None}]
      /\ ext \in [Entries -> SUBSET {"sext", "zext"}]
  BY DEF Always, TypeOK
\* A register that is loaded has its value in sr[].
<1>8. /\ holds' \in [Entries -> MipsRegs \cup {None}] /\ holds'[i] = r
      /\ \A j \in Entries : j # i => holds'[j] = holds[j]
      /\ modified' \in [Entries -> BOOLEAN]
      /\ \A j \in Entries : j # i => modified'[j] = modified[j]
      /\ modified'[i] = (at[i] = r /\ modified[i])
  <2>1. CASE at[i] # r
    <3>1. r \in mem'
      BY <1>3, <1>5, <1>6, <2>1
    <3>2. holds' = [holds EXCEPT ![i] = r] /\ modified' = [modified EXCEPT ![i] = FALSE]
      BY <1>1, <1>2, <2>1, <3>1 DEF LoadMipsRegister
    <3> QED BY <1>5, <1>7, <2>1, <3>2
  <2>2. CASE at[i] = r
    <3>1. holds' = holds /\ modified' = modified
      BY <1>1, <1>2, <2>2 DEF LoadMipsRegister
    <3>2. holds[i] = r
      BY <1>3, <1>5, <2>2 DEF Matches, LiveCurrent
    <3> QED BY <1>5, <1>7, <2>2, <3>1, <3>2
  <2> QED BY <2>1, <2>2
<1>9. /\ ext' \in [Entries -> SUBSET {"sext", "zext"}]
      /\ sign' \in [Entries -> {"sext", "zext", "unknown"}]
      /\ \A j \in Entries : j # i => ext'[j] = ext[j] /\ sign'[j] = sign[j]
      /\ e # "noext" => e \in ext'[i]
      /\ e = "noext" /\ at[i] = r => ext'[i] = ext[i]
      /\ sign'[i] # "unknown" => sign'[i] \in ext'[i]
      /\ r = Zero => ext'[i] = {"sext", "zext"}
  <2> DEFINE loaded == IF e = "zext" THEN "zext" ELSE "sext"
  <2>1. CASE at[i] # r
    <3>1. /\ ext' = [ext EXCEPT ![i] = IF r = Zero THEN {"sext", "zext"} ELSE {loaded}]
          /\ sign' = [sign EXCEPT ![i] = loaded]
      BY <1>1, <1>2, <2>1 DEF LoadMipsRegister
    <3>2. loaded \in {"sext", "zext"} /\ (e # "noext" => e = loaded)
      BY <1>3 DEF Sizes
    <3> HIDE DEF loaded
    <3> QED BY <1>5, <1>7, <2>1, <3>1, <3>2
  <2>2. CASE at[i] = r /\ (e = "noext" \/ sign[i] = e)
    <3>1. ext' = ext /\ sign' = sign
      BY <1>1, <1>2, <2>2 DEF LoadMipsRegister
    <3>2. sign[i] # "unknown" => sign[i] \in ext[i]
      BY <1>5, <2>2 DEF Always, SignStateTrue
    <3>3. r = Zero => ext[i] = {"sext", "zext"}
      BY <1>5, <2>2 DEF Always, ZeroIsZero
    <3> QED BY <1>3, <1>5, <1>7, <2>2, <3>1, <3>2, <3>3 DEF Sizes
  <2>3. CASE at[i] = r /\ e # "noext" /\ sign[i] # e
    <3>1. /\ sign' = [sign EXCEPT ![i] = e]
          /\ ext' = IF r = Zero THEN ext ELSE [ext EXCEPT ![i] = {e}]
      BY <1>1, <1>2, <2>3 DEF LoadMipsRegister
    <3>2. e \in {"sext", "zext"}
      BY <1>3, <2>3 DEF Sizes
    <3>3. r = Zero => ext[i] = {"sext", "zext"}
      BY <1>5, <2>3 DEF Always, ZeroIsZero
    <3> QED BY <1>5, <1>7, <2>3, <3>1, <3>2, <3>3
  <2> QED BY <2>1, <2>2, <2>3
<1>10. TypeOK' /\ (numCallerSave \in CallerSaves)'
  BY <1>5, <1>6, <1>8, <1>9 DEF TypeOK, Always
<1>11. Recoverable'
  <2> SUFFICES ASSUME NEW q \in InMemory \ mem'
               PROVE  \E j \in Entries : at'[j] = q /\ modified'[j] /\ holds'[j] = q
    BY DEF Recoverable
  <2>1. PICK j \in Entries : /\ at[j] = q /\ modified[j] /\ holds[j] = q
                             /\ j = i => q = r
    BY <1>6
  <2> QED BY <1>5, <1>8, <2>1
<1>12. SignStateTrue'
  BY <1>5, <1>9 DEF Always, SignStateTrue
<1>13. ZeroIsZero'
  <2> SUFFICES ASSUME NEW j \in Entries, at'[j] = Zero
               PROVE  ext'[j] = {"sext", "zext"} /\ ~modified'[j]
    BY DEF ZeroIsZero
  <2>1. CASE j = i
    BY <1>5, <1>8, <1>9, <2>1 DEF Always, ZeroIsZero
  <2>2. CASE j # i
    BY <1>5, <1>8, <1>9, <2>2 DEF Always, ZeroIsZero
  <2> QED BY <2>1, <2>2
<1>14. LiveCurrent(B)'
  <2>1. B.pending \subseteq Locked(B)
    BY <1>3, <1>5 DEF Matches, LiveCurrent
  <2>2. \A j \in Entries : at'[j] \in InMemory \ B.pending => holds'[j] = at'[j]
    BY <1>3, <1>5, <1>8 DEF Matches, LiveCurrent
  <2> QED BY <2>1, <2>2 DEF LiveCurrent
<1>15. CurrentHeld(B)'
  <2> SUFFICES ASSUME NEW q \in B.current
               PROVE  q \in MipsRegs /\ held'[q] \in Entries /\ holds'[held'[q]] = q
    BY DEF CurrentHeld
  <2>1. CASE q = r
    BY <1>5, <1>8, <2>1
  <2>2. CASE q # r
    <3>1. q \in A.current /\ q \in Locked(A)
      BY <1>3, <2>2
    <3>2. q \in MipsRegs /\ held[q] \in Entries /\ holds[held[q]] = q
      BY <3>1 DEF Matches, CurrentHeld
    <3> QED BY <1>5, <1>8, <2>2, <3>1, <3>2
  <2> QED BY <2>1, <2>2
<1>16. SizedHeld(B)'
  <2> SUFFICES ASSUME NEW q \in B.sized
               PROVE  /\ q \in MipsRegs /\ held'[q] \in Entries
                      /\ A.e # "noext" => A.e \in ext'[held'[q]]
    BY <1>3 DEF SizedHeld
  <2>1. CASE q = r /\ e = A.e
    BY <1>5, <1>9, <2>1
  <2>2. CASE ~(q = r /\ e = A.e)
    <3>1. q \in A.sized /\ q \in Locked(A)
      BY <1>3, <2>2
    <3>2. q \in MipsRegs /\ held[q] \in Entries /\ (A.e # "noext" => A.e \in ext[held[q]])
      BY <3>1 DEF Matches, SizedHeld
    <3>3. CASE q # r
      BY <1>5, <1>9, <3>1, <3>2, <3>3
    <3>4. CASE q = r
      <4>1. e = "noext" /\ at[i] = r /\ held[q] = i
        BY <1>3, <1>5, <2>2, <3>1, <3>4 DEF Matches, LockedHeld
      <4> QED BY <1>5, <1>9, <3>2, <3>4, <4>1
    <3> QED BY <3>3, <3>4
  <2> QED BY <2>1, <2>2
<1>17. FreshHeld(B)'
  <2> SUFFICES ASSUME NEW q \in B.fresh
               PROVE  /\ q \in MipsRegs /\ held'[q] \in Entries
                      /\ \/ at'[held'[q]] = None
                         \/ at'[held'[q]] = q /\ sign'[held'[q]] = "unknown" /\ modified'[held'[q]]
    BY DEF FreshHeld
  <2>1. q \in A.fresh /\ q \in Locked(A) /\ q # r
    BY <1>3
  <2>2. /\ q \in MipsRegs /\ held[q] \in Entries
        /\ \/ at[held[q]] = None
           \/ at[held[q]] = q /\ sign[held[q]] = "unknown" /\ modified[held[q]]
    BY <2>1 DEF Matches, FreshHeld
  <2> QED BY <1>5, <1>8, <1>9, <2>1, <2>2
<1> QED BY <1>5, <1>10, <1>11, <1>12, <1>13, <1>14, <1>15, <1>16, <1>17 DEF Always, Matches

\* modify_mips_register.
LEMMA ModifyStep ==
  ASSUME Always, NEW A, Matches(A), NEW s, NEW B, ModifyRule(A, s, B),
         ModifyMipsRegister(s.r), UNCHANGED numCallerSave
  PROVE  Always' /\ Matches(B)'
<1>1. PICK r : r = s.r
  OBVIOUS
<1>2. PICK i : i = FindRegister(r)
  OBVIOUS
<1>3. /\ r # Zero /\ LockRule(A, r, B) /\ B.e = A.e
      /\ B.pending = A.pending \cup ({r} \cap InMemory)
      /\ B.current \subseteq A.current \ ({r} \ Locked(A))
      /\ B.sized \subseteq A.sized \ ({r} \ Locked(A))
      /\ B.fresh \subseteq (A.fresh \cap Locked(A)) \cup {r}
  BY <1>1 DEF ModifyRule, LockRule
<1>4. /\ Lock(i, r) /\ mem' = Evict(i, r)
      /\ sign' = [sign EXCEPT ![i] = "unknown"] /\ modified' = [modified EXCEPT ![i] = TRUE]
      /\ holds' = holds /\ ext' = ext
  BY <1>1, <1>2 DEF ModifyMipsRegister
<1>5. /\ i \in Entries /\ r \in MipsRegs /\ r # None
      /\ at[i] # r => (\A j \in Entries : at[j] # r) /\ at[i] \notin Locked(A)
      /\ at' \in [Entries -> MipsRegs \cup {None}] /\ at'[i] = r
      /\ \A j \in Entries : j # i => at'[j] = at[j] /\ at'[j] # r
      /\ held' \in [MipsRegs -> Entries \cup {0}] /\ held'[r] = i
      /\ \A q \in MipsRegs : q # r => held'[q] = held[q]
      /\ \A q \in Locked(A) : q # r => held[q] # i
      /\ r \in Locked(A) => held[r] = i
      /\ locks' \in [Entries -> Nat] /\ timestamp' \in [Entries -> Nat]
      /\ LiveOnce' /\ LocksCounted(B)' /\ LockedHeld(B)' /\ ApartHeld(B)'
      /\ GoneFromCache(B)' /\ SavedFlushed(B)'
      /\ Locked(B) = Locked(A) \cup {r}
  BY <1>2, <1>3, <1>4, LockStep
<1>6. /\ mem' \subseteq InMemory
      /\ \A q \in InMemory \ mem' :
           \E j \in Entries : /\ at[j] = q /\ modified[j] /\ holds[j] = q
                              /\ j = i => q = r
  BY <1>4, <1>5, EvictKeeps DEF Matches
<1>7. /\ sign \in [Entries -> {"sext", "zext", "unknown"}] /\ modified \in [Entries -> BOOLEAN]
      /\ holds \in [Entries -> MipsRegs \cup {None}]
      /\ ext \in [Entries -> SUBSET {"sext", "zext"}]
  BY DEF Always, TypeOK
<1>8. /\ sign' \in [Entries -> {"sext", "zext", "unknown"}] /\ modified' \in [Entries -> BOOLEAN]
      /\ sign'[i] = "unknown" /\ modified'[i]
      /\ \A j \in Entries : j # i => sign'[j] = sign[j] /\ modified'[j] = modified[j]
  BY <1>4, <1>5, <1>7
<1>9. TypeOK' /\ (numCallerSave \in CallerSaves)'
  BY <1>4, <1>5, <1>6, <1>7, <1>8 DEF TypeOK, Always
<1>10. Recoverable'
  <2> SUFFICES ASSUME NEW q \in InMemory \ mem'
               PROVE  \E j \in Entries : at'[j] = q /\ modified'[j] /\ holds'[j] = q
    BY DEF Recoverable
  <2>1. PICK j \in Entries : /\ at[j] = q /\ modified[j] /\ holds[j] = q
                             /\ j = i => q = r
    BY <1>6
  <2> QED BY <1>4, <1>5, <1>8, <2>1
<1>11. SignStateTrue'
  BY <1>4, <1>5, <1>8 DEF Always, SignStateTrue
<1>12. ZeroIsZero'
  BY <1>3, <1>4, <1>5, <1>8 DEF Always, ZeroIsZero
<1>13. LiveCurrent(B)'
  <2>1. B.pending \subseteq Locked(B)
    BY <1>3, <1>5 DEF Matches, LiveCurrent
  <2>2. \A j \in Entries : at'[j] \in InMemory \ B.pending => holds'[j] = at'[j]
    BY <1>3, <1>4, <1>5 DEF Matches, LiveCurrent
  <2> QED BY <2>1, <2>2 DEF LiveCurrent
\* What a locked register's host register contains, it still contains.
<1>14. \A q \in MipsRegs : q \in Locked(A) \/ q # r => held'[q] = held[q]
  BY <1>5
<1>15. CurrentHeld(B)'
  BY <1>3, <1>4, <1>14 DEF Matches, CurrentHeld
<1>16. SizedHeld(B)'
  BY <1>3, <1>4, <1>14 DEF Matches, SizedHeld
<1>17. FreshHeld(B)'
  <2> SUFFICES ASSUME NEW q \in B.fresh
               PROVE  /\ q \in MipsRegs /\ held'[q] \in Entries
                      /\ \/ at'[held'[q]] = None
                         \/ at'[held'[q]] = q /\ sign'[held'[q]] = "unknown" /\ modified'[held'[q]]
    BY DEF FreshHeld
  <2>1. CASE q = r
    BY <1>5, <1>8, <2>1
  <2>2. CASE q # r
    <3>1. q \in A.fresh /\ q \in Locked(A)
      BY <1>3, <2>2
    <3>2. /\ q \in MipsRegs /\ held[q] \in Entries
          /\ \/ at[held[q]] = None
             \/ at[held[q]] = q /\ sign[held[q]] = "unknown" /\ modified[held[q]]
      BY <3>1 DEF Matches, FreshHeld
    <3> QED BY <1>5, <1>8, <2>2, <3>1, <3>2
  <2> QED BY <2>1, <2>2
<1> QED BY <1>5, <1>9, <1>10, <1>11, <1>12, <1>13, <1>15, <1>16, <1>17 DEF Always, Matches

\* immediate_mips_register.
LEMMA ImmediateStep ==
  ASSUME Always, NEW A, Matches(A), NEW s, NEW B, ImmediateRule(A, s, B),
         ImmediateMipsRegister(s.r), UNCHANGED numCallerSave
  PROVE  Always' /\ Matches(B)'
<1>1. PICK r : r = s.r
  OBVIOUS
<1>2. PICK i : i = FindRegister(r)
  OBVIOUS
<1>3. /\ r \in InMemory /\ r # Zero /\ LockRule(A, r, B) /\ B.e = A.e
      /\ B.pending = A.pending \ {r}
      /\ B.current \subseteq (A.current \cap Locked(A)) \cup {r}
      /\ B.sized \subseteq (A.sized \cap Locked(A)) \ {r}
      /\ B.fresh \subseteq (A.fresh \cap Locked(A)) \ {r}
  BY <1>1 DEF ImmediateRule, LockRule
<1>4. /\ Lock(i, r) /\ mem' = Evict(i, r) \ {r}
      /\ sign' = [sign EXCEPT ![i] = "sext"] /\ modified' = [modified EXCEPT ![i] = TRUE]
      /\ holds' = Defined(i, r) /\ ext' = [ext EXCEPT ![i] = {"sext"}]
  BY <1>1, <1>2 DEF ImmediateMipsRegister
<1>5. /\ i \in Entries /\ r \in MipsRegs /\ r # None
      /\ at[i] # r => (\A j \in Entries : at[j] # r) /\ at[i] \notin Locked(A)
      /\ at' \in [Entries -> MipsRegs \cup {None}] /\ at'[i] = r
      /\ \A j \in Entries : j # i => at'[j] = at[j] /\ at'[j] # r
      /\ held' \in [MipsRegs -> Entries \cup {0}] /\ held'[r] = i
      /\ \A q \in MipsRegs : q # r => held'[q] = held[q]
      /\ \A q \in Locked(A) : q # r => held[q] # i
      /\ r \in Locked(A) => held[r] = i
      /\ locks' \in [Entries -> Nat] /\ timestamp' \in [Entries -> Nat]
      /\ LiveOnce' /\ LocksCounted(B)' /\ LockedHeld(B)' /\ ApartHeld(B)'
      /\ GoneFromCache(B)' /\ SavedFlushed(B)'
      /\ Locked(B) = Locked(A) \cup {r}
  BY <1>2, <1>3, <1>4, LockStep
<1>6. /\ Evict(i, r) \subseteq InMemory
      /\ \A q \in InMemory \ Evict(i, r) :
           \E j \in Entries : /\ at[j] = q /\ modified[j] /\ holds[j] = q
                              /\ j = i => q = r
  BY <1>5, EvictKeeps DEF Matches
<1>7. /\ sign \in [Entries -> {"sext", "zext", "unknown"}] /\ modified \in [Entries -> BOOLEAN]
      /\ holds \in [Entries -> MipsRegs \cup {None}]
      /\ ext \in [Entries -> SUBSET {"sext", "zext"}]
  BY DEF Always, TypeOK
<1>8. /\ sign' \in [Entries -> {"sext", "zext", "unknown"}] /\ modified' \in [Entries -> BOOLEAN]
      /\ ext' \in [Entries -> SUBSET {"sext", "zext"}]
      /\ sign'[i] = "sext" /\ modified'[i] /\ ext'[i] = {"sext"}
      /\ \A j \in Entries : j # i => /\ sign'[j] = sign[j] /\ modified'[j] = modified[j]
                                     /\ ext'[j] = ext[j]
  BY <1>4, <1>5, <1>7
<1>9. /\ holds' \in [Entries -> MipsRegs \cup {None}] /\ holds'[i] = r
      /\ \A j \in Entries : j # i /\ holds[j] # r => holds'[j] = holds[j]
  BY <1>4, <1>5, <1>7 DEF Defined
<1>10. TypeOK' /\ (numCallerSave \in CallerSaves)'
  BY <1>4, <1>5, <1>6, <1>8, <1>9 DEF TypeOK, Always
<1>11. Recoverable'
  <2> SUFFICES ASSUME NEW q \in InMemory \ mem'
               PROVE  \E j \in Entries : at'[j] = q /\ modified'[j] /\ holds'[j] = q
    BY DEF Recoverable
  <2>1. CASE q = r
    BY <1>5, <1>8, <1>9, <2>1
  <2>2. CASE q # r
    <3>1. PICK j \in Entries : /\ at[j] = q /\ modified[j] /\ holds[j] = q
                               /\ j = i => q = r
      BY <1>4, <1>6, <2>2
    <3> QED BY <1>5, <1>8, <1>9, <2>2, <3>1
  <2> QED BY <2>1, <2>2
<1>12. SignStateTrue'
  BY <1>5, <1>8 DEF Always, SignStateTrue
<1>13. ZeroIsZero'
  BY <1>3, <1>5, <1>8 DEF Always, ZeroIsZero
<1>14. LiveCurrent(B)'
  <2>1. B.pending \subseteq Locked(B)
    BY <1>3, <1>5 DEF Matches, LiveCurrent
  <2>2. ASSUME NEW j \in Entries, at'[j] \in InMemory \ B.pending
        PROVE  holds'[j] = at'[j]
    <3>1. CASE j = i
      BY <1>5, <1>9, <3>1
    <3>2. CASE j # i
      <4>1. at'[j] = at[j] /\ at[j] # r /\ at[j] \in InMemory \ A.pending
        BY <1>3, <1>5, <2>2, <3>2
      <4>2. holds[j] = at[j]
        BY <4>1 DEF Matches, LiveCurrent
      <4> QED BY <1>9, <3>2, <4>1, <4>2
    <3> QED BY <3>1, <3>2
  <2> QED BY <2>1, <2>2 DEF LiveCurrent
<1>15. CurrentHeld(B)'
  <2> SUFFICES ASSUME NEW q \in B.current
               PROVE  q \in MipsRegs /\ held'[q] \in Entries /\ holds'[held'[q]] = q
    BY DEF CurrentHeld
  <2>1. CASE q = r
    BY <1>5, <1>9, <2>1
  <2>2. CASE q # r
    <3>1. q \in A.current /\ q \in Locked(A)
      BY <1>3, <2>2
    <3>2. q \in MipsRegs /\ held[q] \in Entries /\ holds[held[q]] = q
      BY <3>1 DEF Matches, CurrentHeld
    <3> QED BY <1>5, <1>9, <2>2, <3>1, <3>2
  <2> QED BY <2>1, <2>2
<1>16. SizedHeld(B)'
  <2> SUFFICES ASSUME NEW q \in B.sized
               PROVE  /\ q \in MipsRegs /\ held'[q] \in Entries
                      /\ A.e # "noext" => A.e \in ext'[held'[q]]
    BY <1>3 DEF SizedHeld
  <2>1. q \in A.sized /\ q \in Locked(A) /\ q # r
    BY <1>3
  <2>2. q \in MipsRegs /\ held[q] \in Entries /\ (A.e # "noext" => A.e \in ext[held[q]])
    BY <2>1 DEF Matches, SizedHeld
  <2> QED BY <1>5, <1>8, <2>1, <2>2
<1>17. FreshHeld(B)'
  <2> SUFFICES ASSUME NEW q \in B.fresh
               PROVE  /\ q \in MipsRegs /\ held'[q] \in Entries
                      /\ \/ at'[held'[q]] = None
                         \/ at'[held'[q]] = q /\ sign'[held'[q]] = "unknown" /\ modified'[held'[q]]
    BY DEF FreshHeld
  <2>1. q \in A.fresh /\ q \in Locked(A) /\ q # r
    BY <1>3
  <2>2. /\ q \in MipsRegs /\ held[q] \in Entries
        /\ \/ at[held[q]] = None
           \/ at[held[q]] = q /\ sign[held[q]] = "unknown" /\ modified[held[q]]
    BY <2>1 DEF Matches, FreshHeld
  <2> QED BY <1>5, <1>8, <2>1, <2>2
<1> QED BY <1>5, <1>10, <1>11, <1>12, <1>13, <1>14, <1>15, <1>16, <1>17 DEF Always, Matches

\* What stays true of the locals when host registers, cache and locals keep what
\* the annotation is about.
LEMMA KeptCache ==
  ASSUME NEW A, Matches(A), NEW B, KeepsCache(A, B),
         UNCHANGED <<numCallerSave, at, sign, modified, held>>
  PROVE  FreshHeld(B)' /\ ApartHeld(B)' /\ GoneFromCache(B)' /\ SavedFlushed(B)'
<1>1. FreshHeld(B)'
  BY DEF Matches, KeepsCache, FreshHeld
<1>2. ApartHeld(B)'
  BY DEF Matches, KeepsCache, ApartHeld
<1>3. GoneFromCache(B)'
  BY DEF Matches, KeepsCache, GoneFromCache
<1>4. SavedFlushed(B)'
  BY DEF Matches, KeepsCache, SavedFlushed, CallerSave
<1> QED BY <1>1, <1>2, <1>3, <1>4

\* The same for the values.
LEMMA KeptHeld ==
  ASSUME NEW A, Matches(A), NEW B, KeepsHeld(A, B), B.e = A.e, UNCHANGED <<holds, ext, held>>
  PROVE  CurrentHeld(B)' /\ SizedHeld(B)'
<1>1. CurrentHeld(B)'
  BY DEF Matches, KeepsHeld, CurrentHeld
<1>2. SizedHeld(B)'
  BY DEF Matches, KeepsHeld, SizedHeld
<1> QED BY <1>1, <1>2

\* unlock_mips_register.
LEMMA UnlockStep ==
  ASSUME Always, NEW A, Matches(A), NEW s, NEW B, UnlockRule(A, s, B),
         UnlockMipsRegister(s.r), UNCHANGED numCallerSave
  PROVE  Always' /\ Matches(B)'
<1>1. PICK r : r = s.r
  OBVIOUS
<1>2. PICK i : i = Min(Live(r))
  OBVIOUS
<1>3. /\ r \in MipsRegs /\ r # None /\ Takes(B, A, r) /\ A.pending = {} /\ B.pending = {}
      /\ KeepsHeld(A, B) /\ KeepsCache(A, B) /\ B.e = A.e
  BY <1>1, Names DEF UnlockRule, KeepsCache
<1>4. /\ locks' = [locks EXCEPT ![i] = @ - 1]
      /\ UNCHANGED <<at, sign, modified, timestamp, holds, ext, mem, held>>
  BY <1>1, <1>2 DEF UnlockMipsRegister, machine
<1>5. /\ Count(A, r) = Count(B, r) + 1
      /\ \A q : q # r /\ q # None => Count(A, q) = Count(B, q)
      /\ Locked(A) = Locked(B) \cup {r}
  BY <1>3, CountTakes
<1>6. held[r] \in Entries /\ at[held[r]] = r
  BY <1>5 DEF Matches, LockedHeld
<1>7. i \in Entries /\ at[i] = r
  BY <1>2, <1>6, MinIsMember DEF Live
<1>8. locks[i] = Count(B, r) + 1 /\ Count(B, r) \in Nat
  BY <1>3, <1>5, <1>7 DEF Matches, LocksCounted, Count
<1>9. /\ locks' \in [Entries -> Nat] /\ locks'[i] = Count(B, r)
      /\ \A j \in Entries : j # i => locks'[j] = locks[j]
  BY <1>4, <1>7, <1>8 DEF Always, TypeOK
<1>10. TypeOK' /\ (numCallerSave \in CallerSaves)'
  BY <1>4, <1>9 DEF Always, TypeOK
<1>11. LiveOnce' /\ Recoverable' /\ SignStateTrue' /\ ZeroIsZero'
  BY <1>4 DEF Always, LiveOnce, Recoverable, SignStateTrue, ZeroIsZero
<1>12. LocksCounted(B)'
  <2> SUFFICES ASSUME NEW j \in Entries
               PROVE  locks'[j] = IF at[j] = None THEN 0 ELSE Count(B, at[j])
    BY <1>4 DEF LocksCounted
  <2>1. CASE j = i
    BY <1>3, <1>7, <1>9, <2>1
  <2>2. CASE j # i
    <3>1. at[j] = None \/ at[j] # r
      BY <1>3, <1>7, <2>2 DEF Always, LiveOnce
    <3> QED BY <1>5, <1>9, <2>2, <3>1 DEF Matches, LocksCounted
  <2> QED BY <2>1, <2>2
<1>13. LockedHeld(B)'
  BY <1>4, <1>5 DEF Matches, LockedHeld
<1>14. LiveCurrent(B)'
  BY <1>3, <1>4 DEF Matches, LiveCurrent
<1>15. CurrentHeld(B)' /\ SizedHeld(B)'
  BY <1>3, <1>4, KeptHeld
<1>16. FreshHeld(B)' /\ ApartHeld(B)' /\ GoneFromCache(B)' /\ SavedFlushed(B)'
  BY <1>3, <1>4, KeptCache
<1> QED BY <1>10, <1>11, <1>12, <1>13, <1>14, <1>15, <1>16 DEF Always, Matches

\* flush_register_window, flush_caller_save_registers and flush_mips_register.
LEMMA FlushStep ==
  ASSUME Always, NEW A, Matches(A), NEW s, NEW B, FlushRule(A, s, B),
         Flush(FlushSet(s)), UNCHANGED numCallerSave
  PROVE  Always' /\ Matches(B)'
<1>1. PICK S : S = FlushSet(s)
  OBVIOUS
<1>2. S \subseteq Entries
  BY <1>1 DEF FlushSet
<1>3. /\ A.pending = {} /\ B.pending = {} /\ Locked(A) = {} /\ SameLocks(A, B)
      /\ KeepsHeld(A, B) /\ B.e = A.e
  BY DEF FlushRule
<1>4. /\ mem' = WriteBack(S)
      /\ at' = [i \in Entries |-> IF i \in S THEN None ELSE at[i]]
      /\ locks' = [i \in Entries |-> IF i \in S THEN 0 ELSE locks[i]]
      /\ sign' = [i \in Entries |-> IF i \in S THEN "sext" ELSE sign[i]]
      /\ modified' = [i \in Entries |-> IF i \in S THEN FALSE ELSE modified[i]]
      /\ holds' = holds /\ ext' = ext /\ held' = held
  BY <1>1 DEF Flush
<1>5. timestamp' \in [Entries -> Nat]
  BY RenumberedType DEF Flush
<1>6. Locked(B) = {} /\ \A q : Count(B, q) = Count(A, q)
  BY <1>3 DEF SameLocks, Locked, Count
<1>7. /\ at \in [Entries -> MipsRegs \cup {None}] /\ locks \in [Entries -> Nat]
      /\ sign \in [Entries -> {"sext", "zext", "unknown"}] /\ modified \in [Entries -> BOOLEAN]
      /\ mem \subseteq InMemory /\ None \notin InMemory
  BY Names DEF Always, TypeOK
\* All that is written back is current.
<1>8. mem' = mem \cup {at[i] : i \in {j \in S : modified[j] /\ at[j] \in InMemory}}
  <2> DEFINE stored == {j \in S : modified[j] /\ at[j] \in InMemory}
  <2>1. \A j \in stored : holds[j] = at[j]
    BY <1>2, <1>3 DEF Matches, LiveCurrent
  <2>2. mem' = (mem \ {at[j] : j \in stored})
               \cup {at[j] : j \in {k \in stored : holds[k] = at[k]}}
    BY <1>4 DEF WriteBack
  <2> HIDE DEF stored
  <2>3. {at[j] : j \in {k \in stored : holds[k] = at[k]}} = {at[j] : j \in stored}
    BY <2>1
  <2>4. mem' = mem \cup {at[j] : j \in stored}
    BY <2>2, <2>3
  <2> QED BY <2>4 DEF stored
<1>9. TypeOK' /\ (numCallerSave \in CallerSaves)'
  <2>1. mem' \subseteq InMemory
    BY <1>7, <1>8
  <2>2. /\ at' \in [Entries -> MipsRegs \cup {None}] /\ locks' \in [Entries -> Nat]
        /\ sign' \in [Entries -> {"sext", "zext", "unknown"}]
        /\ modified' \in [Entries -> BOOLEAN]
    BY <1>4, <1>7
  <2> QED BY <1>4, <1>5, <2>1, <2>2 DEF Always, TypeOK
<1>10. LiveOnce'
  BY <1>4, <1>7 DEF Always, LiveOnce
<1>11. Recoverable'
  <2> SUFFICES ASSUME NEW q \in InMemory \ mem'
               PROVE  \E j \in Entries : at'[j] = q /\ modified'[j] /\ holds'[j] = q
    BY DEF Recoverable
  <2>1. PICK j \in Entries : at[j] = q /\ modified[j] /\ holds[j] = q
    BY <1>8 DEF Always, Recoverable
  <2>2. j \notin S
    BY <1>8, <2>1
  <2> QED BY <1>4, <2>1, <2>2
<1>12. SignStateTrue'
  BY <1>4 DEF Always, SignStateTrue
<1>13. ZeroIsZero'
  BY <1>4, Names DEF Always, ZeroIsZero
<1>14. LocksCounted(B)'
  BY <1>4, <1>6 DEF Matches, LocksCounted
<1>15. LockedHeld(B)'
  BY <1>6 DEF LockedHeld
<1>16. LiveCurrent(B)'
  BY <1>3, <1>4, <1>7 DEF Matches, LiveCurrent
<1>17. CurrentHeld(B)' /\ SizedHeld(B)'
  BY <1>3, <1>4, KeptHeld
<1>18. \A i \in Entries : s.which = "window" => at'[i] = None
  BY <1>1, <1>4 DEF FlushSet
<1>19. FreshHeld(B)'
  <2> SUFFICES ASSUME NEW q \in B.fresh
               PROVE  /\ q \in MipsRegs /\ held[q] \in Entries
                      /\ \/ at'[held[q]] = None
                         \/ at'[held[q]] = q /\ sign'[held[q]] = "unknown" /\ modified'[held[q]]
    BY <1>4 DEF FreshHeld
  <2>1. CASE q \in A.fresh
    BY <1>4, <2>1 DEF Matches, FreshHeld
  <2>2. CASE q \in A.apart /\ s.which = "window"
    BY <1>18, <2>2 DEF Matches, ApartHeld
  <2> QED BY <2>1, <2>2 DEF FlushRule
<1>20. ApartHeld(B)'
  BY <1>4 DEF FlushRule, Matches, ApartHeld
<1>21. GoneFromCache(B)'
  <2> SUFFICES ASSUME NEW q \in B.gone, NEW j \in Entries PROVE q \in MipsRegs /\ at'[j] # q
    BY ThreeEntries DEF GoneFromCache
  <2>1. CASE q \in A.gone
    <3>1. q \in MipsRegs /\ at[j] # q
      BY <2>1 DEF Matches, GoneFromCache
    <3> QED BY <1>4, <3>1, Names
  <2>2. CASE q \in MipsRegs /\ s.which = "window"
    BY <1>18, <2>2, Names
  <2>3. CASE q \in MipsRegs /\ s.which = "mips" /\ q = s.r
    <3>1. at[j] = q => j \in S
      BY <1>1, <2>3, Names DEF FlushSet
    <3> QED BY <1>4, <2>3, <3>1, Names
  <2> QED BY <2>1, <2>2, <2>3 DEF FlushRule
<1>22. SavedFlushed(B)'
  <2> SUFFICES ASSUME B.saved, NEW i \in CallerSave PROVE at'[i] = None
    BY DEF SavedFlushed, CallerSave
  <2>1. i \in Entries
    BY ThreeEntries DEF Always
  <2>2. CASE A.saved
    BY <1>4, <2>1, <2>2 DEF Matches, SavedFlushed
  <2>3. CASE s.which = "window"
    BY <1>18, <2>1, <2>3
  <2>4. CASE s.which = "caller"
    <3>1. at[i] # None => i \in S
      BY <1>1, <2>1, <2>4 DEF FlushSet
    <3> QED BY <1>4, <2>1, <3>1
  <2> QED BY <2>2, <2>3, <2>4 DEF FlushRule
<1> QED BY <1>9, <1>10, <1>11, <1>12, <1>13, <1>14, <1>15, <1>16, <1>17, <1>19, <1>20, <1>21, <1>22
        DEF Always, Matches

\* A host instruction overwrites a host register that nothing live depends on.
LEMMA EmitStep ==
  ASSUME Always, NEW A, Matches(A), NEW s, NEW B, EmitRule(A, s, B),
         EmitOp(s.dst), UNCHANGED numCallerSave
  PROVE  Always' /\ Matches(B)'
<1>1. PICK d : d = s.dst
  OBVIOUS
<1>2. PICK i : i = held[d]
  OBVIOUS
<1>3. /\ d \in A.fresh /\ d \in A.apart /\ d \in Scratch \cup Locked(A) /\ d # Zero
      /\ SameLocks(A, B) /\ B.pending = A.pending \ {d}
      /\ B.current \subseteq (A.current \cap A.apart) \cup {d}
      /\ B.sized \subseteq (A.sized \cap A.apart) \ {d}
      /\ KeepsCache(A, B) /\ B.e = A.e
  BY <1>1 DEF EmitRule, KeepsCache
<1>4. /\ holds' = Defined(i, d) /\ ext' = [ext EXCEPT ![i] = {}] /\ mem' = mem \ {d}
      /\ UNCHANGED <<at, locks, sign, modified, timestamp, held>>
  BY <1>1, <1>2 DEF EmitOp, cache
<1>5. /\ d \in MipsRegs /\ i \in Entries
      /\ at[i] = None \/ (at[i] = d /\ sign[i] = "unknown" /\ modified[i])
  BY <1>2, <1>3 DEF Matches, FreshHeld
<1>6. d # None /\ (d \in Locked(A) => at[i] = d) /\ (d \in InMemory => d \in Locked(A))
  BY <1>2, <1>3, <1>5, Names DEF Matches, LockedHeld
<1>7. /\ holds \in [Entries -> MipsRegs \cup {None}] /\ ext \in [Entries -> SUBSET {"sext", "zext"}]
      /\ mem \subseteq InMemory
  BY DEF Always, TypeOK
<1>8. /\ holds' \in [Entries -> MipsRegs \cup {None}] /\ holds'[i] = d
      /\ \A j \in Entries : j # i /\ holds[j] # d => holds'[j] = holds[j]
      /\ ext' \in [Entries -> SUBSET {"sext", "zext"}]
      /\ \A j \in Entries : j # i => ext'[j] = ext[j]
  BY <1>4, <1>5, <1>7 DEF Defined
<1>9. TypeOK' /\ (numCallerSave \in CallerSaves)'
  BY <1>4, <1>7, <1>8 DEF Always, TypeOK
<1>10. LiveOnce'
  BY <1>4 DEF Always, LiveOnce
<1>11. Recoverable'
  <2> SUFFICES ASSUME NEW q \in InMemory \ mem'
               PROVE  \E j \in Entries : at[j] = q /\ modified[j] /\ holds'[j] = q
    BY <1>4 DEF Recoverable
  <2>1. CASE q = d
    BY <1>5, <1>6, <1>8, <2>1
  <2>2. CASE q # d
    <3>1. PICK j \in Entries : at[j] = q /\ modified[j] /\ holds[j] = q
      BY <1>4, <2>2 DEF Always, Recoverable
    <3>2. q # None
      BY Names
    <3>3. j # i
      BY <1>5, <2>2, <3>1, <3>2
    <3> QED BY <1>8, <2>2, <3>1, <3>3
  <2> QED BY <2>1, <2>2
<1>12. SignStateTrue'
  BY <1>4, <1>5, <1>8 DEF Always, SignStateTrue
<1>13. ZeroIsZero'
  BY <1>3, <1>4, <1>5, <1>8, Names DEF Always, ZeroIsZero
<1>14. LocksCounted(B)' /\ LockedHeld(B)'
  BY <1>3, <1>4 DEF Matches, LocksCounted, LockedHeld, SameLocks, Locked, Count
<1>15. LiveCurrent(B)'
  <2>1. B.pending \subseteq Locked(B)
    BY <1>3 DEF Matches, LiveCurrent, SameLocks, Locked
  <2>2. ASSUME NEW j \in Entries, at[j] \in InMemory \ B.pending
        PROVE  holds'[j] = at[j]
    <3>1. CASE j = i
      BY <1>5, <1>8, <2>2, <3>1, Names
    <3>2. CASE j # i
      <4>1. at[j] # d
        BY <1>5, <1>6, <2>2, <3>2 DEF Always, LiveOnce
      <4>2. holds[j] = at[j]
        BY <1>3, <2>2, <4>1 DEF Matches, LiveCurrent
      <4> QED BY <1>8, <3>2, <4>1, <4>2
    <3> QED BY <3>1, <3>2
  <2> QED BY <1>4, <2>1, <2>2 DEF LiveCurrent
<1>16. CurrentHeld(B)'
  <2> SUFFICES ASSUME NEW q \in B.current
               PROVE  q \in MipsRegs /\ held[q] \in Entries /\ holds'[held[q]] = q
    BY <1>4 DEF CurrentHeld
  <2>1. CASE q = d
    BY <1>2, <1>5, <1>8, <2>1
  <2>2. CASE q # d
    <3>1. q \in A.current /\ q \in A.apart
      BY <1>3, <2>2
    <3>2. q \in MipsRegs /\ held[q] \in Entries /\ holds[held[q]] = q
      BY <3>1 DEF Matches, CurrentHeld
    <3>3. held[q] # i
      BY <1>2, <1>3, <2>2, <3>1 DEF Matches, ApartHeld
    <3> QED BY <1>8, <2>2, <3>2, <3>3
  <2> QED BY <2>1, <2>2
<1>17. SizedHeld(B)'
  <2> SUFFICES ASSUME NEW q \in B.sized
               PROVE  /\ q \in MipsRegs /\ held[q] \in Entries
                      /\ A.e # "noext" => A.e \in ext'[held[q]]
    BY <1>3, <1>4 DEF SizedHeld
  <2>1. q \in A.sized /\ q \in A.apart /\ q # d
    BY <1>3
  <2>2. q \in MipsRegs /\ held[q] \in Entries /\ (A.e # "noext" => A.e \in ext[held[q]])
    BY <2>1 DEF Matches, SizedHeld
  <2>3. held[q] # i
    BY <1>2, <1>3, <2>1 DEF Matches, ApartHeld
  <2> QED BY <1>8, <2>2, <2>3
<1>18. FreshHeld(B)' /\ ApartHeld(B)' /\ GoneFromCache(B)' /\ SavedFlushed(B)'
  BY <1>3, <1>4, KeptCache
<1> QED BY <1>9, <1>10, <1>11, <1>12, <1>13, <1>14, <1>15, <1>16, <1>17, <1>18
        DEF Always, Matches

\* A host instruction that only reads.
LEMMA ReadStep ==
  ASSUME Always, NEW A, Matches(A), NEW s, NEW B, ReadRule(A, s, B),
         EmitRead, UNCHANGED numCallerSave
  PROVE  Always' /\ Matches(B)'
<1>1. /\ SameLocks(A, B) /\ B.pending = A.pending
      /\ KeepsHeld(A, B) /\ KeepsCache(A, B) /\ B.e = A.e
  BY DEF ReadRule, KeepsCache
<1>2. UNCHANGED <<at, locks, sign, modified, timestamp, holds, ext, mem, held, numCallerSave>>
  BY DEF EmitRead, cache, machine
<1>3. Always'
  BY <1>2 DEF Always, TypeOK, LiveOnce, Recoverable, SignStateTrue, ZeroIsZero
<1>4. LocksCounted(B)' /\ LockedHeld(B)' /\ LiveCurrent(B)'
  BY <1>1, <1>2 DEF Matches, LocksCounted, LockedHeld, LiveCurrent, SameLocks, Locked, Count
<1>5. CurrentHeld(B)' /\ SizedHeld(B)'
  BY <1>1, <1>2, KeptHeld
<1>6. FreshHeld(B)' /\ ApartHeld(B)' /\ GoneFromCache(B)' /\ SavedFlushed(B)'
  BY <1>1, <1>2, KeptCache
<1> QED BY <1>3, <1>4, <1>5, <1>6 DEF Matches

\* C++ code destroys host registers and writes sr[], but nothing that the cache
\* still stands for.
LEMMA CallStep ==
  ASSUME Always, NEW A, Matches(A), NEW s, NEW B, CallRule(A, s, B),
         EmitCall(s.dst), UNCHANGED numCallerSave
  PROVE  Always' /\ Matches(B)'
<1>1. PICK D : D = s.dst
  OBVIOUS
<1>2. /\ A.saved /\ D \subseteq A.gone /\ D \subseteq InMemory
      /\ SameLocks(A, B) /\ B.pending = A.pending
      /\ B.current = {} /\ B.sized = {} /\ KeepsCache(A, B)
  BY <1>1 DEF CallRule
<1>3. /\ holds' = [i \in Entries |-> IF i \in CallerSave \/ holds[i] \in D THEN None ELSE holds[i]]
      /\ ext' = [i \in Entries |-> IF i \in CallerSave THEN {} ELSE ext[i]]
      /\ mem' = mem \cup D
      /\ UNCHANGED <<at, locks, sign, modified, timestamp, held>>
  BY <1>1 DEF EmitCall, cache
<1>4. \A i \in Entries : at[i] \notin D /\ (i \in CallerSave => at[i] = None)
  BY <1>2 DEF Matches, GoneFromCache, SavedFlushed
<1>5. \A i \in Entries : at[i] # None => ext'[i] = ext[i]
  BY <1>3, <1>4
<1>6. \A i \in Entries : at[i] # None /\ holds[i] = at[i] => holds'[i] = holds[i]
  BY <1>3, <1>4
<1>7. TypeOK' /\ (numCallerSave \in CallerSaves)'
  <2>1. /\ holds \in [Entries -> MipsRegs \cup {None}] /\ mem \subseteq InMemory
        /\ ext \in [Entries -> SUBSET {"sext", "zext"}]
    BY DEF Always, TypeOK
  <2>2. /\ holds' \in [Entries -> MipsRegs \cup {None}] /\ mem' \subseteq InMemory
        /\ ext' \in [Entries -> SUBSET {"sext", "zext"}]
    BY <1>2, <1>3, <2>1
  <2> QED BY <1>3, <2>2 DEF Always, TypeOK
<1>8. LiveOnce'
  BY <1>3 DEF Always, LiveOnce
<1>9. Recoverable'
  <2> SUFFICES ASSUME NEW q \in InMemory \ mem'
               PROVE  \E j \in Entries : at[j] = q /\ modified[j] /\ holds'[j] = q
    BY <1>3 DEF Recoverable
  <2>1. PICK j \in Entries : at[j] = q /\ modified[j] /\ holds[j] = q
    BY <1>3 DEF Always, Recoverable
  <2> QED BY <1>6, <2>1, Names
<1>10. SignStateTrue'
  BY <1>3, <1>5 DEF Always, SignStateTrue
<1>11. ZeroIsZero'
  BY <1>3, <1>5, Names DEF Always, ZeroIsZero
<1>12. LocksCounted(B)' /\ LockedHeld(B)'
  BY <1>2, <1>3 DEF Matches, LocksCounted, LockedHeld, SameLocks, Locked, Count
<1>13. LiveCurrent(B)'
  <2>1. B.pending \subseteq Locked(B)
    BY <1>2 DEF Matches, LiveCurrent, SameLocks, Locked
  <2>2. \A j \in Entries : at[j] \in InMemory \ B.pending => holds'[j] = at[j]
    BY <1>2, <1>6, Names DEF Matches, LiveCurrent
  <2> QED BY <1>3, <2>1, <2>2 DEF LiveCurrent
<1>14. CurrentHeld(B)' /\ SizedHeld(B)'
  BY <1>2 DEF CurrentHeld, SizedHeld
<1>15. FreshHeld(B)' /\ ApartHeld(B)' /\ GoneFromCache(B)' /\ SavedFlushed(B)'
  BY <1>2, <1>3, KeptCache
<1> QED BY <1>7, <1>8, <1>9, <1>10, <1>11, <1>12, <1>13, <1>14, <1>15 DEF Always, Matches

-----------------------------------------------------------------------------
(***************************************************************************)
(* The annotations of the scripts.                                         *)
(***************************************************************************)

\* While a script holds locks, on l1, l2 and l3.
While(l1, l2, l3, pending, current, sized, fresh, e) ==
  [l1 |-> l1, l2 |-> l2, l3 |-> l3, pending |-> pending, current |-> current, sized |-> sized,
   fresh |-> fresh, apart |-> {l1, l2, l3} \ {None}, gone |-> {}, saved |-> FALSE, e |-> e]

\* While it releases them, and still uses the host registers it was given.
Releasing(l1, l2, l3, current, fresh, apart, e) ==
  [l1 |-> l1, l2 |-> l2, l3 |-> l3, pending |-> {}, current |-> current, sized |-> {},
   fresh |-> fresh, apart |-> apart, gone |-> {}, saved |-> FALSE, e |-> e]

\* When it has released them, and perhaps emptied the cache.
Released(current, fresh, apart, gone, saved, e) ==
  [l1 |-> None, l2 |-> None, l3 |-> None, pending |-> {}, current |-> current, sized |-> {},
   fresh |-> fresh, apart |-> apart, gone |-> gone, saved |-> saved, e |-> e]

\* At its start a script knows nothing.
Start(e) == While(None, None, None, {}, {}, {}, {}, e)

\* How to show that a script can be annotated.
LEMMA AnnotatedLeads ==
  ASSUME NEW s, NEW S, s \in Seq(S), NEW c, Annotates(c, s)
  PROVE  Leads(s, c[1], c[Len(s) + 1])
BY DEF Leads

\* THREE_REG_OP, and the branches that compare two registers, also when registers coincide.
LEMMA ThreeRegSafe ==
  ASSUME NEW rd \in Regs \cup {Cond}, NEW rs \in Sources, NEW rt \in Sources, NEW e \in Sizes
  PROVE  Safe(ThreeRegOp(rd, rs, rt, e), Start(e))
<1> DEFINE a1 == While(rs, None, None, {}, {rs}, {rs}, {}, e)
           a2 == While(rs, rt, None, {}, {rs, rt}, {rs, rt}, {}, e)
           a3 == While(rs, rt, rd, {rd}, {rs, rt}, {rs, rt}, {rd}, e)
           a4 == While(rs, rt, rd, {}, {}, {}, {}, e)
           a5 == While(None, rt, rd, {}, {}, {}, {}, e)
           a6 == While(None, None, rd, {}, {}, {}, {}, e)
           s == ThreeRegOp(rd, rs, rt, e)
           c == <<Start(e), a1, a2, a3, a4, a5, a6, Start(e)>>
<1>1. rs \in InMemory /\ rt \in InMemory /\ rd \in InMemory /\ rd # Zero
  BY Names
<1>2. Rule(Start(e), Load(rs, e), a1)
  BY <1>1, Names DEF Rule, LoadRule, LockRule, Takes, Locked, Sizes, Start, While, Load
<1>3. Rule(a1, Load(rt, e), a2)
  BY <1>1, Names DEF Rule, LoadRule, LockRule, Takes, Locked, Sizes, While, Load
<1>4. Rule(a2, Modify(rd), a3)
  BY <1>1, Names DEF Rule, ModifyRule, LockRule, Takes, Locked, While, Modify
<1>5. Rule(a3, Emit(rd, {rs, rt}, e), a4)
  BY <1>1, Names DEF Rule, EmitRule, Ready, SameLocks, KeepsCache, Locked, While, Emit
<1>6. Rule(a4, Unlock(rs), a5)
  BY <1>1, Names DEF Rule, UnlockRule, Takes, KeepsHeld, KeepsCache, While, Unlock
<1>7. Rule(a5, Unlock(rt), a6)
  BY <1>1, Names DEF Rule, UnlockRule, Takes, KeepsHeld, KeepsCache, While, Unlock
<1>8. Rule(a6, Unlock(rd), Start(e))
  BY <1>1, Names DEF Rule, UnlockRule, Takes, KeepsHeld, KeepsCache, While, Start, Unlock
<1>9. Clean(Start(e))
  BY DEF Clean, Locked, Start, While
<1> HIDE DEF a1, a2, a3, a4, a5, a6
<1>10. Annotates(c, s)
  BY <1>2, <1>3, <1>4, <1>5, <1>6, <1>7, <1>8 DEF Annotates, ThreeRegOp
<1>11. s \in Seq({s[k] : k \in 1 .. 7}) /\ Len(s) = 7
  BY DEF ThreeRegOp
<1>12. c[1] = Start(e) /\ c[7 + 1] = Start(e)
  OBVIOUS
<1> HIDE DEF s, c
<1>13. Leads(s, Start(e), Start(e))
  BY <1>10, <1>11, <1>12, AnnotatedLeads
<1> QED BY <1>9, <1>13 DEF Safe, s

\* TWO_REG_IMM_OP, the shifts by a constant, and the branches that test one register.
LEMMA TwoRegSafe ==
  ASSUME NEW rd \in Regs \cup {Cond}, NEW rs \in Sources, NEW e \in Sizes
  PROVE  Safe(TwoRegOp(rd, rs, e), Start(e))
<1> DEFINE a1 == While(rs, None, None, {}, {rs}, {rs}, {}, e)
           a2 == While(rs, rd, None, {rd}, {rs}, {rs}, {rd}, e)
           a3 == While(rs, rd, None, {}, {}, {}, {}, e)
           a4 == While(None, rd, None, {}, {}, {}, {}, e)
           s == TwoRegOp(rd, rs, e)
           c == <<Start(e), a1, a2, a3, a4, Start(e)>>
<1>1. rs \in InMemory /\ rd \in InMemory /\ rd # Zero
  BY Names
<1>2. Rule(Start(e), Load(rs, e), a1)
  BY <1>1, Names DEF Rule, LoadRule, LockRule, Takes, Locked, Sizes, Start, While, Load
<1>3. Rule(a1, Modify(rd), a2)
  BY <1>1, Names DEF Rule, ModifyRule, LockRule, Takes, Locked, While, Modify
<1>4. Rule(a2, Emit(rd, {rs}, e), a3)
  BY <1>1, Names DEF Rule, EmitRule, Ready, SameLocks, KeepsCache, Locked, While, Emit
<1>5. Rule(a3, Unlock(rs), a4)
  BY <1>1, Names DEF Rule, UnlockRule, Takes, KeepsHeld, KeepsCache, While, Unlock
<1>6. Rule(a4, Unlock(rd), Start(e))
  BY <1>1, Names DEF Rule, UnlockRule, Takes, KeepsHeld, KeepsCache, While, Start, Unlock
<1>7. Clean(Start(e))
  BY DEF Clean, Locked, Start, While
<1> HIDE DEF a1, a2, a3, a4
<1>8. Annotates(c, s)
  BY <1>2, <1>3, <1>4, <1>5, <1>6 DEF Annotates, TwoRegOp
<1>9. s \in Seq({s[k] : k \in 1 .. 5}) /\ Len(s) = 5
  BY DEF TwoRegOp
<1>10. c[1] = Start(e) /\ c[5 + 1] = Start(e)
  OBVIOUS
<1> HIDE DEF s, c
<1>11. Leads(s, Start(e), Start(e))
  BY <1>8, <1>9, <1>10, AnnotatedLeads
<1> QED BY <1>7, <1>11 DEF Safe, s

\* SLLV, SRLV, SRAV: the fourth register is locked only after the shift amount's
\* was released.
LEMMA ShiftSafe ==
  ASSUME NEW rd \in Regs, NEW rt \in Sources, NEW rs \in Sources, NEW e \in Sizes
  PROVE  Safe(ShiftOp(rd, rt, rs, e), Start(e))
<1> DEFINE a1 == While(rt, None, None, {}, {rt}, {rt}, {}, e)
           a2 == While(rt, rs, None, {}, {rt, rs}, {rt}, {}, e)
           a3 == While(rt, rs, Scratch0, {}, {rt, rs}, {rt}, {Scratch0}, e)
           a4 == While(rt, rs, Scratch0, {}, {rt, Scratch0}, {rt}, {}, e)
           a5 == While(rt, None, Scratch0, {}, {rt, Scratch0}, {rt}, {}, e)
           a6 == While(rt, rd, Scratch0, {rd}, {rt, Scratch0}, {rt}, {rd}, e)
           a7 == While(rt, rd, Scratch0, {}, {}, {}, {}, e)
           a8 == While(None, rd, Scratch0, {}, {}, {}, {}, e)
           a9 == While(None, None, Scratch0, {}, {}, {}, {}, e)
           s == ShiftOp(rd, rt, rs, e)
           c == <<Start(e), a1, a2, a3, a4, a5, a6, a7, a8, a9, Start(e)>>
<1>1. rs \in InMemory /\ rt \in InMemory /\ rd \in InMemory /\ rd # Zero
  BY Names
<1>2. Rule(Start(e), Load(rt, e), a1)
  BY <1>1, Names DEF Rule, LoadRule, LockRule, Takes, Locked, Sizes, Start, While, Load
<1>3. Rule(a1, Load(rs, "noext"), a2)
  BY <1>1, Names DEF Rule, LoadRule, LockRule, Takes, Locked, Sizes, While, Load
<1>4. Rule(a2, Modify(Scratch0), a3)
  BY <1>1, Names DEF Rule, ModifyRule, LockRule, Takes, Locked, While, Modify
<1>5. Rule(a3, Emit(Scratch0, {rs}, "noext"), a4)
  BY <1>1, Names DEF Rule, EmitRule, Ready, SameLocks, KeepsCache, Locked, While, Emit
<1>6. Rule(a4, Unlock(rs), a5)
  BY <1>1, Names DEF Rule, UnlockRule, Takes, KeepsHeld, KeepsCache, While, Unlock
<1>7. Rule(a5, Modify(rd), a6)
  BY <1>1, Names DEF Rule, ModifyRule, LockRule, Takes, Locked, While, Modify
<1>8. Rule(a6, Emit(rd, {rt, Scratch0}, e), a7)
  BY <1>1, Names DEF Rule, EmitRule, Ready, SameLocks, KeepsCache, Locked, While, Emit
<1>9. Rule(a7, Unlock(rt), a8)
  BY <1>1, Names DEF Rule, UnlockRule, Takes, KeepsHeld, KeepsCache, While, Unlock
<1>10. Rule(a8, Unlock(rd), a9)
  BY <1>1, Names DEF Rule, UnlockRule, Takes, KeepsHeld, KeepsCache, While, Unlock
<1>11. Rule(a9, Unlock(Scratch0), Start(e))
  BY <1>1, Names DEF Rule, UnlockRule, Takes, KeepsHeld, KeepsCache, While, Start, Unlock
<1>12. Clean(Start(e))
  BY DEF Clean, Locked, Start, While
<1> HIDE DEF a1, a2, a3, a4, a5, a6, a7, a8, a9
<1>13. Annotates(c, s)
  BY <1>2, <1>3, <1>4, <1>5, <1>6, <1>7, <1>8, <1>9, <1>10, <1>11 DEF Annotates, ShiftOp
<1>14. s \in Seq({s[k] : k \in 1 .. 10}) /\ Len(s) = 10
  BY DEF ShiftOp
<1>15. c[1] = Start(e) /\ c[10 + 1] = Start(e)
  OBVIOUS
<1> HIDE DEF s, c
<1>16. Leads(s, Start(e), Start(e))
  BY <1>13, <1>14, <1>15, AnnotatedLeads
<1> QED BY <1>12, <1>16 DEF Safe, s

\* LUI, the link registers, the condition of a jump.
LEMMA ImmediateSafe ==
  ASSUME NEW r \in Regs \cup {Cond}
  PROVE  Safe(ImmediateOp(r), Start("noext"))
<1> DEFINE a1 == While(r, None, None, {}, {}, {}, {}, "noext")
           s == ImmediateOp(r)
           c == <<Start("noext"), a1, Start("noext")>>
<1>1. r \in InMemory /\ r # Zero
  BY Names
<1>2. Rule(Start("noext"), Immediate(r), a1)
  BY <1>1, Names DEF Rule, ImmediateRule, LockRule, Takes, Locked, Start, While, Immediate
<1>3. Rule(a1, Unlock(r), Start("noext"))
  BY <1>1, Names DEF Rule, UnlockRule, Takes, KeepsHeld, KeepsCache, While, Start, Unlock
<1>4. Clean(Start("noext"))
  BY DEF Clean, Locked, Start, While
<1> HIDE DEF a1
<1>5. Annotates(c, s)
  BY <1>2, <1>3 DEF Annotates, ImmediateOp
<1>6. s \in Seq({s[k] : k \in 1 .. 2}) /\ Len(s) = 2
  BY DEF ImmediateOp
<1>7. c[1] = Start("noext") /\ c[2 + 1] = Start("noext")
  OBVIOUS
<1> HIDE DEF s, c
<1>8. Leads(s, Start("noext"), Start("noext"))
  BY <1>5, <1>6, <1>7, AnnotatedLeads
<1> QED BY <1>4, <1>8 DEF Safe, s

\* JAL.
LEMMA LinkSafe ==
  ASSUME NEW r \in Regs
  PROVE  Safe(LinkOp(r), Start("noext"))
<1> DEFINE a1 == While(r, None, None, {}, {}, {}, {}, "noext")
           a2 == While(r, Cond, None, {}, {}, {}, {}, "noext")
           a3 == While(None, Cond, None, {}, {}, {}, {}, "noext")
           s == LinkOp(r)
           c == <<Start("noext"), a1, a2, a3, Start("noext")>>
<1>1. r \in InMemory /\ r # Zero
  BY Names
<1>2. Rule(Start("noext"), Immediate(r), a1)
  BY <1>1, Names DEF Rule, ImmediateRule, LockRule, Takes, Locked, Start, While, Immediate
<1>3. Rule(a1, Immediate(Cond), a2)
  BY <1>1, Names DEF Rule, ImmediateRule, LockRule, Takes, Locked, While, Immediate
<1>4. Rule(a2, Unlock(r), a3)
  BY <1>1, Names DEF Rule, UnlockRule, Takes, KeepsHeld, KeepsCache, While, Unlock
<1>5. Rule(a3, Unlock(Cond), Start("noext"))
  BY <1>1, Names DEF Rule, UnlockRule, Takes, KeepsHeld, KeepsCache, While, Start, Unlock
<1>6. Clean(Start("noext"))
  BY DEF Clean, Locked, Start, While
<1> HIDE DEF a1, a2, a3
<1>7. Annotates(c, s)
  BY <1>2, <1>3, <1>4, <1>5 DEF Annotates, LinkOp
<1>8. s \in Seq({s[k] : k \in 1 .. 4}) /\ Len(s) = 4
  BY DEF LinkOp
<1>9. c[1] = Start("noext") /\ c[4 + 1] = Start("noext")
  OBVIOUS
<1> HIDE DEF s, c
<1>10. Leads(s, Start("noext"), Start("noext"))
  BY <1>7, <1>8, <1>9, AnnotatedLeads
<1> QED BY <1>6, <1>10 DEF Safe, s

\* jit_save_indirect_register and jit_save_illegal_cond_branch_taken.
LEMMA SaveSafe ==
  ASSUME NEW r \in InMemory
  PROVE  Safe(SaveOp(r), Start("noext"))
<1> DEFINE a1 == While(r, None, None, {}, {r}, {}, {}, "noext")
           a2 == While(r, None, None, {}, {}, {}, {}, "noext")
           s == SaveOp(r)
           c == <<Start("noext"), a1, a2, Start("noext")>>
<1>2. Rule(Start("noext"), Load(r, "noext"), a1)
  BY Names DEF Rule, LoadRule, LockRule, Takes, Locked, Sizes, Start, While, Load
<1>3. Rule(a1, Read({r}), a2)
  BY Names DEF Rule, ReadRule, Ready, SameLocks, KeepsHeld, KeepsCache, While, Read
<1>4. Rule(a2, Unlock(r), Start("noext"))
  BY Names DEF Rule, UnlockRule, Takes, KeepsHeld, KeepsCache, While, Start, Unlock
<1>5. Clean(Start("noext"))
  BY DEF Clean, Locked, Start, While
<1> HIDE DEF a1, a2
<1>6. Annotates(c, s)
  BY <1>2, <1>3, <1>4 DEF Annotates, SaveOp
<1>7. s \in Seq({s[k] : k \in 1 .. 3}) /\ Len(s) = 3
  BY DEF SaveOp
<1>8. c[1] = Start("noext") /\ c[3 + 1] = Start("noext")
  OBVIOUS
<1> HIDE DEF s, c
<1>9. Leads(s, Start("noext"), Start("noext"))
  BY <1>6, <1>7, <1>8, AnnotatedLeads
<1> QED BY <1>5, <1>9 DEF Safe, s

\* Vector instructions.
LEMMA VectorSafe ==
  Safe(VectorOp, Start("noext"))
<1> DEFINE a1 == Released({}, {}, {}, {}, TRUE, "noext")
           a2 == Released({}, {}, {}, {}, FALSE, "noext")
           s == VectorOp
           c == <<Start("noext"), a1, a2>>
<1>2. Rule(Start("noext"), FlushCallerSave, a1)
  BY Names DEF Rule, FlushRule, SameLocks, KeepsHeld, Locked, Start, While, Released,
     FlushCallerSave
<1>3. Rule(a1, Call({}, {}), a2)
  BY Names DEF Rule, CallRule, SameLocks, KeepsCache, Released, Call
<1>4. Clean(a2)
  BY DEF Clean, Locked, Released
<1> HIDE DEF a1, a2
<1>5. Annotates(c, s)
  BY <1>2, <1>3 DEF Annotates, VectorOp
<1>6. s \in Seq({s[k] : k \in 1 .. 2}) /\ Len(s) = 2
  BY DEF VectorOp
<1>7. c[1] = Start("noext") /\ c[2 + 1] = a2
  OBVIOUS
<1> HIDE DEF s, c
<1>8. Leads(s, Start("noext"), a2)
  BY <1>5, <1>6, <1>7, AnnotatedLeads
<1> QED BY <1>4, <1>8 DEF Safe, s

\* MFC2 and CFC2.
LEMMA MoveFromSafe ==
  ASSUME NEW r \in Sources
  PROVE  Safe(MoveFromOp(r), Start("noext"))
<1> DEFINE a1 == Released({}, {}, {}, {}, TRUE, "noext")
           a2 == Released({}, {}, {}, {r}, TRUE, "noext")
           a3 == Released({}, {}, {}, {}, FALSE, "noext")
           s == MoveFromOp(r)
           c == <<Start("noext"), a1, a2, a3>>
<1>1. r \in InMemory
  BY Names
<1>2. Rule(Start("noext"), FlushCallerSave, a1)
  BY <1>1, Names DEF Rule, FlushRule, SameLocks, KeepsHeld, Locked, Start, While, Released,
     FlushCallerSave
<1>3. Rule(a1, FlushMips(r), a2)
  BY <1>1, Names DEF Rule, FlushRule, SameLocks, KeepsHeld, Locked, Released, FlushMips
<1>4. Rule(a2, Call({}, {r} \ {Zero}), a3)
  BY <1>1, Names DEF Rule, CallRule, SameLocks, KeepsCache, Released, Call
<1>5. Clean(a3)
  BY DEF Clean, Locked, Released
<1> HIDE DEF a1, a2, a3
<1>6. Annotates(c, s)
  BY <1>2, <1>3, <1>4 DEF Annotates, MoveFromOp
<1>7. s \in Seq({s[k] : k \in 1 .. 3}) /\ Len(s) = 3
  BY DEF MoveFromOp
<1>8. c[1] = Start("noext") /\ c[3 + 1] = a3
  OBVIOUS
<1> HIDE DEF s, c
<1>9. Leads(s, Start("noext"), a3)
  BY <1>6, <1>7, <1>8, AnnotatedLeads
<1> QED BY <1>5, <1>9 DEF Safe, s

\* MTC2, CTC2, LWC2 and SWC2.
LEMMA MoveToSafe ==
  ASSUME NEW r \in Sources
  PROVE  Safe(MoveToOp(r), Start("noext"))
<1> DEFINE a1 == Released({}, {}, {}, {}, TRUE, "noext")
           a2 == Released({}, {}, {}, {r}, TRUE, "noext")
           a3 == Released({}, {}, {}, {}, FALSE, "noext")
           s == MoveToOp(r)
           c == <<Start("noext"), a1, a2, a3>>
<1>1. r \in InMemory
  BY Names
<1>2. Rule(Start("noext"), FlushCallerSave, a1)
  BY <1>1, Names DEF Rule, FlushRule, SameLocks, KeepsHeld, Locked, Start, While, Released,
     FlushCallerSave
<1>3. Rule(a1, FlushMips(r), a2)
  BY <1>1, Names DEF Rule, FlushRule, SameLocks, KeepsHeld, Locked, Released, FlushMips
<1>4. Rule(a2, Call({r}, {}), a3)
  BY <1>1, Names DEF Rule, CallRule, SameLocks, KeepsCache, Released, Call
<1>5. Clean(a3)
  BY DEF Clean, Locked, Released
<1> HIDE DEF a1, a2, a3
<1>6. Annotates(c, s)
  BY <1>2, <1>3, <1>4 DEF Annotates, MoveToOp
<1>7. s \in Seq({s[k] : k \in 1 .. 3}) /\ Len(s) = 3
  BY DEF MoveToOp
<1>8. c[1] = Start("noext") /\ c[3 + 1] = a3
  OBVIOUS
<1> HIDE DEF s, c
<1>9. Leads(s, Start("noext"), a3)
  BY <1>6, <1>7, <1>8, AnnotatedLeads
<1> QED BY <1>5, <1>9 DEF Safe, s

\* MFC0 and MTC0.
LEMMA Cop0Safe ==
  ASSUME NEW r \in Sources
  PROVE  Safe(Cop0Op(r), Start("noext"))
<1> DEFINE a1 == Released({}, {}, {}, MipsRegs, TRUE, "noext")
           a2 == Released({}, {}, {}, {}, FALSE, "noext")
           s == Cop0Op(r)
           c == <<Start("noext"), a1, a2>>
<1>1. r \in InMemory
  BY Names
<1>2. Rule(Start("noext"), FlushWindow, a1)
  BY <1>1, Names DEF Rule, FlushRule, SameLocks, KeepsHeld, Locked, Start, While, Released,
     FlushWindow
<1>3. Rule(a1, Call(InMemory, {r} \ {Zero}), a2)
  BY <1>1, Names DEF Rule, CallRule, SameLocks, KeepsCache, Released, Call
<1>4. Clean(a2)
  BY DEF Clean, Locked, Released
<1> HIDE DEF a1, a2
<1>5. Annotates(c, s)
  BY <1>2, <1>3 DEF Annotates, Cop0Op
<1>6. s \in Seq({s[k] : k \in 1 .. 2}) /\ Len(s) = 2
  BY DEF Cop0Op
<1>7. c[1] = Start("noext") /\ c[2 + 1] = a2
  OBVIOUS
<1> HIDE DEF s, c
<1>8. Leads(s, Start("noext"), a2)
  BY <1>5, <1>6, <1>7, AnnotatedLeads
<1> QED BY <1>4, <1>8 DEF Safe, s

\* jit_handle_delay_slot of a conditional branch: Cond is locked twice.
LEMMA DelaySlotSafe ==
  Safe(DelaySlotOp, Start("noext"))
<1> DEFINE a1 == While(Cond, None, None, {}, {Cond}, {}, {}, "noext")
           a2 == While(Cond, Cond, None, {Cond}, {Cond}, {}, {Cond}, "noext")
           a3 == While(Cond, Cond, Scratch0, {Cond}, {Cond}, {}, {Cond, Scratch0}, "noext")
           a4 == While(Cond, Cond, Scratch0, {Cond}, {Scratch0}, {}, {Cond}, "noext")
           a5 == While(Cond, Cond, Scratch0, {}, {Scratch0}, {}, {}, "noext")
           a6 == While(None, Cond, Scratch0, {}, {Scratch0}, {}, {}, "noext")
           a7 == While(None, None, Scratch0, {}, {Scratch0}, {}, {}, "noext")
           a8 == Released({Scratch0}, {}, {}, {}, FALSE, "noext")
           a9 == Released({Scratch0}, {}, {}, MipsRegs, FALSE, "noext")
           a10 == Released({}, {}, {}, {}, FALSE, "noext")
           s == DelaySlotOp
           c == <<Start("noext"), a1, a2, a3, a4, a5, a6, a7, a8, a9, a10>>
<1>2. Rule(Start("noext"), Load(Cond, "noext"), a1)
  BY Names DEF Rule, LoadRule, LockRule, Takes, Locked, Sizes, Start, While, Load
<1>3. Rule(a1, Modify(Cond), a2)
  BY Names DEF Rule, ModifyRule, LockRule, Takes, Locked, While, Modify
<1>4. Rule(a2, Modify(Scratch0), a3)
  BY Names DEF Rule, ModifyRule, LockRule, Takes, Locked, While, Modify
<1>5. Rule(a3, Emit(Scratch0, {Cond}, "noext"), a4)
  BY Names DEF Rule, EmitRule, Ready, SameLocks, KeepsCache, Locked, While, Emit
<1>6. Rule(a4, Emit(Cond, {}, "noext"), a5)
  BY Names DEF Rule, EmitRule, Ready, SameLocks, KeepsCache, Locked, While, Emit
<1>7. Rule(a5, Unlock(Cond), a6)
  BY Names DEF Rule, UnlockRule, Takes, KeepsHeld, KeepsCache, While, Unlock
<1>8. Rule(a6, Unlock(Cond), a7)
  BY Names DEF Rule, UnlockRule, Takes, KeepsHeld, KeepsCache, While, Unlock
<1>9. Rule(a7, Unlock(Scratch0), a8)
  BY Names DEF Rule, UnlockRule, Takes, KeepsHeld, KeepsCache, While, Released, Unlock
<1>10. Rule(a8, FlushWindow, a9)
  BY Names DEF Rule, FlushRule, SameLocks, KeepsHeld, Locked, Released, FlushWindow
<1>11. Rule(a9, Jump({Scratch0}), a10)
  BY Names DEF Rule, ReadRule, Ready, SameLocks, KeepsHeld, KeepsCache, Released, Jump
<1>12. Clean(a10)
  BY DEF Clean, Locked, Released
<1> HIDE DEF a1, a2, a3, a4, a5, a6, a7, a8, a9, a10
<1>13. Annotates(c, s)
  BY <1>2, <1>3, <1>4, <1>5, <1>6, <1>7, <1>8, <1>9, <1>10, <1>11 DEF Annotates, DelaySlotOp
<1>14. s \in Seq({s[k] : k \in 1 .. 10}) /\ Len(s) = 10
  BY DEF DelaySlotOp
<1>15. c[1] = Start("noext") /\ c[10 + 1] = a10
  OBVIOUS
<1> HIDE DEF s, c
<1>16. Leads(s, Start("noext"), a10)
  BY <1>13, <1>14, <1>15, AnnotatedLeads
<1> QED BY <1>12, <1>16 DEF Safe, s

\* jit_handle_delay_slot of an unconditional branch.
LEMMA StaticDelaySlotSafe ==
  Safe(StaticDelaySlotOp, Start("noext"))
<1> DEFINE a1 == While(Cond, None, None, {Cond}, {}, {}, {Cond}, "noext")
           a2 == While(Cond, None, None, {}, {}, {}, {}, "noext")
           a3 == Released({}, {}, {}, {}, FALSE, "noext")
           a4 == Released({}, {}, {}, MipsRegs, FALSE, "noext")
           s == StaticDelaySlotOp
           c == <<Start("noext"), a1, a2, a3, a4, a3>>
<1>2. Rule(Start("noext"), Modify(Cond), a1)
  BY Names DEF Rule, ModifyRule, LockRule, Takes, Locked, Start, While, Modify
<1>3. Rule(a1, Emit(Cond, {}, "noext"), a2)
  BY Names DEF Rule, EmitRule, Ready, SameLocks, KeepsCache, Locked, While, Emit
<1>4. Rule(a2, Unlock(Cond), a3)
  BY Names DEF Rule, UnlockRule, Takes, KeepsHeld, KeepsCache, While, Released, Unlock
<1>5. Rule(a3, FlushWindow, a4)
  BY Names DEF Rule, FlushRule, SameLocks, KeepsHeld, Locked, Released, FlushWindow
<1>6. Rule(a4, Jump({}), a3)
  BY Names DEF Rule, ReadRule, Ready, SameLocks, KeepsHeld, KeepsCache, Released, Jump
<1>7. Clean(a3)
  BY DEF Clean, Locked, Released
<1> HIDE DEF a1, a2, a3, a4
<1>8. Annotates(c, s)
  BY <1>2, <1>3, <1>4, <1>5, <1>6 DEF Annotates, StaticDelaySlotOp
<1>9. s \in Seq({s[k] : k \in 1 .. 5}) /\ Len(s) = 5
  BY DEF StaticDelaySlotOp
<1>10. c[1] = Start("noext") /\ c[5 + 1] = a3
  OBVIOUS
<1> HIDE DEF s, c
<1>11. Leads(s, Start("noext"), a3)
  BY <1>8, <1>9, <1>10, AnnotatedLeads
<1> QED BY <1>7, <1>11 DEF Safe, s

\* jit_handle_impossible_delay_slot: the three host registers that stay in use
\* after the window was flushed are different ones.
LEMMA ImpossibleDelaySlotSafe ==
  Safe(ImpossibleDelaySlotOp, Start("noext"))
<1> DEFINE all == {Cond, Scratch0, Scratch1}
           a1 == While(Cond, None, None, {}, {Cond}, {}, {}, "noext")
           a2 == While(Cond, Scratch0, None, {}, {Cond}, {}, {Scratch0}, "noext")
           a3 == While(Cond, Scratch0, Scratch1, {}, {Cond}, {}, {Scratch0, Scratch1}, "noext")
           a4 == Releasing(None, Scratch0, Scratch1, {Cond}, {Scratch0, Scratch1}, all, "noext")
           a5 == Releasing(None, None, Scratch1, {Cond}, {Scratch0, Scratch1}, all, "noext")
           a6 == Released({Cond}, {Scratch0, Scratch1}, all, {}, FALSE, "noext")
           a7 == Released({Cond}, {Scratch0, Scratch1}, all, MipsRegs, FALSE, "noext")
           a8 == Released({Cond, Scratch1}, {Scratch0, Scratch1}, all, MipsRegs, FALSE, "noext")
           a9 == Released({Cond, Scratch1, Scratch0}, {Scratch0, Scratch1}, all, MipsRegs, FALSE, "noext")
           a10 == Released({Cond, Scratch1}, {}, {}, MipsRegs, FALSE, "noext")
           a11 == Released({}, {}, {}, {}, FALSE, "noext")
           s == ImpossibleDelaySlotOp
           c == <<Start("noext"), a1, a2, a3, a4, a5, a6, a7, a8, a9, a10, a11>>
<1>2. Rule(Start("noext"), Load(Cond, "noext"), a1)
  BY Names DEF Rule, LoadRule, LockRule, Takes, Locked, Sizes, Start, While, Load
<1>3. Rule(a1, Modify(Scratch0), a2)
  BY Names DEF Rule, ModifyRule, LockRule, Takes, Locked, While, Modify
<1>4. Rule(a2, Modify(Scratch1), a3)
  BY Names DEF Rule, ModifyRule, LockRule, Takes, Locked, While, Modify
<1>5. Rule(a3, Unlock(Cond), a4)
  BY Names DEF Rule, UnlockRule, Takes, KeepsHeld, KeepsCache, While, Releasing, Unlock
<1>6. Rule(a4, Unlock(Scratch0), a5)
  BY Names DEF Rule, UnlockRule, Takes, KeepsHeld, KeepsCache, Releasing, Unlock
<1>7. Rule(a5, Unlock(Scratch1), a6)
  BY Names DEF Rule, UnlockRule, Takes, KeepsHeld, KeepsCache, Releasing, Released, Unlock
<1>8. Rule(a6, FlushWindow, a7)
  BY Names DEF Rule, FlushRule, SameLocks, KeepsHeld, Locked, Released, FlushWindow
<1>9. Rule(a7, Emit(Scratch1, {}, "noext"), a8)
  BY Names DEF Rule, EmitRule, Ready, SameLocks, KeepsCache, Locked, Released, Emit
<1>10. Rule(a8, Emit(Scratch0, {}, "noext"), a9)
  BY Names DEF Rule, EmitRule, Ready, SameLocks, KeepsCache, Locked, Released, Emit
<1>11. Rule(a9, Read({Scratch0}), a10)
  BY Names DEF Rule, ReadRule, Ready, SameLocks, KeepsHeld, KeepsCache, Released, Read
<1>12. Rule(a10, Jump({Scratch1, Cond}), a11)
  BY Names DEF Rule, ReadRule, Ready, SameLocks, KeepsHeld, KeepsCache, Released, Jump
<1>13. Clean(a11)
  BY DEF Clean, Locked, Released
<1> HIDE DEF a1, a2, a3, a4, a5, a6, a7, a8, a9, a10, a11
<1>14. Annotates(c, s)
  BY <1>2, <1>3, <1>4, <1>5, <1>6, <1>7, <1>8, <1>9, <1>10, <1>11, <1>12
      DEF Annotates, ImpossibleDelaySlotOp
<1>15. s \in Seq({s[k] : k \in 1 .. 11}) /\ Len(s) = 11
  BY DEF ImpossibleDelaySlotOp
<1>16. c[1] = Start("noext") /\ c[11 + 1] = a11
  OBVIOUS
<1> HIDE DEF s, c
<1>17. Leads(s, Start("noext"), a11)
  BY <1>14, <1>15, <1>16, AnnotatedLeads
<1> QED BY <1>13, <1>17 DEF Safe, s

\* The test of has_delay_slot after the first instruction.
LEMMA LatentTestSafe ==
  Safe(LatentTestOp, Start("noext"))
<1> DEFINE a1 == While(Scratch0, None, None, {}, {}, {}, {Scratch0}, "noext")
           a2 == While(Scratch0, None, None, {}, {Scratch0}, {}, {}, "noext")
           a3 == Released({Scratch0}, {}, {}, {}, FALSE, "noext")
           a4 == Released({Scratch0}, {}, {}, MipsRegs, FALSE, "noext")
           a5 == Released({}, {}, {}, {}, FALSE, "noext")
           s == LatentTestOp
           c == <<Start("noext"), a1, a2, a3, a4, a5>>
<1>2. Rule(Start("noext"), Modify(Scratch0), a1)
  BY Names DEF Rule, ModifyRule, LockRule, Takes, Locked, Start, While, Modify
<1>3. Rule(a1, Emit(Scratch0, {}, "noext"), a2)
  BY Names DEF Rule, EmitRule, Ready, SameLocks, KeepsCache, Locked, While, Emit
<1>4. Rule(a2, Unlock(Scratch0), a3)
  BY Names DEF Rule, UnlockRule, Takes, KeepsHeld, KeepsCache, While, Released, Unlock
<1>5. Rule(a3, FlushWindow, a4)
  BY Names DEF Rule, FlushRule, SameLocks, KeepsHeld, Locked, Released, FlushWindow
<1>6. Rule(a4, Jump({Scratch0}), a5)
  BY Names DEF Rule, ReadRule, Ready, SameLocks, KeepsHeld, KeepsCache, Released, Jump
<1>7. Clean(a5)
  BY DEF Clean, Locked, Released
<1> HIDE DEF a1, a2, a3, a4, a5
<1>8. Annotates(c, s)
  BY <1>2, <1>3, <1>4, <1>5, <1>6 DEF Annotates, LatentTestOp
<1>9. s \in Seq({s[k] : k \in 1 .. 5}) /\ Len(s) = 5
  BY DEF LatentTestOp
<1>10. c[1] = Start("noext") /\ c[5 + 1] = a5
  OBVIOUS
<1> HIDE DEF s, c
<1>11. Leads(s, Start("noext"), a5)
  BY <1>8, <1>9, <1>10, AnnotatedLeads
<1> QED BY <1>7, <1>11 DEF Safe, s

\* jit_end_of_block: the condition is read before the scratch register is written,
\* which may be the same one.
LEMMA EndOfBlockSafe ==
  Safe(EndOfBlockOp, Start("noext"))
<1> DEFINE a1 == Released({}, {}, {}, {}, FALSE, "noext")
           a2 == While(Cond, None, None, {}, {Cond}, {}, {}, "noext")
           a3 == Released({Cond}, {}, {}, {}, FALSE, "noext")
           a4 == While(Scratch0, None, None, {}, {Cond}, {}, {Scratch0}, "noext")
           a5 == Released({Cond}, {Scratch0}, {Scratch0}, {}, FALSE, "noext")
           a6 == Released({Cond}, {Scratch0}, {Scratch0}, MipsRegs, FALSE, "noext")
           a7 == Released({}, {Scratch0}, {Scratch0}, MipsRegs, FALSE, "noext")
           a8 == Released({Scratch0}, {}, {}, MipsRegs, FALSE, "noext")
           s == EndOfBlockOp
           c == <<Start("noext"), a1, a2, a3, a4, a5, a6, a7, a8, a1>>
<1>2. Rule(Start("noext"), FlushWindow, a1)
  BY Names DEF Rule, FlushRule, SameLocks, KeepsHeld, Locked, Start, While, Released,
     FlushWindow
<1>3. Rule(a1, Load(Cond, "noext"), a2)
  BY Names DEF Rule, LoadRule, LockRule, Takes, Locked, Sizes, Released, While, Load
<1>4. Rule(a2, Unlock(Cond), a3)
  BY Names DEF Rule, UnlockRule, Takes, KeepsHeld, KeepsCache, While, Released, Unlock
<1>5. Rule(a3, Modify(Scratch0), a4)
  BY Names DEF Rule, ModifyRule, LockRule, Takes, Locked, Released, While, Modify
<1>6. Rule(a4, Unlock(Scratch0), a5)
  BY Names DEF Rule, UnlockRule, Takes, KeepsHeld, KeepsCache, While, Released, Unlock
<1>7. Rule(a5, FlushWindow, a6)
  BY Names DEF Rule, FlushRule, SameLocks, KeepsHeld, Locked, Released, FlushWindow
<1>8. Rule(a6, Read({Cond}), a7)
  BY Names DEF Rule, ReadRule, Ready, SameLocks, KeepsHeld, KeepsCache, Released, Read
<1>9. Rule(a7, Emit(Scratch0, {}, "noext"), a8)
  BY Names DEF Rule, EmitRule, Ready, SameLocks, KeepsCache, Locked, Released, Emit
<1>10. Rule(a8, Jump({Scratch0}), a1)
  BY Names DEF Rule, ReadRule, Ready, SameLocks, KeepsHeld, KeepsCache, Released, Jump
<1>11. Clean(a1)
  BY DEF Clean, Locked, Released
<1> HIDE DEF a1, a2, a3, a4, a5, a6, a7, a8
<1>12. Annotates(c, s)
  BY <1>2, <1>3, <1>4, <1>5, <1>6, <1>7, <1>8, <1>9, <1>10 DEF Annotates, EndOfBlockOp
<1>13. s \in Seq({s[k] : k \in 1 .. 9}) /\ Len(s) = 9
  BY DEF EndOfBlockOp
<1>14. c[1] = Start("noext") /\ c[9 + 1] = a1
  OBVIOUS
<1> HIDE DEF s, c
<1>15. Leads(s, Start("noext"), a1)
  BY <1>12, <1>13, <1>14, AnnotatedLeads
<1> QED BY <1>11, <1>15 DEF Safe, s

\* A label, and jit_exit.
LEMMA LabelSafe ==
  Safe(LabelOp, Start("noext"))
<1> DEFINE a1 == Released({}, {}, {}, MipsRegs, FALSE, "noext")
           a2 == Released({}, {}, {}, {}, FALSE, "noext")
           s == LabelOp
           c == <<Start("noext"), a1, a2>>
<1>2. Rule(Start("noext"), FlushWindow, a1)
  BY Names DEF Rule, FlushRule, SameLocks, KeepsHeld, Locked, Start, While, Released,
     FlushWindow
<1>3. Rule(a1, Jump({}), a2)
  BY Names DEF Rule, ReadRule, Ready, SameLocks, KeepsHeld, KeepsCache, Released, Jump
<1>4. Clean(a2)
  BY DEF Clean, Locked, Released
<1> HIDE DEF a1, a2
<1>5. Annotates(c, s)
  BY <1>2, <1>3 DEF Annotates, LabelOp
<1>6. s \in Seq({s[k] : k \in 1 .. 2}) /\ Len(s) = 2
  BY DEF LabelOp
<1>7. c[1] = Start("noext") /\ c[2 + 1] = a2
  OBVIOUS
<1> HIDE DEF s, c
<1>8. Leads(s, Start("noext"), a2)
  BY <1>5, <1>6, <1>7, AnnotatedLeads
<1> QED BY <1>4, <1>8 DEF Safe, s

\* Three locks are released; the host registers stay in use.
LEMMA ReleaseThree ==
  ASSUME NEW q \in MipsRegs, NEW r \in MipsRegs, NEW t \in MipsRegs, NEW cur, NEW fr, NEW ap
  PROVE  Leads(<<Unlock(q), Unlock(r), Unlock(t)>>,
               Releasing(q, r, t, cur, fr, ap, "noext"),
               Released(cur, fr, ap, {}, FALSE, "noext"))
<1> DEFINE a0 == Releasing(q, r, t, cur, fr, ap, "noext")
           a1 == Releasing(None, r, t, cur, fr, ap, "noext")
           a2 == Releasing(None, None, t, cur, fr, ap, "noext")
           a3 == Released(cur, fr, ap, {}, FALSE, "noext")
           s == <<Unlock(q), Unlock(r), Unlock(t)>>
           c == <<a0, a1, a2, a3>>
<1>2. Rule(a0, Unlock(q), a1)
  BY Names DEF Rule, UnlockRule, Takes, KeepsHeld, KeepsCache, Releasing, Unlock
<1>3. Rule(a1, Unlock(r), a2)
  BY Names DEF Rule, UnlockRule, Takes, KeepsHeld, KeepsCache, Releasing, Unlock
<1>4. Rule(a2, Unlock(t), a3)
  BY Names DEF Rule, UnlockRule, Takes, KeepsHeld, KeepsCache, Releasing, Released, Unlock
<1> HIDE DEF a0, a1, a2, a3
<1>5. Annotates(c, s)
  BY <1>2, <1>3, <1>4 DEF Annotates
<1>6. s \in Seq({s[k] : k \in 1 .. 3}) /\ Len(s) = 3
  OBVIOUS
<1>7. c[1] = a0 /\ c[3 + 1] = a3
  OBVIOUS
<1> HIDE DEF s, c
<1>8. Leads(s, a0, a3)
  BY <1>5, <1>6, <1>7, AnnotatedLeads
<1> QED BY <1>8 DEF s, a0, a3

\* The registers that a call destroys are written back; what they contain stays there.
LEMMA SaveCaller ==
  ASSUME NEW cur, NEW fr, NEW ap
  PROVE  Leads(<<FlushCallerSave>>,
               Released(cur, fr, ap, {}, FALSE, "noext"),
               Released(cur, fr, ap, {}, TRUE, "noext"))
<1> DEFINE a0 == Released(cur, fr, ap, {}, FALSE, "noext")
           a1 == Released(cur, fr, ap, {}, TRUE, "noext")
           s == <<FlushCallerSave>>
           c == <<a0, a1>>
<1>2. Rule(a0, FlushCallerSave, a1)
  BY Names DEF Rule, FlushRule, SameLocks, KeepsHeld, Locked, Released, FlushCallerSave
<1> HIDE DEF a0, a1
<1>3. Annotates(c, s)
  BY <1>2 DEF Annotates
<1>4. s \in Seq({s[k] : k \in 1 .. 1}) /\ Len(s) = 1
  OBVIOUS
<1>5. c[1] = a0 /\ c[1 + 1] = a1
  OBVIOUS
<1> HIDE DEF s, c
<1>6. Leads(s, a0, a1)
  BY <1>3, <1>4, <1>5, AnnotatedLeads
<1> QED BY <1>6 DEF s, a0, a1

\* The value and the address of a store.
LEMMA StoreOperands ==
  ASSUME NEW rt \in Sources, NEW rs \in Sources
  PROVE  Leads(<<Load(rt, "noext"), Load(rs, "noext"), Modify(Scratch0),
               Emit(Scratch0, {rs}, "noext")>>,
               Start("noext"),
               Releasing(rt, rs, Scratch0, {rt, Scratch0}, {}, {}, "noext"))
<1> DEFINE a0 == Start("noext")
           a1 == While(rt, None, None, {}, {rt}, {}, {}, "noext")
           a2 == While(rt, rs, None, {}, {rt, rs}, {}, {}, "noext")
           a3 == While(rt, rs, Scratch0, {}, {rt, rs}, {}, {Scratch0}, "noext")
           a4 == Releasing(rt, rs, Scratch0, {rt, Scratch0}, {}, {}, "noext")
           s == <<Load(rt, "noext"), Load(rs, "noext"), Modify(Scratch0),
                Emit(Scratch0, {rs}, "noext")>>
           c == <<a0, a1, a2, a3, a4>>
<1>1. rt \in InMemory /\ rs \in InMemory
  BY Names
<1>2. Rule(a0, Load(rt, "noext"), a1)
  BY <1>1, Names DEF Rule, LoadRule, LockRule, Takes, Locked, Sizes, Start, While, Load
<1>3. Rule(a1, Load(rs, "noext"), a2)
  BY <1>1, Names DEF Rule, LoadRule, LockRule, Takes, Locked, Sizes, While, Load
<1>4. Rule(a2, Modify(Scratch0), a3)
  BY <1>1, Names DEF Rule, ModifyRule, LockRule, Takes, Locked, While, Modify
<1>5. Rule(a3, Emit(Scratch0, {rs}, "noext"), a4)
  BY <1>1, Names DEF Rule, EmitRule, Ready, SameLocks, KeepsCache, Locked, While, Releasing,
     Emit
<1> HIDE DEF a0, a1, a2, a3, a4
<1>6. Annotates(c, s)
  BY <1>2, <1>3, <1>4, <1>5 DEF Annotates
<1>7. s \in Seq({s[k] : k \in 1 .. 4}) /\ Len(s) = 4
  OBVIOUS
<1>8. c[1] = a0 /\ c[4 + 1] = a4
  OBVIOUS
<1> HIDE DEF s, c
<1>9. Leads(s, a0, a4)
  BY <1>6, <1>7, <1>8, AnnotatedLeads
<1> QED BY <1>9 DEF s, a0, a4

\* A byte is stored while the locks are held.
LEMMA StoreWhileLocked ==
  ASSUME NEW rt, NEW rs
  PROVE  Leads(<<Read({Scratch0, rt})>>,
               Releasing(rt, rs, Scratch0, {rt, Scratch0}, {}, {}, "noext"),
               Releasing(rt, rs, Scratch0, {rt, Scratch0}, {}, {}, "noext"))
<1> DEFINE a0 == Releasing(rt, rs, Scratch0, {rt, Scratch0}, {}, {}, "noext")
           s == <<Read({Scratch0, rt})>>
           c == <<a0, a0>>
<1>2. Rule(a0, Read({Scratch0, rt}), a0)
  BY Names DEF Rule, ReadRule, Ready, SameLocks, KeepsHeld, KeepsCache, Releasing, Read
<1> HIDE DEF a0
<1>3. Annotates(c, s)
  BY <1>2 DEF Annotates
<1>4. s \in Seq({s[k] : k \in 1 .. 1}) /\ Len(s) = 1
  OBVIOUS
<1>5. c[1] = a0 /\ c[1 + 1] = a0
  OBVIOUS
<1> HIDE DEF s, c
<1>6. Leads(s, a0, a0)
  BY <1>3, <1>4, <1>5, AnnotatedLeads
<1> QED BY <1>6 DEF s, a0

\* An aligned store, after the locks were released.
LEMMA StoreAligned ==
  ASSUME NEW rt
  PROVE  Leads(<<Read({Scratch0, rt})>>,
               Released({rt, Scratch0}, {}, {}, {}, TRUE, "noext"),
               Released({}, {}, {}, {}, FALSE, "noext"))
<1> DEFINE a0 == Released({rt, Scratch0}, {}, {}, {}, TRUE, "noext")
           a1 == Released({}, {}, {}, {}, FALSE, "noext")
           s == <<Read({Scratch0, rt})>>
           c == <<a0, a1>>
<1>2. Rule(a0, Read({Scratch0, rt}), a1)
  BY Names DEF Rule, ReadRule, Ready, SameLocks, KeepsHeld, KeepsCache, Released, Read
<1> HIDE DEF a0, a1
<1>3. Annotates(c, s)
  BY <1>2 DEF Annotates
<1>4. s \in Seq({s[k] : k \in 1 .. 1}) /\ Len(s) = 1
  OBVIOUS
<1>5. c[1] = a0 /\ c[1 + 1] = a1
  OBVIOUS
<1> HIDE DEF s, c
<1>6. Leads(s, a0, a1)
  BY <1>3, <1>4, <1>5, AnnotatedLeads
<1> QED BY <1>6 DEF s, a0, a1

\* The same with the call of the routine for unaligned addresses.
LEMMA StoreUnaligned ==
  ASSUME NEW rt
  PROVE  Leads(<<Read({Scratch0, rt}), Call({}, {})>>,
               Released({rt, Scratch0}, {}, {}, {}, TRUE, "noext"),
               Released({}, {}, {}, {}, FALSE, "noext"))
<1> DEFINE a0 == Released({rt, Scratch0}, {}, {}, {}, TRUE, "noext")
           a1 == Released({}, {}, {}, {}, TRUE, "noext")
           a2 == Released({}, {}, {}, {}, FALSE, "noext")
           s == <<Read({Scratch0, rt}), Call({}, {})>>
           c == <<a0, a1, a2>>
<1>2. Rule(a0, Read({Scratch0, rt}), a1)
  BY Names DEF Rule, ReadRule, Ready, SameLocks, KeepsHeld, KeepsCache, Released, Read
<1>3. Rule(a1, Call({}, {}), a2)
  BY Names DEF Rule, CallRule, SameLocks, KeepsCache, Released, Call
<1> HIDE DEF a0, a1, a2
<1>4. Annotates(c, s)
  BY <1>2, <1>3 DEF Annotates
<1>5. s \in Seq({s[k] : k \in 1 .. 2}) /\ Len(s) = 2
  OBVIOUS
<1>6. c[1] = a0 /\ c[2 + 1] = a2
  OBVIOUS
<1> HIDE DEF s, c
<1>7. Leads(s, a0, a2)
  BY <1>4, <1>5, <1>6, AnnotatedLeads
<1> QED BY <1>7 DEF s, a0, a2

\* jit_emit_store_operation.
LEMMA StoreSafe ==
  ASSUME NEW rt \in Sources, NEW rs \in Sources, NEW p \in Paths
  PROVE  Safe(StoreOp(rt, rs, p), Start("noext"))
<1> DEFINE operands == <<Load(rt, "noext"), Load(rs, "noext"), Modify(Scratch0),
                         Emit(Scratch0, {rs}, "noext")>>
           unlocks == <<Unlock(rt), Unlock(rs), Unlock(Scratch0)>>
           given == Releasing(rt, rs, Scratch0, {rt, Scratch0}, {}, {}, "noext")
           released == Released({rt, Scratch0}, {}, {}, {}, FALSE, "noext")
           saved == Released({rt, Scratch0}, {}, {}, {}, TRUE, "noext")
           end == Released({}, {}, {}, {}, FALSE, "noext")
<1>1. Leads(operands, Start("noext"), given)
  BY StoreOperands
<1>2. Leads(unlocks, given, released)
  BY ReleaseThree, Names
<1>3. Leads(<<FlushCallerSave>>, released, saved)
  BY SaveCaller
<1>4. Leads(<<Read({Scratch0, rt})>>, given, given)
  BY StoreWhileLocked
<1>5. Leads(<<Read({Scratch0, rt})>>, saved, end)
  BY StoreAligned
<1>6. Leads(<<Read({Scratch0, rt}), Call({}, {})>>, saved, end)
  BY StoreUnaligned
<1>7. Clean(released) /\ Clean(end)
  BY DEF Clean, Locked, Released
<1> HIDE DEF given, released, saved, end
<1>8. CASE p = "byte"
  <2>1. StoreOp(rt, rs, p) = operands \o (<<Read({Scratch0, rt})>> \o unlocks)
    BY <1>8 DEF StoreOp
  <2> HIDE DEF operands, unlocks
  <2>2. Leads(<<Read({Scratch0, rt})>> \o unlocks, given, released)
    BY <1>2, <1>4, LeadsOn
  <2>3. Leads(StoreOp(rt, rs, p), Start("noext"), released)
    BY <1>1, <2>1, <2>2, LeadsOn
  <2> QED BY <1>7, <2>3 DEF Safe
<1> DEFINE released_saved == unlocks \o <<FlushCallerSave>>
<1>9. Leads(released_saved, given, saved)
  <2> HIDE DEF unlocks
  <2> QED BY <1>2, <1>3, LeadsOn
<1>10. CASE p = "aligned"
  <2>1. StoreOp(rt, rs, p) = operands \o (released_saved \o <<Read({Scratch0, rt})>>)
    BY <1>10 DEF StoreOp
  <2> HIDE DEF operands, released_saved
  <2>2. Leads(released_saved \o <<Read({Scratch0, rt})>>, given, end)
    BY <1>5, <1>9, LeadsOn
  <2>3. Leads(StoreOp(rt, rs, p), Start("noext"), end)
    BY <1>1, <2>1, <2>2, LeadsOn
  <2> QED BY <1>7, <2>3 DEF Safe
<1>11. CASE p = "unaligned"
  <2>1. StoreOp(rt, rs, p)
          = operands \o (released_saved \o <<Read({Scratch0, rt}), Call({}, {})>>)
    BY <1>11 DEF StoreOp
  <2> HIDE DEF operands, released_saved
  <2>2. Leads(released_saved \o <<Read({Scratch0, rt}), Call({}, {})>>, given, end)
    BY <1>6, <1>9, LeadsOn
  <2>3. Leads(StoreOp(rt, rs, p), Start("noext"), end)
    BY <1>1, <2>1, <2>2, LeadsOn
  <2> QED BY <1>7, <2>3 DEF Safe
<1> QED BY <1>8, <1>10, <1>11 DEF Paths

\* The address of a load, and a register for the value.
LEMMA LoadOperands ==
  ASSUME NEW rs \in Sources
  PROVE  Leads(<<Load(rs, "noext"), Modify(Scratch0), Emit(Scratch0, {rs}, "noext"),
               Modify(Scratch1)>>,
               Start("noext"),
               Releasing(rs, Scratch0, Scratch1, {Scratch0}, {Scratch1}, {Scratch1}, "noext"))
<1> DEFINE a0 == Start("noext")
           a1 == While(rs, None, None, {}, {rs}, {}, {}, "noext")
           a2 == While(rs, Scratch0, None, {}, {rs}, {}, {Scratch0}, "noext")
           a3 == While(rs, Scratch0, None, {}, {Scratch0}, {}, {}, "noext")
           a4 == Releasing(rs, Scratch0, Scratch1, {Scratch0}, {Scratch1}, {Scratch1}, "noext")
           s == <<Load(rs, "noext"), Modify(Scratch0), Emit(Scratch0, {rs}, "noext"),
                Modify(Scratch1)>>
           c == <<a0, a1, a2, a3, a4>>
<1>1. rs \in InMemory
  BY Names
<1>2. Rule(a0, Load(rs, "noext"), a1)
  BY <1>1, Names DEF Rule, LoadRule, LockRule, Takes, Locked, Sizes, Start, While, Load
<1>3. Rule(a1, Modify(Scratch0), a2)
  BY <1>1, Names DEF Rule, ModifyRule, LockRule, Takes, Locked, While, Modify
<1>4. Rule(a2, Emit(Scratch0, {rs}, "noext"), a3)
  BY <1>1, Names DEF Rule, EmitRule, Ready, SameLocks, KeepsCache, Locked, While, Emit
<1>5. Rule(a3, Modify(Scratch1), a4)
  BY <1>1, Names DEF Rule, ModifyRule, LockRule, Takes, Locked, While, Releasing, Modify
<1> HIDE DEF a0, a1, a2, a3, a4
<1>6. Annotates(c, s)
  BY <1>2, <1>3, <1>4, <1>5 DEF Annotates
<1>7. s \in Seq({s[k] : k \in 1 .. 4}) /\ Len(s) = 4
  OBVIOUS
<1>8. c[1] = a0 /\ c[4 + 1] = a4
  OBVIOUS
<1> HIDE DEF s, c
<1>9. Leads(s, a0, a4)
  BY <1>6, <1>7, <1>8, AnnotatedLeads
<1> QED BY <1>9 DEF s, a0, a4

\* A byte is loaded while the locks are held.
LEMMA LoadWhileLocked ==
  ASSUME NEW rs
  PROVE  Leads(<<Emit(Scratch1, {Scratch0}, "noext")>>,
               Releasing(rs, Scratch0, Scratch1, {Scratch0}, {Scratch1}, {Scratch1}, "noext"),
               Releasing(rs, Scratch0, Scratch1, {Scratch1}, {}, {}, "noext"))
<1> DEFINE a0 == Releasing(rs, Scratch0, Scratch1, {Scratch0}, {Scratch1}, {Scratch1}, "noext")
           a1 == Releasing(rs, Scratch0, Scratch1, {Scratch1}, {}, {}, "noext")
           s == <<Emit(Scratch1, {Scratch0}, "noext")>>
           c == <<a0, a1>>
<1>2. Rule(a0, Emit(Scratch1, {Scratch0}, "noext"), a1)
  BY Names DEF Rule, EmitRule, Ready, SameLocks, KeepsCache, Locked, Releasing, Emit
<1> HIDE DEF a0, a1
<1>3. Annotates(c, s)
  BY <1>2 DEF Annotates
<1>4. s \in Seq({s[k] : k \in 1 .. 1}) /\ Len(s) = 1
  OBVIOUS
<1>5. c[1] = a0 /\ c[1 + 1] = a1
  OBVIOUS
<1> HIDE DEF s, c
<1>6. Leads(s, a0, a1)
  BY <1>3, <1>4, <1>5, AnnotatedLeads
<1> QED BY <1>6 DEF s, a0, a1

\* An aligned load, after the locks were released.
LEMMA LoadAligned ==
  Leads(<<Emit(Scratch1, {Scratch0}, "noext")>>,
        Released({Scratch0}, {Scratch1}, {Scratch1}, {}, TRUE, "noext"),
        Released({Scratch1}, {}, {}, {}, FALSE, "noext"))
<1> DEFINE a0 == Released({Scratch0}, {Scratch1}, {Scratch1}, {}, TRUE, "noext")
           a1 == Released({Scratch1}, {}, {}, {}, FALSE, "noext")
           s == <<Emit(Scratch1, {Scratch0}, "noext")>>
           c == <<a0, a1>>
<1>2. Rule(a0, Emit(Scratch1, {Scratch0}, "noext"), a1)
  BY Names DEF Rule, EmitRule, Ready, SameLocks, KeepsCache, Locked, Released, Emit
<1> HIDE DEF a0, a1
<1>3. Annotates(c, s)
  BY <1>2 DEF Annotates
<1>4. s \in Seq({s[k] : k \in 1 .. 1}) /\ Len(s) = 1
  OBVIOUS
<1>5. c[1] = a0 /\ c[1 + 1] = a1
  OBVIOUS
<1> HIDE DEF s, c
<1>6. Leads(s, a0, a1)
  BY <1>3, <1>4, <1>5, AnnotatedLeads
<1> QED BY <1>6 DEF s, a0, a1

\* The same with the call of the routine for unaligned addresses, whose result is moved.
LEMMA LoadUnaligned ==
  Leads(<<Read({Scratch0}), Call({}, {}), Emit(Scratch1, {}, "noext")>>,
        Released({Scratch0}, {Scratch1}, {Scratch1}, {}, TRUE, "noext"),
        Released({Scratch1}, {}, {}, {}, FALSE, "noext"))
<1> DEFINE a0 == Released({Scratch0}, {Scratch1}, {Scratch1}, {}, TRUE, "noext")
           a1 == Released({}, {Scratch1}, {Scratch1}, {}, TRUE, "noext")
           a2 == Released({}, {Scratch1}, {Scratch1}, {}, FALSE, "noext")
           a3 == Released({Scratch1}, {}, {}, {}, FALSE, "noext")
           s == <<Read({Scratch0}), Call({}, {}), Emit(Scratch1, {}, "noext")>>
           c == <<a0, a1, a2, a3>>
<1>2. Rule(a0, Read({Scratch0}), a1)
  BY Names DEF Rule, ReadRule, Ready, SameLocks, KeepsHeld, KeepsCache, Released, Read
<1>3. Rule(a1, Call({}, {}), a2)
  BY Names DEF Rule, CallRule, SameLocks, KeepsCache, Released, Call
<1>4. Rule(a2, Emit(Scratch1, {}, "noext"), a3)
  BY Names DEF Rule, EmitRule, Ready, SameLocks, KeepsCache, Locked, Released, Emit
<1> HIDE DEF a0, a1, a2, a3
<1>5. Annotates(c, s)
  BY <1>2, <1>3, <1>4 DEF Annotates
<1>6. s \in Seq({s[k] : k \in 1 .. 3}) /\ Len(s) = 3
  OBVIOUS
<1>7. c[1] = a0 /\ c[3 + 1] = a3
  OBVIOUS
<1> HIDE DEF s, c
<1>8. Leads(s, a0, a3)
  BY <1>5, <1>6, <1>7, AnnotatedLeads
<1> QED BY <1>8 DEF s, a0, a3

\* The destination is modified only now: it may be given the host register that
\* contains the value.
LEMMA LoadResult ==
  ASSUME NEW rt \in Regs
  PROVE  Leads(<<Modify(rt), Emit(rt, {Scratch1}, "noext"), Unlock(rt)>>,
               Released({Scratch1}, {}, {}, {}, FALSE, "noext"),
               Start("noext"))
<1> DEFINE a0 == Released({Scratch1}, {}, {}, {}, FALSE, "noext")
           a1 == While(rt, None, None, {rt}, {Scratch1}, {}, {rt}, "noext")
           a2 == While(rt, None, None, {}, {}, {}, {}, "noext")
           a3 == Start("noext")
           s == <<Modify(rt), Emit(rt, {Scratch1}, "noext"), Unlock(rt)>>
           c == <<a0, a1, a2, a3>>
<1>1. rt \in InMemory /\ rt # Zero
  BY Names
<1>2. Rule(a0, Modify(rt), a1)
  BY <1>1, Names DEF Rule, ModifyRule, LockRule, Takes, Locked, Released, While, Modify
<1>3. Rule(a1, Emit(rt, {Scratch1}, "noext"), a2)
  BY <1>1, Names DEF Rule, EmitRule, Ready, SameLocks, KeepsCache, Locked, While, Emit
<1>4. Rule(a2, Unlock(rt), a3)
  BY <1>1, Names DEF Rule, UnlockRule, Takes, KeepsHeld, KeepsCache, While, Start, Unlock
<1> HIDE DEF a0, a1, a2, a3
<1>5. Annotates(c, s)
  BY <1>2, <1>3, <1>4 DEF Annotates
<1>6. s \in Seq({s[k] : k \in 1 .. 3}) /\ Len(s) = 3
  OBVIOUS
<1>7. c[1] = a0 /\ c[3 + 1] = a3
  OBVIOUS
<1> HIDE DEF s, c
<1>8. Leads(s, a0, a3)
  BY <1>5, <1>6, <1>7, AnnotatedLeads
<1> QED BY <1>8 DEF s, a0, a3

\* jit_emit_load_operation.
LEMMA LoadSafe ==
  ASSUME NEW rt \in Regs, NEW rs \in Sources, NEW p \in Paths
  PROVE  Safe(LoadOp(rt, rs, p), Start("noext"))
<1> DEFINE operands == <<Load(rs, "noext"), Modify(Scratch0), Emit(Scratch0, {rs}, "noext"),
                         Modify(Scratch1)>>
           unlocks == <<Unlock(rs), Unlock(Scratch0), Unlock(Scratch1)>>
           load == <<Emit(Scratch1, {Scratch0}, "noext")>>
           call == <<Read({Scratch0}), Call({}, {}), Emit(Scratch1, {}, "noext")>>
           result == <<Modify(rt), Emit(rt, {Scratch1}, "noext"), Unlock(rt)>>
           given == Releasing(rs, Scratch0, Scratch1, {Scratch0}, {Scratch1}, {Scratch1}, "noext")
           loaded == Releasing(rs, Scratch0, Scratch1, {Scratch1}, {}, {}, "noext")
           released == Released({Scratch0}, {Scratch1}, {Scratch1}, {}, FALSE, "noext")
           saved == Released({Scratch0}, {Scratch1}, {Scratch1}, {}, TRUE, "noext")
           value == Released({Scratch1}, {}, {}, {}, FALSE, "noext")
<1>1. Leads(operands, Start("noext"), given)
  BY LoadOperands
<1>2. Leads(unlocks, given, released) /\ Leads(unlocks, loaded, value)
  BY ReleaseThree, Names
<1>3. Leads(<<FlushCallerSave>>, released, saved)
  BY SaveCaller
<1>4. Leads(load, given, loaded)
  BY LoadWhileLocked
<1>5. Leads(load, saved, value)
  BY LoadAligned
<1>6. Leads(call, saved, value)
  BY LoadUnaligned
<1>7. Leads(result, value, Start("noext"))
  BY LoadResult
<1>8. Clean(Start("noext"))
  BY DEF Clean, Locked, Start, While
<1> HIDE DEF given, loaded, released, saved, value
<1>9. CASE p = "byte"
  <2>1. LoadOp(rt, rs, p) = (operands \o (load \o unlocks)) \o result
    BY <1>9 DEF LoadOp
  <2> HIDE DEF operands, unlocks, load, result
  <2>2. Leads(load \o unlocks, given, value)
    BY <1>2, <1>4, LeadsOn
  <2>3. Leads(operands \o (load \o unlocks), Start("noext"), value)
    BY <1>1, <2>2, LeadsOn
  <2>4. Leads(LoadOp(rt, rs, p), Start("noext"), Start("noext"))
    BY <1>7, <2>1, <2>3, LeadsOn
  <2> QED BY <1>8, <2>4 DEF Safe
<1> DEFINE released_saved == unlocks \o <<FlushCallerSave>>
<1>10. Leads(released_saved, given, saved)
  <2> HIDE DEF unlocks
  <2> QED BY <1>2, <1>3, LeadsOn
<1>11. CASE p = "aligned"
  <2>1. LoadOp(rt, rs, p) = (operands \o (released_saved \o load)) \o result
    BY <1>11 DEF LoadOp
  <2> HIDE DEF operands, released_saved, load, result
  <2>2. Leads(released_saved \o load, given, value)
    BY <1>5, <1>10, LeadsOn
  <2>3. Leads(operands \o (released_saved \o load), Start("noext"), value)
    BY <1>1, <2>2, LeadsOn
  <2>4. Leads(LoadOp(rt, rs, p), Start("noext"), Start("noext"))
    BY <1>7, <2>1, <2>3, LeadsOn
  <2> QED BY <1>8, <2>4 DEF Safe
<1>12. CASE p = "unaligned"
  <2>1. LoadOp(rt, rs, p) = (operands \o (released_saved \o call)) \o result
    BY <1>12 DEF LoadOp
  <2> HIDE DEF operands, released_saved, call, result
  <2>2. Leads(released_saved \o call, given, value)
    BY <1>6, <1>10, LeadsOn
  <2>3. Leads(operands \o (released_saved \o call), Start("noext"), value)
    BY <1>1, <2>2, LeadsOn
  <2>4. Leads(LoadOp(rt, rs, p), Start("noext"), Start("noext"))
    BY <1>7, <2>1, <2>3, LeadsOn
  <2> QED BY <1>8, <2>4 DEF Safe
<1> QED BY <1>9, <1>11, <1>12 DEF Paths

\* Every instruction is safe from the start.
LEMMA ScriptsSafe == \A s \in Scripts : \E e : Safe(s, Start(e))
<1>1. Extensions \subseteq Sizes /\ "sext" \in Sizes /\ Regs \subseteq Sources
  BY RegisterAssumption, Names DEF Sizes
<1>2. \A rd \in Regs \cup {Cond}, rs, rt \in Sources, e \in Sizes :
        Safe(ThreeRegOp(rd, rs, rt, e), Start(e)) /\ Safe(TwoRegOp(rd, rs, e), Start(e))
  BY ThreeRegSafe, TwoRegSafe
<1>3. \A rd \in Regs, rt, rs \in Sources, e \in Sizes : Safe(ShiftOp(rd, rt, rs, e), Start(e))
  BY ShiftSafe
<1>4. \A r \in Regs \cup {Cond} : Safe(ImmediateOp(r), Start("noext"))
  BY ImmediateSafe
<1>5. \A r \in Regs : Safe(LinkOp(r), Start("noext"))
  BY LinkSafe
<1>6. \A r \in InMemory : Safe(SaveOp(r), Start("noext"))
  BY SaveSafe
<1>7. \A rt, rs \in Sources, p \in Paths : Safe(StoreOp(rt, rs, p), Start("noext"))
  BY StoreSafe
<1>8. \A rt \in Regs, rs \in Sources, p \in Paths : Safe(LoadOp(rt, rs, p), Start("noext"))
  BY LoadSafe
<1>9. \A r \in Sources : /\ Safe(MoveFromOp(r), Start("noext"))
                         /\ Safe(MoveToOp(r), Start("noext"))
                         /\ Safe(Cop0Op(r), Start("noext"))
  BY MoveFromSafe, MoveToSafe, Cop0Safe
<1>10. \A s \in {VectorOp, DelaySlotOp, StaticDelaySlotOp, ImpossibleDelaySlotOp, LatentTestOp,
                 EndOfBlockOp, LabelOp} : Safe(s, Start("noext"))
  BY VectorSafe, DelaySlotSafe, StaticDelaySlotSafe, ImpossibleDelaySlotSafe, LatentTestSafe,
     EndOfBlockSafe, LabelSafe
<1> SUFFICES ASSUME NEW s \in Scripts PROVE \E e : Safe(s, Start(e))
  OBVIOUS
<1>11. CASE s \in {ThreeRegOp(rd, rs, rt, e) :
                     rd \in Regs, rs \in Sources, rt \in Sources, e \in Extensions}
  BY <1>1, <1>2, <1>11
<1>12. CASE s \in {ThreeRegOp(Cond, rs, rt, "sext") : rs \in Sources, rt \in Sources}
  <2>1. PICK rs \in Sources, rt \in Sources : s = ThreeRegOp(Cond, rs, rt, "sext")
    BY <1>12
  <2> QED BY <1>1, <1>2, <2>1
<1>13. CASE s \in {TwoRegOp(rd, rs, e) : rd \in Regs, rs \in Sources, e \in Extensions}
  BY <1>1, <1>2, <1>13
<1>14. CASE s \in {TwoRegOp(Cond, rs, "sext") : rs \in Sources}
  BY <1>1, <1>2, <1>14
<1>15. CASE s \in {ShiftOp(rd, rt, rs, e) :
                     rd \in Regs, rt \in Sources, rs \in Sources, e \in Extensions}
  BY <1>1, <1>3, <1>15
<1>16. CASE s \in {ImmediateOp(r) : r \in Regs \cup {Cond}} \cup {LinkOp(r) : r \in Regs}
                  \cup {SaveOp(r) : r \in InMemory}
  BY <1>4, <1>5, <1>6, <1>16
<1>17. CASE s \in {StoreOp(rt, rs, p) : rt \in Sources, rs \in Sources, p \in Paths}
                  \cup {LoadOp(rt, rs, p) : rt \in Regs, rs \in Sources, p \in Paths}
  BY <1>7, <1>8, <1>17
<1>18. CASE s \in {MoveFromOp(r) : r \in Sources} \cup {MoveToOp(r) : r \in Sources}
                  \cup {Cop0Op(r) : r \in Sources}
  BY <1>9, <1>18
<1>19. CASE s \in {VectorOp, DelaySlotOp, StaticDelaySlotOp, ImpossibleDelaySlotOp, LatentTestOp,
                   EndOfBlockOp, LabelOp}
  BY <1>10, <1>19
<1> QED BY <1>11, <1>12, <1>13, <1>14, <1>15, <1>16, <1>17, <1>18, <1>19 DEF Scripts

-----------------------------------------------------------------------------
(***************************************************************************)
(* The inductive invariant.                                                *)
(***************************************************************************)

\* Before the first instruction the cache is empty and sr[] has every value.
LEMMA InitInv == Init => CacheInv
<1> SUFFICES ASSUME Init PROVE CacheInv
  OBVIOUS
<1>1. None \notin InMemory /\ Zero # None
  BY Names
<1>2. TypeOK /\ numCallerSave \in CallerSaves
  BY DEF Init, TypeOK
<1>3. LiveOnce /\ Recoverable /\ SignStateTrue /\ ZeroIsZero
  BY <1>1 DEF Init, LiveOnce, Recoverable, SignStateTrue, ZeroIsZero
<1> DEFINE A == Start("noext")
<1>4. Matches(A)
  <2>1. LocksCounted(A)
    BY DEF Init, LocksCounted
  <2>2. /\ LockedHeld(A) /\ CurrentHeld(A) /\ SizedHeld(A) /\ FreshHeld(A)
        /\ ApartHeld(A) /\ GoneFromCache(A) /\ SavedFlushed(A)
    BY DEF Start, While, Locked, LockedHeld, CurrentHeld, SizedHeld, FreshHeld, ApartHeld,
           GoneFromCache, SavedFlushed
  <2>3. LiveCurrent(A)
    BY <1>1 DEF Init, Start, While, Locked, LiveCurrent
  <2> QED BY <2>1, <2>2, <2>3 DEF Matches
<1>5. Safe(<<>>, A)
  <2> DEFINE s == <<>>
             c == <<A>>
  <2>1. s \in Seq({}) /\ Len(s) = 0
    OBVIOUS
  <2>2. Annotates(c, s)
    BY <2>1 DEF Annotates
  <2>3. c[1] = A /\ c[0 + 1] = A
    OBVIOUS
  <2>4. Clean(A)
    BY DEF Clean, Start, While, Locked
  <2> HIDE DEF s, c, A
  <2>5. Leads(s, A, A)
    BY <2>1, <2>2, <2>3, AnnotatedLeads
  <2>6. Safe(s, A)
    BY <2>4, <2>5 DEF Safe
  <2> QED BY <2>6 DEF s
<1>6. todo = <<>>
  BY DEF Init
<1> HIDE DEF A
<1> QED BY <1>2, <1>3, <1>4, <1>5, <1>6 DEF CacheInv, Always

\* Between two instructions nothing is locked, so that any script can start.
LEMMA BeginStep ==
  ASSUME CacheInv, Begin, UNCHANGED numCallerSave
  PROVE  CacheInv'
<1>1. PICK A : Safe(todo, A) /\ Matches(A)
  BY DEF CacheInv
<1>2. Clean(A)
  BY <1>1, SafeEnd DEF Begin, Quiet
<1>3. PICK e : Safe(todo', Start(e))
  BY ScriptsSafe DEF Begin
<1>4. /\ UNCHANGED <<at, locks, sign, modified, timestamp, mem, numCallerSave>>
      /\ holds' = [i \in Entries |-> IF at[i] = None THEN None ELSE holds[i]]
      /\ ext' = [i \in Entries |-> IF at[i] = None THEN {} ELSE ext[i]]
      /\ held' = [r \in MipsRegs |-> 0]
  BY DEF Begin, cache
<1>5. \A i \in Entries : at[i] # None => holds'[i] = holds[i] /\ ext'[i] = ext[i]
  BY <1>4
<1>6. None \notin InMemory /\ Zero # None
  BY Names
<1>7. Always'
  <2>1. TypeOK' /\ (numCallerSave \in CallerSaves)'
    <3>1. /\ holds \in [Entries -> MipsRegs \cup {None}]
          /\ ext \in [Entries -> SUBSET {"sext", "zext"}]
      BY DEF CacheInv, Always, TypeOK
    <3>2. /\ holds' \in [Entries -> MipsRegs \cup {None}]
          /\ ext' \in [Entries -> SUBSET {"sext", "zext"}]
          /\ held' \in [MipsRegs -> Entries \cup {0}]
      BY <1>4, <3>1
    <3> QED BY <1>4, <3>2 DEF CacheInv, Always, TypeOK
  <2>2. LiveOnce'
    BY <1>4 DEF CacheInv, Always, LiveOnce
  <2>3. Recoverable'
    <3> SUFFICES ASSUME NEW q \in InMemory \ mem'
                 PROVE  \E j \in Entries : at[j] = q /\ modified[j] /\ holds'[j] = q
      BY <1>4 DEF Recoverable
    <3>1. PICK j \in Entries : at[j] = q /\ modified[j] /\ holds[j] = q
      BY <1>4 DEF CacheInv, Always, Recoverable
    <3> QED BY <1>5, <1>6, <3>1
  <2>4. SignStateTrue'
    BY <1>4, <1>5 DEF CacheInv, Always, SignStateTrue
  <2>5. ZeroIsZero'
    BY <1>4, <1>5, <1>6 DEF CacheInv, Always, ZeroIsZero
  <2> QED BY <2>1, <2>2, <2>3, <2>4, <2>5 DEF Always
<1> DEFINE B == Start(e)
<1>8. /\ Locked(B) = {} /\ B.pending = {} /\ B.current = {} /\ B.sized = {} /\ B.fresh = {}
      /\ B.apart = {} /\ B.gone = {} /\ ~B.saved /\ \A r : r # None => Count(B, r) = 0
  BY DEF Start, While, Locked, Count
<1> HIDE DEF B
<1>9. Matches(B)'
  <2>1. LocksCounted(B)'
    <3>1. \A r : r # None => Count(A, r) = 0
      BY <1>2 DEF Clean, Locked, Count
    <3> QED BY <1>1, <1>4, <1>8, <3>1 DEF Matches, LocksCounted
  <2>2. LiveCurrent(B)'
    BY <1>1, <1>2, <1>4, <1>5, <1>6, <1>8 DEF Matches, LiveCurrent, Clean
  <2>3. /\ LockedHeld(B)' /\ CurrentHeld(B)' /\ SizedHeld(B)' /\ FreshHeld(B)'
        /\ ApartHeld(B)' /\ GoneFromCache(B)' /\ SavedFlushed(B)'
    BY <1>8 DEF LockedHeld, CurrentHeld, SizedHeld, FreshHeld, ApartHeld, GoneFromCache,
                SavedFlushed
  <2> QED BY <2>1, <2>2, <2>3 DEF Matches
<1>10. Safe(todo', B)
  BY <1>3 DEF B
<1> QED BY <1>7, <1>9, <1>10 DEF CacheInv

\* A step of a script obeys the rule of its annotation.
LEMMA ScriptStep ==
  ASSUME CacheInv, ~Quiet, Next, ~Begin
  PROVE  CacheInv'
<1>1. PICK A : Safe(todo, A) /\ Matches(A)
  BY DEF CacheInv
<1>2. PICK B : Rule(A, Head(todo), B) /\ Safe(Tail(todo), B)
  BY <1>1, SafeStep DEF Quiet
<1>3. PICK s : s = Head(todo)
  OBVIOUS
<1>4. Always /\ UNCHANGED numCallerSave /\ Matches(A) /\ Rule(A, s, B)
  BY <1>1, <1>2, <1>3 DEF CacheInv, Next
<1>5. todo' = Tail(todo) => Safe(todo', B)
  BY <1>2
<1>6. CASE s.op = "load" /\ LoadMipsRegister(s.r, s.e)
  <2>1. LoadRule(A, s, B)
    BY <1>4, <1>6 DEF Rule, ModifyRule, ImmediateRule, UnlockRule, FlushRule, EmitRule,
                      ReadRule, CallRule
  <2>2. todo' = Tail(todo)
    BY <1>6 DEF LoadMipsRegister, Done
  <2> QED BY <1>4, <1>5, <1>6, <2>1, <2>2, LoadStep DEF CacheInv
<1>7. CASE s.op = "modify" /\ ModifyMipsRegister(s.r)
  <2>1. ModifyRule(A, s, B)
    BY <1>4, <1>7 DEF Rule, LoadRule, ImmediateRule, UnlockRule, FlushRule, EmitRule,
                      ReadRule, CallRule
  <2>2. todo' = Tail(todo)
    BY <1>7 DEF ModifyMipsRegister, Done
  <2> QED BY <1>4, <1>5, <1>7, <2>1, <2>2, ModifyStep DEF CacheInv
<1>8. CASE s.op = "immediate" /\ ImmediateMipsRegister(s.r)
  <2>1. ImmediateRule(A, s, B)
    BY <1>4, <1>8 DEF Rule, LoadRule, ModifyRule, UnlockRule, FlushRule, EmitRule,
                      ReadRule, CallRule
  <2>2. todo' = Tail(todo)
    BY <1>8 DEF ImmediateMipsRegister, Done
  <2> QED BY <1>4, <1>5, <1>8, <2>1, <2>2, ImmediateStep DEF CacheInv
<1>9. CASE s.op = "unlock" /\ UnlockMipsRegister(s.r)
  <2>1. UnlockRule(A, s, B)
    BY <1>4, <1>9 DEF Rule, LoadRule, ModifyRule, ImmediateRule, FlushRule, EmitRule,
                      ReadRule, CallRule
  <2>2. todo' = Tail(todo)
    BY <1>9 DEF UnlockMipsRegister, Done
  <2> QED BY <1>4, <1>5, <1>9, <2>1, <2>2, UnlockStep DEF CacheInv
<1>10. CASE s.op = "flush" /\ Flush(FlushSet(s))
  <2>1. FlushRule(A, s, B)
    BY <1>4, <1>10 DEF Rule, LoadRule, ModifyRule, ImmediateRule, UnlockRule, EmitRule,
                       ReadRule, CallRule
  <2>2. todo' = Tail(todo)
    BY <1>10 DEF Flush, Done
  <2> QED BY <1>4, <1>5, <1>10, <2>1, <2>2, FlushStep DEF CacheInv
<1>11. CASE s.op = "emit" /\ EmitOp(s.dst)
  <2>1. EmitRule(A, s, B)
    BY <1>4, <1>11 DEF Rule, LoadRule, ModifyRule, ImmediateRule, UnlockRule, FlushRule,
                       ReadRule, CallRule
  <2>2. todo' = Tail(todo)
    BY <1>11 DEF EmitOp, Done
  <2> QED BY <1>4, <1>5, <1>11, <2>1, <2>2, EmitStep DEF CacheInv
<1>12. CASE s.op \in {"read", "jump"} /\ EmitRead
  <2>1. ReadRule(A, s, B)
    BY <1>4, <1>12 DEF Rule, LoadRule, ModifyRule, ImmediateRule, UnlockRule, FlushRule,
                       EmitRule, CallRule
  <2>2. todo' = Tail(todo)
    BY <1>12 DEF EmitRead, Done
  <2> QED BY <1>4, <1>5, <1>12, <2>1, <2>2, ReadStep DEF CacheInv
<1>13. CASE s.op = "call" /\ EmitCall(s.dst)
  <2>1. CallRule(A, s, B)
    BY <1>4, <1>13 DEF Rule, LoadRule, ModifyRule, ImmediateRule, UnlockRule, FlushRule,
                       EmitRule, ReadRule
  <2>2. todo' = Tail(todo)
    BY <1>13 DEF EmitCall, Done
  <2> QED BY <1>4, <1>5, <1>13, <2>1, <2>2, CallStep DEF CacheInv
<1> QED BY <1>3, <1>6, <1>7, <1>8, <1>9, <1>10, <1>11, <1>12, <1>13 DEF Next, Next_, Step

\* A step that changes nothing.
LEMMA StutterStep ==
  ASSUME CacheInv, UNCHANGED vars
  PROVE  CacheInv'
BY DEF CacheInv, Always, TypeOK, LiveOnce, Recoverable, SignStateTrue, ZeroIsZero, Matches,
       LocksCounted, LockedHeld, LiveCurrent, CurrentHeld, SizedHeld, FreshHeld, ApartHeld,
       GoneFromCache, SavedFlushed, CallerSave, vars, cache, machine

\* The invariant is inductive.
LEMMA InvStep == CacheInv /\ [Next]_vars => CacheInv'
<1>1. ASSUME CacheInv, Next PROVE CacheInv'
  <2>1. UNCHANGED numCallerSave
    BY <1>1 DEF Next
  <2>2. CASE Begin
    BY <1>1, <2>1, <2>2, BeginStep
  <2>3. CASE ~Begin
    <3>1. ~Quiet
      BY <1>1, <2>3 DEF Next, Next_
    <3> QED BY <1>1, <2>3, <3>1, ScriptStep
  <2> QED BY <2>2, <2>3
<1> QED BY <1>1, StutterStep

\* Whatever instructions follow each other, what is left of a script is safe from
\* an annotation that is true (RegisterCache and the code that uses it).
THEOREM CacheCorrect == Spec => []CacheInv
BY InitInv, InvStep, PTL DEF Spec

-----------------------------------------------------------------------------
(***************************************************************************)
(* What follows for the properties.                                        *)
(***************************************************************************)

\* The rule of the next step says that its operands are there.
LEMMA InvOperands == CacheInv => OperandsInPlace
<1> SUFFICES ASSUME CacheInv, ~Quiet
             PROVE  /\ Step.op \in {"emit", "read", "jump"} =>
                         \A r \in Step.src :
                           /\ holds[held[r]] = r
                           /\ r \in Sources /\ Step.e # "noext" => Step.e \in ext[held[r]]
                    /\ Step.op = "call" => Step.src \subseteq mem
                    /\ Step.op = "jump" => mem = InMemory
  BY DEF OperandsInPlace
<1>1. PICK A : Safe(todo, A) /\ Matches(A)
  BY DEF CacheInv
<1>2. PICK B : Rule(A, Step, B)
  BY <1>1, SafeStep DEF Quiet, Step
<1>3. PICK s : s = Step
  OBVIOUS
\* A register that is not in the cache has its value in sr[].
<1>4. \A r \in A.gone \cap InMemory : r \in mem
  BY <1>1 DEF CacheInv, Always, Recoverable, Matches, GoneFromCache
<1>5. CASE s.op \in {"emit", "read", "jump"}
  <2>1. EmitRule(A, s, B) \/ ReadRule(A, s, B)
    BY <1>2, <1>3, <1>5 DEF Rule, LoadRule, ModifyRule, ImmediateRule, UnlockRule, FlushRule,
                            CallRule
  <2>2. Ready(A, s) /\ (s.op = "jump" => InMemory \subseteq A.gone)
    BY <2>1 DEF EmitRule, ReadRule
  <2>3. \A r \in s.src : holds[held[r]] = r
    BY <1>1, <2>2 DEF Ready, Matches, CurrentHeld
  <2>4. \A r \in s.src : r \in Sources /\ s.e # "noext" => s.e \in ext[held[r]]
    BY <1>1, <2>2 DEF Ready, Matches, SizedHeld
  <2>5. s.op = "jump" => mem = InMemory
    BY <1>4, <2>2 DEF CacheInv, Always, TypeOK
  <2> QED BY <1>3, <1>5, <2>3, <2>4, <2>5
<1>6. CASE s.op = "call"
  <2>1. CallRule(A, s, B)
    BY <1>2, <1>3, <1>6 DEF Rule, LoadRule, ModifyRule, ImmediateRule, UnlockRule, FlushRule,
                            EmitRule, ReadRule
  <2> QED BY <1>3, <1>4, <1>6, <2>1 DEF CallRule
<1> QED BY <1>3, <1>5, <1>6

\* Between two instructions no value is pending.
LEMMA InvCoherent == CacheInv => RegisterFileCoherent
<1> SUFFICES ASSUME CacheInv PROVE RegisterFileCoherent
  OBVIOUS
<1>1. TypeOK /\ LiveOnce /\ Recoverable
  BY DEF CacheInv, Always
<1>2. Quiet => \A i \in Entries : at[i] \in InMemory => holds[i] = at[i]
  <2> SUFFICES ASSUME Quiet PROVE \A i \in Entries : at[i] \in InMemory => holds[i] = at[i]
    OBVIOUS
  <2>1. PICK A : Safe(todo, A) /\ Matches(A)
    BY DEF CacheInv
  <2>2. Clean(A)
    BY <2>1, SafeEnd DEF Quiet
  <2> QED BY <2>1, <2>2 DEF Matches, LiveCurrent, Clean
<1>3. \A r \in InMemory \ mem : \E i \in Live(r) : modified[i]
  BY <1>1 DEF Recoverable, Live
<1> QED BY <1>1, <1>2, <1>3 DEF RegisterFileCoherent, LiveOnce

\* What an assertion needs, the rule of its step demands.
LEMMA InvAssertions == CacheInv => AssertionsHold
<1> SUFFICES ASSUME CacheInv PROVE AssertionsHold
  OBVIOUS
<1>1. PICK A : Safe(todo, A) /\ Matches(A)
  BY DEF CacheInv
<1>2. Always
  BY DEF CacheInv
<1>3. ASSUME ~Quiet
      PROVE  /\ Step.op \in {"load", "modify", "immediate"} => Found(Step.r) # {}
             /\ Step.op = "unlock" => \E i \in Live(Step.r) : locks[i] > 0
             /\ Step.op = "flush" => \A i \in FlushSet(Step) : locks[i] = 0
  <2>1. PICK B : Rule(A, Step, B)
    BY <1>1, <1>3, SafeStep DEF Quiet, Step
  <2>2. PICK s : s = Step
    OBVIOUS
  <2>3. ASSUME s.op \in {"load", "modify", "immediate"} PROVE Found(s.r) # {}
    <3>1. LoadRule(A, s, B) \/ ModifyRule(A, s, B) \/ ImmediateRule(A, s, B)
      BY <2>1, <2>2, <2>3 DEF Rule, UnlockRule, FlushRule, EmitRule, ReadRule, CallRule
    <3>2. LockRule(A, s.r, B)
      BY <3>1 DEF LoadRule, ModifyRule, ImmediateRule
    <3>3. s.r \in MipsRegs /\ None \in {A.l1, A.l2, A.l3}
      BY <3>2 DEF LockRule, Takes
    <3> QED BY <1>1, <1>2, <3>3, Allocated
  <2>4. ASSUME s.op = "unlock" PROVE \E i \in Live(s.r) : locks[i] > 0
    <3>1. UnlockRule(A, s, B)
      BY <2>1, <2>2, <2>4 DEF Rule, LoadRule, ModifyRule, ImmediateRule, FlushRule, EmitRule,
                              ReadRule, CallRule
    <3>2. s.r \in MipsRegs /\ s.r # None /\ Takes(B, A, s.r)
      BY <3>1, Names DEF UnlockRule
    <3>3. s.r \in Locked(A) /\ Count(A, s.r) = Count(B, s.r) + 1
      BY <3>2, CountTakes
    <3>4. held[s.r] \in Entries /\ at[held[s.r]] = s.r
      BY <1>1, <3>3 DEF Matches, LockedHeld
    <3>5. locks[held[s.r]] = Count(B, s.r) + 1 /\ Count(B, s.r) \in Nat
      BY <1>1, <3>2, <3>3, <3>4 DEF Matches, LocksCounted, Count
    <3> QED BY <3>4, <3>5 DEF Live
  <2>5. ASSUME s.op = "flush" PROVE \A i \in FlushSet(s) : locks[i] = 0
    <3>1. FlushRule(A, s, B)
      BY <2>1, <2>2, <2>5 DEF Rule, LoadRule, ModifyRule, ImmediateRule, UnlockRule, EmitRule,
                              ReadRule, CallRule
    <3>2. \A r : r # None => Count(A, r) = 0
      BY <3>1 DEF FlushRule, Locked, Count
    <3> QED BY <1>1, <3>2 DEF FlushSet, Matches, LocksCounted
  <2> QED BY <2>2, <2>3, <2>4, <2>5
<1>4. Quiet => \A i \in Entries : locks[i] = 0
  <2> SUFFICES ASSUME Quiet PROVE \A i \in Entries : locks[i] = 0
    OBVIOUS
  <2>1. Clean(A)
    BY <1>1, SafeEnd DEF Quiet
  <2>2. \A r : r # None => Count(A, r) = 0
    BY <2>1 DEF Clean, Locked, Count
  <2> QED BY <1>1, <2>2 DEF Matches, LocksCounted
<1>5. \A i \in Entries : at[i] = Zero => ~modified[i]
  BY <1>2 DEF Always, ZeroIsZero
<1> QED BY <1>3, <1>4, <1>5 DEF AssertionsHold

\* Every emitted instruction finds its operands, whatever was evicted, unlocked
\* or flushed since they were loaded (load_mips_register and modify_mips_register
\* as jit_instruction and the delay-slot handlers call them).
THEOREM OperandsAlwaysInPlace == Spec => []OperandsInPlace
BY CacheCorrect, InvOperands, PTL

\* Between two instructions no register's value is lost (writeback_register in
\* find_register's callers and in the three flushes).
THEOREM FileCoherent == Spec => []RegisterFileCoherent
BY CacheCorrect, InvCoherent, PTL

\* The extension the cache believes in is there, so that an extension may be left
\* out (load_mips_register_sext and load_mips_register_zext).
THEOREM SignsTrue == Spec => []SignStateTrue
<1>1. CacheInv => SignStateTrue
  BY DEF CacheInv, Always
<1> QED BY <1>1, CacheCorrect, PTL

\* No assertion of the class fails: there is always a register to give out,
\* although no more than three are there on the smallest ports, and everything
\* that is unlocked or flushed is in the state it has to be in.
THEOREM AssertionsNeverFail == Spec => []AssertionsHold
BY CacheCorrect, InvAssertions, PTL

=============================================================================
