----------------------------- MODULE KVAllocator -----------------------------
(***************************************************************************)
(* The bookkeeping base class of pimkv/allocator.py: block tables and      *)
(* reference counts over a pool of physical blocks.  Every operation of    *)
(* the sequence-level interface is an action.  The loops of the code       *)
(* (allocate n blocks, drop a list of blocks) are steps of their own, one  *)
(* block each: while a call is in progress (call # "none") no other call   *)
(* starts, as the code is single threaded.                                 *)
(*                                                                         *)
(* The placement policy is a parameter: the actions take the value nf of   *)
(* the policy's num_free and the block b its _alloc_one returned.  Next    *)
(* closes them with the weakest policy, which may return any block that is *)
(* not live; the policies (FreeListPool, PimAware) implement Spec.         *)
(*                                                                         *)
(* cow_copies is a report-only counter and is left out.                    *)
(***************************************************************************)
EXTENDS Integers, Sequences, FiniteSets

CONSTANTS
    NumBlocks,   \* num_blocks, the size of the pool
    Seqs,        \* sequence ids (requests and the ids of pinned prefix caches)
    Width,       \* how many scratch lists a caller holds at once
    MaxNew,      \* bound: blocks asked for by one call
    MaxAlloc     \* bound: value of allocated_total at which no call starts

ASSUME NumBlocksAssumption == NumBlocks \in Nat \ {0}
ASSUME SeqsAssumption == IsFiniteSet(Seqs) /\ Seqs \cap Int = {}
ASSUME BoundsAssumption == Width \in Nat /\ MaxNew \in Nat /\ MaxAlloc \in Nat

Block == 0 .. NumBlocks - 1
Slot == 1 .. Width
Calls == {"none", "admit", "scratch", "unref", "release", "adopt"}

VARIABLES
    tables,           \* seq id -> its block table, for the admitted ids
    refcount,         \* live block -> number of references
    allocated_total,  \* physical block allocations
    freed_total,      \* physical frees
    scratch,          \* the lists alloc_scratch returned, held by the caller
    call,             \* the call in progress
    cur,              \* its sequence, 0 if none
    slot,             \* where its caller keeps the returned scratch list
    left,             \* how many blocks it still has to allocate
    got,              \* the blocks it has collected so far
    todo              \* the blocks whose reference it still has to drop

locals == <<cur, slot, left, got, todo>>
vars == <<tables, refcount, allocated_total, freed_total, scratch, call, locals>>

Elems(l) == {l[i] : i \in DOMAIN l}
Distinct(l) == \A i, j \in DOMAIN l : l[i] = l[j] => i = j
Replace(l, x, y) == [i \in DOMAIN l |-> IF l[i] = x THEN y ELSE l[i]]

\* Functions used as dictionaries.
Put(d, k, v) == [x \in DOMAIN d \cup {k} |-> IF x = k THEN v ELSE d[x]]
Pop(d, k) == [x \in DOMAIN d \ {k} |-> d[x]]

live == DOMAIN refcount
num_live == Cardinality(live)

\* num_free of the weakest policy.
num_free == NumBlocks - num_live

Init ==
    /\ tables = << >>
    /\ refcount = << >>
    /\ allocated_total = 0
    /\ freed_total = 0
    /\ scratch = [x \in Slot |-> << >>]
    /\ call = "none"
    /\ cur = 0
    /\ slot = 0
    /\ left = 0
    /\ got = << >>
    /\ todo = << >>

-----------------------------------------------------------------------------
(* Reference-counted primitives *)

Alloc(b) ==
    /\ refcount' = Put(refcount, b, 1)
    /\ allocated_total' = allocated_total + 1

\* Mutant: admit_shared and fork take no reference of their own.
AddrefForgotten(S) == UNCHANGED refcount

Addref(S) ==
    refcount' = [b \in live |-> IF b \in S THEN refcount[b] + 1 ELSE refcount[b]]

\* Mutant: an entry whose count reaches zero is not deleted.
UnrefKeepsEntry(b) ==
    /\ refcount' = [refcount EXCEPT ![b] = @ - 1]
    /\ freed_total' = IF refcount[b] = 1 THEN freed_total + 1 ELSE freed_total

\* Mutant: the free is not counted.
UnrefUncounted(b) ==
    /\ refcount' = IF refcount[b] = 1 THEN Pop(refcount, b)
                                      ELSE [refcount EXCEPT ![b] = @ - 1]
    /\ UNCHANGED freed_total

Unref(b) ==
    IF refcount[b] = 1
    THEN /\ refcount' = Pop(refcount, b)
         /\ freed_total' = freed_total + 1
    ELSE /\ refcount' = [refcount EXCEPT ![b] = @ - 1]
         /\ UNCHANGED freed_total

-----------------------------------------------------------------------------
(* Calls that allocate *)

\* The caller may ask for n more blocks (the bound on allocated_total).
MayAllocate(n) == allocated_total + n <= MaxAlloc

\* Mutant: the pool is not checked before the first block is taken.
AdmitUnchecked(s, n, nf) ==
    /\ call = "none"
    /\ s \notin DOMAIN tables
    /\ MayAllocate(n)
    /\ call' = "admit"
    /\ cur' = s
    /\ left' = n
    /\ UNCHANGED <<tables, refcount, allocated_total, freed_total, scratch,
                   slot, got, todo>>

\* admit: an id that is already admitted is refused (ValueError), and so is a
\* request larger than the free pool (AdmissionFailure); a refused call
\* changes nothing.
admit(s, n, nf) ==
    /\ call = "none"
    /\ s \notin DOMAIN tables
    /\ nf >= n
    /\ MayAllocate(n)
    /\ call' = "admit"
    /\ cur' = s
    /\ left' = n
    /\ UNCHANGED <<tables, refcount, allocated_total, freed_total, scratch,
                   slot, got, todo>>

\* admit_shared: the blocks of `shared` get one more reference before the
\* n new ones are allocated.
admit_shared(s, shared, n, nf) ==
    /\ call = "none"
    /\ s \notin DOMAIN tables
    /\ nf >= n
    /\ MayAllocate(n)
    /\ Addref(Elems(shared))
    /\ call' = "admit"
    /\ cur' = s
    /\ left' = n
    /\ got' = shared
    /\ UNCHANGED <<tables, allocated_total, freed_total, scratch, slot, todo>>

\* alloc_scratch: n blocks outside any table, for a list the caller keeps in x.
alloc_scratch(s, x, n, nf) ==
    /\ call = "none"
    /\ s \in DOMAIN tables
    /\ scratch[x] = << >>
    /\ nf >= n
    /\ MayAllocate(n)
    /\ call' = "scratch"
    /\ cur' = s
    /\ slot' = x
    /\ left' = n
    /\ UNCHANGED <<tables, refcount, allocated_total, freed_total, scratch,
                   got, todo>>

\* One iteration of [self._alloc(seq_id) for _ in range(n)].
alloc_next(b) ==
    /\ call \in {"admit", "scratch"}
    /\ left > 0
    /\ Alloc(b)
    /\ left' = left - 1
    /\ got' = Append(got, b)
    /\ UNCHANGED <<tables, freed_total, scratch, call, cur, slot, todo>>

\* The collected blocks become the table of the sequence ...
admit_return ==
    /\ call = "admit"
    /\ left = 0
    /\ tables' = Put(tables, cur, got)
    /\ call' = "none"
    /\ cur' = 0
    /\ got' = << >>
    /\ UNCHANGED <<refcount, allocated_total, freed_total, scratch, slot, left,
                   todo>>

\* ... or the scratch list of the caller.
scratch_return ==
    /\ call = "scratch"
    /\ left = 0
    /\ scratch' = [scratch EXCEPT ![slot] = got]
    /\ call' = "none"
    /\ cur' = 0
    /\ slot' = 0
    /\ got' = << >>
    /\ UNCHANGED <<tables, refcount, allocated_total, freed_total, left, todo>>

append_block(s, b, nf) ==
    /\ call = "none"
    /\ s \in DOMAIN tables
    /\ nf >= 1
    /\ MayAllocate(1)
    /\ Alloc(b)
    /\ tables' = [tables EXCEPT ![s] = Append(@, b)]
    /\ UNCHANGED <<freed_total, scratch, call, locals>>

-----------------------------------------------------------------------------
(* Calls that share or drop references *)

\* fork: the child shares the parent's whole table.  The code does not check
\* that the child is new; that is the caller's part of the contract.
fork(p, c) ==
    /\ call = "none"
    /\ p \in DOMAIN tables
    /\ c \notin DOMAIN tables
    /\ Addref(Elems(tables[p]))
    /\ tables' = Put(tables, c, tables[p])
    /\ UNCHANGED <<allocated_total, freed_total, scratch, call, locals>>

unref_blocks(x) ==
    /\ call = "none"
    /\ scratch[x] # << >>
    /\ call' = "unref"
    /\ todo' = scratch[x]
    /\ scratch' = [scratch EXCEPT ![x] = << >>]
    /\ UNCHANGED <<tables, refcount, allocated_total, freed_total, cur, slot,
                   left, got>>

release(s) ==
    /\ call = "none"
    /\ s \in DOMAIN tables
    /\ call' = "release"
    /\ cur' = s
    /\ todo' = tables[s]
    /\ tables' = Pop(tables, s)
    /\ UNCHANGED <<refcount, allocated_total, freed_total, scratch, slot, left,
                   got>>

\* Mutant: the unused blocks of the chosen branch are forgotten.
AdoptLeaks(s, replace_tail, chosen, keep) ==
    LET t == tables[s]
        base == IF replace_tail THEN SubSeq(t, 1, Len(t) - 1) ELSE t
        tail == IF replace_tail THEN <<t[Len(t)]>> ELSE << >>
    IN  /\ call = "none"
        /\ s \in DOMAIN tables
        /\ replace_tail => Len(tables[s]) > 0
        /\ keep <= Len(scratch[chosen])
        /\ call' = "adopt"
        /\ cur' = s
        /\ tables' = [tables EXCEPT ![s] = base \o SubSeq(scratch[chosen], 1, keep)]
        /\ todo' = tail
        /\ scratch' = [scratch EXCEPT ![chosen] = << >>]
        /\ UNCHANGED <<refcount, allocated_total, freed_total, slot, left, got>>

\* Mutant: without "br is not chosen" the chosen branch is dropped with the rest.
AdoptDropsChosen(s, replace_tail, chosen, keep) ==
    LET t == tables[s]
        base == IF replace_tail THEN SubSeq(t, 1, Len(t) - 1) ELSE t
        tail == IF replace_tail THEN <<t[Len(t)]>> ELSE << >>
    IN  /\ call = "none"
        /\ s \in DOMAIN tables
        /\ replace_tail => Len(tables[s]) > 0
        /\ keep <= Len(scratch[chosen])
        /\ call' = "adopt"
        /\ cur' = s
        /\ tables' = [tables EXCEPT ![s] = base \o SubSeq(scratch[chosen], 1, keep)]
        /\ todo' = tail
        /\ UNCHANGED <<refcount, allocated_total, freed_total, scratch, slot, left, got>>

\* spec_round_adopt: the first `keep` blocks of the chosen branch are spliced
\* onto the table, in place of its last block if the branch copied that one;
\* the rest of the chosen branch and, after it, every other branch is dropped.
spec_round_adopt(s, replace_tail, chosen, keep) ==
    LET t == tables[s]
        base == IF replace_tail THEN SubSeq(t, 1, Len(t) - 1) ELSE t
        tail == IF replace_tail THEN <<t[Len(t)]>> ELSE << >>
        br == scratch[chosen]
    IN  /\ call = "none"
        /\ s \in DOMAIN tables
        /\ replace_tail => Len(tables[s]) > 0
        /\ keep <= Len(scratch[chosen])
        /\ call' = "adopt"
        /\ cur' = s
        /\ tables' = [tables EXCEPT ![s] = base \o SubSeq(br, 1, keep)]
        /\ todo' = tail \o SubSeq(br, keep + 1, Len(br))
        /\ scratch' = [scratch EXCEPT ![chosen] = << >>]
        /\ UNCHANGED <<refcount, allocated_total, freed_total, slot, left, got>>

\* The next losing branch, in the order of the list of branches.
adopt_next(x) ==
    /\ call = "adopt"
    /\ todo = << >>
    /\ scratch[x] # << >>
    /\ \A y \in Slot : y < x => scratch[y] = << >>
    /\ todo' = scratch[x]
    /\ scratch' = [scratch EXCEPT ![x] = << >>]
    /\ UNCHANGED <<tables, refcount, allocated_total, freed_total, call, cur,
                   slot, left, got>>

\* One iteration of "for b in blocks: self._unref(b)".
unref_next ==
    /\ todo # << >>
    /\ Unref(Head(todo))
    /\ todo' = Tail(todo)
    /\ UNCHANGED <<tables, allocated_total, scratch, call, cur, slot, left, got>>

unref_return ==
    /\ call \in {"unref", "release", "adopt"}
    /\ todo = << >>
    /\ call = "adopt" => \A x \in Slot : scratch[x] = << >>
    /\ call' = "none"
    /\ cur' = 0
    /\ UNCHANGED <<tables, refcount, allocated_total, freed_total, scratch,
                   slot, left, got, todo>>

\* Compaction moves a block that only tables refer to: the reference count
\* goes over to nb and every table that holds b is rewritten.
relocate(b, nb) ==
    /\ call = "none"
    /\ refcount' = Put(Pop(refcount, b), nb, refcount[b])
    /\ tables' = [s \in DOMAIN tables |-> Replace(tables[s], b, nb)]
    /\ UNCHANGED <<allocated_total, freed_total, scratch, call, locals>>

InTable(b) == \E s \in DOMAIN tables : b \in Elems(tables[s])

-----------------------------------------------------------------------------
(* The weakest policy *)

\* Mutant: the policy hands out blocks that are in use.
FreeStale == Block

Free == Block \ live

Next ==
    \/ \E s \in Seqs, n \in 1 .. MaxNew : admit(s, n, num_free)
    \/ \E s, p \in Seqs, n \in 0 .. MaxNew :
          p \in DOMAIN tables /\ admit_shared(s, tables[p], n, num_free)
    \/ \E s \in Seqs, x \in Slot, n \in 1 .. MaxNew :
          alloc_scratch(s, x, n, num_free)
    \/ \E b \in Free : alloc_next(b)
    \/ admit_return
    \/ scratch_return
    \/ \E s \in Seqs, b \in Free : append_block(s, b, num_free)
    \/ \E p, c \in Seqs : fork(p, c)
    \/ \E x \in Slot : unref_blocks(x)
    \/ \E s \in Seqs : release(s)
    \/ \E s \in Seqs, replace_tail \in BOOLEAN, x \in Slot, keep \in 1 .. MaxNew :
          spec_round_adopt(s, replace_tail, x, keep)
    \/ \E x \in Slot : adopt_next(x)
    \/ unref_next
    \/ unref_return
    \/ \E b \in live, nb \in Free :
          /\ InTable(b)
          /\ relocate(b, nb)

Spec == Init /\ [][Next]_vars

-----------------------------------------------------------------------------
(* Properties *)

\* Who can hold a reference: a table, a scratch list of the caller, the
\* collected blocks (0) and the blocks to drop (-1) of the call in progress.
Holder == Seqs \cup Slot \cup {0, -1}

ListOf(h) ==
    IF h \in DOMAIN tables THEN tables[h]
    ELSE IF h \in Slot THEN scratch[h]
    ELSE IF h = 0 THEN got
    ELSE IF h = -1 THEN todo
    ELSE << >>

Holders(b) == {h \in Holder : b \in Elems(ListOf(h))}

\* Type invariant.
TypeOK ==
    /\ DOMAIN tables \subseteq Seqs
    /\ tables \in [DOMAIN tables -> Seq(Block)]
    /\ live \subseteq Block
    /\ refcount \in [live -> Nat \ {0}]
    /\ allocated_total \in Nat
    /\ freed_total \in Nat
    /\ scratch \in [Slot -> Seq(Block)]
    /\ call \in Calls
    /\ cur \in Seqs \cup {0}
    /\ slot \in Slot \cup {0}
    /\ left \in Nat
    /\ got \in Seq(Block)
    /\ todo \in Seq(Block)

\* The reference count of a block is the number of tables and lists that
\* hold it, and a block is live exactly while someone holds it: no reference
\* is lost (a leaked block) and none is dropped twice (a block handed out
\* while in use), whatever the order of admissions, forks, adoptions,
\* releases and moves.
RefsExact ==
    \A b \in Block :
        IF b \in live THEN refcount[b] = Cardinality(Holders(b))
                      ELSE Holders(b) = {}

\* No table and no list holds a block twice, so the loops of _unref and of the
\* prefix sharing touch every block once.
NoDup == \A h \in Holder : Distinct(ListOf(h))

\* The blocks of a scratch list belong to its caller alone: no table refers to
\* them before a branch is adopted, and compaction leaves them where they are.
ScratchPrivate ==
    \A x \in Slot : \A b \in Elems(scratch[x]) : Holders(b) = {x}

\* The locals of the call in progress: a sequence being admitted has no table
\* yet, the blocks of a scratch list in the making are private already, and a
\* call that only drops references has collected nothing.
CallConsistent ==
    /\ call = "none" => got = << >> /\ todo = << >> /\ left = 0
    /\ call = "admit" => cur \in Seqs \ DOMAIN tables /\ todo = << >>
    /\ call = "scratch" => /\ slot \in Slot
                           /\ scratch[slot] = << >>
                           /\ todo = << >>
                           /\ \A b \in Elems(got) : Holders(b) = {0}
    /\ call \in {"unref", "release", "adopt"} => got = << >> /\ left = 0

\* Validation gate 5 (assert_conservation): allocations minus frees is the
\* number of live blocks, in every intermediate state of every call.
Conservation == allocated_total - freed_total = num_live

\* A call that passed its check of num_free never runs out of blocks half way:
\* an AdmissionFailure from inside the loop would leak the blocks collected
\* so far.
RoomForCall == call \in {"admit", "scratch"} => left <= num_free

\* The reference counts implement the abstract pool of holders.
HolderMap == [b \in Block |-> Holders(b)]
Pool == INSTANCE BlockPool WITH holders <- HolderMap
PoolSpec == Pool!Spec
=============================================================================
