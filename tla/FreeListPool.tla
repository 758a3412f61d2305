---------------------------- MODULE FreeListPool ----------------------------
(***************************************************************************)
(* The two policies of pimkv/allocator.py that keep one list of free       *)
(* blocks.  PagedFirstFit (the vLLM baseline) pops from the tail of the    *)
(* list; RandomAlloc swaps a random entry with the last one and pops that. *)
(* Both append a freed block to the list.                                  *)
(***************************************************************************)
EXTENDS KVAllocator

CONSTANT Policies    \* the policies a run may use

ASSUME PoliciesAssumption == Policies \subseteq {"paged", "random"}

VARIABLES
    policy,          \* the policy of this run
    free_blocks      \* the free list

flist == <<policy, free_blocks>>
flvars == <<vars, flist>>

FLInit ==
    /\ Init
    /\ policy \in Policies
    /\ free_blocks = [i \in 1 .. NumBlocks |-> i - 1]

free_len == Len(free_blocks)

\* Mutant: the block handed out stays on the list.
AllocOneKeeps(i, b) ==
    /\ policy = "paged" => i = free_len
    /\ b = free_blocks[i]
    /\ UNCHANGED flist

\* Mutant: the last entry is popped without the swap.
AllocOneNoSwap(i, b) ==
    /\ policy = "paged" => i = free_len
    /\ b = free_blocks[i]
    /\ free_blocks' = SubSeq(free_blocks, 1, free_len - 1)
    /\ UNCHANGED policy

\* _alloc_one: the entry at i takes part in the swap (the last one, for
\* PagedFirstFit) and b, the block it held, leaves the list.
AllocOne(i, b) ==
    /\ policy = "paged" => i = free_len
    /\ b = free_blocks[i]
    /\ free_blocks' = [j \in 1 .. free_len - 1 |->
                          IF j = i THEN free_blocks[free_len] ELSE free_blocks[j]]
    /\ UNCHANGED policy

\* _free_one, called by _unref when the last reference goes.
FreeOne(b) ==
    /\ free_blocks' = IF refcount[b] = 1 THEN Append(free_blocks, b) ELSE free_blocks
    /\ UNCHANGED policy

FLStep ==
    \/ \E i \in DOMAIN free_blocks, b \in Block : alloc_next(b) /\ AllocOne(i, b)
    \/ admit_return /\ UNCHANGED flist
    \/ scratch_return /\ UNCHANGED flist
    \/ \E x \in Slot : adopt_next(x) /\ UNCHANGED flist
    \/ unref_next /\ FreeOne(Head(todo))
    \/ unref_return /\ UNCHANGED flist

FLNext ==
    \/ \E s \in Seqs, n \in 1 .. MaxNew :
          admit(s, n, free_len) /\ UNCHANGED flist
    \/ \E s, p \in Seqs, n \in 0 .. MaxNew :
          /\ p \in DOMAIN tables
          /\ admit_shared(s, tables[p], n, free_len)
          /\ UNCHANGED flist
    \/ \E s \in Seqs, x \in Slot, n \in 1 .. MaxNew :
          alloc_scratch(s, x, n, free_len) /\ UNCHANGED flist
    \/ \E s \in Seqs, i \in DOMAIN free_blocks, b \in Block :
          append_block(s, b, free_len) /\ AllocOne(i, b)
    \/ \E p, c \in Seqs : fork(p, c) /\ UNCHANGED flist
    \/ \E x \in Slot : unref_blocks(x) /\ UNCHANGED flist
    \/ \E s \in Seqs : release(s) /\ UNCHANGED flist
    \/ \E s \in Seqs, replace_tail \in BOOLEAN, x \in Slot, keep \in 1 .. MaxNew :
          spec_round_adopt(s, replace_tail, x, keep) /\ UNCHANGED flist
    \/ FLStep

FLSpec == FLInit /\ [][FLNext]_flvars

-----------------------------------------------------------------------------
(* Properties.  FLSpec also implements KVAllocator's Spec, so everything    *)
(* shown there for the weakest policy holds of both policies.               *)

\* The free list holds every block that is not live, once: a block missing
\* from it is lost for good, one listed twice is handed out twice.
FreeListExact ==
    /\ Elems(free_blocks) = Free
    /\ Distinct(free_blocks)

=============================================================================
