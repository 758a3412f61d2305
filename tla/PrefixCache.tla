---------------------------- MODULE PrefixCache ----------------------------
(***************************************************************************)
(* The pinned prefix cache of simulate() over the pim-aware allocator, at  *)
(* the level of blocks.  try_admit admits the cache under an id of its own *)
(* and keeps the list admit returned; later requests of the prefix are     *)
(* admitted with that list as their shared blocks.  The list is a copy:    *)
(* compaction rewrites the block table of the cache, and not the list.     *)
(***************************************************************************)
EXTENDS PimAware

CONSTANT CacheId   \* cache_id: the table that pins the prefix blocks

ASSUME CacheAssumption == CacheId \in Seqs

VARIABLES
    prefix_cache,  \* the list kept for the prefix, << >> before it is filled
    attached,      \* the sequences admitted with it
    ended          \* the loop is over and the cache is being released

prefixvars == <<pimvars, prefix_cache, attached, ended>>

Clients == Seqs \ {CacheId}

PrefixInit ==
    /\ PimInit
    /\ prefix_cache = << >>
    /\ attached = {}
    /\ ended = FALSE

\* The first request of the prefix fills the cache with n blocks ...
fill(n) ==
    /\ prefix_cache = << >>
    /\ pim_admit(CacheId, n)
    /\ UNCHANGED <<prefix_cache, attached>>

\* Mutant: the request attaches to all but the last block of the prefix.
AttachShort(s, n) ==
    /\ prefix_cache # << >>
    /\ Elems(prefix_cache) \subseteq live
    /\ pim_admit_shared(s, SubSeq(prefix_cache, 1, Len(prefix_cache) - 1), n)
    /\ attached' = attached \cup {s}
    /\ UNCHANGED prefix_cache

\* ... and every request of it shares them.  A block of the list that is not
\* live is a KeyError, which ends the program.
attach(s, n) ==
    /\ prefix_cache # << >>
    /\ Elems(prefix_cache) \subseteq live
    /\ pim_admit_shared(s, prefix_cache, n)
    /\ attached' = attached \cup {s}
    /\ UNCHANGED prefix_cache

plain(s, n) ==
    /\ pim_admit(s, n)
    /\ UNCHANGED <<prefix_cache, attached>>

admitted ==
    /\ admit_return
    /\ prefix_cache' = IF cur = CacheId THEN got ELSE prefix_cache
    /\ UNCHANGED <<attached, placement, opts, compaction>>

\* A sequence finishes or is preempted.
finished(s) ==
    /\ Idle /\ MayDrop
    /\ release(s)
    /\ attached' = attached \ {s}
    /\ UNCHANGED <<prefix_cache, placement, opts, compaction>>

\* At the end of the run the cache itself is released.  Its entry stays, and
\* nothing reads it again.
close ==
    /\ Idle /\ MayDrop
    /\ DOMAIN tables = {CacheId}
    /\ release(CacheId)
    /\ ended' = TRUE
    /\ UNCHANGED <<prefix_cache, attached, placement, opts, compaction>>

\* The requests that the loop makes of the allocator until it ends.
in_loop ==
    \/ \E n \in 1 .. MaxNew : fill(n)
    \/ \E s \in Clients, n \in 0 .. MaxNew : attach(s, n)
    \/ \E s \in Clients, n \in 1 .. MaxNew : plain(s, n)
    \/ admitted
    \/ \E s \in Clients : finished(s)
    \/ \E s \in Clients : pim_append_block(s) /\ UNCHANGED <<prefix_cache, attached>>

PrefixNext ==
    \/ ~ ended /\ in_loop /\ UNCHANGED ended
    \/ ~ ended /\ close
    \/ /\ pim_alloc_next \/ pim_unref_next \/ pim_unref_return \/ compact_next
       /\ UNCHANGED <<prefix_cache, attached, ended>>

PrefixSpec == PrefixInit /\ [][PrefixNext]_prefixvars

-----------------------------------------------------------------------------
(* Properties *)

\* A sequence attached to the prefix reads the prefix: its table begins with
\* the blocks that the table of the cache holds, whatever was released,
\* reused and moved since.
ReadsPrefix ==
    \A s \in attached \cap DOMAIN tables :
        /\ CacheId \in DOMAIN tables
        /\ Len(tables[s]) >= Len(tables[CacheId])
        /\ SubSeq(tables[s], 1, Len(tables[CacheId])) = tables[CacheId]

\* The list the simulator keeps names blocks that are pinned: until the loop
\* ends, each is in the table of the cache and live, however many sequences were
\* attached to it, preempted and released.  One reference too few, and the
\* release of a sharer frees a block that the next request of the prefix reads.
StaysPinned ==
    ~ ended => \A b \in Elems(prefix_cache) : b \in live /\ CacheId \in Holders(b)
=============================================================================
