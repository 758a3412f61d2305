------------------------------ MODULE BlockPool ------------------------------
(***************************************************************************)
(* What every KV allocator promises its caller: a physical block is handed *)
(* out only while nobody holds it, references change hands without being   *)
(* lost or duplicated, and a block can be handed out again once its last   *)
(* holder let go of it.  The specification knows neither reference counts  *)
(* nor free lists nor frames: it keeps, for every block, the set of its    *)
(* holders (block tables, and lists of blocks in the hands of a caller).   *)
(***************************************************************************)

CONSTANTS
    Block,     \* the physical blocks of the pool
    Holder     \* who can hold a block: a block table, or a list outside any table

VARIABLE
    holders    \* holders[b]: the holders of block b

Init == holders = [b \in Block |-> {}]

\* A block nobody holds is handed to h.
Grab(b, h) ==
    /\ holders[b] = {}
    /\ holders' = [holders EXCEPT ![b] = {h}]

\* h joins the holders of the blocks S, each of them held by someone else
\* (prefix sharing, fork).
Share(S, h) ==
    /\ \A b \in S : holders[b] # {} /\ h \notin holders[b]
    /\ holders' = [b \in Block |-> IF b \in S THEN holders[b] \cup {h}
                                              ELSE holders[b]]

\* h lets go of block b.
Drop(b, h) ==
    /\ h \in holders[b]
    /\ holders' = [holders EXCEPT ![b] = @ \ {h}]

\* References change hands: the blocks a call collected become a table, a
\* table becomes the list a call is about to drop.  For every block at most
\* one reference goes from one holder to one that did not hold the block.
Pass ==
    /\ holders' \in [Block -> SUBSET Holder]
    /\ \A b \in Block :
          \/ holders'[b] = holders[b]
          \/ \E h \in holders[b], g \in Holder \ holders[b] :
                holders'[b] = (holders[b] \ {h}) \cup {g}

\* The contents of b move to nb, which nobody holds: nb inherits the holders.
Move(b, nb) ==
    /\ holders[b] # {}
    /\ holders[nb] = {}
    /\ holders' = [holders EXCEPT ![b] = {}, ![nb] = holders[b]]

Next ==
    \/ \E b \in Block, h \in Holder : Grab(b, h)
    \/ \E S \in SUBSET Block, h \in Holder : Share(S, h)
    \/ \E b \in Block, h \in Holder : Drop(b, h)
    \/ Pass
    \/ \E b, nb \in Block : Move(b, nb)

Spec == Init /\ [][Next]_holders
=============================================================================
