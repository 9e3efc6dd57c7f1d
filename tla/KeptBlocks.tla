----------------------------- MODULE KeptBlocks -----------------------------
(***************************************************************************)
(* What a block store promises to the chain (lib/blockstore/abstract.js):  *)
(* a block written is there to be read until it is pruned.  A restart may  *)
(* bring back blocks that were pruned or whose write was cut short, and    *)
(* loses none.                                                             *)
(***************************************************************************)
CONSTANT Block
VARIABLE kept      \* blocks that can be read

Init == kept = {}

Put(b) == kept' = kept \cup {b}

Drop(b) == kept' = kept \ {b}

Recover == kept' \in SUBSET Block /\ kept \subseteq kept'

Next == (\E b \in Block : Put(b) \/ Drop(b)) \/ Recover
=============================================================================
