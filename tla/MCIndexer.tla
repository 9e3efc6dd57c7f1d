----------------------------- MODULE MCIndexer -----------------------------
(***************************************************************************)
(* Blocks for TLC: two branches that share their first block, so that an   *)
(* index of either has records to roll back, and a rival of that block.    *)
(*                                                                         *)
(*   g -- s1 -- a2 -- a3                                                   *)
(*    \     \-- b2 -- b3                                                   *)
(*     \--- t1                                                             *)
(*                                                                         *)
(* The work grows in the order a2, b2, a3, b3, t1.                         *)
(***************************************************************************)
EXTENDS Indexer

CONSTANTS g, s1, a2, a3, b2, b3, t1

MCParent ==
  [b \in Block |-> CASE b = g -> NoBlock [] b \in {s1, t1} -> g [] b = a3 -> a2
                     [] b = b3 -> b2 [] OTHER -> s1]
MCHeight ==
  LET up[b \in Block] == IF b = g THEN 0 ELSE up[MCParent[b]] + 1 IN up
MCAnc ==
  LET up[b \in Block] == IF b = g THEN {g} ELSE up[MCParent[b]] \cup {b} IN up
MCChainWork ==
  [b \in Block |-> CASE b = g -> 1 [] b = s1 -> 2 [] b = a2 -> 3 [] b = b2 -> 4
                     [] b = a3 -> 5 [] b = b3 -> 6 [] OTHER -> 7]
MCNone == [b \in Block |-> {}]
=============================================================================
