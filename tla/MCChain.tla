------------------------------ MODULE MCChain ------------------------------
(***************************************************************************)
(* A tree of blocks for TLC, of which each configuration takes a part:     *)
(*                                                                         *)
(*   g -- a1 (3) -- a2 (5) -- a3 (7)                                       *)
(*    \     \------ c2 (6) -- c3 (9)                                       *)
(*     \--- b1 (2) -- b2 (6) -- b3 (8)                                     *)
(*                                                                         *)
(* with the chainwork of each block.  A branch may overtake another with a *)
(* lower block (b2 over a2) or draw level with it (b2 and c2).  The        *)
(* transaction that creates y is mined in a2 and in b2; b1 spends a coin   *)
(* that it creates itself.  A coinbase comes twice: b3 has that of b1 once *)
(* more when z is spent, and c2 that of a1 when x is not (BIP30).          *)
(***************************************************************************)
EXTENDS Chain

CONSTANTS g, a1, a2, a3, b1, b2, b3, c2, c3, w, x, y, z

MCParent ==
  [b \in Block |->
     CASE b = a2 -> a1 [] b = a3 -> a2 [] b = b2 -> b1 [] b = b3 -> b2
       [] b = c2 -> a1 [] b = c3 -> c2 [] b = g -> NoBlock [] OTHER -> g]

MCHeight ==
  LET up[b \in Block] == IF b = g THEN 0 ELSE up[MCParent[b]] + 1 IN up

MCAnc ==
  LET up[b \in Block] == IF b = g THEN {g} ELSE up[MCParent[b]] \cup {b} IN up

MCChainWork ==
  [b \in Block |->
     CASE b = a1 -> 3 [] b = a2 -> 5 [] b = a3 -> 7 [] b = b1 -> 2 [] b = b2 -> 6
       [] b = b3 -> 8 [] b = c2 -> 6 [] b = c3 -> 9 [] OTHER -> 1]

MCCreates ==
  [b \in Block |->
     CASE b \in {a1, c2} -> {x} [] b = b1 -> {w, z} [] b \in {a2, b2} -> {y}
       [] b = b3 -> {z} [] OTHER -> {}]

MCSpends ==
  [b \in Block |->
     CASE b = a2 -> {x} [] b = b1 -> {w} [] b = b2 -> {z} [] b = b3 -> {y}
       [] b = c3 -> {x} [] OTHER -> {}]

MCUnspent ==
  LET left[b \in Block] ==
        IF b = g THEN {} ELSE (left[MCParent[b]] \cup MCCreates[b]) \ MCSpends[b]
  IN  left

AllBlocks == {g, a1, a2, a3, b1, b2, b3, c2, c3}
=============================================================================
