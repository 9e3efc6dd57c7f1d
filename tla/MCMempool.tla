----------------------------- MODULE MCMempool -----------------------------
(***************************************************************************)
(* Transactions and blocks for TLC.  The coinbase of b0, the block on      *)
(* which all build, makes u and v.                                         *)
(*                                                                         *)
(*   p: u -> p1     x: v -> x1     o: p1, x1 -> o1     c: p1 -> (nothing)  *)
(*                                                                         *)
(* so o has two parents to wait for, and c waits for p and is a double     *)
(* spend of o.  a1 has p and a2 above it has x and o; e1, which has more   *)
(* work, competes with both and turns out to be invalid.                   *)
(***************************************************************************)
EXTENDS Mempool

CONSTANTS g, b0, a1, a2, e1, p, x, o, c, cb, u, v, p1, x1, o1

MCParent ==
  [b \in Block |->
     CASE b = g -> NoBlock [] b = b0 -> g [] b = a2 -> a1 [] OTHER -> b0]
MCHeight ==
  [b \in Block |-> CASE b = g -> 0 [] b = b0 -> 1 [] b = a2 -> 3 [] OTHER -> 2]
MCAnc ==
  LET up[b \in Block] == IF b = g THEN {g} ELSE up[MCParent[b]] \cup {b} IN up
MCChainWork ==
  [b \in Block |->
     CASE b = g -> 1 [] b = b0 -> 2 [] b = a1 -> 3 [] b = a2 -> 4 [] OTHER -> 5]

MCMaker ==
  [z \in Coin |-> CASE z \in {u, v} -> cb [] z = p1 -> p [] z = x1 -> x [] OTHER -> o]
MCInputs ==
  [t \in Tx |-> CASE t = p -> {u} [] t = x -> {v} [] t = o -> {p1, x1} [] OTHER -> {p1}]
MCBlockTxs ==
  [b \in Block |-> CASE b = a1 -> <<p>> [] b = a2 -> <<x, o>> [] OTHER -> <<>>]
MCSpends == [b \in Block |-> UNION {MCInputs[t] : t \in ToSet(MCBlockTxs[b])}]
MCCreates ==
  [b \in Block |->
     IF b = b0 THEN {u, v}
     ELSE {z \in Coin : MCMaker[z] \in ToSet(MCBlockTxs[b])}]
MCUnspent ==
  LET left[b \in Block] ==
        IF b = g THEN {} ELSE (left[MCParent[b]] \cup MCCreates[b]) \ MCSpends[b]
  IN  left
=============================================================================
