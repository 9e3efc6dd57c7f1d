------------------------------ MODULE MCWallet ------------------------------
(***************************************************************************)
(* Transactions and blocks for TLC.  u is a coin of somebody else, made in *)
(* b0, on which all build.                                                 *)
(*                                                                         *)
(*   p: u -> p1       q: u -> (nothing of ours)                            *)
(*   c: p1 -> c1      d: p1 -> (nothing of ours)                           *)
(*                                                                         *)
(* p1 and c1 are ours.  a1 has p and c; b1 has p and b2 above it d; f1 has *)
(* q.  The work of the branches grows in that order.                       *)
(***************************************************************************)
EXTENDS Wallet

CONSTANTS g, b0, a1, b1, b2, f1, p, c, d, q, cb, u, p1, c1

MCParent ==
  [b \in Block |-> CASE b = g -> NoBlock [] b = b0 -> g [] b = b2 -> b1 [] OTHER -> b0]
MCHeight ==
  [b \in Block |-> CASE b = g -> 0 [] b = b0 -> 1 [] b = b2 -> 3 [] OTHER -> 2]
MCAnc ==
  LET up[b \in Block] == IF b = g THEN {g} ELSE up[MCParent[b]] \cup {b} IN up
MCChainWork ==
  [b \in Block |->
     CASE b = g -> 1 [] b = b0 -> 2 [] b = a1 -> 3 [] b = b1 -> 4 [] b = b2 -> 5
       [] OTHER -> 6]

MCMaker == [z \in Coin |-> CASE z = u -> cb [] z = p1 -> p [] OTHER -> c]
MCInputs == [t \in Tx |-> IF t \in {p, q} THEN {u} ELSE {p1}]
MCValue == [z \in Coin |-> CASE z = u -> 4 [] z = p1 -> 2 [] OTHER -> 1]
MCBlockTxs ==
  [b \in Block |-> CASE b = a1 -> <<p, c>> [] b = b1 -> <<p>> [] b = b2 -> <<d>>
                     [] b = f1 -> <<q>> [] OTHER -> <<>>]
MCSpends == [b \in Block |-> UNION {MCInputs[t] : t \in ToSet(MCBlockTxs[b])}]
MCCreates ==
  [b \in Block |->
     IF b = b0 THEN {u} ELSE {z \in Coin : MCMaker[z] \in ToSet(MCBlockTxs[b])}]
MCUnspent ==
  LET left[b \in Block] ==
        IF b = g THEN {} ELSE (left[MCParent[b]] \cup MCCreates[b]) \ MCSpends[b]
  IN  left
=============================================================================
