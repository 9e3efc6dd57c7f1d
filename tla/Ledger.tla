------------------------------- MODULE Ledger -------------------------------
(***************************************************************************)
(* What the chain promises those who read it: at any time the ledger is    *)
(* the one of some valid chain, and it moves from one to the next by one   *)
(* block, forward or back.  A reader that follows the connect and          *)
(* disconnect events of the chain relies on no more than this.             *)
(***************************************************************************)
EXTENDS BlockTree

VARIABLES
  head,         \* the last block of the ledger's chain
  utxo          \* its unspent coins

ledger == <<head, utxo>>

Init == head = Genesis /\ utxo = Unspent[Genesis]

Extend(b) ==
  /\ Parent[b] = head
  /\ FullyValid(b)
  /\ head' = b
  /\ utxo' = Unspent[b]

Retract ==
  /\ head # Genesis
  /\ head' = Parent[head]
  /\ utxo' = Unspent[head']

Next == (\E b \in Block : Extend(b)) \/ Retract

Spec == Init /\ [][Next]_ledger
=============================================================================
