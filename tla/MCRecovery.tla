----------------------------- MODULE MCRecovery -----------------------------
(* Three transactions, two backups; transactions are interchangeable. *)
EXTENDS Recovery, TLC

TxSymmetry == Permutations(Txs)
=============================================================================
