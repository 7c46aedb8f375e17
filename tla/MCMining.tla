----------------------------- MODULE MCMining -----------------------------
(* Instances of Mining: which transactions conflict and when they expire.  *)
EXTENDS Mining

CONSTANTS a, b, c, w

\* b spends what a has spent, and the development write w takes a's funds.
MCConflicts == {<<a, b>>, <<w, a>>} \cap (Effects \X Txs)
MCExpiration == [t \in Txs |-> IF t = c THEN 1 ELSE MaxTime + 1]
=============================================================================
