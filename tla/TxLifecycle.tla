---------------------------- MODULE TxLifecycle ----------------------------
(***************************************************************************)
(* What the development node promises about a transaction: it is unknown,  *)
(* queued, or mined.  A queued transaction leaves the queue by being mined *)
(* or by being dropped, a dropped one may be sent again, and a mined one   *)
(* stays mined.  One block may mine and drop several queued transactions;  *)
(* in instant mode a block mines a transaction that was never queued.      *)
(***************************************************************************)
CONSTANT Txs

VARIABLE status

In(s) == {t \in Txs : status[t] = s}

Init == status = [t \in Txs |-> "unknown"]

Admit(t) ==
    /\ status[t] = "unknown"
    /\ status' = [status EXCEPT ![t] = "queued"]

\* A committed block: `mined` from the queue, `dropped` by a rejection.
Block(mined, dropped) ==
    /\ mined \cap dropped = {}
    /\ status' = [t \in Txs |-> IF t \in mined THEN "mined"
                                ELSE IF t \in dropped THEN "unknown"
                                ELSE status[t]]

MineDirect(t) ==
    /\ status[t] = "unknown"
    /\ status' = [status EXCEPT ![t] = "mined"]

Next ==
    \/ \E t \in Txs : Admit(t) \/ MineDirect(t)
    \/ \E mined, dropped \in SUBSET In("queued") : Block(mined, dropped)

Spec == Init /\ [][Next]_status
=============================================================================
