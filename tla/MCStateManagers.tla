-------------------------- MODULE MCStateManagers --------------------------
(* Every manager with one account, slot, code and token; merkle and binary  *)
(* with their caches and without.                                           *)
EXTENDS StateManagers

MCKinds == {[name |-> n, cached |-> c] : n \in {"merkle", "binary"}, c \in BOOLEAN}
             \cup {[name |-> "rpc", cached |-> TRUE], [name |-> "simple", cached |-> FALSE]}

(* Histories are followed until a step a manager is known not to support.   *)
Followed == ~astray
=============================================================================
