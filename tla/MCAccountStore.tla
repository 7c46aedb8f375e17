--------------------------- MODULE MCAccountStore ---------------------------
(* AccountStore with the accounts and contents each configuration names.   *)
EXTENDS AccountStore
=============================================================================
