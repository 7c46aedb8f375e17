------------------------------ MODULE MCStores ------------------------------
(***************************************************************************)
(* What takes writes back: either the account store of one account under   *)
(* three checkpoints, or the node's transact over two entries of its       *)
(* tables.                                                                 *)
(***************************************************************************)
EXTENDS AccountStore, Transact, TLC

CONSTANTS k1, c1, c2, v0, v1, r0, r1, nothing

VARIABLE which

NoStore == Init
NoTransact == /\ root = r0 /\ burned = 0 /\ table = [c \in Cells |-> v0]
              /\ journal = << >> /\ frames = << >> /\ unwinding = FALSE /\ foundThen = << >>

MCInit == \/ which = "accounts" /\ Init /\ NoTransact
          \/ which = "writes" /\ TransactInit /\ NoStore
MCNext == \/ which = "accounts" /\ Next /\ UNCHANGED <<which, transactVars>>
          \/ which = "writes" /\ TransactNext /\ UNCHANGED <<which, vars>>
MCSpec == MCInit /\ [][MCNext]_<<which, vars, transactVars>>

Alike == Permutations({v0, v1}) \cup Permutations({c1, c2}) \cup Permutations({r0, r1})
=============================================================================
