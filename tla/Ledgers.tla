------------------------------ MODULE Ledgers ------------------------------
(***************************************************************************)
(* What the ledgers of accounts are read with: sums over accounts, and the *)
(* entries of a list that fall due.                                        *)
(***************************************************************************)
EXTENDS Integers, Sequences, SequencesExt, FiniteSets, FiniteSetsExt

\* What a ledger holds altogether.
Total(f) == MapThenSumSet(LAMBDA s : f[s], DOMAIN f)

\* The entries of a list that are in S, in their order.
Within(s, S) == FoldLeft(LAMBDA kept, e : IF e \in S THEN Append(kept, e) ELSE kept, << >>, s)

\* What the amounts of a list add up to.
Sum(s) == Total([i \in DOMAIN s |-> s[i].amount])
=============================================================================
