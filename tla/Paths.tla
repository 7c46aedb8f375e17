-------------------------------- MODULE Paths -------------------------------
(***************************************************************************)
(* Paths in a tree, as sequences of nibbles or of bits, which the Merkle    *)
(* Patricia trie and the binary tree share.                                 *)
(***************************************************************************)
EXTENDS Integers, Sequences, FiniteSets

LOCAL INSTANCE FiniteSetsExt

\* No node: an empty tree, an empty place in a node.
None == [t |-> "none"]

From(s, pos) == SubSeq(s, pos + 1, Len(s))
Upto(s, len) == SubSeq(s, 1, len)

\* 1, 0 or -1; a proper prefix comes first.
nibblesCompare(a, b) ==
    LET len == Min({Len(a), Len(b)})
        differ == {i \in 1..len : a[i] # b[i]}
        Sign(x, y) == IF x < y THEN -1 ELSE IF x > y THEN 1 ELSE 0
    IN IF differ = {} THEN Sign(Len(a), Len(b)) ELSE Sign(a[Min(differ)], b[Min(differ)])

matchingNibbleLength(a, b) ==
    Max({n \in 0..Min({Len(a), Len(b)}) : Upto(a, n) = Upto(b, n)})

matchingBitsLength(a, b) == matchingNibbleLength(a, b)
=============================================================================
