------------------------------ MODULE MCTrees -------------------------------
(***************************************************************************)
(* Either the Merkle Patricia trie, with nibbles of one bit, keys of four  *)
(* and values that are kept inside their parent or not; or the binary      *)
(* tree, with stems of four bits and two suffixes; or the checkpointed     *)
(* database under both, with two keys.                                     *)
(***************************************************************************)
EXTENDS Trie, BinaryTree, CheckpointDB

CONSTANTS k1, k2, v1, v2

VARIABLE which

MCKeys == {<<0, 0, 0, 0>>, <<0, 0, 0, 1>>, <<0, 1, 1, 0>>, <<1, 0, 0, 0>>}
MCProbes == MCKeys \cup {<<0, 0, 1, 0>>}
MCValueLength == [v \in {"small", "large"} |-> IF v = "small" THEN 1 ELSE 9]

NoTrie == /\ trie = [root |-> None, nodes |-> {}, persisted |-> None]
          /\ prune = FALSE /\ saved = << >> /\ past = {} /\ sharing = FALSE /\ ops = 0
          /\ content = [k \in TrieKeys |-> ""]
NoTree == /\ tree = [root |-> None, nodes |-> {}, persisted |-> None]
          /\ treeSaved = << >> /\ treePast = {} /\ phantom = FALSE /\ treeOps = 0
          /\ treeContent = [s \in Stems |-> NoValues]

NoDatabase == DatabaseInit

MCInit == \/ which = "trie" /\ TrieInit /\ NoTree /\ NoDatabase
          \/ which = "tree" /\ TreeInit /\ NoTrie /\ NoDatabase
          \/ which = "database" /\ DatabaseInit /\ NoTrie /\ NoTree
MCNext == \/ which = "trie" /\ TrieNext /\ UNCHANGED <<which, treeVars, databaseVars>>
          \/ which = "tree" /\ TreeNext /\ UNCHANGED <<which, trieVars, databaseVars>>
          \/ which = "database" /\ DatabaseNext /\ UNCHANGED <<which, trieVars, treeVars>>
MCSpec == MCInit /\ [][MCNext]_<<which, trieVars, treeVars, databaseVars>>
=============================================================================
