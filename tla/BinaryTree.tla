----------------------------- MODULE BinaryTree -----------------------------
(***************************************************************************)
(* The binary tree (packages/binarytree): internal nodes with two children, *)
(* one per bit of a stem, and stem nodes that hold the values of a stem.    *)
(*                                                                          *)
(* A node is its own hash.  A child is held with its path, which the hash   *)
(* leaves out: TreePaths shows that a path follows from the place of the    *)
(* child, so that nodes with one hash are equal.                            *)
(***************************************************************************)
EXTENDS Paths, SequencesExt, FiniteSetsExt

CONSTANTS Stems,       \* sequences of bits, 248 in the code
          SuffixSet,    \* 0..255
          StemValues,
          MaxTreeOps   \* bound: updates in a behaviour

ASSUME StemAssumption == /\ \A s \in Stems : \A i \in 1..Len(s) : s[i] \in 0..1
                         /\ \A s, u \in Stems : Len(s) = Len(u)
                         /\ "" \notin StemValues

VARIABLES tree,        \* root, stored nodes, persisted root
          treeSaved,   \* the tree at each open checkpoint, with its content
          treeContent, \* ghost: the value put at each stem and suffix, "" for none
          treePast,    \* ghost: every root this tree had, with its content
          phantom,     \* ghost: nothing was put into an empty tree
          treeOps

treeVars == <<tree, treeSaved, treeContent, treePast, phantom, treeOps>>

NoValues == [x \in SuffixSet |-> ""]
StemNode(stem, values) == [t |-> "stem", stem |-> stem, values |-> values]
Internal(kids) == [t |-> "internal", kids |-> kids]
Ref(hash, path) == [t |-> "ref", hash |-> hash, path |-> path]
NoChildren == [b \in 0..1 |-> None]
SetChild(n, bit, child) == [n EXCEPT !.kids[bit] = child]
-----------------------------------------------------------------------------
(* Search *)

Found(node, stack, missing) == [node |-> node, stack |-> stack, missing |-> missing]
On(n, path) == [node |-> n, path |-> path]

\* From a child on.  The node that is found is not on the stack, a stem that
\* is not the one sought is.
RECURSIVE Descend(_, _, _, _)
Descend(t, child, key, stack) ==
    LET n == child.hash
        m == matchingBitsLength(key, child.path)
        here == Append(stack, On(n, Upto(key, m)))
    IN CASE child = None -> Found(None, stack, FALSE)
         [] child # None /\ n \notin t.nodes -> Found(None, stack, TRUE)
         [] child # None /\ n \in t.nodes /\ m = Len(key) -> Found(n, stack, FALSE)
         [] child # None /\ n \in t.nodes /\ m < Len(key) /\ n.t = "stem" -> Found(None, here, FALSE)
         [] OTHER -> Descend(t, n.kids[key[m + 1]], key, here)

\* A root that is the stem sought is both found and on the stack.
FindStem(t, key) ==
    LET top == <<On(t.root, << >>)>>
    IN CASE t.root = None -> Found(None, << >>, FALSE)
         [] t.root # None /\ t.root \notin t.nodes -> Found(None, << >>, TRUE)
         [] t.root \in t.nodes /\ t.root.t = "stem" ->
              Found(IF t.root.stem = key THEN t.root ELSE None, top, FALSE)
         [] OTHER -> Descend(t, t.root.kids[key[1]], key, top)

\* The value, or "" for none.
GetValue(t, stem, suffix) ==
    LET p == FindStem(t, stem) IN IF p.node.t = "stem" THEN p.node.values[suffix] ELSE ""
-----------------------------------------------------------------------------
(* Update *)

\* Internal nodes from depth down to the one below floor, above a node.
Chain(bits, node, depth, floor) ==
    FoldLeft(LAMBDA s, i : LET d == depth - i
                           IN Append(s, On(Internal(SetChild(Internal(NoChildren), bits[d + 1],
                                              Ref(Last(s).node, Upto(bits, d + 1))).kids), Upto(bits, d))),
             <<node>>, [i \in 1..Max({0, depth - floor}) |-> i])

\* Two stems under a new node at the bit where they part.
Parted(a, b) ==
    LET d == matchingBitsLength(a.stem, b.stem)
    IN On(Internal([i \in 0..1 |-> IF i = a.stem[d + 1] THEN Ref(a, a.stem) ELSE Ref(b, b.stem)]), Upto(a.stem, d))

\* updateBranch: the nodes between the stem and the node that was its nearest.
UpdateBranch(stem, nearest, parentPath) ==
    IF nearest.node.t = "stem"
    THEN LET top == Parted(stem, nearest.node)
         IN Chain(stem.stem, top, Len(top.path), matchingBitsLength(nearest.path, parentPath) + 1)
    ELSE <<On(SetChild(nearest.node, stem.stem[Len(nearest.path) + 1], Ref(stem, stem.stem)), nearest.path)>>

\* The rest of the stack, from below, each node given the last node saved.
Reparented(bits, stack, puts) ==
    FoldRight(LAMBDA e, s : Append(s, On(SetChild(e.node, bits[Len(e.path) + 1],
                                            Ref(Last(s).node, Last(s).path)), e.path)),
              stack, puts)

SaveNodes(t, root, puts) == [t EXCEPT !.root = root, !.nodes = @ \cup {p.node : p \in ToSet(puts)}]

\* _put of a stem with a value, below a root that exists.
Insert(t, stem, stack) ==
    LET bits == stem.stem
        root == stack[1].node
        self == <<On(stem, bits)>>
        near == IF Len(stack) = 1 THEN self
                ELSE self \o UpdateBranch(stem, Last(stack), stack[Len(stack) - 1].path)
        puts == Reparented(bits, SubSeq(stack, 2, Len(stack) - 1), near)
        split == Parted(stem, root)
        chain == self \o Chain(bits, split, Len(split.path), 0)
        top == SetChild(root, bits[1], Ref(Last(puts).node, Last(puts).path))
    IN CASE root.t = "stem" /\ root.stem = bits -> SaveNodes(t, stem, self)
         [] root.t = "stem" /\ root.stem # bits -> SaveNodes(t, Last(chain).node, chain)
         [] OTHER -> SaveNodes(t, top, Append(puts, On(top, << >>)))
-----------------------------------------------------------------------------
(* Deletion *)

\* Faulty variant: a stem left alone stays below its internal nodes.
LiftNever(bits, e, s) ==
    LET node == SetChild(e.node, bits[Len(e.path) + 1], s.replacement)
    IN IF \A b \in 0..1 : node.kids[b] = None THEN [s EXCEPT !.replacement = None]
       ELSE [replacement |-> Ref(node, e.path), collapsing |-> FALSE, puts |-> Append(s.puts, On(node, e.path))]

\* One node up the stack: its child is replaced, and while the subtree is empty
\* or a single stem it is lifted instead of saved.
Lift(bits, e, s) ==
    LET node == SetChild(e.node, bits[Len(e.path) + 1], s.replacement)
        left == {b \in 0..1 : node.kids[b] # None}
        only == node.kids[CHOOSE b \in left : TRUE]
    IN CASE s.collapsing /\ left = {} -> [s EXCEPT !.replacement = None]
         [] s.collapsing /\ Cardinality(left) = 1 /\ only.hash.t = "stem" ->
              [s EXCEPT !.replacement = Ref(only.hash, only.hash.stem)]
         [] OTHER -> [replacement |-> Ref(node, e.path), collapsing |-> FALSE, puts |-> Append(s.puts, On(node, e.path))]

DeleteStem(t, stem, stack) ==
    LET above == IF Len(stack) = 1 /\ stack[1].node.t = "stem" THEN << >> ELSE stack
        s == FoldRight(LAMBDA e, acc : Lift(stem, e, acc), above,
                       [replacement |-> None, collapsing |-> TRUE, puts |-> << >>])
    IN SaveNodes(t, IF s.replacement = None THEN None ELSE s.replacement.hash, s.puts)

\* _createInitialNode: an empty tree takes the stem, also where nothing is put.
CreateInitialStem(t, node) == SaveNodes(t, node, <<On(node, << >>)>>)

\* _put: values are given for some suffixes, "" deletes.
PutStem(t, stem, given) ==
    LET p == FindStem(t, stem)
        old == IF p.node.t = "stem" THEN p.node.values ELSE NoValues
        node == StemNode(stem, [x \in SuffixSet |-> IF x \in DOMAIN given THEN given[x] ELSE old[x]])
    IN CASE t.root = None -> CreateInitialStem(t, node)
         [] t.root # None /\ node.values = NoValues -> IF p.node = None THEN t ELSE DeleteStem(t, stem, p.stack)
         [] OTHER -> Insert(t, node, p.stack)
-----------------------------------------------------------------------------
(* Enumeration and proofs *)

RECURSIVE DumpLeafValues(_, _)
DumpLeafValues(t, n) ==
    CASE n \notin t.nodes -> {}
      [] n \in t.nodes /\ n.t = "stem" -> {<<n.stem, x, n.values[x]>> : x \in {y \in SuffixSet : n.values[y] # ""}}
      [] OTHER -> UNION {DumpLeafValues(t, n.kids[b].hash) : b \in {c \in 0..1 : n.kids[c] # None}}

CreateBinaryProof(t, stem) ==
    LET p == FindStem(t, stem)
    IN [i \in 1..Len(p.stack) |-> p.stack[i].node] \o (IF p.node = None THEN << >> ELSE <<p.node>>)

\* The value, "" for a proof of absence, or a refusal: the tree made of the
\* nodes of the proof is searched, and its last node must not say otherwise.
VerifyBinaryProof(root, stem, suffix, proof) ==
    LET t == [root |-> proof[1], nodes |-> ToSet(proof)]
        value == GetValue(t, stem, suffix)
        last == Last(proof)
        expected == IF last.t = "stem" /\ last.stem = stem THEN last.values[suffix] ELSE ""
    IN CASE proof = << >> -> IF root = None THEN "" ELSE "refused"
         [] proof # << >> /\ (proof[1] # root \/ FindStem(t, stem).missing) -> "refused"
         [] OTHER -> IF value # "" /\ value # expected THEN "refused" ELSE value
-----------------------------------------------------------------------------
(* The tree as it is used *)

\* Reference: the one tree of these stems with these values.
RECURSIVE TreeOf(_, _, _)
TreeOf(c, stems, pos) ==
    IF stems = {} THEN None
    ELSE IF Cardinality(stems) = 1 THEN LET s == CHOOSE x \in stems : TRUE IN StemNode(s, c[s])
    ELSE Internal([b \in 0..1 |->
           LET below == {s \in stems : s[pos + 1] = b}
               s == CHOOSE x \in below : TRUE
           IN IF below = {} THEN None
              ELSE Ref(TreeOf(c, below, pos + 1), IF Cardinality(below) = 1 THEN s ELSE Upto(s, pos + 1))])
Live(c) == {s \in Stems : c[s] # NoValues}
TreeRoot(c) == TreeOf(c, Live(c), 0)

RECURSIVE NodesOf(_)
NodesOf(n) == CASE n = None -> {}
                [] n.t = "stem" -> {n}
                [] OTHER -> {n} \cup UNION {NodesOf(n.kids[b].hash) : b \in {c \in 0..1 : n.kids[c] # None}}

Updated(t, c) ==
    /\ tree' = [t EXCEPT !.persisted = t.root]
    /\ treeContent' = c
    /\ treePast' = treePast \cup {<<t.root, c>>}
    /\ treeOps' = treeOps + 1
    /\ UNCHANGED treeSaved

TreePut(stem, given) ==
    /\ treeOps < MaxTreeOps /\ ~FindStem(tree, stem).missing
    /\ Updated(PutStem(tree, stem, given),
               [treeContent EXCEPT ![stem] = [x \in SuffixSet |-> IF x \in DOMAIN given THEN given[x] ELSE @[x]]])
    /\ phantom' = (phantom \/ (tree.root = None /\ \A x \in DOMAIN given : given[x] = ""))

TreeDel(stem, suffixes) == TreePut(stem, [x \in suffixes |-> ""])

TreeCheckpoint ==
    /\ treeSaved = << >>
    /\ treeSaved' = <<[tree |-> tree, content |-> treeContent, past |-> treePast]>>
    /\ UNCHANGED <<tree, treeContent, treePast, phantom, treeOps>>

TreeCommit ==
    /\ treeSaved # << >>
    /\ treeSaved' = Front(treeSaved)
    /\ tree' = [tree EXCEPT !.persisted = tree.root]
    /\ UNCHANGED <<treeContent, treePast, phantom, treeOps>>

TreeRevert ==
    /\ treeSaved # << >>
    /\ LET s == Last(treeSaved) IN /\ tree' = [s.tree EXCEPT !.persisted = s.tree.root]
                                   /\ treeContent' = s.content
                                   /\ treePast' = s.past
    /\ treeSaved' = Front(treeSaved)
    /\ UNCHANGED <<phantom, treeOps>>

\* The process ends; createBinaryTree opens the database with the root on disk.
TreeReopen ==
    /\ treeOps > 0
    /\ LET s == IF treeSaved = << >> THEN [tree |-> tree, past |-> treePast] ELSE treeSaved[1]
       IN /\ tree' = [s.tree EXCEPT !.root = s.tree.persisted]
          /\ \E r \in s.past : r[1] = s.tree.persisted /\ treeContent' = r[2]
          /\ treePast' = s.past
    /\ treeSaved' = << >>
    /\ UNCHANGED <<phantom, treeOps>>

\* root(value) goes back to a root the tree had; nothing is ever erased.
TreeSetRoot ==
    /\ treeOps < MaxTreeOps
    /\ \E r \in treePast : tree' = [tree EXCEPT !.root = r[1]] /\ treeContent' = r[2]
    /\ treeOps' = treeOps + 1
    /\ UNCHANGED <<treeSaved, treePast, phantom>>

Given == UNION {[{x} -> StemValues] : x \in SuffixSet}

TreeInit ==
    /\ \E some \in SUBSET Stems :
          treeContent = [s \in Stems |-> [x \in SuffixSet |->
             IF s \in some /\ x = Min(SuffixSet) THEN CHOOSE v \in StemValues : TRUE ELSE ""]]
    /\ tree = [root |-> TreeRoot(treeContent), nodes |-> NodesOf(TreeRoot(treeContent)),
               persisted |-> TreeRoot(treeContent)]
    /\ treeSaved = << >> /\ treePast = {<<TreeRoot(treeContent), treeContent>>}
    /\ phantom = FALSE /\ treeOps = 0

TreeNext == \/ \E s \in Stems, given \in Given : TreePut(s, given)
            \/ \E s \in Stems, suffixes \in {{x} : x \in SuffixSet} \cup {SuffixSet} : TreeDel(s, suffixes)
            \/ TreeCheckpoint \/ TreeCommit \/ TreeRevert \/ TreeReopen \/ TreeSetRoot
-----------------------------------------------------------------------------

\* Types, and the path held with every child, which the hash leaves out, is
\* the path of its place (setChild in _put, updateBranch and _deleteStem).
RECURSIVE PathsRight(_, _)
PathsRight(n, path) ==
    n.t = "internal" => \A b \in 0..1 : \A c \in {n.kids[b]} \ {None} :
       /\ c.path = IF c.hash.t = "stem" THEN c.hash.stem ELSE Append(path, b)
       /\ IsPrefix(Append(path, b), c.path)
       /\ PathsRight(c.hash, Append(path, b))
TreeTypeOK ==
    /\ tree.root.t \in {"none", "stem", "internal"}
    /\ treeContent \in [Stems -> [SuffixSet -> StemValues \cup {""}]]
    /\ Len(treeSaved) \in 0..1 /\ phantom \in BOOLEAN /\ treeOps \in 0..MaxTreeOps
    /\ PathsRight(tree.root, << >>)

\* Every stem and suffix reads as the last value put there (get, findPath), and
\* dumpLeafValues lists exactly those.
TreeContents ==
    /\ \A s \in Stems, x \in SuffixSet : GetValue(tree, s, x) = treeContent[s][x] /\ ~FindStem(tree, s).missing
    /\ DumpLeafValues(tree, tree.root) =
         {<<s, x, treeContent[s][x]>> : <<s, x>> \in {e \in Stems \X SuffixSet : treeContent[e[1]][e[2]] # ""}}

\* "The resulting root equals the root of a tree built from the remaining stems
\* only" (_deleteStem), and so after every update, save where nothing was put
\* into an empty tree.
TreeCanonical == ~phantom => tree.root = TreeRoot(treeContent)

\* A proof shows the value or its absence; with a node left out it is refused
\* or shows the same (createBinaryProof, verifyBinaryProof).
TreeProofs ==
    \A s \in Stems, x \in SuffixSet : \A proof \in {CreateBinaryProof(tree, s)} :
       /\ VerifyBinaryProof(tree.root, s, x, proof) = treeContent[s][x]
       /\ \A i \in 1..Len(proof) :
             VerifyBinaryProof(tree.root, s, x, RemoveAt(proof, i)) \in {"refused", treeContent[s][x]}

\* The binary tree holds what was put, in its one shape, and proves it.
TreeSound == TreeTypeOK /\ TreeContents /\ TreeCanonical /\ TreeProofs
=============================================================================
