-------------------------------- MODULE Trie --------------------------------
(***************************************************************************)
(* The Merkle Patricia trie (packages/mpt): search, update, deletion with   *)
(* collapse, storage of nodes by hash or inside their parent, pruning,      *)
(* checkpoints, the persisted root, enumeration, proofs and range proofs.   *)
(*                                                                          *)
(* A node is its own hash: a reference to a node is the node.  Whether a    *)
(* reference is the hash or the encoding itself follows from the length of  *)
(* the encoding.  Keys are sequences of nibbles, all of one length, as the  *)
(* hashed keys of the state are.  The store of nodes is a set; checkpoints  *)
(* of the store are modelled in CheckpointDB.                               *)
(***************************************************************************)
EXTENDS Paths, SequencesExt, FiniteSetsExt, TLC

CONSTANTS Radix,        \* 16
          HashLength,   \* 32: shorter encodings stay inside the parent
          TrieKeys, TrieValues,
          ValueLength,  \* the length of each value
          Probes,       \* keys that ranges and proofs are asked for
          MaxOps        \* bound: updates in a behaviour

ASSUME TrieAssumption == /\ Radix \in Nat \ {0, 1}
                         /\ \A k \in TrieKeys \cup Probes : \A i \in 1..Len(k) : k[i] \in 0..Radix - 1
                         /\ \A k, l \in TrieKeys \cup Probes : Len(k) = Len(l)
                         /\ "" \notin TrieValues

VARIABLES trie,      \* root, stored nodes, persisted root
          prune,     \* useNodePruning
          saved,     \* the trie at each open checkpoint, with content and past
          content,   \* ghost: what was put
          past,      \* ghost: every root this trie had, with its content
          sharing,   \* ghost: two places of one trie held the same stored node
          ops

trieVars == <<trie, prune, saved, content, past, sharing, ops>>

Leaf(k, v) == [t |-> "leaf", key |-> k, value |-> v]
Ext(k, c) == [t |-> "ext", key |-> k, child |-> c]
Branch(kids, v) == [t |-> "branch", kids |-> kids, value |-> v]
NoKids == [i \in 0..Radix - 1 |-> None]

\* The length of a node's encoding, up to the headers of its strings.
RECURSIVE Length(_)
RefLength(n) == Min({Length(n), HashLength + 1})
PathLength(k) == Len(k) \div 2 + 1
Length(n) ==
    CASE n.t = "none" -> 1
      [] n.t = "leaf" -> 1 + PathLength(n.key) + ValueLength[n.value]
      [] n.t = "ext" -> 1 + PathLength(n.key) + RefLength(n.child)
      [] n.t = "branch" -> 2 + FoldFunction(LAMBDA c, s : RefLength(c) + s, 0, n.kids)
ByHash(n) == Length(n) >= HashLength

\* lookupNode: a node inside its parent is at hand, another must be stored.
Missing(t, n) == ByHash(n) /\ n \notin t.nodes
RootMissing(t) == t.root \notin t.nodes
-----------------------------------------------------------------------------
(* Search *)

PathTo(node, remaining, stack, missing) ==
    [node |-> node, remaining |-> remaining, stack |-> stack, missing |-> missing]

\* Walk takes a node of the path; Follow looks up the child it leads to.
RECURSIVE Walk(_, _, _, _, _)
Follow(t, child, key, pos, stack) ==
    IF Missing(t, child) THEN PathTo(None, << >>, stack, TRUE) ELSE Walk(t, child, key, pos, stack)

Walk(t, n, key, pos, stack) ==
    LET here == Append(stack, n)
        rest == From(key, pos)
        lost == PathTo(None, rest, here, FALSE)
    IN CASE n.t = "branch" /\ rest = << >> -> PathTo(n, << >>, here, FALSE)
         [] n.t = "branch" /\ rest # << >> ->
              IF n.kids[rest[1]] = None THEN lost ELSE Follow(t, n.kids[rest[1]], key, pos + 1, here)
         [] n.t = "leaf" -> IF rest = n.key THEN PathTo(n, << >>, here, FALSE) ELSE lost
         [] n.t = "ext" -> IF IsPrefix(n.key, rest) THEN Follow(t, n.child, key, pos + Len(n.key), here) ELSE lost

FindPath(t, key) == IF RootMissing(t) THEN PathTo(None, << >>, << >>, TRUE)
                    ELSE Walk(t, t.root, key, 0, << >>)

\* The value, or "" for none.
Get(t, key) == LET p == FindPath(t, key) IN IF p.node = None THEN "" ELSE p.node.value
-----------------------------------------------------------------------------
(* Writing *)

WriteOp(n) == <<"put", n>>
Erase(n) == <<"del", n>>
Applied(nodes, batch) ==
    FoldLeft(LAMBDA s, op : IF op[1] = "put" THEN s \cup {op[2]} ELSE s \ {op[2]}, nodes, batch)

\* _formatNode: what is written for a node below the root.
FormatNode(n) == IF ByHash(n) THEN <<WriteOp(n)>> ELSE << >>
RemoveNode(n, pruning) == IF pruning /\ ByHash(n) THEN <<Erase(n)>> ELSE << >>

\* saveStack: from the last node up, each one is given its changed child.
RECURSIVE SaveStack(_, _, _, _)
SaveStack(path, stack, child, batch) ==
    IF stack = << >> THEN [root |-> child, batch |-> batch]
    ELSE LET n == Last(stack)
             above == Front(stack)
             up == CASE n.t \in {"leaf", "ext"} -> Upto(path, Len(path) - Len(n.key))
                     [] n.t = "branch" /\ child # None -> Front(path)
                     [] OTHER -> path
             new == CASE n.t = "ext" /\ child # None -> [n EXCEPT !.child = child]
                      [] n.t = "branch" /\ child # None -> [n EXCEPT !.kids[Last(path)] = child]
                      [] OTHER -> n
         IN SaveStack(up, above, new,
                      batch \o (IF above = << >> THEN <<WriteOp(new)>> ELSE FormatNode(new)))

Saved(t, path, stack, batch) ==
    LET s == SaveStack(path, stack, None, batch)
    IN [t EXCEPT !.root = s.root, !.nodes = Applied(@, s.batch)]

CreateInitialNode(t, key, value) ==
    LET n == Leaf(key, value) IN [t EXCEPT !.root = n, !.nodes = @ \cup {n}]

\* The branch where the path of an extension or leaf leaves the key.
Diverge(last, key, remaining, value, above, pruning) ==
    LET m == matchingNibbleLength(last.key, remaining)
        lastKey == From(last.key, m)
        rest == From(remaining, m)
        rekeyed == [last EXCEPT !.key = From(lastKey, 1)]
        whole == Len(lastKey) > 1 \/ last.t = "leaf"
        kids == CASE lastKey = << >> -> NoKids
                  [] lastKey # << >> /\ whole -> [NoKids EXCEPT ![lastKey[1]] = rekeyed]
                  [] OTHER -> [NoKids EXCEPT ![lastKey[1]] = last.child]
        branch == Branch(kids, CASE rest = << >> -> value
                                 [] rest # << >> /\ lastKey = << >> -> last.value
                                 [] OTHER -> "")
        batch == CASE lastKey = << >> -> << >>
                   [] lastKey # << >> /\ whole -> FormatNode(rekeyed)
                   [] OTHER -> RemoveNode(last, pruning)
        ext == IF m = 0 THEN << >> ELSE <<Ext(Upto(last.key, m), None)>>
        leaf == IF rest = << >> THEN << >> ELSE <<Leaf(From(rest, 1), value)>>
    IN [stack |-> above \o ext \o <<branch>> \o leaf, batch |-> batch]

\* _updateNode, with the path that findPath returned.
UpdateNode(t, key, value, p, pruning) ==
    LET last == Last(p.stack)
        above == Front(p.stack)
        d == Diverge(last, key, p.remaining, value, above, pruning)
        stack == CASE \/ last.t = "leaf" /\ p.node = last
                      \/ last.t = "branch" /\ p.remaining = << >> -> Append(above, [last EXCEPT !.value = value])
                   [] last.t = "branch" /\ p.remaining # << >> ->
                        Append(p.stack, Leaf(From(p.remaining, 1), value))
                   [] OTHER -> d.stack
        split == p.node = None /\ last.t # "branch"
    IN Saved(t, key, stack, IF split THEN d.batch ELSE << >>)

\* The old path is erased after the new one is written.
PruneDeleteOps(stack) == [i \in 1..Len(stack) |-> Erase(stack[i])]
Pruned(t, stack, pruning) ==
    IF pruning THEN [t EXCEPT !.nodes = Applied(@, PruneDeleteOps(stack))] ELSE t

\* A path with a missing node is refused before anything is written.
PutIn(t, key, value, pruning) ==
    LET p == FindPath(t, key)
    IN IF t.root = None THEN CreateInitialNode(t, key, value)
       ELSE Pruned(UpdateNode(t, key, value, p, pruning), p.stack, pruning /\ Get(t, key) # value)
Puttable(t, key) == t.root = None \/ ~FindPath(t, key).missing
-----------------------------------------------------------------------------
(* Deletion *)

\* Faulty variant: the remaining child takes the place of its branch.
CollapseUnmerged(path, i, child, above) ==
    [stack |-> Append(above, IF child.t = "branch" THEN Ext(<<i>>, child) ELSE [child EXCEPT !.key = <<i>> \o @]),
     path |-> path \o (IF child.t = "branch" THEN <<i>> ELSE <<i>> \o child.key)]

\* A branch with one child left, at path: the child is lengthened by the index
\* and by an extension above, or hung below an extension.
CollapseBranchWithOneChild(path, i, child, above) ==
    LET parent == IF above = << >> THEN None ELSE Last(above)
        merged == IF parent.t = "ext" THEN parent.key \o <<i>> ELSE <<i>>
        rest == IF parent.t = "ext" THEN Front(above) ELSE above
    IN IF child.t = "branch"
       THEN [stack |-> rest \o <<Ext(merged, child), child>>, path |-> Append(path, i)]
       ELSE [stack |-> Append(rest, [child EXCEPT !.key = merged \o @]), path |-> path \o <<i>> \o child.key]

\* _deleteNode.  A branch that ends the key keeps its value: value(null) does
\* not clear it; with keys of one length no key ends at a branch.
DeleteNode(t, key, stack, pruning) ==
    LET leaf == Last(stack)
        above == Front(stack)
        at == Upto(key, Len(key) - Len(leaf.key))
        branch == [Last(above) EXCEPT !.kids[Last(at)] = None]
        path == Front(at)
        kids == {i \in DOMAIN branch.kids : branch.kids[i] # None}
        i == CHOOSE j \in kids : TRUE
        gone == RemoveNode(leaf, pruning)
        c == CollapseBranchWithOneChild(path, i, branch.kids[i], Front(above))
    IN IF above = << >> THEN [t EXCEPT !.root = None]
       ELSE IF Cardinality(kids) = 1 /\ Missing(t, branch.kids[i]) THEN t
       ELSE IF Cardinality(kids) = 1
       THEN Saved(t, c.path, c.stack, gone \o (IF pruning THEN <<Erase(branch.kids[i])>> ELSE << >>))
       ELSE Saved(t, path, Append(Front(above), branch), gone)

\* del: where the key is not found nothing changes.
DelIn(t, key, pruning) ==
    LET p == FindPath(t, key)
        after == DeleteNode(t, key, p.stack, pruning)
    IN IF p.node = None \/ after = t THEN t ELSE Pruned(after, p.stack, pruning)
-----------------------------------------------------------------------------
(* Enumeration *)

\* _walkTrie: the values below n in order, and the nodes seen.  A child of a
\* branch is looked up by its hash also where it is kept inside the branch;
\* a node that is not found, or was seen before, is passed over.
RECURSIVE CollectValues(_, _, _, _)
CollectValues(t, n, path, acc) ==
    CASE n = None \/ n \in acc.seen -> acc
      [] n # None /\ n.t = "leaf" /\ n \notin acc.seen ->
           [seen |-> acc.seen \cup {n}, list |-> Append(acc.list, <<path \o n.key, n.value>>)]
      [] n # None /\ n.t = "ext" /\ n \notin acc.seen ->
           IF Missing(t, n.child) THEN [acc EXCEPT !.seen = @ \cup {n}]
           ELSE CollectValues(t, n.child, path \o n.key, [acc EXCEPT !.seen = @ \cup {n}])
      [] OTHER ->
           FoldLeft(LAMBDA a, i : IF n.kids[i] \notin t.nodes THEN a
                                  ELSE CollectValues(t, n.kids[i], Append(path, i), a),
                    [acc EXCEPT !.seen = @ \cup {n}], [i \in 1..Radix |-> i - 1])

WalkAllValueNodes(t) ==
    IF RootMissing(t) THEN << >> ELSE CollectValues(t, t.root, << >>, [seen |-> {}, list |-> << >>]).list

\* A page of at most limit values from start on; nextKey is set again by every
\* value after the page.
GetValueMap(t, start, limit) ==
    LET from == SelectSeq(WalkAllValueNodes(t), LAMBDA e : nibblesCompare(e[1], start) >= 0)
    IN [values |-> Upto(from, Min({limit, Len(from)})),
        nextKey |-> IF Len(from) > limit THEN Last(from)[1] ELSE << >>]
-----------------------------------------------------------------------------
(* Proofs *)

CreateMerkleProof(t, key) == FindPath(t, key).stack

\* A trie made of the nodes of a proof; the first must be the root.
ProofTrie(root, proof) == [root |-> root, nodes |-> ToSet(proof), persisted |-> None]
ProofAccepted(root, proof) == IF proof = << >> THEN root = None ELSE proof[1] = root

\* The value, "" for a proof of absence, or a refusal.
VerifyProof(root, key, proof) ==
    LET t == ProofTrie(root, proof)
    IN IF ~ProofAccepted(root, proof) \/ FindPath(t, key).missing THEN "refused" ELSE Get(t, key)

\* hasRightElement: a leaf is never taken to be to the right.
RECURSIVE RightOf(_, _, _, _)
RightOf(t, n, key, pos) ==
    LET rest == From(key, pos)
    IN CASE n.t = "branch" ->
              \/ \E i \in DOMAIN n.kids : i > rest[1] /\ n.kids[i] # None
              \/ n.kids[rest[1]] # None /\ RightOf(t, n.kids[rest[1]], key, pos + 1)
         [] n.t = "ext" -> IF IsPrefix(n.key, rest) THEN RightOf(t, n.child, key, pos + Len(n.key))
                           ELSE nibblesCompare(n.key, rest) > 0
         [] OTHER -> FALSE
HasRightElement(t, key) == RightOf(t, t.root, key, 0)

\* The last node of the stack loses a child; only a branch can.
Failed == [stack |-> << >>, end |-> -1]
Without(stack, i) == [stack EXCEPT ![Len(stack)].kids[i] = None]

\* unset: everything below child on one side of key goes, and key itself.
RECURSIVE UnsetBetween(_, _, _, _, _, _)
UnsetBetween(t, stack, child, key, pos, removeLeft) ==
    LET rest == From(key, pos)
        cut == [stack |-> Without(stack, key[pos]), end |-> pos - 1]
        keep == [stack |-> stack, end |-> pos - 1]
        cleared == [child EXCEPT !.kids = [i \in DOMAIN @ |->
                      IF (removeLeft /\ i < rest[1]) \/ (~removeLeft /\ i > rest[1]) THEN None ELSE @[i]]]
        order == nibblesCompare(child.key, rest)
    IN CASE child.t = "none" -> keep
         [] child.t # "none" /\ Missing(t, child) -> Failed
         [] child.t = "branch" /\ ~Missing(t, child) ->
              UnsetBetween(t, Append(stack, cleared), child.kids[rest[1]], key, pos + 1, removeLeft)
         [] child.t \in {"leaf", "ext"} /\ ~Missing(t, child) /\ ~IsPrefix(child.key, rest) ->
              IF (removeLeft /\ order < 0) \/ (~removeLeft /\ order > 0) THEN cut ELSE keep
         [] child.t = "leaf" /\ ~Missing(t, child) /\ IsPrefix(child.key, rest) -> cut
         [] OTHER -> UnsetBetween(t, Append(stack, child), child.child, key, pos + Len(child.key), removeLeft)

\* Where the paths to left and right part: the stack down to that node.
RECURSIVE Fork(_, _, _, _, _, _)
Fork(t, stack, n, pos, left, right) ==
    LET here == Append(stack, n)
        found == [stack |-> here, pos |-> pos]
        l == From(left, pos)
        r == From(right, pos)
    IN CASE n.t # "branch" ->
              IF n.t = "ext" /\ IsPrefix(n.key, l) /\ IsPrefix(n.key, r)
              THEN IF Missing(t, n.child) THEN [stack |-> << >>, pos |-> 0]
                   ELSE Fork(t, here, n.child, pos + Len(n.key), left, right)
              ELSE found
         [] n.t = "branch" ->
              LET a == n.kids[l[1]]
                  b == n.kids[r[1]]
              IN IF a = None \/ b = None \/ a # b THEN found
                 ELSE IF Missing(t, a) THEN [stack |-> << >>, pos |-> 0]
                 ELSE Fork(t, here, a, pos + 1, left, right)

Refused == [root |-> None, nodes |-> {}, persisted |-> None, ok |-> FALSE]
Cleared(t) == t @@ [ok |-> TRUE]

\* The stack, saved with the path that leads to its last node.
SavedUnset(t, u, key, pos) ==
    IF u.stack = << >> THEN Refused ELSE Cleared(Saved(t, Upto(key, pos + u.end), u.stack, << >>))

\* unsetInternal: everything from left to right goes.
UnsetInternal(t, left, right) ==
    LET f == Fork(t, << >>, t.root, 0, left, right)
        n == Last(f.stack)
        pos == f.pos
        Side(key) == nibblesCompare(Upto(From(key, pos), Min({Len(n.key), Len(key) - pos})), n.key)
        RemoveSelf(key) ==
            IF Len(f.stack) = 1 THEN Cleared([t EXCEPT !.root = None])
            ELSE Cleared(Saved(t, Upto(key, pos - 1), Without(Front(f.stack), key[pos]), << >>))
        OneSide(key, removeLeft) ==
            IF n.t = "leaf" THEN RemoveSelf(key)
            ELSE SavedUnset(t, UnsetBetween(t, f.stack, n.child, From(key, pos), Len(n.key), removeLeft), key, pos)
        inner == [f.stack EXCEPT ![Len(f.stack)].kids =
                    [i \in DOMAIN @ |-> IF left[pos + 1] < i /\ i < right[pos + 1] THEN None ELSE @[i]]]
        u == UnsetBetween(t, inner, n.kids[left[pos + 1]], From(left, pos), 1, FALSE)
        first == SavedUnset(t, u, left, pos)
        deeper == From(u.stack, Len(f.stack))
        \* the fork as the first pass left it
        fork == IF deeper = << >> THEN Last(u.stack)
                ELSE [Last(inner) EXCEPT !.kids[left[pos + 1]] =
                        SaveStack(SubSeq(left, pos + 2, pos + u.end), deeper, None, << >>).root]
        again == Append(Front(inner), fork)
    IN CASE RootMissing(t) \/ f.stack = << >> -> Refused
         [] ~RootMissing(t) /\ f.stack # << >> /\ n.t # "branch" ->
              (CASE Side(left) = Side(right) -> Refused
                 [] Side(left) # 0 /\ Side(right) # 0 /\ Side(left) # Side(right) -> RemoveSelf(left)
                 [] Side(left) = 0 /\ Side(right) # 0 -> OneSide(left, FALSE)
                 [] OTHER -> OneSide(right, TRUE))
         [] OTHER ->
              IF ~first.ok THEN Refused
              ELSE SavedUnset([root |-> first.root, nodes |-> first.nodes, persisted |-> None],
                              UnsetBetween(t, again, fork.kids[right[pos + 1]], From(right, pos), 1, TRUE),
                              right, pos)

\* The claims put into a trie one by one; a missing node refuses them all.
PutAll(t, claims) ==
    FoldLeft(LAMBDA a, c : IF a.ok /\ Puttable(a, c[1]) THEN PutIn(a, c[1], c[2], FALSE) ELSE Refused, t, claims)

Empty == [root |-> None, nodes |-> {}, persisted |-> None]
Ascending(claims) == \A i \in 1..Len(claims) - 1 : nibblesCompare(claims[i][1], claims[i + 1][1]) < 0
NoKey == << >>
Said(more) == IF more THEN "more" ELSE "end"

\* verifyMerkleRangeProof: "more" or "end" where accepted.
VerifyRange(root, first, last, claims, proof) ==
    LET t == ProofTrie(root, proof)
        value == VerifyProof(root, first, proof)
        rebuilt == PutAll(UnsetInternal(t, first, last), claims)
    IN CASE ~Ascending(claims) -> "refused"
         [] Ascending(claims) /\ proof = << >> /\ first = NoKey /\ last = NoKey ->
              IF PutAll(Cleared(Empty), claims).root = root THEN "end" ELSE "refused"
         [] Ascending(claims) /\ proof # << >> /\ first # NoKey /\ last = NoKey /\ claims = << >> ->
              IF value # "" \/ HasRightElement(t, first) THEN "refused" ELSE "end"
         [] Ascending(claims) /\ proof # << >> /\ first # NoKey /\ last = first /\ Len(claims) = 1 ->
              IF value = "refused" \/ claims[1] # <<first, value>> THEN "refused"
              ELSE Said(HasRightElement(t, first))
         [] Ascending(claims) /\ proof # << >> /\ first # NoKey /\ last # NoKey /\ nibblesCompare(first, last) < 0 ->
              IF ~ProofAccepted(root, proof) \/ rebuilt.root # root \/ claims = << >> THEN "refused"
              ELSE Said(HasRightElement(rebuilt, Last(claims)[1]))
         [] OTHER -> "refused"
-----------------------------------------------------------------------------
(* The trie as it is used *)

\* Reference: the one trie with this content, cut at depth pos.
RECURSIVE Canonical(_, _)
Canonical(pairs, pos) ==
    LET p == CHOOSE q \in pairs : TRUE
        common == Max({n \in pos..Len(p[1]) : \A q \in pairs : Upto(q[1], n) = Upto(p[1], n)})
        below == Branch([i \in 0..Radix - 1 |->
                    Canonical({q \in pairs : q[1][common + 1] = i}, common + 1)], "")
    IN CASE pairs = {} -> None
         [] Cardinality(pairs) = 1 -> Leaf(From(p[1], pos), p[2])
         [] Cardinality(pairs) > 1 /\ common = pos -> below
         [] OTHER -> Ext(SubSeq(p[1], pos + 1, common), below)
Pairs(c) == {<<k, c[k]>> : k \in {x \in DOMAIN c : c[x] # ""}}
RootOf(c) == Canonical(Pairs(c), 0)

\* The nodes of a trie that must be stored.
Kids(n) == CASE n.t = "branch" -> [i \in 1..Radix |-> n.kids[i - 1]]
             [] n.t = "ext" -> <<n.child>>
             [] OTHER -> << >>
RECURSIVE NodesBelow(_)
NodesBelow(n) == FoldLeft(LAMBDA s, c : IF c = None THEN s ELSE s \o <<c>> \o NodesBelow(c), << >>, Kids(n))
Places(root) == IF root = None THEN << >> ELSE <<root>> \o SelectSeq(NodesBelow(root), ByHash)
Stored(root) == ToSet(Places(root))
\* Every stored node but the root is the child of a node of the trie.
VerifyPrunedIntegrity(t) == t.nodes \ {t.root} \subseteq (IF t.root = None THEN {} ELSE ToSet(NodesBelow(t.root)))
Shares(root) == Cardinality(Stored(root)) # Len(Places(root))

PersistRoot(t) == [t EXCEPT !.persisted = t.root]

Changed(t, c) ==
    /\ trie' = PersistRoot(t)
    /\ content' = c
    /\ past' = past \cup {<<t.root, c>>}
    /\ sharing' = (sharing \/ Shares(t.root))
    /\ ops' = ops + 1
    /\ UNCHANGED <<prune, saved>>

TriePut(k, v) ==
    /\ ops < MaxOps /\ Puttable(trie, k)
    /\ Changed(PutIn(trie, k, v, prune), [content EXCEPT ![k] = v])

TrieDel(k) ==
    /\ ops < MaxOps
    /\ Changed(DelIn(trie, k, prune), [content EXCEPT ![k] = ""])

\* checkpoint, commit and revert of the store and of the root.
TrieCheckpoint ==
    /\ saved = << >>
    /\ saved' = <<[trie |-> trie, content |-> content, past |-> past]>>
    /\ UNCHANGED <<trie, prune, content, past, sharing, ops>>
TrieCommit ==
    /\ saved # << >>
    /\ saved' = Front(saved)
    /\ trie' = PersistRoot(trie)
    /\ UNCHANGED <<prune, content, past, sharing, ops>>
TrieRevert ==
    /\ saved # << >>
    /\ LET s == Last(saved) IN /\ trie' = PersistRoot(s.trie)
                               /\ content' = s.content
                               /\ past' = s.past
    /\ saved' = Front(saved)
    /\ UNCHANGED <<prune, sharing, ops>>

\* The process ends and createMPT opens the database again: what was not
\* committed is gone, and the root is the one on disk.
Reopen ==
    /\ ops > 0
    /\ LET s == IF saved = << >> THEN [trie |-> trie, content |-> content, past |-> past] ELSE saved[1]
       IN /\ trie' = [s.trie EXCEPT !.root = s.trie.persisted]
          /\ \E r \in s.past : r[1] = s.trie.persisted /\ content' = r[2]
          /\ past' = s.past
    /\ saved' = << >>
    /\ UNCHANGED <<prune, sharing, ops>>

\* root(value): to any earlier root, which pruning does not keep.
SetRoot ==
    /\ ~prune /\ ops < MaxOps
    /\ \E r \in past : /\ trie' = [trie EXCEPT !.root = r[1]]
                        /\ content' = r[2]
    /\ ops' = ops + 1
    /\ UNCHANGED <<prune, saved, past, sharing>>

\* What a prover may claim of a range: the truth, an entry left out, a value
\* changed, an entry added.
InRange(k, first, last) == nibblesCompare(first, k) <= 0 /\ (last = NoKey \/ nibblesCompare(k, last) <= 0)
Entries(c, first, last) == {p \in Pairs(c) : InRange(p[1], first, last)}
Listed(pairs) == SetToSortSeq(pairs, LAMBDA a, b : nibblesCompare(a[1], b[1]) < 0)
Claims(truth) == {truth} \cup {truth \ {p} : p \in truth}
                 \cup {(truth \ {p}) \cup {<<p[1], v>>} : p \in truth, v \in TrieValues}
                 \cup {truth \cup {<<k, v>>} : k \in {x \in Probes : \A p \in truth : p[1] # x},
                                              v \in {CHOOSE u \in TrieValues : TRUE}}
Edges(first, last) ==
    IF first = NoKey THEN << >>
    ELSE CreateMerkleProof(trie, first) \o (IF last \in {NoKey, first} THEN << >> ELSE CreateMerkleProof(trie, last))

\* What a verifier answers to a claim about this trie's range, given the nodes
\* on the way to both ends.
Verdict(first, last, claims) ==
    VerifyRange(trie.root, first, last, Listed(claims), Edges(first, last))

TrieInit ==
    /\ content \in [TrieKeys -> TrieValues \cup {""}]
    /\ trie = [root |-> RootOf(content), nodes |-> Stored(RootOf(content)), persisted |-> RootOf(content)]
    /\ prune \in BOOLEAN
    /\ saved = << >> /\ past = {<<RootOf(content), content>>}
    /\ sharing = Shares(RootOf(content))
    /\ ops = 0

TrieNext == \/ \E k \in TrieKeys : TrieDel(k) \/ \E v \in TrieValues : TriePut(k, v)
            \/ TrieCheckpoint \/ TrieCommit \/ TrieRevert \/ Reopen \/ SetRoot
-----------------------------------------------------------------------------

\* Types, and the shape of nodes: an extension has a path, a
\* branch has two children at least (_updateNode, _deleteNode).
TrieTypeOK ==
    /\ trie.root = None \/ trie.root.t \in {"leaf", "ext", "branch"}
    /\ \A n \in trie.nodes \cup {trie.root} \cup ToSet(NodesBelow(trie.root)) :
          /\ n.t = "ext" => n.key # << >>
          /\ n.t = "branch" => Cardinality({i \in DOMAIN n.kids : n.kids[i] # None}) > 1
    /\ content \in [TrieKeys -> TrieValues \cup {""}]
    /\ prune \in BOOLEAN /\ sharing \in BOOLEAN
    /\ Len(saved) \in 0..1 /\ ops \in 0..MaxOps

\* Pruning counts no references: it is only right where no two places of the
\* trie hold the same node.
Sound == prune => ~sharing

\* Every key reads as the last value put there (get, findPath), through every
\* update, deletion, commit, revert, reopening and return to an older root.
TrieContents == Sound => \A k \in TrieKeys : /\ Get(trie, k) = content[k]
                                             /\ trie.root # None => ~FindPath(trie, k).missing

\* The root depends on the content only, not on the updates that led to it
\* (_updateNode, _deleteNode and its collapse of branches).
TrieCanonical == Sound => trie.root = RootOf(content)

\* Every node of the trie is stored, and with pruning no other is
\* (verifyPrunedIntegrity).
TrieStored == Sound => /\ Stored(trie.root) \subseteq trie.nodes
                       /\ prune => trie.nodes \subseteq Stored(trie.root) /\ VerifyPrunedIntegrity(trie)

\* Without pruning an older root stays readable (the promise of root()).
OldRoots == ~prune => \A r \in past : Stored(r[1]) \subseteq trie.nodes

\* A page of getValueMap holds the next values in order and says whether there
\* are more, where no node is kept inside a branch and none occurs twice.
Inlined(root) == \E n \in {root} \cup ToSet(NodesBelow(root)) :
                    n.t = "branch" /\ \E i \in DOMAIN n.kids : n.kids[i] # None /\ ~ByHash(n.kids[i])
PagesExact ==
    ~sharing /\ ~Inlined(trie.root) =>
       \A start \in Probes, limit \in 1..2 :
          LET page == GetValueMap(trie, start, limit)
              all == Listed(Entries(content, start, NoKey))
          IN /\ page.values = Upto(all, Min({limit, Len(all)}))
             /\ page.nextKey = NoKey <=> Len(all) <= limit

\* The proof made for a key shows its value or its absence, and nothing else
\* (createMerkleProof, verifyMPTWithMerkleProof).
ProofsExact ==
    trie.root # None /\ Sound => \A k \in Probes :
       VerifyProof(trie.root, k, CreateMerkleProof(trie, k)) = (IF k \in TrieKeys THEN content[k] ELSE "")

\* The search for the ends of a range compares the children of a branch, not
\* their positions (unsetInternal): ranges are only right where no branch has
\* two equal children.
Twins(root) == \E n \in {root} \cup ToSet(NodesBelow(root)) :
                  n.t = "branch" /\ \E i, j \in DOMAIN n.kids : i # j /\ n.kids[i] # None /\ n.kids[i] = n.kids[j]
Judged == ops = 0 /\ ~prune /\ trie.root # None /\ ~Twins(trie.root)

\* A range is accepted only where it holds every entry between its ends and no
\* entry that the trie does not have; a true range is accepted, and whether
\* more follows it is answered rightly (verifyMerkleRangeProof).
RangeExact ==
    Judged => \A ends \in {e \in Probes \X Probes : nibblesCompare(e[1], e[2]) <= 0} \cup {<<NoKey, NoKey>>} :
       \A truth \in {Entries(content, ends[1], ends[2])} : \A claims \in Claims(truth) :
          \A said \in {Verdict(ends[1], ends[2], claims)} :
             /\ said # "refused" => truth \subseteq claims /\ claims \subseteq Pairs(content)
             /\ claims = truth /\ truth # {} =>
                  said = Said(\E p \in Pairs(content) : \A q \in truth : nibblesCompare(q[1], p[1]) < 0)

\* The trie holds what was put, in its one shape, with the nodes it needs; old
\* roots stay readable, and pages, proofs and range proofs show the content.
TrieSound == /\ TrieTypeOK /\ TrieContents /\ TrieCanonical /\ TrieStored
             /\ OldRoots /\ PagesExact /\ ProofsExact /\ RangeExact
=============================================================================
