----------------------------- MODULE ChainProofs -----------------------------
(***************************************************************************)
(* What is kept on disk: the chain, and the database of the state trees.   *)
(*                                                                         *)
(* For every finite or infinite tree of blocks, every fork choice and any  *)
(* number of iterators: the number index is the path to the head header,   *)
(* heads stay on it where the fork choice keeps them there, uncles count   *)
(* once, and no iterator passes over a block.                              *)
(*                                                                         *)
(* The heart is the lemma that a put which extends the chain leaves the    *)
(* path of its block (PutIndex): _rebuildCanonical stops at the highest    *)
(* entry the index already agrees with, and two paths of a tree that meet  *)
(* agree below.  Around it the invariant says what a restart finds         *)
(* (SavedHeads), what is known while a callback runs (Locking, Following),  *)
(* and what an uncle was checked against (UncleChecked).                   *)
(***************************************************************************)
EXTENDS Chain, CheckpointDB, SequenceTheorems, FiniteSetTheorems, WellFoundedInduction, TLAPS

Runs == [pc : {"idle", "fetch", "callback"}, release : BOOLEAN, next : Nat,
         block : Blocks \cup {None}, last : Blocks \cup {None},
         from : Blocks \cup {None}, raced : BOOLEAN]

\* The types, of the ghosts and of the iterators' runs too.
Types ==
    /\ mode \in Modes
    /\ td \in [DOMAIN td -> Nat] /\ DOMAIN td \subseteq Blocks
    /\ bodies \subseteq DOMAIN td
    /\ mem \in Heads /\ saved \in Heads
    /\ lock \in Names \cup {None}
    /\ it \in [Names -> Runs]
    /\ unsaved \in BOOLEAN /\ hurt \in BOOLEAN

\* What the index names is stored, under its own number.
Index ==
    /\ canon \in [DOMAIN canon -> Blocks] /\ DOMAIN canon \subseteq Nat
    /\ \A k \in DOMAIN canon : Stored(canon[k]) /\ Number[canon[k]] = k

\* The index is the path to the head header unless that header was lost.
PathToHead ==
    /\ Stored(mem.header) => canon = Path[mem.header]
    /\ ~Stored(mem.header) => hurt

OnChain(m) ==
    /\ IsCanonical(m.block)
    /\ \A i \in Names : m.heads[i] # None => IsCanonical(m.heads[i])

\* What a restart finds: the heads in memory but for those that only moved in
\* memory, or a header that is gone.
SavedHeads ==
    /\ unsaved => ~Stored(saved.header)
    /\ ~unsaved => saved.header = mem.header
    /\ mode # "td" /\ ~hurt => OnChain(mem)
    /\ mode # "td" /\ ~hurt /\ ~unsaved => OnChain(saved)

\* Who holds the lock, and the block a callback runs for.
Holding(i) ==
    /\ lock = i => it[i].pc \in {"fetch", "callback"}
    /\ it[i].pc = "fetch" => lock = i
    /\ it[i].pc = "callback" =>
          /\ it[i].release <=> lock # i
          /\ it[i].block \in Blocks /\ Number[it[i].block] = it[i].next
          /\ ~it[i].release /\ ~hurt => it[i].next \in DOMAIN canon /\ canon[it[i].next] = it[i].block
    /\ IF it[i].pc = "idle" THEN ~it[i].raced /\ it[i].last = None ELSE it[i].next > 0

Locking == \A i \in Names : Holding(i)

SavedHeadOf(i) == IF saved.heads[i] = None THEN Genesis ELSE saved.heads[i]

\* Where the head of a run may stand, unless its first callback was overtaken.
Positioned(i) ==
    /\ it[i].pc # "idle" /\ it[i].last = None => it[i].next = Number[HeadOf(i)] + 1
    /\ it[i].last # None => Number[HeadOf(i)] <= Number[it[i].last]
    /\ it[i].pc = "callback" => /\ Number[HeadOf(i)] < Number[it[i].block]
                                /\ Parent[it[i].block] \in {it[i].from, it[i].last}
    /\ ~unsaved => SavedHeadOf(i) \in Ancestors[HeadOf(i)]

Following == \A i \in Names : mode = "number" /\ ~hurt /\ ~it[i].raced => Positioned(i)

\* What validation found of an uncle, which no later step can change.
UncleChecked(b, u) ==
    /\ u \notin Ancestors[b] /\ Parent[u] \in Ancestors[b]
    /\ Number[b] - Number[Parent[u]] \in 2..7
    /\ \A a \in Ancestors[b] \ {b} : Number[a] >= Number[u] - 1 => u \notin Uncles[a]

UnclesChecked == \A b \in bodies : \A u \in Uncles[b] : UncleChecked(b, u)

\* The inductive invariant.
IInv == Types /\ Index /\ PathToHead /\ SavedHeads /\ Locking /\ Following /\ UnclesChecked

-----------------------------------------------------------------------------
(***************************************************************************)
(* Numbers.                                                                *)
(***************************************************************************)

\* A nonempty set of naturals has a least element.
LEMMA Least ==
    ASSUME NEW H \in SUBSET Nat, H # {}
    PROVE  \E i \in H : \A j \in H : i <= j
<1> DEFINE R == OpToRel(<, Nat)
<1>1. IsWellFoundedOn(R, Nat)
  BY NatLessThanWellFounded
<1> HIDE DEF R
<1>2. PICK i \in H : \A j \in H : ~(<<j, i>> \in R)
  BY <1>1, WFMin
<1>3. ASSUME NEW j \in H
      PROVE  i <= j
  <2>1. i \in Nat /\ j \in Nat
    OBVIOUS
  <2>2. ~(<<j, i>> \in R)
    BY <1>2
  <2>3. ~(j < i)
    BY <2>1, <2>2 DEF R, OpToRel
  <2> QED
    BY <2>1, <2>3
<1> QED
  BY <1>3

\* What Min returns.
LEMMA MinFacts ==
    ASSUME NEW H \in SUBSET Nat, H # {}
    PROVE  Min(H) \in H /\ \A j \in H : Min(H) <= j
BY Least DEF Min

\* What Max returns of a bounded set.
LEMMA MaxFacts ==
    ASSUME NEW n \in Nat, NEW H \in SUBSET (0..n), H # {}
    PROVE  Max(H) \in H /\ \A j \in H : j <= Max(H)
<1> DEFINE G == {n - j : j \in H}
<1>1. G \in SUBSET Nat /\ G # {}
  <2>1. \A j \in H : j \in 0..n /\ n - j \in Nat
    OBVIOUS
  <2> QED
    BY <2>1
<1>2. PICK g \in G : \A j \in G : g <= j
  <2> HIDE DEF G
  <2> QED
    BY <1>1, Least
<1>3. PICK i \in H : g = n - i
  OBVIOUS
<1>4. ASSUME NEW j \in H
      PROVE  i >= j
  <2>1. n - i <= n - j
    BY <1>2, <1>3
  <2>2. i \in 0..n /\ j \in 0..n
    OBVIOUS
  <2> QED
    BY <2>1, <2>2
<1>5. \E x \in H : \A y \in H : x >= y
  BY <1>4
<1>6. Max(H) \in H /\ \A y \in H : Max(H) >= y
  BY <1>5 DEF Max
<1> QED
  BY <1>6

-----------------------------------------------------------------------------
(***************************************************************************)
(* The tree.                                                               *)
(***************************************************************************)

\* Ancestors satisfies its recursive definition: what every set closed under
\* Parent that has b has too is a solution of it.
LEMMA AncestorsRec ==
    ASSUME NEW b \in Blocks
    PROVE  Ancestors[b] = IF b = Genesis THEN {b} ELSE {b} \cup Ancestors[Parent[b]]
<1> USE ChainAssumption
<1> DEFINE Closed(S) == \A x \in S : Parent[x] \in S
           Hull(c) == {a \in Blocks : \A S \in SUBSET Blocks : c \in S /\ Closed(S) => a \in S}
           hull == [c \in Blocks |-> Hull(c)]
           Solves(f) == f = [c \in Blocks |-> IF c = Genesis THEN {c} ELSE {c} \cup f[Parent[c]]]
<1>1. ASSUME NEW c \in Blocks
      PROVE  Hull(c) \in SUBSET Blocks /\ c \in Hull(c) /\ Closed(Hull(c))
  OBVIOUS
<1>2. Hull(Genesis) = {Genesis}
  <2>1. {Genesis} \in SUBSET Blocks /\ Closed({Genesis})
    OBVIOUS
  <2>2. Hull(Genesis) \subseteq {Genesis}
    <3> SUFFICES ASSUME NEW a \in Hull(Genesis) PROVE a \in {Genesis}
      OBVIOUS
    <3> QED
      BY <2>1
  <2>3. Genesis \in Hull(Genesis)
    BY <1>1
  <2> QED
    BY <2>2, <2>3
<1>3. ASSUME NEW c \in Blocks
      PROVE  Hull(c) = {c} \cup Hull(Parent[c])
  <2>1. Parent[c] \in Blocks
    OBVIOUS
  <2>2. {c} \cup Hull(Parent[c]) \in SUBSET Blocks /\ Closed({c} \cup Hull(Parent[c]))
    BY <1>1, <2>1
  <2>3. Hull(c) \subseteq {c} \cup Hull(Parent[c])
    <3> SUFFICES ASSUME NEW a \in Hull(c) PROVE a \in {c} \cup Hull(Parent[c])
      OBVIOUS
    <3> QED
      BY <2>2
  <2>4. Hull(Parent[c]) \subseteq Hull(c)
    BY <2>1
  <2>5. c \in Hull(c)
    BY <1>1
  <2> HIDE DEF Hull
  <2> QED
    BY <2>3, <2>4, <2>5
<1> HIDE DEF Hull
<1>4. Solves(hull)
  <2> DEFINE g == [c \in Blocks |-> IF c = Genesis THEN {c} ELSE {c} \cup hull[Parent[c]]]
  <2>1. ASSUME NEW c \in Blocks
        PROVE  hull[c] = IF c = Genesis THEN {c} ELSE {c} \cup hull[Parent[c]]
    <3>1. Parent[c] \in Blocks
      OBVIOUS
    <3> QED
      BY <1>2, <1>3, <3>1
  <2>2. hull = [c \in Blocks |-> hull[c]]
    OBVIOUS
  <2> HIDE DEF hull
  <2>3. hull = g
    BY <2>1, <2>2
  <2> QED
    BY <2>3
<1> HIDE DEF hull
<1>5. Solves(CHOOSE f : Solves(f))
  BY <1>4
<1> DEFINE up == CHOOSE f : Solves(f)
<1>6. Ancestors = [c \in Blocks |-> up[c]]
  BY DEF Ancestors
<1> HIDE DEF up
<1>7. up = [c \in Blocks |-> IF c = Genesis THEN {c} ELSE {c} \cup up[Parent[c]]]
  BY <1>5 DEF up
<1>8. Parent[b] \in Blocks
  OBVIOUS
<1>9. up[b] = IF b = Genesis THEN {b} ELSE {b} \cup up[Parent[b]]
  BY <1>7
<1> QED
  BY <1>6, <1>8, <1>9

\* Sorting blocks by number: one ancestor for every number up to the block's.
Ranked(b) ==
    /\ Ancestors[b] \in SUBSET Blocks /\ b \in Ancestors[b] /\ Genesis \in Ancestors[b]
    /\ \A a \in Ancestors[b] : /\ Number[a] <= Number[b]
                               /\ Ancestors[a] \subseteq Ancestors[b]
                               /\ a # Genesis => Parent[a] \in Ancestors[b]
    /\ \A a, c \in Ancestors[b] : Number[a] = Number[c] => a = c
    /\ \A n \in 0..Number[b] : \E a \in Ancestors[b] : Number[a] = n

\* The ancestors of a block carry the numbers up to its own.
LEMMA AncestorsRanked ==
    ASSUME NEW b \in Blocks
    PROVE  Ranked(b)
<1> USE ChainAssumption
<1>1. Ranked(Genesis)
  <2>1. Ancestors[Genesis] = {Genesis}
    BY AncestorsRec
  <2> QED
    BY <2>1 DEF Ranked
<1>2. ASSUME NEW c \in Blocks \ {Genesis}, Ranked(Parent[c])
      PROVE  Ranked(c)
  <2> DEFINE p == Parent[c]
  <2>1. /\ p \in Blocks /\ Number[p] \in Nat /\ Number[c] \in Nat /\ Number[c] = Number[p] + 1
        /\ Ancestors[c] = {c} \cup Ancestors[p]
    BY AncestorsRec
  <2> HIDE DEF p
  <2>2. Ranked(p)
    BY <1>2 DEF p
  <2>3. \A a \in Ancestors[p] : Number[a] \in Nat /\ Number[a] < Number[c]
    BY <2>1, <2>2 DEF Ranked
  <2>4. Ancestors[c] \in SUBSET Blocks /\ c \in Ancestors[c] /\ Genesis \in Ancestors[c]
    BY <2>1, <2>2 DEF Ranked
  <2>5. ASSUME NEW a \in Ancestors[c]
        PROVE  /\ Number[a] <= Number[c] /\ Ancestors[a] \subseteq Ancestors[c]
               /\ a # Genesis => Parent[a] \in Ancestors[c]
    <3>1. CASE a = c
      <4>1. p \in Ancestors[p]
        BY <2>2 DEF Ranked
      <4> QED
        BY <2>1, <3>1, <4>1 DEF p
    <3>2. CASE a # c
      BY <2>1, <2>2, <2>3, <3>2 DEF Ranked
    <3> QED
      BY <3>1, <3>2
  <2>6. ASSUME NEW a \in Ancestors[c], NEW d \in Ancestors[c], Number[a] = Number[d]
        PROVE  a = d
    <3>1. CASE a = c \/ d = c
      BY <2>1, <2>3, <2>6, <3>1
    <3>2. CASE ~(a = c \/ d = c)
      BY <2>1, <2>2, <2>6, <3>2 DEF Ranked
    <3> QED
      BY <3>1, <3>2
  <2>7. ASSUME NEW n \in 0..Number[c]
        PROVE  \E a \in Ancestors[c] : Number[a] = n
    <3>1. CASE n = Number[c]
      BY <2>1, <3>1
    <3>2. CASE n # Number[c]
      <4>1. n \in 0..Number[p]
        BY <2>1, <3>2
      <4> QED
        BY <2>1, <2>2, <4>1 DEF Ranked
    <3> QED
      BY <3>1, <3>2
  <2> QED
    BY <2>4, <2>5, <2>6, <2>7 DEF Ranked
<1> DEFINE H == {Number[c] : c \in {d \in Blocks : ~Ranked(d)}}
<1>3. H \in SUBSET Nat
  OBVIOUS
<1>4. SUFFICES ASSUME H # {} PROVE FALSE
  OBVIOUS
<1>5. PICK i \in H : \A j \in H : i <= j
  <2> HIDE DEF H
  <2> QED
    BY <1>3, <1>4, Least
<1>6. PICK c \in Blocks : ~Ranked(c) /\ Number[c] = i
  OBVIOUS
<1>7. c # Genesis
  BY <1>1, <1>6
<1>8. Parent[c] \in Blocks /\ Number[Parent[c]] \in Nat /\ Number[c] = Number[Parent[c]] + 1
  BY <1>7
<1>9. Number[Parent[c]] \notin H
  <2>1. ~(i <= Number[Parent[c]])
    BY <1>6, <1>8
  <2> HIDE DEF H
  <2> QED
    BY <1>5, <2>1
<1>10. Ranked(Parent[c])
  BY <1>8, <1>9
<1> QED
  BY <1>2, <1>6, <1>7, <1>10

\* The path to a block: its ancestors in the order of their numbers.
Traced(b) ==
    /\ Path[b] \in [0..Number[b] -> Blocks]
    /\ Path[b][0] = Genesis /\ Path[b][Number[b]] = b
    /\ \A n \in 0..Number[b] : Number[Path[b][n]] = n /\ Path[b][n] \in Ancestors[b]
    /\ \A a \in Ancestors[b] : Number[a] \in 0..Number[b] /\ Path[b][Number[a]] = a
    /\ \A n \in 1..Number[b] : Parent[Path[b][n]] = Path[b][n - 1]

\* A path is a function from the numbers up to its block's to its ancestors.
LEMMA PathFacts ==
    ASSUME NEW b \in Blocks
    PROVE  Number[b] \in Nat /\ Traced(b)
<1>1. /\ Number[b] \in Nat /\ Number[Genesis] = 0 /\ Genesis \in Blocks
      /\ \A a \in Blocks : Number[a] \in Nat
  BY ChainAssumption
<1>2. Ranked(b)
  BY AncestorsRanked
<1>3. Path[b] = [n \in 0..Number[b] |-> CHOOSE a \in Ancestors[b] : Number[a] = n]
  BY DEF Path
<1>4. ASSUME NEW n \in 0..Number[b]
      PROVE  Path[b][n] \in Ancestors[b] /\ Number[Path[b][n]] = n
  <2>1. \E a \in Ancestors[b] : Number[a] = n
    BY <1>2 DEF Ranked
  <2>2. Path[b][n] = CHOOSE a \in Ancestors[b] : Number[a] = n
    BY <1>3
  <2> QED
    BY <2>1, <2>2
<1>5. ASSUME NEW a \in Ancestors[b]
      PROVE  Number[a] \in 0..Number[b] /\ Path[b][Number[a]] = a
  <2>1. Number[a] \in 0..Number[b]
    BY <1>1, <1>2 DEF Ranked
  <2> QED
    BY <2>1, <1>2, <1>4 DEF Ranked
<1>6. Path[b] \in [0..Number[b] -> Blocks]
  <2>1. Ancestors[b] \in SUBSET Blocks
    BY <1>2 DEF Ranked
  <2>2. \A n \in 0..Number[b] : Path[b][n] \in Blocks
    BY <1>4, <2>1
  <2> QED
    BY <1>3, <2>2
<1>7. Path[b][0] = Genesis /\ Path[b][Number[b]] = b
  BY <1>1, <1>2, <1>5 DEF Ranked
<1>8. ASSUME NEW n \in 1..Number[b]
      PROVE  Parent[Path[b][n]] = Path[b][n - 1]
  <2> DEFINE a == Path[b][n]
  <2>1. n \in 0..Number[b] /\ n # 0 /\ n - 1 \in 0..Number[b] /\ n \in Nat
    BY <1>1
  <2>2. a \in Ancestors[b] /\ Number[a] = n /\ a \in Blocks
    BY <1>2, <1>4, <2>1 DEF Ranked
  <2> HIDE DEF a
  <2>3. a # Genesis
    BY <1>1, <2>1, <2>2
  <2>4. Parent[a] \in Ancestors[b] /\ Parent[a] \in Blocks
    BY <1>2, <2>2, <2>3 DEF Ranked
  <2>5. Number[a] = Number[Parent[a]] + 1 /\ Number[Parent[a]] \in Nat
    BY <2>2, <2>3, <2>4, ChainAssumption
  <2>6. Number[Parent[a]] = n - 1
    BY <2>1, <2>2, <2>5
  <2> QED
    BY <2>4, <2>6, <1>5 DEF a
<1> QED
  BY <1>1, <1>4, <1>5, <1>6, <1>7, <1>8 DEF Traced

\* Paths agree below a common ancestor.
LEMMA PathMeets ==
    ASSUME NEW b \in Blocks, NEW a \in Ancestors[b]
    PROVE  /\ a \in Blocks /\ Number[a] \in 0..Number[b]
           /\ \A k \in 0..Number[a] : Path[a][k] = Path[b][k]
           /\ Path[a] = [k \in 0..Number[a] |-> Path[b][k]]
<1>1. Ranked(b) /\ Traced(b) /\ Number[b] \in Nat
  BY AncestorsRanked, PathFacts
<1>2. a \in Blocks /\ Number[a] \in 0..Number[b] /\ Ancestors[a] \subseteq Ancestors[b]
  BY <1>1 DEF Ranked, Traced
<1>3. Traced(a)
  BY <1>2, PathFacts
<1>4. ASSUME NEW k \in 0..Number[a]
      PROVE  Path[a][k] = Path[b][k]
  <2>1. Path[a][k] \in Ancestors[b] /\ Number[Path[a][k]] = k
    BY <1>2, <1>3 DEF Traced
  <2> QED
    BY <1>1, <2>1 DEF Traced
<1>5. Path[a] = [k \in 0..Number[a] |-> Path[a][k]]
  BY <1>3 DEF Traced
<1> QED
  BY <1>2, <1>4, <1>5

\* Ancestors of ancestors, and of blocks of one path in the order of their numbers.
LEMMA AncestorsNest ==
    ASSUME NEW b \in Blocks
    PROVE  /\ Ancestors[b] \in SUBSET Blocks /\ b \in Ancestors[b] /\ Genesis \in Ancestors[b]
           /\ \A a \in Ancestors[b] : Ancestors[a] \subseteq Ancestors[b]
           /\ \A a, c \in Ancestors[b] : Number[a] <= Number[c] => a \in Ancestors[c]
<1>1. Ranked(b) /\ Traced(b) /\ Number[b] \in Nat
  BY AncestorsRanked, PathFacts
<1>2. ASSUME NEW a \in Ancestors[b], NEW c \in Ancestors[b], Number[a] <= Number[c]
      PROVE  a \in Ancestors[c]
  <2>1. /\ c \in Blocks /\ Number[c] \in Nat /\ Number[a] \in Nat
        /\ \A k \in 0..Number[c] : Path[c][k] = Path[b][k]
    <3>1. c \in Blocks /\ Number[c] \in 0..Number[b] /\ Number[a] \in 0..Number[b]
      BY PathMeets
    <3>2. \A k \in 0..Number[c] : Path[c][k] = Path[b][k]
      BY PathMeets
    <3> QED
      BY <1>1, <3>1, <3>2
  <2>2. Number[a] \in 0..Number[c]
    BY <1>2, <2>1
  <2>3. Path[c][Number[a]] = a
    BY <1>1, <2>1, <2>2 DEF Traced
  <2>4. Traced(c)
    BY <2>1, PathFacts
  <2> QED
    BY <2>2, <2>3, <2>4 DEF Traced
<1> QED
  BY <1>1, <1>2 DEF Ranked

\* Being an ancestor and being on the path are the same.
LEMMA PathMembers ==
    ASSUME NEW h \in Blocks
    PROVE  \A x \in Blocks : x \in Ancestors[h] <=> (Number[x] \in DOMAIN Path[h] /\ Path[h][Number[x]] = x)
<1>1. Traced(h) /\ Number[h] \in Nat
  BY PathFacts
<1>2. DOMAIN Path[h] = 0..Number[h]
  BY <1>1 DEF Traced
<1>3. ASSUME NEW x \in Blocks, x \in Ancestors[h]
      PROVE  Number[x] \in DOMAIN Path[h] /\ Path[h][Number[x]] = x
  BY <1>1, <1>2, <1>3 DEF Traced
<1>4. ASSUME NEW x \in Blocks, Number[x] \in DOMAIN Path[h] /\ Path[h][Number[x]] = x
      PROVE  x \in Ancestors[h]
  BY <1>1, <1>2, <1>4 DEF Traced
<1> QED
  BY <1>3, <1>4

\* Along a path, the index and the ancestors of its end say the same.
LEMMA OnPath ==
    ASSUME NEW h \in Blocks, canon = Path[h]
    PROVE  /\ DOMAIN canon = 0..Number[h] /\ Number[h] \in Nat
           /\ \A k \in 0..Number[h] : /\ canon[k] \in Ancestors[h] /\ canon[k] \in Blocks
                                      /\ Number[canon[k]] = k
           /\ \A x \in Blocks : IsCanonical(x) <=> x \in Ancestors[h]
<1>1. Traced(h) /\ Number[h] \in Nat
  BY PathFacts
<1>2. DOMAIN canon = 0..Number[h]
  BY <1>1 DEF Traced
<1>3. \A k \in 0..Number[h] : /\ canon[k] \in Ancestors[h] /\ canon[k] \in Blocks
                              /\ Number[canon[k]] = k
  BY <1>1 DEF Traced
<1>4. ASSUME NEW x \in Blocks
      PROVE  IsCanonical(x) <=> x \in Ancestors[h]
  <2>1. ASSUME x \in Ancestors[h]
        PROVE  IsCanonical(x)
    BY <1>1, <1>2, <2>1 DEF IsCanonical, Traced
  <2>2. ASSUME IsCanonical(x)
        PROVE  x \in Ancestors[h]
    BY <1>2, <1>3, <2>2 DEF IsCanonical
  <2> QED
    BY <2>1, <2>2
<1> QED
  BY <1>1, <1>2, <1>3, <1>4

-----------------------------------------------------------------------------
(***************************************************************************)
(* The operators that move the index.                                      *)
(***************************************************************************)

\* What _deleteCanonicalChainReferences removes of an index that is a path.
LEMMA AboveOnPath ==
    ASSUME NEW h \in Blocks, canon = Path[h], NEW n \in Nat
    PROVE  Above(n) = n..Number[h]
<1>1. DOMAIN canon = 0..Number[h] /\ Number[h] \in Nat
  BY OnPath
<1>2. Above(n) = {k \in 0..Number[h] : k >= n /\ \A j \in n..k : j \in 0..Number[h]}
  BY <1>1 DEF Above
<1>3. \A k : k \in Above(n) <=> k \in n..Number[h]
  BY <1>1, <1>2
<1> QED
  BY <1>3

\* Cutting a path above one of its blocks leaves the path to that block.
LEMMA CutPath ==
    ASSUME NEW h \in Blocks, canon = Path[h], NEW a \in Ancestors[h]
    PROVE  IndexBelow(Number[a] + 1) = Path[a]
<1>1. /\ DOMAIN canon = 0..Number[h] /\ Number[h] \in Nat /\ Number[a] \in 0..Number[h]
      /\ Path[a] = [k \in 0..Number[a] |-> canon[k]]
  BY OnPath, PathMeets
<1>2. Above(Number[a] + 1) = (Number[a] + 1)..Number[h]
  <2>1. Number[a] + 1 \in Nat
    BY <1>1
  <2> QED
    BY <2>1, AboveOnPath
<1>3. (DOMAIN canon) \ Above(Number[a] + 1) = 0..Number[a]
  BY <1>1, <1>2
<1> QED
  BY <1>1, <1>3 DEF IndexBelow, Restrict

\* Where _rebuildCanonical stops on an index that is a path: at the highest
\* number at which the two paths agree.
LEMMA RebuildStop ==
    ASSUME NEW h \in Blocks, canon = Path[h], NEW b \in Blocks
    PROVE  LET r == RebuildFrom(b)
           IN  /\ r \in 0..Number[b] /\ r \in 0..Number[h]
               /\ Path[b][r] \in Ancestors[h]
               /\ \A k \in 0..r : Path[b][k] = Path[h][k]
               /\ \A k \in 0..Number[b] : k <= Number[h] /\ Path[b][k] = Path[h][k] => k <= r
<1> DEFINE M == {k \in 0..Number[b] : k = 0 \/ (k \in DOMAIN canon /\ canon[k] = AncestorAt(b, k))}
           r == Max(M)
<1>1. RebuildFrom(b) = r
  BY DEF RebuildFrom
<1>2. /\ Number[b] \in Nat /\ Number[h] \in Nat /\ Traced(b) /\ Traced(h)
      /\ DOMAIN canon = 0..Number[h]
  BY PathFacts, OnPath
<1>3. Path[b][0] = Path[h][0]
  BY <1>2 DEF Traced
<1>4. 0 \in M /\ M \in SUBSET (0..Number[b])
  BY <1>2
<1>5. r \in M /\ \A j \in M : j <= r
  <2> HIDE DEF M
  <2> QED
    BY <1>2, <1>4, MaxFacts
<1>6. \A k \in M : k \in 0..Number[b] /\ k \in 0..Number[h] /\ Path[b][k] = Path[h][k]
  BY <1>2, <1>3 DEF AncestorAt
<1>7. \A k \in 0..Number[b] : k <= Number[h] /\ Path[b][k] = Path[h][k] => k \in M
  BY <1>2 DEF AncestorAt
<1> HIDE DEF M
<1>8. r \in 0..Number[b] /\ r \in 0..Number[h] /\ Path[b][r] = Path[h][r]
  BY <1>5, <1>6
<1> HIDE DEF r
<1>9. Path[b][r] \in Ancestors[b] /\ Path[b][r] \in Ancestors[h] /\ Number[Path[b][r]] = r
  BY <1>2, <1>8 DEF Traced
<1>10. \A k \in 0..r : Path[b][k] = Path[h][k]
  <2> DEFINE a == Path[b][r]
  <2>1. a \in Ancestors[b] /\ a \in Ancestors[h] /\ Number[a] = r
    BY <1>9
  <2> HIDE DEF a
  <2>2. \A k \in 0..r : Path[a][k] = Path[b][k] /\ Path[a][k] = Path[h][k]
    BY <2>1, PathMeets
  <2> QED
    BY <2>2
<1>11. \A k \in 0..Number[b] : k <= Number[h] /\ Path[b][k] = Path[h][k] => k <= r
  BY <1>5, <1>7
<1> QED
  BY <1>1, <1>8, <1>9, <1>10, <1>11

\* A put that extends the chain leaves the path of its block.
LEMMA PutIndex ==
    ASSUME NEW h \in Blocks, canon = Path[h], NEW b \in Blocks
    PROVE  RebuiltIndex(b) = Path[b]
<1> DEFINE r == RebuildFrom(b)
<1>1. /\ r \in 0..Number[b] /\ r \in 0..Number[h]
      /\ \A k \in 0..r : Path[b][k] = Path[h][k]
  BY RebuildStop
<1>2. /\ Number[b] \in Nat /\ Number[h] \in Nat /\ Path[b] \in [0..Number[b] -> Blocks]
      /\ DOMAIN canon = 0..Number[h]
  BY PathFacts, OnPath DEF Traced
<1>3. Above(Number[b] + 1) = (Number[b] + 1)..Number[h]
  <2>1. Number[b] + 1 \in Nat
    BY <1>2
  <2> QED
    BY <2>1, AboveOnPath
<1> HIDE DEF r
<1>4. ((DOMAIN canon) \ Above(Number[b] + 1)) \cup ((r + 1)..Number[b]) = 0..Number[b]
  BY <1>1, <1>2, <1>3
<1>5. \A k \in 0..Number[b] : (IF k \in (r + 1)..Number[b] THEN Path[b][k] ELSE canon[k]) = Path[b][k]
  <2>1. \A k \in 0..Number[b] : k \notin (r + 1)..Number[b] => k \in 0..r
    BY <1>1, <1>2
  <2> QED
    BY <1>1, <2>1
<1>6. RebuiltIndex(b) = [k \in 0..Number[b] |->
         IF k \in (r + 1)..Number[b] THEN Path[b][k] ELSE canon[k]]
  BY <1>4 DEF RebuiltIndex, AncestorAt, r
<1> QED
  BY <1>2, <1>5, <1>6

-----------------------------------------------------------------------------
(***************************************************************************)
(* The operators that move the heads.                                      *)
(***************************************************************************)

\* Where a put that extends the chain with b moves a head at x.
Spared(x, b) == IF x \in {canon[k] : k \in Above(Number[b] + 1)} THEN b ELSE x

Settle(x, b) ==
    IF Spared(x, b) \in {canon[k] : k \in {j \in DOMAIN canon : RebuildFrom(b) < j /\ j <= Number[b]}}
    THEN AncestorAt(b, RebuildFrom(b)) ELSE Spared(x, b)

\* Where a put leaves a head: on the path of the new block, for a head of the old
\* path; and on its own, when the new block is higher.
LEMMA SettleFacts ==
    ASSUME NEW h \in Blocks, canon = Path[h], NEW b \in Blocks
    PROVE  /\ Settle(b, b) = b /\ Settle(None, b) = None
           /\ \A x \in Blocks : Settle(x, b) \in Blocks
           /\ \A x \in Ancestors[h] : /\ Settle(x, b) \in Ancestors[b]
                                      /\ Number[b] > Number[h] => Settle(x, b) \in Ancestors[x]
<1> DEFINE r == RebuildFrom(b)
           High == {canon[k] : k \in Above(Number[b] + 1)}
           Old  == {canon[k] : k \in {j \in DOMAIN canon : r < j /\ j <= Number[b]}}
<1>1. /\ r \in 0..Number[b] /\ r \in 0..Number[h]
      /\ Path[b][r] \in Ancestors[h]
      /\ \A k \in 0..Number[b] : k <= Number[h] /\ Path[b][k] = Path[h][k] => k <= r
      /\ \A k \in 0..r : Path[b][k] = Path[h][k]
  BY RebuildStop
<1>2. /\ Number[b] \in Nat /\ Number[h] \in Nat /\ Traced(b) /\ Traced(h)
      /\ DOMAIN canon = 0..Number[h]
      /\ \A k \in 0..Number[h] : canon[k] \in Ancestors[h] /\ canon[k] \in Blocks /\ Number[canon[k]] = k
  BY PathFacts, OnPath
<1> HIDE DEF r
<1>3. ASSUME NEW x
      PROVE  x \in High <=> \E k \in (Number[b] + 1)..Number[h] : x = canon[k]
  <2>1. Number[b] + 1 \in Nat
    BY <1>2
  <2>2. Above(Number[b] + 1) = (Number[b] + 1)..Number[h]
    BY <2>1, AboveOnPath
  <2> QED
    BY <2>2
<1>4. ASSUME NEW x
      PROVE  x \in Old <=> \E k \in 0..Number[h] : r < k /\ k <= Number[b] /\ x = canon[k]
  BY <1>2
<1> HIDE DEF High, Old
<1>5. ASSUME NEW x
      PROVE  /\ Spared(x, b) = IF x \in High THEN b ELSE x
             /\ Settle(x, b) = IF Spared(x, b) \in Old THEN Path[b][r] ELSE Spared(x, b)
  BY DEF Spared, Settle, High, Old, r, AncestorAt
<1>6. b \notin Old
  <2> SUFFICES ASSUME b \in Old PROVE FALSE
    OBVIOUS
  <2>1. \E k \in 0..Number[h] : r < k /\ b = canon[k]
    BY <1>4
  <2>2. r < Number[b] /\ Number[b] <= Number[h] /\ canon[Number[b]] = b
    BY <1>2, <2>1
  <2>3. Path[b][Number[b]] = b /\ Number[b] \in 0..Number[b]
    BY <1>2 DEF Traced
  <2>4. Path[h][Number[b]] = b
    BY <2>2
  <2>5. Number[b] <= r
    BY <1>1, <2>2, <2>3, <2>4
  <2> QED
    BY <1>1, <1>2, <2>2, <2>5
<1>7. Settle(b, b) = b
  BY <1>5, <1>6
<1>8. None \notin High /\ None \notin Old
  <2>1. \A k \in 0..Number[h] : canon[k] # None
    BY <1>2, ChainAssumption
  <2>2. (Number[b] + 1)..Number[h] \subseteq 0..Number[h]
    BY <1>2
  <2> QED
    BY <1>3, <1>4, <2>1, <2>2
<1>9. Path[b][r] \in Blocks /\ Path[b][r] \in Ancestors[b] /\ Number[Path[b][r]] = r
  BY <1>1, <1>2 DEF Traced
<1>10. \A x \in Blocks : Settle(x, b) \in Blocks
  BY <1>5, <1>9
<1>11. ASSUME NEW x \in Ancestors[h]
       PROVE  /\ Settle(x, b) \in Ancestors[b]
              /\ Number[b] > Number[h] => Settle(x, b) \in Ancestors[x]
  <2>1. /\ x \in Blocks /\ Number[x] \in 0..Number[h] /\ canon[Number[x]] = x
        /\ b \in Ancestors[b] /\ x \in Ancestors[x]
    BY <1>2, AncestorsNest DEF Traced
  <2>2. CASE x \in High
    <3>1. Settle(x, b) = b
      BY <1>5, <1>6, <2>2
    <3>2. ~(Number[b] > Number[h])
      BY <1>2, <1>3, <2>2
    <3> QED
      BY <2>1, <3>1, <3>2
  <2>3. CASE x \notin High /\ x \in Old
    <3>1. Settle(x, b) = Path[b][r]
      BY <1>5, <2>3
    <3>2. PICK k \in 0..Number[h] : r < k /\ x = canon[k]
      BY <1>4, <2>3
    <3>3. Number[x] = k /\ r <= Number[x]
      BY <1>1, <1>2, <3>2
    <3>4. Path[b][r] \in Ancestors[x]
      BY <1>1, <1>9, <3>3, AncestorsNest
    <3> QED
      BY <1>9, <3>1, <3>4
  <2>4. CASE x \notin High /\ x \notin Old
    <3>1. Settle(x, b) = x
      BY <1>5, <2>4
    <3>2. ~(Number[x] \in (Number[b] + 1)..Number[h])
      BY <1>3, <2>1, <2>4
    <3>3. ~(r < Number[x] /\ Number[x] <= Number[b])
      BY <1>4, <2>1, <2>4
    <3>4. Number[x] \in 0..r /\ Number[x] \in 0..Number[b]
      BY <1>1, <1>2, <2>1, <3>2, <3>3
    <3>5. Path[b][Number[x]] = x
      BY <1>1, <1>2, <2>1, <3>4
    <3>6. x \in Ancestors[b]
      BY <1>2, <3>4, <3>5 DEF Traced
    <3> QED
      BY <2>1, <3>1, <3>6
  <2> QED
    BY <2>2, <2>3, <2>4
<1> QED
  BY <1>5, <1>7, <1>8, <1>10, <1>11

\* Where a head at x falls when the index is cut above a.
Fall(x, a) == IF x \in {canon[k] : k \in Above(Number[a] + 1)} THEN a ELSE x

\* Where a deletion down to a leaves a head of the path: on the path of a, and on
\* its own.
LEMMA FallFacts ==
    ASSUME NEW h \in Blocks, canon = Path[h], NEW a \in Ancestors[h]
    PROVE  /\ Fall(h, a) = a /\ Fall(None, a) = None
           /\ \A x \in Blocks : Fall(x, a) \in Blocks
           /\ \A x \in Ancestors[h] : Fall(x, a) \in Ancestors[a] /\ Fall(x, a) \in Ancestors[x]
<1>1. /\ Number[h] \in Nat /\ Traced(h) /\ DOMAIN canon = 0..Number[h]
      /\ \A k \in 0..Number[h] : canon[k] \in Ancestors[h] /\ canon[k] \in Blocks /\ Number[canon[k]] = k
  BY PathFacts, OnPath
<1>2. a \in Blocks /\ Number[a] \in 0..Number[h] /\ a \in Ancestors[a] /\ h \in Ancestors[h]
  BY PathMeets, AncestorsNest
<1>3. Above(Number[a] + 1) = (Number[a] + 1)..Number[h]
  <2>1. Number[a] + 1 \in Nat
    BY <1>1, <1>2
  <2> QED
    BY <2>1, AboveOnPath
<1>4. ASSUME NEW x
      PROVE  Fall(x, a) = IF \E k \in (Number[a] + 1)..Number[h] : x = canon[k] THEN a ELSE x
  BY <1>3 DEF Fall
<1>5. ASSUME NEW x \in Ancestors[h]
      PROVE  Fall(x, a) = IF Number[x] > Number[a] THEN a ELSE x
  <2>1. Number[x] \in 0..Number[h] /\ canon[Number[x]] = x
    BY <1>1 DEF Traced
  <2>2. (\E k \in (Number[a] + 1)..Number[h] : x = canon[k]) <=> Number[x] > Number[a]
    BY <1>1, <1>2, <2>1
  <2> QED
    BY <1>4, <2>2
<1>6. Fall(h, a) = a
  <2>1. Number[h] > Number[a] \/ h = a
    BY <1>1, <1>2 DEF Traced
  <2> QED
    BY <1>2, <1>5, <2>1
<1>7. Fall(None, a) = None
  <2>1. \A k \in (Number[a] + 1)..Number[h] : canon[k] # None
    BY <1>1, <1>2, ChainAssumption
  <2> QED
    BY <1>4, <2>1
<1>8. \A x \in Blocks : Fall(x, a) \in Blocks
  BY <1>2, <1>4
<1>9. ASSUME NEW x \in Ancestors[h]
      PROVE  Fall(x, a) \in Ancestors[a] /\ Fall(x, a) \in Ancestors[x]
  <2>1. Number[x] \in 0..Number[h] /\ x \in Blocks /\ x \in Ancestors[x]
    BY <1>1, AncestorsNest DEF Traced
  <2>2. CASE Number[x] > Number[a]
    <3>1. Number[a] <= Number[x]
      BY <1>2, <2>1, <2>2
    <3>2. a \in Ancestors[x]
      BY <3>1, AncestorsNest
    <3> QED
      BY <1>2, <1>5, <2>2, <3>2
  <2>3. CASE ~(Number[x] > Number[a])
    <3>1. Number[x] <= Number[a]
      BY <1>2, <2>1, <2>3
    <3>2. x \in Ancestors[a]
      BY <3>1, AncestorsNest
    <3> QED
      BY <1>5, <2>1, <2>3, <3>2
  <2> QED
    BY <2>2, <2>3
<1> QED
  BY <1>6, <1>7, <1>8, <1>9

\* On any index whose entries are blocks, heads stay heads.
LEMMA MovedHeads ==
    ASSUME NEW m \in Heads, NEW stale, NEW hash \in Blocks
    PROVE  Moved(m, stale, hash) \in Heads
BY DEF Moved, Heads

\* The ancestors findCommonAncestor found stored are all those that
\* _rebuildCanonical is about to index.
LEMMA CommonStored ==
    ASSUME NEW h \in Blocks, h = mem.header, canon = Path[h], NEW b \in Blocks, CommonAncestor(b) # None
    PROVE  \A a \in Ancestors[b] \ {b} : Number[a] > RebuildFrom(b) => Stored(a)
<1> DEFINE top   == Min({Number[b], Number[h]})
           meets == {k \in 0..top : /\ \A j \in k..top : j = Number[h] \/ j \in DOMAIN canon
                                    /\ AncestorAt(b, k) = HeadAt(k)}
<1>1. /\ meets # {}
      /\ \A a \in Ancestors[b] \ {b} : Number[a] >= Max(meets) => Stored(a)
  BY DEF CommonAncestor
<1>2. /\ Number[b] \in Nat /\ Number[h] \in Nat /\ Traced(h) /\ Traced(b)
      /\ DOMAIN canon = 0..Number[h]
  BY PathFacts, OnPath
<1>3. top \in Nat /\ top <= Number[b] /\ top <= Number[h]
  <2>1. {Number[b], Number[h]} \in SUBSET Nat
    BY <1>2
  <2> QED
    BY <2>1, MinFacts
<1> HIDE DEF top
<1>4. \A k \in 0..top : AncestorAt(b, k) = HeadAt(k) => Path[b][k] = Path[h][k]
  <2> SUFFICES ASSUME NEW k \in 0..top, AncestorAt(b, k) = HeadAt(k) PROVE Path[b][k] = Path[h][k]
    OBVIOUS
  <2>1. k \in 0..Number[h]
    BY <1>2, <1>3
  <2>2. HeadAt(k) = Path[h][k]
    BY <1>2, <2>1 DEF HeadAt, Traced
  <2> QED
    BY <2>2 DEF AncestorAt
<1>5. meets \in SUBSET (0..top) /\ \A k \in meets : Path[b][k] = Path[h][k]
  BY <1>4
<1> HIDE DEF meets
<1>6. Max(meets) \in meets
  BY <1>1, <1>3, <1>5, MaxFacts
<1> DEFINE m == Max(meets)
<1>7. m \in 0..top /\ Path[b][m] = Path[h][m]
  BY <1>5, <1>6
<1>8. \A a \in Ancestors[b] \ {b} : Number[a] >= m => Stored(a)
  BY <1>1
<1> HIDE DEF m
<1>9. m \in 0..Number[b] /\ m <= Number[h]
  BY <1>2, <1>3, <1>7
<1>10. m <= RebuildFrom(b) /\ RebuildFrom(b) \in 0..Number[b]
  BY <1>7, <1>9, RebuildStop
<1>11. \A a \in Ancestors[b] : Number[a] \in 0..Number[b]
  BY <1>2 DEF Traced
<1> QED
  BY <1>2, <1>8, <1>9, <1>10, <1>11

-----------------------------------------------------------------------------
(***************************************************************************)
(* The tables, the index and the heads through every action.               *)
(***************************************************************************)

\* A head stays where it was or falls back along its own chain.
Descends(i) == HeadOf(i)' \in Ancestors[HeadOf(i)]

\* What of the invariant speaks of the tables and the heads.
ChainInv == Index /\ PathToHead /\ SavedHeads

\* The type of total, and what a put does to the table of headers.
LEMMA PutTable ==
    ASSUME Types, NEW b \in Blocks, NEW total \in Nat, td' = WithHeader(b, total)
    PROVE  /\ DOMAIN td' = DOMAIN td \cup {b} /\ td' \in [DOMAIN td' -> Nat] /\ DOMAIN td' \subseteq Blocks
           /\ \A a : Stored(a)' <=> Stored(a) \/ a = b
<1>1. td' = [a \in (DOMAIN td) \cup {b} |-> IF a = b THEN total ELSE td[a]]
  BY DEF WithHeader
<1>2. td \in [DOMAIN td -> Nat] /\ DOMAIN td \subseteq Blocks
  BY DEF Types
<1> QED
  BY <1>1, <1>2 DEF Stored

\* The total difficulty of a put block is a number.
LEMMA PutTotal ==
    ASSUME Types, NEW b \in Blocks
    PROVE  (IF mode = "number" THEN 0 ELSE Difficulty[b]) + GetParentTD(b) \in Nat
<1>1. GetParentTD(b) \in Nat
  BY DEF GetParentTD, Stored, Types
<1>2. Difficulty[b] \in Nat
  BY ChainAssumption
<1> QED
  BY <1>1, <1>2

\* A put that extends the chain.
LEMMA ExtendHeads ==
    ASSUME Types, NEW b \in Blocks, NEW full \in BOOLEAN, NEW total, ExtendsCanonicalHead(b, total)
    PROVE  NewHeads(b, full, total) =
             [heads  |-> [i \in Names |-> Settle(mem.heads[i], b)],
              header |-> Settle(b, b),
              block  |-> Settle(IF full THEN b ELSE mem.block, b)]
<1> DEFINE set   == [mem EXCEPT !.header = b, !.block = IF full THEN b ELSE @]
           fallen == DeleteReferences(set, Number[b] + 1, b)
<1>1. NewHeads(b, full, total) = Rebuilt(fallen, b)
  BY DEF NewHeads
<1>2. set.heads = mem.heads /\ set.header = b /\ set.block = IF full THEN b ELSE mem.block
  BY DEF Types, Heads
<1> HIDE DEF set
<1>3. fallen = [heads  |-> [i \in Names |-> Spared(mem.heads[i], b)],
                header |-> Spared(b, b),
                block  |-> Spared(IF full THEN b ELSE mem.block, b)]
  BY <1>2 DEF DeleteReferences, Moved, Spared
<1> HIDE DEF fallen
<1> QED
  BY <1>1, <1>3 DEF Rebuilt, Moved, Settle

\* Heads among the ancestors of the block whose path the index becomes.
LEMMA OnChainAfter ==
    ASSUME NEW a \in Blocks, canon' = Path[a], mem' \in Heads, mem'.block \in Ancestors[a],
           \A i \in Names : mem'.heads[i] # None => mem'.heads[i] \in Ancestors[a]
    PROVE  OnChain(mem)'
<1>1. Ancestors[a] \in SUBSET Blocks
  BY AncestorsNest
<1>2. \A x \in Ancestors[a] : IsCanonical(x)'
  BY <1>1, PathMembers DEF IsCanonical
<1> QED
  BY <1>2 DEF OnChain

\* The index after a step, when it is a path to a stored head.
LEMMA PathAfter ==
    ASSUME NEW a \in Blocks, canon' = Path[a], mem'.header = a,
           \A k \in 0..Number[a] : Path[a][k] \in DOMAIN td'
    PROVE  Index' /\ PathToHead'
<1>1. Number[a] \in Nat /\ Traced(a)
  BY PathFacts
<1>2. /\ canon' \in [0..Number[a] -> Blocks] /\ DOMAIN canon' = 0..Number[a]
      /\ \A k \in 0..Number[a] : Number[canon'[k]] = k
  BY <1>1 DEF Traced
<1>3. Index'
  <2>1. \A k \in 0..Number[a] : canon'[k] \in DOMAIN td'
    OBVIOUS
  <2> QED
    BY <1>1, <1>2, <2>1 DEF Index, Stored
<1>4. Stored(mem.header)'
  <2>1. Number[a] \in 0..Number[a] /\ Path[a][Number[a]] = a
    BY <1>1 DEF Traced
  <2>2. a \in DOMAIN td'
    BY <2>1
  <2> QED
    BY <2>2 DEF Stored
<1> QED
  BY <1>3, <1>4 DEF PathToHead

\* What a step finds of a chain whose head header is stored.
LEMMA ChainFacts ==
    ASSUME Types, ChainInv, Stored(mem.header)
    PROVE  /\ mem.header \in Blocks /\ canon = Path[mem.header]
           /\ \A k \in 0..Number[mem.header] : Stored(Path[mem.header][k])
           /\ mode # "td" /\ ~hurt => /\ mem.block \in Ancestors[mem.header]
                                      /\ \A i \in Names : mem.heads[i] # None => mem.heads[i] \in Ancestors[mem.header]
<1> DEFINE h == mem.header
<1>1. h \in Blocks /\ mem.block \in Blocks /\ \A i \in Names : mem.heads[i] \in Blocks \cup {None}
  BY DEF Types, Heads
<1>2. canon = Path[h]
  BY DEF ChainInv, PathToHead
<1> HIDE DEF h
<1>3. /\ DOMAIN canon = 0..Number[h]
      /\ \A x \in Blocks : IsCanonical(x) <=> x \in Ancestors[h]
  BY <1>1, <1>2, OnPath
<1>4. \A k \in 0..Number[h] : Stored(canon[k])
  BY <1>3 DEF ChainInv, Index
<1>5. ASSUME mode # "td", ~hurt
      PROVE  /\ mem.block \in Ancestors[h]
             /\ \A i \in Names : mem.heads[i] # None => mem.heads[i] \in Ancestors[h]
  <2>1. OnChain(mem)
    BY <1>5 DEF ChainInv, SavedHeads
  <2> QED
    BY <2>1, <1>1, <1>3 DEF OnChain
<1> QED
  BY <1>1, <1>2, <1>4, <1>5 DEF h

\* A put keeps the index, the path and what a restart finds.
LEMMA PutChain ==
    ASSUME Types, ChainInv, NEW b \in Blocks, NEW full \in BOOLEAN, PutBlockOrHeader(b, full)
    PROVE  /\ ChainInv' /\ mem' \in Heads
           /\ DOMAIN td' = DOMAIN td \cup {b} /\ td' \in [DOMAIN td' -> Nat] /\ DOMAIN td' \subseteq Blocks
           /\ mode = "number" /\ ~hurt => \A i \in Names : Descends(i)
<1> DEFINE total == (IF mode = "number" THEN 0 ELSE Difficulty[b]) + GetParentTD(b)
           h == mem.header
<1>1. total \in Nat
  BY PutTotal
<1>2. /\ Stored(h) /\ td' = WithHeader(b, total) /\ mem' = NewHeads(b, full, total)
      /\ canon' = IF ExtendsCanonicalHead(b, total) THEN RebuiltIndex(b) ELSE canon
      /\ ExtendsCanonicalHead(b, total) => CommonAncestor(b) # None
      /\ saved' = mem' /\ ~unsaved' /\ hurt' = hurt /\ mode' = mode
  BY DEF PutBlockOrHeader, Save
<1> HIDE DEF total
<1>3. /\ DOMAIN td' = DOMAIN td \cup {b} /\ td' \in [DOMAIN td' -> Nat] /\ DOMAIN td' \subseteq Blocks
      /\ \A a : Stored(a)' <=> Stored(a) \/ a = b
  BY <1>1, <1>2, PutTable
<1>4. /\ h \in Blocks /\ canon = Path[h]
      /\ \A k \in 0..Number[h] : Stored(Path[h][k])
      /\ mode # "td" /\ ~hurt => /\ mem.block \in Ancestors[h]
                                 /\ \A i \in Names : mem.heads[i] # None => mem.heads[i] \in Ancestors[h]
  BY <1>2, ChainFacts
<1>5. /\ mem.block \in Blocks /\ \A i \in Names : mem.heads[i] \in Blocks \cup {None}
      /\ mode \in {"number", "td", "stake"}
  BY ChainAssumption DEF Types, Heads
<1>6. b \in Ancestors[b] /\ b \in Blocks /\ Genesis \in Blocks
  BY AncestorsNest, ChainAssumption
<1> HIDE DEF h
<1>7. CASE ExtendsCanonicalHead(b, total)
  <2>1. canon' = Path[b]
    BY <1>2, <1>4, <1>7, PutIndex
  <2>2. /\ Settle(b, b) = b /\ Settle(None, b) = None
        /\ \A x \in Blocks : Settle(x, b) \in Blocks
        /\ \A x \in Ancestors[h] : /\ Settle(x, b) \in Ancestors[b]
                                   /\ Number[b] > Number[h] => Settle(x, b) \in Ancestors[x]
    BY <1>4, SettleFacts
  <2>3. mem' = [heads  |-> [i \in Names |-> Settle(mem.heads[i], b)],
                header |-> Settle(b, b),
                block  |-> Settle(IF full THEN b ELSE mem.block, b)]
    BY <1>2, <1>7, ExtendHeads
  <2>4. /\ mem'.header = b /\ mem'.block = Settle(IF full THEN b ELSE mem.block, b)
        /\ \A i \in Names : mem'.heads[i] = Settle(mem.heads[i], b)
    BY <2>2, <2>3
  <2>5. mem' \in Heads
    <3>1. [i \in Names |-> Settle(mem.heads[i], b)] \in [Names -> Blocks \cup {None}]
      BY <1>5, <2>2
    <3>2. Settle(IF full THEN b ELSE mem.block, b) \in Blocks
      BY <1>5, <2>2
    <3> QED
      BY <2>2, <2>3, <3>1, <3>2 DEF Heads
  <2>6. \A k \in 0..Number[b] : Path[b][k] \in DOMAIN td'
    <3> SUFFICES ASSUME NEW k \in 0..Number[b] PROVE Path[b][k] \in DOMAIN td'
      OBVIOUS
    <3> DEFINE r == RebuildFrom(b)
               a == Path[b][k]
    <3>1. r \in 0..Number[b] /\ r \in 0..Number[h] /\ \A j \in 0..r : Path[b][j] = Path[h][j]
      BY <1>4, RebuildStop
    <3>2. Number[b] \in Nat /\ Number[h] \in Nat /\ a \in Ancestors[b] /\ Number[a] = k
      BY <1>4, PathFacts DEF Traced
    <3>3. \A c \in Ancestors[b] \ {b} : Number[c] > r => Stored(c)
      BY <1>2, <1>4, <1>7, CommonStored DEF h
    <3> HIDE DEF r, a
    <3>4. CASE k <= r
      <4>1. k \in 0..r /\ k \in 0..Number[h]
        BY <3>1, <3>2, <3>4
      <4>2. a = Path[h][k]
        BY <3>1, <4>1 DEF a
      <4> QED
        BY <1>3, <1>4, <4>1, <4>2 DEF a, Stored
    <3>5. CASE ~(k <= r)
      <4>1. Number[a] > r
        BY <3>1, <3>2, <3>5
      <4>2. a = b \/ Stored(a)
        BY <3>2, <3>3, <4>1
      <4> QED
        BY <1>3, <4>2 DEF a, Stored
    <3> QED
      BY <3>4, <3>5
  <2>7. Index' /\ PathToHead'
    BY <1>6, <2>1, <2>4, <2>6, PathAfter
  <2>8. ASSUME mode # "td", ~hurt
        PROVE  OnChain(mem)'
    <3>1. mem'.block \in Ancestors[b]
      BY <1>4, <1>6, <2>2, <2>4, <2>8
    <3>2. \A i \in Names : mem'.heads[i] # None => mem'.heads[i] \in Ancestors[b]
      BY <1>4, <1>5, <2>2, <2>4, <2>8
    <3> QED
      BY <1>6, <2>1, <2>5, <3>1, <3>2, OnChainAfter
  <2>9. SavedHeads'
    <3>1. mode # "td" /\ ~hurt => OnChain(saved)'
      BY <1>2, <2>8 DEF OnChain, IsCanonical
    <3> QED
      BY <1>2, <2>8, <3>1 DEF SavedHeads
  <2>10. ASSUME mode = "number", ~hurt, NEW i \in Names
         PROVE  Descends(i)
    <3>1. Number[b] > Number[h]
      BY <1>7, <2>10 DEF ExtendsCanonicalHead, h
    <3>2. CASE mem.heads[i] = None
      <4>1. mem'.heads[i] = None
        BY <2>2, <2>4, <3>2
      <4> QED
        BY <1>6, <3>2, <4>1, AncestorsNest DEF Descends, HeadOf
    <3>3. CASE mem.heads[i] # None
      <4>1. mem.heads[i] \in Ancestors[h] /\ mem.heads[i] \in Blocks
        BY <1>4, <1>5, <2>10, <3>3
      <4>2. mem'.heads[i] \in Ancestors[mem.heads[i]] /\ mem'.heads[i] \in Blocks
        BY <2>2, <2>4, <3>1, <4>1
      <4>3. mem'.heads[i] # None
        BY <4>2, ChainAssumption
      <4> QED
        BY <3>3, <4>2, <4>3 DEF Descends, HeadOf
    <3> QED
      BY <3>2, <3>3
  <2> QED
    BY <1>3, <2>5, <2>7, <2>9, <2>10 DEF ChainInv
<1>8. CASE ~ExtendsCanonicalHead(b, total)
  <2>1. canon' = canon /\ canon' = Path[h]
    BY <1>2, <1>4, <1>8
  <2>2. mem' = [mem EXCEPT !.block = IF full /\ AdvancesHeadBlock(b, total) THEN b ELSE @]
    BY <1>2, <1>8 DEF NewHeads
  <2>3. /\ mem' \in Heads /\ mem'.header = h /\ mem'.heads = mem.heads
        /\ mem'.block = IF full /\ AdvancesHeadBlock(b, total) THEN b ELSE mem.block
    BY <2>2 DEF Types, Heads, h
  <2>4. \A k \in 0..Number[h] : Path[h][k] \in DOMAIN td'
    BY <1>3, <1>4 DEF Stored
  <2>5. Index' /\ PathToHead'
    BY <1>4, <2>1, <2>3, <2>4, PathAfter
  <2>6. ASSUME mode # "td", ~hurt
        PROVE  OnChain(mem)'
    <3>1. mode = "number"
      BY <1>5, <1>8, <2>6 DEF ExtendsCanonicalHead
    <3>2. AdvancesHeadBlock(b, total) => b \in Ancestors[h]
      BY <1>4, <3>1, OnPath DEF AdvancesHeadBlock
    <3>3. mem'.block \in Ancestors[h]
      BY <1>4, <2>3, <2>6, <3>2
    <3>4. \A i \in Names : mem'.heads[i] # None => mem'.heads[i] \in Ancestors[h]
      BY <1>4, <2>3, <2>6
    <3> QED
      BY <1>4, <2>1, <2>3, <3>3, <3>4, OnChainAfter
  <2>7. SavedHeads'
    <3>1. mode # "td" /\ ~hurt => OnChain(saved)'
      BY <1>2, <2>6 DEF OnChain, IsCanonical
    <3> QED
      BY <1>2, <2>6, <3>1 DEF SavedHeads
  <2>8. \A i \in Names : Descends(i)
    <3>1. \A i \in Names : HeadOf(i) \in Blocks /\ HeadOf(i)' = HeadOf(i)
      BY <1>5, <1>6, <2>3 DEF HeadOf
    <3> QED
      BY <3>1, AncestorsNest DEF Descends
  <2> QED
    BY <1>3, <2>3, <2>5, <2>7, <2>8 DEF ChainInv
<1> QED
  BY <1>7, <1>8

\* Cutting the index above one of its blocks, as resets and deletions do.
LEMMA CutChain ==
    ASSUME Types, ChainInv, Stored(mem.header), NEW a \in Ancestors[mem.header],
           canon' = IndexBelow(Number[a] + 1), mem' = DeleteReferences(mem, Number[a] + 1, a),
           \A k \in 0..Number[a] : Path[a][k] \in DOMAIN td'
    PROVE  /\ Index' /\ PathToHead' /\ mem' \in Heads
           /\ mode # "td" /\ ~hurt => OnChain(mem)' /\ \A i \in Names : Descends(i)
<1> DEFINE h == mem.header
<1>1. /\ h \in Blocks /\ canon = Path[h]
      /\ mode # "td" /\ ~hurt => /\ mem.block \in Ancestors[h]
                                 /\ \A i \in Names : mem.heads[i] # None => mem.heads[i] \in Ancestors[h]
  BY ChainFacts
<1>2. mem.block \in Blocks /\ \A i \in Names : mem.heads[i] \in Blocks \cup {None}
  BY DEF Types, Heads
<1>3. a \in Ancestors[h]
  OBVIOUS
<1>4. mem' = [heads  |-> [i \in Names |-> Fall(mem.heads[i], a)],
              header |-> Fall(h, a), block |-> Fall(mem.block, a)]
  BY DEF DeleteReferences, Moved, Fall
<1> HIDE DEF h
<1>5. a \in Blocks
  BY <1>1, <1>3, AncestorsNest
<1>6. canon' = Path[a]
  BY <1>1, <1>3, CutPath
<1>7. /\ Fall(h, a) = a /\ Fall(None, a) = None
      /\ \A x \in Blocks : Fall(x, a) \in Blocks
      /\ \A x \in Ancestors[h] : Fall(x, a) \in Ancestors[a] /\ Fall(x, a) \in Ancestors[x]
  BY <1>1, <1>3, FallFacts
<1>8. /\ mem'.header = a /\ mem'.block = Fall(mem.block, a)
      /\ \A i \in Names : mem'.heads[i] = Fall(mem.heads[i], a)
  BY <1>4, <1>7
<1>9. mem' \in Heads
  <2>1. [i \in Names |-> Fall(mem.heads[i], a)] \in [Names -> Blocks \cup {None}]
    BY <1>2, <1>7
  <2> QED
    BY <1>2, <1>4, <1>5, <1>7, <2>1 DEF Heads
<1>10. Index' /\ PathToHead'
  BY <1>5, <1>6, <1>8, PathAfter
<1>11. ASSUME mode # "td", ~hurt
       PROVE  OnChain(mem)'
  <2>1. mem'.block \in Ancestors[a]
    BY <1>1, <1>7, <1>8, <1>11
  <2>2. \A i \in Names : mem'.heads[i] # None => mem'.heads[i] \in Ancestors[a]
    BY <1>1, <1>2, <1>7, <1>8, <1>11
  <2> QED
    BY <1>5, <1>6, <1>9, <2>1, <2>2, OnChainAfter
<1>12. ASSUME mode # "td", ~hurt, NEW i \in Names
       PROVE  Descends(i)
  <2>1. CASE mem.heads[i] = None
    <3>1. mem'.heads[i] = None /\ Genesis \in Blocks
      BY <1>7, <1>8, <2>1, ChainAssumption
    <3> QED
      BY <2>1, <3>1, AncestorsNest DEF Descends, HeadOf
  <2>2. CASE mem.heads[i] # None
    <3>1. mem.heads[i] \in Ancestors[h] /\ mem.heads[i] \in Blocks
      BY <1>1, <1>2, <1>12, <2>2
    <3>2. mem'.heads[i] \in Ancestors[mem.heads[i]] /\ mem'.heads[i] \in Blocks
      BY <1>7, <1>8, <3>1
    <3>3. mem'.heads[i] # None
      BY <3>2, ChainAssumption
    <3> QED
      BY <2>2, <3>2, <3>3 DEF Descends, HeadOf
  <2> QED
    BY <2>1, <2>2
<1> QED
  BY <1>9, <1>10, <1>11, <1>12

\* The same when the head header is lost: it stays where it is.
LEMMA CutLost ==
    ASSUME Types, ChainInv, ~Stored(mem.header), NEW n \in Nat, NEW a \in Blocks,
           canon' = IndexBelow(n), mem' = DeleteReferences(mem, n, a)
    PROVE  /\ mem' \in Heads /\ mem'.header = mem.header /\ hurt
           /\ canon' \in [DOMAIN canon' -> Blocks]
           /\ \A k : k \in DOMAIN canon' <=> k \in DOMAIN canon /\ k \notin Above(n)
           /\ \A k \in DOMAIN canon' : canon'[k] = canon[k] /\ k \in Nat /\ Number[canon'[k]] = k
<1>1. /\ canon \in [DOMAIN canon -> Blocks] /\ DOMAIN canon \subseteq Nat
      /\ \A k \in DOMAIN canon : Stored(canon[k]) /\ Number[canon[k]] = k
  BY DEF ChainInv, Index
<1>2. canon' = [k \in (DOMAIN canon) \ Above(n) |-> canon[k]]
  BY DEF IndexBelow, Restrict
<1>3. mem' \in Heads
  BY MovedHeads DEF DeleteReferences, Types
<1>4. mem.header \notin {canon[k] : k \in Above(n)}
  BY <1>1 DEF Above
<1>5. mem'.header = mem.header
  BY <1>4 DEF DeleteReferences, Moved
<1> QED
  BY <1>1, <1>2, <1>3, <1>5 DEF ChainInv, PathToHead

\* So does resetCanonicalHead.
LEMMA ResetChain ==
    ASSUME Types, ChainInv, NEW n \in DOMAIN canon, ResetCanonicalHead(n)
    PROVE  /\ ChainInv' /\ mem' \in Heads
           /\ mode = "number" /\ ~hurt => \A i \in Names : Descends(i)
<1>1. /\ canon' = IndexBelow(n + 1) /\ mem' = DeleteReferences(mem, n + 1, canon[n])
      /\ saved' = mem' /\ ~unsaved' /\ hurt' = hurt /\ mode' = mode /\ td' = td
  BY DEF ResetCanonicalHead, Save
<1>2. n \in Nat /\ canon[n] \in Blocks /\ Number[canon[n]] = n
  BY DEF ChainInv, Index
<1>3. CASE Stored(mem.header)
  <2> DEFINE h == mem.header
             a == canon[n]
  <2>1. h \in Blocks /\ canon = Path[h] /\ \A k \in 0..Number[h] : Stored(Path[h][k])
    BY <1>3, ChainFacts
  <2>2. a \in Ancestors[h] /\ Number[a] = n
    <3>1. DOMAIN canon = 0..Number[h] /\ \A k \in 0..Number[h] : canon[k] \in Ancestors[h]
      BY <2>1, OnPath
    <3> QED
      BY <1>2, <3>1
  <2>3. \A k \in 0..Number[a] : Path[a][k] \in DOMAIN td'
    <3>1. /\ Number[a] \in 0..Number[h] /\ Number[h] \in Nat
          /\ \A k \in 0..Number[a] : Path[a][k] = Path[h][k]
      BY <2>1, <2>2, PathMeets, PathFacts
    <3>2. \A k \in 0..Number[a] : k \in 0..Number[h]
      BY <3>1
    <3> QED
      BY <1>1, <2>1, <3>1, <3>2 DEF Stored
  <2>4. /\ Index' /\ PathToHead' /\ mem' \in Heads
        /\ mode # "td" /\ ~hurt => OnChain(mem)' /\ \A i \in Names : Descends(i)
    BY <1>1, <1>3, <2>2, <2>3, CutChain
  <2>5. SavedHeads'
    <3>1. mode # "td" /\ ~hurt => OnChain(saved)'
      BY <1>1, <2>4 DEF OnChain, IsCanonical
    <3> QED
      BY <1>1, <2>4, <3>1 DEF SavedHeads
  <2> QED
    BY <2>4, <2>5 DEF ChainInv
<1>4. CASE ~Stored(mem.header)
  <2>1. n + 1 \in Nat
    BY <1>2
  <2>2. /\ mem' \in Heads /\ mem'.header = mem.header /\ hurt
        /\ canon' \in [DOMAIN canon' -> Blocks]
        /\ \A k : k \in DOMAIN canon' <=> k \in DOMAIN canon /\ k \notin Above(n + 1)
        /\ \A k \in DOMAIN canon' : canon'[k] = canon[k] /\ k \in Nat /\ Number[canon'[k]] = k
    BY <1>1, <1>2, <1>4, <2>1, CutLost
  <2>3. \A k \in DOMAIN canon' : canon'[k] \in DOMAIN td'
    BY <1>1, <2>2 DEF ChainInv, Index, Stored
  <2>4. Index'
    BY <2>2, <2>3 DEF Index, Stored
  <2>5. PathToHead' /\ SavedHeads'
    BY <1>1, <1>4, <2>2 DEF PathToHead, SavedHeads, Stored
  <2> QED
    BY <2>2, <2>4, <2>5 DEF ChainInv
<1> QED
  BY <1>3, <1>4

\* What delBlock takes away.
Gone(b) == IF IsCanonical(b) THEN {canon[k] : k \in Above(Number[b])} ELSE {b}

\* So does delBlock.
LEMMA DelChain ==
    ASSUME Types, ChainInv, NEW b \in Blocks, DelBlock(b)
    PROVE  /\ ChainInv' /\ mem' \in Heads
           /\ DOMAIN td' = (DOMAIN td) \ Gone(b) /\ td' \in [DOMAIN td' -> Nat]
           /\ mode = "number" /\ ~hurt => \A i \in Names : Descends(i)
<1>1. /\ b # Genesis /\ Stored(b) /\ td' = Restrict(td, (DOMAIN td) \ Gone(b))
      /\ IF IsCanonical(b)
         THEN /\ canon' = IndexBelow(Number[b]) /\ mem' = DeleteReferences(mem, Number[b], Parent[b])
              /\ unsaved' = TRUE
         ELSE canon' = canon /\ mem' = mem /\ unsaved' = unsaved
      /\ saved' = saved /\ mode' = mode /\ hurt' \in BOOLEAN /\ (hurt => hurt')
  BY DEF DelBlock, Gone, Types
<1>2. DOMAIN td' = (DOMAIN td) \ Gone(b) /\ td' \in [DOMAIN td' -> Nat]
  BY <1>1 DEF Restrict, Types
<1>3. \A a : Stored(a)' => Stored(a)
  BY <1>2 DEF Stored
<1>4. /\ Parent[b] \in Blocks /\ Number[b] = Number[Parent[b]] + 1 /\ Number[b] \in Nat
      /\ Number[Parent[b]] \in Nat
  BY <1>1, ChainAssumption
<1>5. /\ canon \in [DOMAIN canon -> Blocks] /\ DOMAIN canon \subseteq Nat
      /\ \A k \in DOMAIN canon : canon[k] \in DOMAIN td /\ Number[canon[k]] = k
  BY DEF ChainInv, Index, Stored
<1>6. CASE IsCanonical(b) /\ Stored(mem.header)
  <2> DEFINE h == mem.header
             a == Parent[b]
  <2>1. h \in Blocks /\ canon = Path[h] /\ \A k \in 0..Number[h] : Stored(Path[h][k])
    BY <1>6, ChainFacts
  <2>2. b \in Ancestors[h]
    BY <1>6, <2>1, OnPath
  <2>3. Ranked(h) /\ Traced(h) /\ Number[h] \in Nat
    BY <2>1, AncestorsRanked, PathFacts
  <2>4. a \in Ancestors[h] /\ Number[a] + 1 = Number[b] /\ Number[b] \in 0..Number[h]
    BY <1>1, <1>4, <2>2, <2>3 DEF Ranked, Traced
  <2>5. Gone(b) = {canon[k] : k \in Number[b]..Number[h]}
    <3>1. Above(Number[b]) = Number[b]..Number[h]
      BY <1>4, <2>1, AboveOnPath
    <3> QED
      BY <1>6, <3>1 DEF Gone
  <2>6. \A k \in 0..Number[a] : Path[a][k] \in DOMAIN td'
    <3> SUFFICES ASSUME NEW k \in 0..Number[a] PROVE Path[a][k] \in DOMAIN td'
      OBVIOUS
    <3>1. k \in 0..Number[h] /\ k < Number[b]
      BY <1>4, <2>3, <2>4
    <3>2. Path[a][k] = canon[k]
      BY <2>1, <2>4, PathMeets
    <3>3. canon[k] \in DOMAIN td /\ Number[canon[k]] = k
      BY <2>1, <2>3, <3>1 DEF Stored, Traced
    <3>4. \A j \in Number[b]..Number[h] : canon[k] # canon[j]
      <4>1. \A j \in Number[b]..Number[h] : j \in 0..Number[h] /\ j # k
        BY <1>4, <2>3, <3>1
      <4>2. \A j \in 0..Number[h] : Number[canon[j]] = j
        BY <2>1, <2>3 DEF Traced
      <4> QED
        BY <3>3, <4>1, <4>2
    <3>5. canon[k] \notin Gone(b)
      BY <2>5, <3>4
    <3> QED
      BY <1>2, <3>2, <3>3, <3>5
  <2>7. /\ Index' /\ PathToHead' /\ mem' \in Heads
        /\ mode # "td" /\ ~hurt => OnChain(mem)' /\ \A i \in Names : Descends(i)
    <3>1. canon' = IndexBelow(Number[a] + 1) /\ mem' = DeleteReferences(mem, Number[a] + 1, a)
      BY <1>1, <1>6, <2>4
    <3> HIDE DEF a
    <3>2. a \in Ancestors[mem.header]
      BY <2>4
    <3> QED
      BY <1>6, <2>6, <3>1, <3>2, CutChain
  <2>8. ~Stored(saved.header)'
    <3>1. CASE unsaved
      BY <1>1, <1>3, <3>1 DEF ChainInv, SavedHeads, Stored
    <3>2. CASE ~unsaved
      <4>1. saved.header = h
        BY <3>2 DEF ChainInv, SavedHeads
      <4>2. h = canon[Number[h]] /\ Number[h] \in Number[b]..Number[h]
        BY <1>4, <2>1, <2>3, <2>4 DEF Traced
      <4>3. h \in Gone(b)
        BY <2>5, <4>2
      <4>4. saved'.header \notin DOMAIN td'
        BY <1>1, <1>2, <4>1, <4>3
      <4> QED
        BY <4>4 DEF Stored
    <3> QED
      BY <3>1, <3>2
  <2>9. SavedHeads'
    BY <1>1, <1>6, <2>7, <2>8 DEF SavedHeads
  <2> QED
    BY <1>2, <2>7, <2>9 DEF ChainInv
<1>7. CASE IsCanonical(b) /\ ~Stored(mem.header)
  <2>1. /\ mem' \in Heads /\ mem'.header = mem.header /\ hurt
        /\ canon' \in [DOMAIN canon' -> Blocks]
        /\ \A k : k \in DOMAIN canon' <=> k \in DOMAIN canon /\ k \notin Above(Number[b])
        /\ \A k \in DOMAIN canon' : canon'[k] = canon[k] /\ k \in Nat /\ Number[canon'[k]] = k
    BY <1>1, <1>4, <1>7, CutLost
  <2>2. ASSUME NEW k \in DOMAIN canon'
        PROVE  canon'[k] \in DOMAIN td'
    <3>1. k \in DOMAIN canon /\ k \notin Above(Number[b]) /\ canon'[k] = canon[k]
      BY <2>1
    <3>2. \A j \in Above(Number[b]) : j \in DOMAIN canon /\ j # k
      BY <3>1 DEF Above
    <3>3. canon[k] \notin Gone(b)
      BY <1>5, <1>7, <3>1, <3>2 DEF Gone
    <3> QED
      BY <1>2, <1>5, <3>1, <3>3
  <2>3. Index'
    BY <2>1, <2>2 DEF Index, Stored
  <2>4. ~Stored(mem.header)' /\ ~Stored(saved.header)'
    <3>1. ~Stored(saved.header)
      BY <1>7 DEF ChainInv, SavedHeads
    <3> QED
      BY <1>1, <1>3, <1>7, <2>1, <3>1 DEF Stored
  <2>5. PathToHead' /\ SavedHeads'
    BY <1>1, <1>7, <2>1, <2>4 DEF PathToHead, SavedHeads
  <2> QED
    BY <1>2, <2>1, <2>3, <2>5 DEF ChainInv
<1>8. CASE ~IsCanonical(b)
  <2>1. Gone(b) = {b} /\ canon' = canon /\ mem' = mem /\ unsaved' = unsaved
    BY <1>1, <1>8 DEF Gone
  <2>2. \A k \in DOMAIN canon : canon[k] # b
    BY <1>5, <1>8 DEF IsCanonical
  <2>3. Index'
    BY <1>2, <1>5, <2>1, <2>2 DEF Index, Stored
  <2>4. ~Stored(mem.header)' => ~Stored(mem.header)
    <3>1. SUFFICES ASSUME Stored(mem.header) PROVE mem.header # b
      BY <1>2, <2>1 DEF Stored
    <3>2. mem.header \in Blocks /\ canon = Path[mem.header]
      BY <3>1, ChainFacts
    <3>3. IsCanonical(mem.header)
      BY <3>2, OnPath, AncestorsNest
    <3> QED
      BY <1>8, <3>3
  <2>5. PathToHead'
    BY <1>1, <1>3, <2>1, <2>4 DEF ChainInv, PathToHead, Stored
  <2>6. OnChain(mem)' = OnChain(mem) /\ OnChain(saved)' = OnChain(saved)
    BY <1>1, <2>1 DEF OnChain, IsCanonical
  <2>7. SavedHeads'
    BY <1>1, <1>3, <2>1, <2>6 DEF ChainInv, SavedHeads, Stored
  <2>8. \A i \in Names : Descends(i)
    <3>1. \A i \in Names : HeadOf(i) \in Blocks /\ HeadOf(i)' = HeadOf(i)
      BY <2>1, ChainAssumption DEF HeadOf, Types, Heads
    <3> QED
      BY <3>1, AncestorsNest DEF Descends
  <2>9. mem' \in Heads
    BY <2>1 DEF Types
  <2> QED
    BY <1>2, <2>3, <2>5, <2>7, <2>8, <2>9 DEF ChainInv
<1> QED
  BY <1>6, <1>7, <1>8

-----------------------------------------------------------------------------
(***************************************************************************)
(* Uncles.                                                                 *)
(***************************************************************************)

\* What _validateUncleHeaders establishes of every uncle, whatever was stored.
LEMMA UnclesFound ==
    ASSUME NEW b \in Blocks, ValidUncles(b), NEW u \in Uncles[b]
    PROVE  UncleChecked(b, u)
<1> DEFINE low    == Min({Number[v] : v \in Uncles[b]})
           recent == {a \in Ancestors[b] \ {b} : Number[a] >= low - 1}
<1>1. /\ ValidUncleHeader(u, Number[b]) /\ Parent[u] \in recent
      /\ u \notin UNION {Uncles[a] : a \in recent} /\ u \notin recent
  BY DEF ValidUncles
<1>2. Uncles[b] \in SUBSET Blocks /\ \A v \in Blocks : Number[v] \in Nat /\ Parent[v] \in Blocks
  BY ChainAssumption
<1>3. low \in Nat /\ low <= Number[u]
  <2>1. {Number[v] : v \in Uncles[b]} \in SUBSET Nat
    BY <1>2
  <2> QED
    BY <2>1, MinFacts
<1> HIDE DEF low
<1>4. /\ u \in Blocks /\ Number[u] \in Nat /\ Number[Parent[u]] \in Nat /\ Number[b] \in Nat
      /\ Number[b] - Number[Parent[u]] \in 2..7
  BY <1>1, <1>2 DEF ValidUncleHeader
<1>5. Parent[u] \in Ancestors[b] /\ Parent[u] # b
  BY <1>1
<1>6. \A a \in Ancestors[b] \ {b} : Number[a] >= low - 1 => u \notin Uncles[a] /\ u # a
  BY <1>1
<1> HIDE DEF recent
<1>7. u # Genesis
  BY <1>1, ChainAssumption
<1>8. Number[u] = Number[Parent[u]] + 1
  BY <1>4, <1>7, ChainAssumption
<1>9. u # b
  BY <1>4, <1>8
<1>10. u \notin Ancestors[b]
  <2>1. Number[u] >= low - 1
    BY <1>3, <1>4
  <2> QED
    BY <1>6, <1>9, <2>1
<1>11. ASSUME NEW a \in Ancestors[b] \ {b}, Number[a] >= Number[u] - 1
       PROVE  u \notin Uncles[a]
  <2>1. Number[a] \in Nat
    BY <1>2, AncestorsNest
  <2>2. Number[a] >= low - 1
    BY <1>3, <1>4, <1>11, <2>1
  <2> QED
    BY <1>6, <2>2
<1> QED
  BY <1>4, <1>5, <1>10, <1>11 DEF UncleChecked

\* No body of the path counts an uncle that a later one counts: those that the
\* window misses are too low to have it.
LEMMA CountedOnce ==
    ASSUME Types, UnclesChecked
    PROVE  UnclesSound
<1> SUFFICES ASSUME NEW b \in bodies, NEW u \in Uncles[b]
             PROVE  /\ u \notin Ancestors[b] /\ Parent[u] \in Ancestors[b]
                    /\ Number[b] - Number[Parent[u]] <= 7
                    /\ \A a \in Ancestors[b] \cap bodies : a # b => u \notin Uncles[a]
  BY DEF UnclesSound
<1>1. b \in Blocks /\ UncleChecked(b, u)
  BY DEF Types, UnclesChecked
<1>2. /\ u \in Blocks /\ Number[u] \in Nat /\ Parent[u] \in Blocks /\ Number[Parent[u]] \in Nat
      /\ Number[b] \in Nat
  BY <1>1, ChainAssumption
<1>3. u # Genesis
  BY <1>1, AncestorsNest DEF UncleChecked
<1>4. Number[u] = Number[Parent[u]] + 1
  BY <1>2, <1>3, ChainAssumption
<1>5. ASSUME NEW a \in Ancestors[b] \cap bodies, a # b
      PROVE  u \notin Uncles[a]
  <2>1. CASE Number[a] >= Number[u] - 1
    BY <1>1, <1>5, <2>1 DEF UncleChecked
  <2>2. CASE ~(Number[a] >= Number[u] - 1)
    <3>1. SUFFICES ASSUME u \in Uncles[a] PROVE FALSE
      OBVIOUS
    <3>2. UncleChecked(a, u)
      BY <3>1 DEF UnclesChecked
    <3>3. Number[a] \in Nat /\ Number[a] - Number[Parent[u]] \in 2..7
      BY <3>2, ChainAssumption DEF UncleChecked, Types
    <3> QED
      BY <1>2, <1>4, <2>2, <3>3
  <2> QED
    BY <2>1, <2>2
<1> QED
  BY <1>1, <1>2, <1>5 DEF UncleChecked

-----------------------------------------------------------------------------
(***************************************************************************)
(* The iterators through the actions of others.                            *)
(***************************************************************************)

\* The parts of a run that an overtaking put, reset or deletion leaves alone.
LEMMA RaceFacts ==
    ASSUME it \in [Names -> Runs], NEW new, RaceNoted(new)
    PROVE  /\ it' \in [Names -> Runs]
           /\ \A i \in Names :
                /\ it'[i].pc = it[i].pc /\ it'[i].release = it[i].release /\ it'[i].next = it[i].next
                /\ it'[i].block = it[i].block /\ it'[i].last = it[i].last /\ it'[i].from = it[i].from
                /\ it'[i].raced <=> \/ it[i].raced
                                    \/ /\ it[i].pc = "callback" /\ it[i].last = None
                                       /\ new.heads[i] # mem.heads[i]
<1> DEFINE late(i) == it[i].raced \/ (it[i].pc = "callback" /\ it[i].last = None /\ new.heads[i] # mem.heads[i])
<1>1. it' = [i \in Names |-> [it[i] EXCEPT !.raced = late(i)]]
  BY DEF RaceNoted
<1>2. \A i \in Names : late(i) \in BOOLEAN
  OBVIOUS
<1>3. ASSUME NEW i \in Names
      PROVE  /\ it'[i] \in Runs
             /\ it'[i].pc = it[i].pc /\ it'[i].release = it[i].release /\ it'[i].next = it[i].next
             /\ it'[i].block = it[i].block /\ it'[i].last = it[i].last /\ it'[i].from = it[i].from
             /\ it'[i].raced = late(i)
  <2>1. it[i] \in Runs /\ late(i) \in BOOLEAN
    BY <1>2
  <2>2. it'[i] = [it[i] EXCEPT !.raced = late(i)]
    BY <1>1
  <2> HIDE DEF late
  <2> QED
    BY <2>1, <2>2 DEF Runs
<1>4. it' \in [Names -> Runs]
  BY <1>1, <1>3
<1> QED
  BY <1>3, <1>4

\* A step of another that finds the lock free leaves the lock as it is.
LEMMA LockingFree ==
    ASSUME Types, Locking, lock = None, lock' = None, NEW new, RaceNoted(new)
    PROVE  Locking'
<1>1. it \in [Names -> Runs] /\ None \notin Names
  BY ChainAssumption DEF Types
<1>2. \A i \in Names :
        /\ it'[i].pc = it[i].pc /\ it'[i].release = it[i].release /\ it'[i].next = it[i].next
        /\ it'[i].block = it[i].block /\ it'[i].last = it[i].last
        /\ it'[i].raced <=> it[i].raced \/ (it[i].pc = "callback" /\ it[i].last = None
                                            /\ new.heads[i] # mem.heads[i])
  BY <1>1, RaceFacts
<1>3. ASSUME NEW i \in Names
      PROVE  /\ lock' # i /\ it'[i].pc # "fetch"
             /\ it'[i].pc = "callback" => /\ it'[i].release = TRUE
                                          /\ it'[i].block \in Blocks /\ Number[it'[i].block] = it'[i].next
             /\ IF it'[i].pc = "idle" THEN ~it'[i].raced /\ it'[i].last = None ELSE it'[i].next > 0
  <2>1. it[i].release \in BOOLEAN
    BY <1>1 DEF Runs
  <2> QED
    BY <1>1, <1>2, <2>1 DEF Locking, Holding
<1> QED
  BY <1>3 DEF Locking, Holding

\* An iterator whose head descends stays where it may stand, unless its first
\* callback was overtaken.
LEMMA StaysPositioned ==
    ASSUME Types, Locking, NEW i \in Names, Positioned(i), it[i].pc # "fetch",
           NEW new, RaceNoted(new), mem'.heads[i] = new.heads[i], ~it'[i].raced, Descends(i),
           \/ unsaved' \/ saved' = mem'
           \/ saved' = saved /\ mem' = mem /\ unsaved' = unsaved
    PROVE  Positioned(i)'
<1>1. HeadOf(i) \in Blocks
  BY ChainAssumption DEF HeadOf, Types, Heads
<1>2. /\ HeadOf(i)' \in Blocks /\ Number[HeadOf(i)'] \in Nat /\ Number[HeadOf(i)] \in Nat
      /\ Number[HeadOf(i)'] <= Number[HeadOf(i)]
  <2>1. Ranked(HeadOf(i)) /\ HeadOf(i)' \in Ancestors[HeadOf(i)]
    BY <1>1, AncestorsRanked DEF Descends
  <2>2. HeadOf(i)' \in Blocks /\ Number[HeadOf(i)'] <= Number[HeadOf(i)]
    BY <2>1 DEF Ranked
  <2> QED
    BY <1>1, <2>2, ChainAssumption
<1>3. /\ it[i] \in Runs
      /\ it'[i].pc = it[i].pc /\ it'[i].next = it[i].next
      /\ it'[i].block = it[i].block /\ it'[i].last = it[i].last /\ it'[i].from = it[i].from
      /\ ~(it[i].pc = "callback" /\ it[i].last = None /\ new.heads[i] # mem.heads[i])
  BY RaceFacts DEF Types
<1>4. it[i].pc # "idle" /\ it[i].last = None => HeadOf(i)' = HeadOf(i)
  BY <1>3 DEF HeadOf, Runs
<1>5. it'[i].pc # "idle" /\ it'[i].last = None => it'[i].next = Number[HeadOf(i)'] + 1
  BY <1>3, <1>4 DEF Positioned
<1>6. it'[i].last # None => Number[HeadOf(i)'] <= Number[it'[i].last]
  <2>1. it[i].last # None => Number[it[i].last] \in Nat
    BY <1>3, ChainAssumption DEF Runs
  <2> QED
    BY <1>2, <1>3, <2>1 DEF Positioned
<1>7. it'[i].pc = "callback" => /\ Number[HeadOf(i)'] < Number[it'[i].block]
                                /\ Parent[it'[i].block] \in {it'[i].from, it'[i].last}
  <2> SUFFICES ASSUME it[i].pc = "callback"
               PROVE  /\ Number[HeadOf(i)'] < Number[it[i].block]
                      /\ Parent[it[i].block] \in {it[i].from, it[i].last}
    BY <1>3
  <2>1. Number[it[i].block] \in Nat
    BY ChainAssumption DEF Locking, Holding
  <2>2. Number[HeadOf(i)] < Number[it[i].block] /\ Parent[it[i].block] \in {it[i].from, it[i].last}
    BY DEF Positioned
  <2> QED
    BY <1>2, <2>1, <2>2
<1>8. ~unsaved' => SavedHeadOf(i)' \in Ancestors[HeadOf(i)']
  <2>1. CASE saved' = mem'
    <3>1. SavedHeadOf(i)' = HeadOf(i)'
      BY <2>1 DEF SavedHeadOf, HeadOf
    <3> QED
      BY <1>2, <3>1, AncestorsNest
  <2>2. CASE saved' = saved /\ mem' = mem /\ unsaved' = unsaved
    BY <2>2 DEF SavedHeadOf, HeadOf, Positioned
  <2> QED
    BY <2>1, <2>2
<1> QED
  BY <1>5, <1>6, <1>7, <1>8 DEF Positioned

-----------------------------------------------------------------------------
(***************************************************************************)
(* Every action keeps the invariant.  The head of an iterator may only do  *)
(* what NoBlockSkipped says.                                               *)
(***************************************************************************)

Unskipped(i) ==
    \/ mode # "number" \/ hurt' \/ it[i].raced
    \/ HeadOf(i)' \in Ancestors[HeadOf(i)] \/ Parent[HeadOf(i)'] \in {it[i].from, it[i].last}
    \/ \E b \in Blocks : SetIteratorHead(i, b)

\* The invariant, with the parts about the chain named together.
LEMMA IInvParts ==
    IInv <=> Types /\ ChainInv /\ Locking /\ Following /\ UnclesChecked
BY DEF IInv, ChainInv

\* A chain that holds only its genesis satisfies the invariant.
LEMMA InitHolds ==
    Init => IInv
<1> SUFFICES ASSUME Init PROVE IInv
  OBVIOUS
<1>1. /\ Genesis \in Blocks /\ None \notin Blocks \cup Names /\ Number[Genesis] = 0
      /\ Difficulty[Genesis] \in Nat /\ Uncles[Genesis] = {}
  BY ChainAssumption
<1>2. /\ td = [b \in {Genesis} |-> Difficulty[Genesis]] /\ bodies = {Genesis}
      /\ canon = [n \in {0} |-> Genesis] /\ mode \in Modes
      /\ mem = [heads |-> [i \in Names |-> None], header |-> Genesis, block |-> Genesis]
      /\ saved = mem /\ lock = None /\ it = [i \in Names |-> Idle] /\ ~unsaved /\ ~hurt
      /\ unsaved \in BOOLEAN /\ hurt \in BOOLEAN
  BY DEF Init
<1>3. mem \in Heads /\ mem.header = Genesis /\ mem.block = Genesis /\ \A i \in Names : mem.heads[i] = None
  BY <1>1, <1>2 DEF Heads
<1>4. Idle \in Runs /\ Idle.pc = "idle" /\ Idle.raced = FALSE /\ Idle.last = None
  BY DEF Idle, Runs
<1>5. Types
  BY <1>1, <1>2, <1>3, <1>4 DEF Types
<1>6. Index
  BY <1>1, <1>2 DEF Index, Stored
<1>7. PathToHead
  <2>1. canon = Path[Genesis]
    <3>1. Traced(Genesis)
      BY <1>1, PathFacts
    <3>2. Path[Genesis] \in [0..0 -> Blocks] /\ Path[Genesis][0] = Genesis
      BY <1>1, <3>1 DEF Traced
    <3>3. 0..0 = {0}
      OBVIOUS
    <3> QED
      BY <1>2, <3>2, <3>3
  <2> QED
    BY <1>2, <1>3, <2>1 DEF PathToHead, Stored
<1>8. SavedHeads
  BY <1>1, <1>2, <1>3 DEF SavedHeads, OnChain, IsCanonical
<1>9. Locking
  BY <1>1, <1>2, <1>4 DEF Locking, Holding
<1>10. Following
  <2> SUFFICES ASSUME NEW i \in Names PROVE Positioned(i)
    BY DEF Following
  <2>1. it[i].pc = "idle" /\ it[i].last = None
    BY <1>2, <1>4
  <2>2. SavedHeadOf(i) = Genesis /\ HeadOf(i) = Genesis
    BY <1>2, <1>3 DEF SavedHeadOf, HeadOf
  <2>3. Genesis \in Ancestors[Genesis]
    BY <1>1, AncestorsNest
  <2> QED
    BY <2>1, <2>2, <2>3 DEF Positioned
<1>11. UnclesChecked
  BY <1>1, <1>2 DEF UnclesChecked
<1> QED
  BY <1>5, <1>6, <1>7, <1>8, <1>9, <1>10, <1>11 DEF IInv

\* A free lock, and heads that descend: what a put and a reset do to iterators.
LEMMA FreeFollowing ==
    ASSUME Types, Locking, Following, lock = None, RaceNoted(mem'), saved' = mem',
           mode' = mode, hurt' = hurt,
           mode = "number" /\ ~hurt => \A i \in Names : Descends(i)
    PROVE  Following' /\ \A i \in Names : Unskipped(i)
<1>1. it \in [Names -> Runs] /\ None \notin Names
  BY ChainAssumption DEF Types
<1>2. \A i \in Names : it[i].pc # "fetch" /\ (it[i].raced => it'[i].raced)
  BY <1>1, RaceFacts DEF Locking, Holding
<1>3. Following'
  <2> SUFFICES ASSUME NEW i \in Names, mode = "number", ~hurt, ~it'[i].raced
               PROVE  Positioned(i)'
    BY DEF Following
  <2>1. Positioned(i)
    BY <1>2 DEF Following
  <2> DEFINE new == mem'
  <2>2. RaceNoted(new) /\ mem'.heads[i] = new.heads[i]
    OBVIOUS
  <2>3. Descends(i) /\ it[i].pc # "fetch"
    BY <1>2
  <2> HIDE DEF new
  <2> QED
    BY <2>1, <2>2, <2>3, StaysPositioned
<1>4. \A i \in Names : Unskipped(i)
  BY DEF Unskipped, Descends
<1> QED
  BY <1>3, <1>4

\* One lemma per operation: putBlock and putHeader.
LEMMA PutKeeps ==
    ASSUME IInv, NEW b \in Blocks, NEW full \in BOOLEAN, PutBlockOrHeader(b, full)
    PROVE  IInv' /\ \A i \in Names : Unskipped(i)
<1>1. Types /\ ChainInv /\ Locking /\ Following /\ UnclesChecked
  BY IInvParts
<1>2. /\ ChainInv' /\ mem' \in Heads
      /\ DOMAIN td' = DOMAIN td \cup {b} /\ td' \in [DOMAIN td' -> Nat] /\ DOMAIN td' \subseteq Blocks
      /\ mode = "number" /\ ~hurt => \A i \in Names : Descends(i)
  BY <1>1, PutChain
<1>3. /\ lock = None /\ lock' = None /\ saved' = mem' /\ unsaved' = FALSE /\ hurt' = hurt /\ mode' = mode
      /\ RaceNoted(mem') /\ bodies' = WithBody(b, full) /\ (full => ValidateBlock(b))
  BY DEF PutBlockOrHeader, Save
<1>4. it' \in [Names -> Runs]
  BY <1>1, <1>3, RaceFacts DEF Types
<1>5. Types'
  <2>1. bodies' \subseteq DOMAIN td'
    BY <1>1, <1>2, <1>3 DEF Types, WithBody
  <2> QED
    BY <1>1, <1>2, <1>3, <1>4, <2>1 DEF Types
<1>6. Locking'
  BY <1>1, <1>3, LockingFree
<1>7. Following' /\ \A i \in Names : Unskipped(i)
  BY <1>1, <1>2, <1>3, FreeFollowing
<1>8. UnclesChecked'
  <2>1. full => \A u \in Uncles[b] : UncleChecked(b, u)
    BY <1>3, UnclesFound DEF ValidateBlock
  <2>2. \A a \in bodies' : a \in bodies \/ (full /\ a = b)
    BY <1>3 DEF WithBody
  <2> QED
    BY <1>1, <2>1, <2>2 DEF UnclesChecked, UncleChecked
<1>9. (Types /\ ChainInv /\ Locking /\ Following /\ UnclesChecked)'
  BY <1>2, <1>5, <1>6, <1>7, <1>8
<1> QED
  BY <1>7, <1>9 DEF IInv, ChainInv

\* resetCanonicalHead.
LEMMA ResetKeeps ==
    ASSUME IInv, NEW n \in DOMAIN canon, ResetCanonicalHead(n)
    PROVE  IInv' /\ \A i \in Names : Unskipped(i)
<1>1. Types /\ ChainInv /\ Locking /\ Following /\ UnclesChecked
  BY IInvParts
<1>2. /\ ChainInv' /\ mem' \in Heads
      /\ mode = "number" /\ ~hurt => \A i \in Names : Descends(i)
  BY <1>1, ResetChain
<1>3. /\ lock = None /\ lock' = None /\ saved' = mem' /\ unsaved' = FALSE /\ hurt' = hurt /\ mode' = mode
      /\ RaceNoted(mem') /\ bodies' = bodies /\ td' = td
  BY DEF ResetCanonicalHead, Save
<1>4. it' \in [Names -> Runs]
  BY <1>1, <1>3, RaceFacts DEF Types
<1>5. Types'
  BY <1>1, <1>2, <1>3, <1>4 DEF Types
<1>6. Locking'
  BY <1>1, <1>3, LockingFree
<1>7. Following' /\ \A i \in Names : Unskipped(i)
  BY <1>1, <1>2, <1>3, FreeFollowing
<1>8. UnclesChecked'
  BY <1>1, <1>3 DEF UnclesChecked, UncleChecked
<1> QED
  BY <1>2, <1>5, <1>6, <1>7, <1>8 DEF IInv, ChainInv

\* delBlock.
LEMMA DelKeeps ==
    ASSUME IInv, NEW b \in Blocks, DelBlock(b)
    PROVE  IInv' /\ \A i \in Names : Unskipped(i)
<1>1. Types /\ ChainInv /\ Locking /\ Following /\ UnclesChecked
  BY IInvParts
<1>2. /\ ChainInv' /\ mem' \in Heads
      /\ DOMAIN td' = (DOMAIN td) \ Gone(b) /\ td' \in [DOMAIN td' -> Nat]
      /\ mode = "number" /\ ~hurt => \A i \in Names : Descends(i)
  BY <1>1, DelChain
<1>3. /\ lock # None => it[lock].pc = "callback"
      /\ hurt' = (hurt \/ (lock # None /\ it[lock].block \in Gone(b)))
      /\ bodies' = bodies \ Gone(b) /\ saved' = saved /\ mode' = mode /\ lock' = lock
      /\ RaceNoted(mem')
      /\ IF IsCanonical(b) THEN canon' = IndexBelow(Number[b]) /\ unsaved' = TRUE
                           ELSE canon' = canon /\ mem' = mem /\ unsaved' = unsaved
  BY DEF DelBlock, Gone
<1>4. it \in [Names -> Runs] /\ None \notin Names
  BY <1>1, ChainAssumption DEF Types
<1>5. /\ it' \in [Names -> Runs]
      /\ \A i \in Names :
           /\ it'[i].pc = it[i].pc /\ it'[i].release = it[i].release /\ it'[i].next = it[i].next
           /\ it'[i].block = it[i].block /\ it'[i].last = it[i].last
           /\ it[i].raced => it'[i].raced
           /\ it'[i].raced => it[i].raced \/ it[i].pc = "callback"
  <2> DEFINE new == mem'
  <2>1. RaceNoted(new)
    BY <1>3
  <2> HIDE DEF new
  <2> QED
    BY <1>4, <2>1, RaceFacts
<1>6. Types'
  <2>1. bodies' \subseteq DOMAIN td'
    BY <1>1, <1>2, <1>3 DEF Types
  <2>2. hurt' \in BOOLEAN /\ unsaved' \in BOOLEAN
    BY <1>1, <1>3 DEF Types
  <2>3. DOMAIN td' \subseteq Blocks
    BY <1>1, <1>2 DEF Types
  <2> QED
    BY <1>1, <1>2, <1>3, <1>5, <2>1, <2>2, <2>3 DEF Types
<1>7. ASSUME NEW i \in Names
      PROVE  Holding(i)' /\ it[i].pc # "fetch"
  <2>1. Holding(i)
    BY <1>1 DEF Locking
  <2>2. it[i].pc # "fetch"
    BY <1>3, <1>4, <2>1 DEF Holding
  <2>3. ASSUME it[i].pc = "callback", ~it[i].release, ~hurt'
        PROVE  it[i].next \in DOMAIN canon' /\ canon'[it[i].next] = it[i].block
    <3>1. lock = i /\ ~hurt /\ it[i].block \notin Gone(b)
      BY <1>3, <1>4, <2>1, <2>3 DEF Holding
    <3>2. it[i].next \in DOMAIN canon /\ canon[it[i].next] = it[i].block
      BY <2>1, <2>3, <3>1 DEF Holding
    <3>3. CASE IsCanonical(b)
      <4>1. it[i].next \notin Above(Number[b])
        BY <3>1, <3>2, <3>3 DEF Gone
      <4>2. canon' = [k \in (DOMAIN canon) \ Above(Number[b]) |-> canon[k]]
        BY <1>3, <3>3 DEF IndexBelow, Restrict
      <4> QED
        BY <3>2, <4>1, <4>2
    <3>4. CASE ~IsCanonical(b)
      BY <1>3, <3>2, <3>4
    <3> QED
      BY <3>3, <3>4
  <2>4. /\ lock' = i => it'[i].pc \in {"fetch", "callback"}
        /\ it'[i].pc = "fetch" => lock' = i
        /\ IF it'[i].pc = "idle" THEN ~it'[i].raced /\ it'[i].last = None ELSE it'[i].next > 0
    BY <1>3, <1>5, <2>1, <2>2 DEF Holding
  <2>5. it'[i].pc = "callback" => /\ it'[i].release <=> lock' # i
                                  /\ it'[i].block \in Blocks /\ Number[it'[i].block] = it'[i].next
    BY <1>3, <1>5, <2>1 DEF Holding
  <2>6. it'[i].pc = "callback" /\ ~it'[i].release /\ ~hurt'
           => it'[i].next \in DOMAIN canon' /\ canon'[it'[i].next] = it'[i].block
    BY <1>5, <2>3
  <2> QED
    BY <2>2, <2>4, <2>5, <2>6 DEF Holding
<1>8. Locking'
  BY <1>7 DEF Locking
<1>9. Following'
  <2> SUFFICES ASSUME NEW i \in Names, mode = "number", ~hurt', ~it'[i].raced
               PROVE  Positioned(i)'
    BY <1>3 DEF Following
  <2> DEFINE new == mem'
  <2>1. Positioned(i)
    BY <1>1, <1>3, <1>5 DEF Following
  <2>2. RaceNoted(new) /\ mem'.heads[i] = new.heads[i]
    BY <1>3
  <2>3. Descends(i) /\ it[i].pc # "fetch"
    BY <1>2, <1>3, <1>7
  <2>4. unsaved' \/ (saved' = saved /\ mem' = mem /\ unsaved' = unsaved)
    BY <1>3
  <2> HIDE DEF new
  <2> QED
    BY <1>1, <2>1, <2>2, <2>3, <2>4, StaysPositioned
<1>10. \A i \in Names : Unskipped(i)
  BY <1>2, <1>3 DEF Unskipped, Descends
<1>11. UnclesChecked'
  BY <1>1, <1>3 DEF UnclesChecked, UncleChecked
<1> QED
  BY <1>2, <1>6, <1>8, <1>9, <1>10, <1>11 DEF IInv, ChainInv

\* The tables and the index as they are: what is left to show of the chain.
LEMMA SameChain ==
    ASSUME Types, ChainInv, td' = td, canon' = canon, mode' = mode, mem' \in Heads, saved' \in Heads,
           mem'.header = mem.header, hurt' = hurt,
           ((unsaved' <=> unsaved) /\ saved' = saved) \/ (~unsaved' /\ saved' = mem'),
           mode # "td" /\ ~hurt => OnChain(mem)'
    PROVE  ChainInv'
<1>1. Index'
  BY DEF ChainInv, Index, Stored
<1>2. PathToHead'
  BY DEF ChainInv, PathToHead, Stored
<1>3. CASE (unsaved' <=> unsaved) /\ saved' = saved
  <2>1. OnChain(saved)' = OnChain(saved)
    BY <1>3 DEF OnChain, IsCanonical
  <2> QED
    BY <1>1, <1>2, <1>3, <2>1 DEF ChainInv, SavedHeads, Stored
<1>4. CASE ~unsaved' /\ saved' = mem'
  <2>1. OnChain(saved)' = OnChain(mem)'
    BY <1>4 DEF OnChain, IsCanonical
  <2> QED
    BY <1>1, <1>2, <1>4, <2>1 DEF ChainInv, SavedHeads, Stored
<1> QED
  BY <1>3, <1>4

\* setIteratorHead.
LEMMA SetKeeps ==
    ASSUME IInv, NEW o \in Names, NEW b \in Blocks, SetIteratorHead(o, b)
    PROVE  IInv' /\ \A i \in Names : Unskipped(i)
<1>1. Types /\ ChainInv /\ Locking /\ Following /\ UnclesChecked
  BY IInvParts
<1>2. /\ lock = None /\ IsCanonical(b) /\ mem' = [mem EXCEPT !.heads[o] = b]
      /\ saved' = mem' /\ unsaved' = FALSE /\ it' = [it EXCEPT ![o].raced = (it[o].pc # "idle")]
      /\ mode' = mode /\ td' = td /\ bodies' = bodies /\ canon' = canon /\ lock' = lock /\ hurt' = hurt
  BY DEF SetIteratorHead, Save
<1>3. /\ it \in [Names -> Runs] /\ None \notin Names /\ mem \in Heads
      /\ \A i \in Names : Holding(i)
  BY <1>1, ChainAssumption DEF Types, Locking
<1>4. /\ mem' \in Heads /\ mem'.header = mem.header /\ mem'.block = mem.block
      /\ mem'.heads = [mem.heads EXCEPT ![o] = b] /\ mem'.heads[o] = b
      /\ \A i \in Names \ {o} : mem'.heads[i] = mem.heads[i]
  BY <1>2, <1>3 DEF Heads
<1>5. /\ it' \in [Names -> Runs]
      /\ \A i \in Names : /\ it'[i].pc = it[i].pc /\ it'[i].release = it[i].release
                          /\ it'[i].next = it[i].next /\ it'[i].block = it[i].block
                          /\ it'[i].last = it[i].last /\ it'[i].from = it[i].from
      /\ it'[o].raced <=> it[o].pc # "idle"
      /\ \A i \in Names \ {o} : it'[i] = it[i]
  <2> DEFINE busy == it[o].pc # "idle"
  <2>1. busy \in BOOLEAN /\ it' = [it EXCEPT ![o].raced = busy]
    BY <1>2
  <2> HIDE DEF busy
  <2>2. /\ it' \in [Names -> Runs]
        /\ \A i \in Names : /\ it'[i].pc = it[i].pc /\ it'[i].release = it[i].release
                            /\ it'[i].next = it[i].next /\ it'[i].block = it[i].block
                            /\ it'[i].last = it[i].last /\ it'[i].from = it[i].from
        /\ it'[o].raced = busy
        /\ \A i \in Names \ {o} : it'[i] = it[i]
    BY <1>3, <2>1 DEF Runs
  <2> QED
    BY <2>2 DEF busy
<1>6. Types'
  BY <1>1, <1>2, <1>4, <1>5 DEF Types
<1>7. ChainInv'
  <2>1. ASSUME mode # "td", ~hurt
        PROVE  OnChain(mem)'
    <3>1. OnChain(mem)
      BY <1>1, <2>1 DEF ChainInv, SavedHeads
    <3> QED
      BY <1>2, <1>4, <3>1 DEF OnChain, IsCanonical
  <2> QED
    BY <1>1, <1>2, <1>4, <2>1, SameChain
<1>8. Locking'
  <2> SUFFICES ASSUME NEW i \in Names PROVE Holding(i)'
    BY DEF Locking
  <2>1. Holding(i) /\ it'[i].release \in BOOLEAN
    BY <1>3, <1>5 DEF Runs
  <2>2. it[i].pc = "callback" => it[i].release = TRUE
    BY <1>2, <1>3, <2>1 DEF Holding, Runs
  <2>3. it[i].pc = "idle" => ~it'[i].raced
    BY <1>5, <2>1 DEF Holding
  <2> QED
    BY <1>2, <1>3, <1>5, <2>1, <2>2, <2>3 DEF Holding
<1>9. Following'
  <2> SUFFICES ASSUME NEW i \in Names, mode = "number", ~hurt, ~it'[i].raced
               PROVE  Positioned(i)'
    BY <1>2 DEF Following
  <2>1. HeadOf(i)' \in Blocks /\ SavedHeadOf(i)' = HeadOf(i)'
    BY <1>2, <1>4, ChainAssumption DEF HeadOf, SavedHeadOf, Heads
  <2>2. SavedHeadOf(i)' \in Ancestors[HeadOf(i)']
    BY <2>1, AncestorsNest
  <2>3. CASE i = o
    <3>1. it'[i].pc = "idle" /\ it'[i].last = None
      BY <1>3, <1>5, <2>3 DEF Holding
    <3> QED
      BY <2>2, <3>1 DEF Positioned
  <2>4. CASE i # o
    <3>1. it'[i] = it[i] /\ HeadOf(i)' = HeadOf(i)
      BY <1>4, <1>5, <2>4 DEF HeadOf
    <3>2. Positioned(i)
      BY <1>1, <3>1 DEF Following
    <3> QED
      BY <2>2, <3>1, <3>2 DEF Positioned
  <2> QED
    BY <2>3, <2>4
<1>10. ASSUME NEW i \in Names
       PROVE  Unskipped(i)
  <2>1. CASE i = o
    BY <2>1 DEF Unskipped
  <2>2. CASE i # o
    <3>1. HeadOf(i)' = HeadOf(i) /\ HeadOf(i) \in Blocks
      BY <1>3, <1>4, <2>2, ChainAssumption DEF HeadOf, Heads
    <3> QED
      BY <3>1, AncestorsNest DEF Unskipped
  <2> QED
    BY <2>1, <2>2
<1>11. UnclesChecked'
  BY <1>1, <1>2 DEF UnclesChecked, UncleChecked
<1> QED
  BY <1>6, <1>7, <1>8, <1>9, <1>10, <1>11 DEF IInv, ChainInv

\* The process dies and another opens the same database.
LEMMA RestartKeeps ==
    ASSUME IInv, Restart
    PROVE  IInv' /\ \A i \in Names : Unskipped(i)
<1>1. Types /\ ChainInv /\ Locking /\ Following /\ UnclesChecked
  BY IInvParts
<1>2. /\ mem' = saved /\ saved' = saved /\ lock' = None /\ it' = [i \in Names |-> Idle]
      /\ unsaved' = FALSE /\ hurt' = (hurt \/ unsaved)
      /\ mode' = mode /\ td' = td /\ bodies' = bodies /\ canon' = canon
  BY DEF Restart
<1>3. /\ Idle \in Runs /\ Idle.pc = "idle" /\ Idle.raced = FALSE /\ Idle.last = None /\ None \notin Names
      /\ \A i \in Names : it'[i] = Idle
  BY <1>2, ChainAssumption DEF Idle, Runs
<1>4. Types'
  BY <1>1, <1>2, <1>3 DEF Types
<1>5. ChainInv'
  <2>1. Index'
    BY <1>1, <1>2 DEF ChainInv, Index, Stored
  <2>2. PathToHead'
    BY <1>1, <1>2 DEF ChainInv, PathToHead, SavedHeads, Stored
  <2>3. OnChain(mem)' = OnChain(saved) /\ OnChain(saved)' = OnChain(saved)
    BY <1>2 DEF OnChain, IsCanonical
  <2>4. SavedHeads'
    BY <1>1, <1>2, <2>3 DEF ChainInv, SavedHeads
  <2> QED
    BY <2>1, <2>2, <2>4 DEF ChainInv
<1>6. Locking'
  BY <1>2, <1>3 DEF Locking, Holding
<1>7. Following'
  <2> SUFFICES ASSUME NEW i \in Names PROVE Positioned(i)'
    BY DEF Following
  <2>1. HeadOf(i)' \in Blocks /\ SavedHeadOf(i)' = HeadOf(i)'
    BY <1>1, <1>2, ChainAssumption DEF HeadOf, SavedHeadOf, Types, Heads
  <2>2. SavedHeadOf(i)' \in Ancestors[HeadOf(i)']
    BY <2>1, AncestorsNest
  <2> QED
    BY <1>3, <2>2 DEF Positioned
<1>8. ASSUME NEW i \in Names
      PROVE  Unskipped(i)
  <2> SUFFICES ASSUME mode = "number", ~hurt, ~unsaved, ~it[i].raced
               PROVE  HeadOf(i)' \in Ancestors[HeadOf(i)]
    BY <1>2 DEF Unskipped
  <2>1. Positioned(i)
    BY <1>1 DEF Following
  <2>2. HeadOf(i)' = SavedHeadOf(i)
    BY <1>2 DEF HeadOf, SavedHeadOf
  <2> QED
    BY <2>1, <2>2 DEF Positioned
<1>9. UnclesChecked'
  BY <1>1, <1>2 DEF UnclesChecked, UncleChecked
<1> QED
  BY <1>4, <1>5, <1>6, <1>7, <1>8, <1>9 DEF IInv, ChainInv

\* While one iterator steps, the others hold what they held.
LEMMA OthersHold ==
    ASSUME Types, Locking, NEW i \in Names, lock \in {None, i}, lock' \in {None, i},
           \A j \in Names \ {i} : it'[j] = it[j]
    PROVE  \A j \in Names \ {i} : Holding(j)'
<1> SUFFICES ASSUME NEW j \in Names \ {i} PROVE Holding(j)'
  OBVIOUS
<1>1. Holding(j) /\ it'[j] = it[j] /\ lock # j /\ lock' # j /\ it[j].release \in BOOLEAN
  BY ChainAssumption DEF Locking, Types, Runs
<1>2. it[j].pc # "fetch" /\ (it[j].pc = "callback" => it[j].release = TRUE)
  BY <1>1 DEF Holding
<1> QED
  BY <1>1, <1>2 DEF Holding

\* While one iterator steps, the others stand where they stood.
LEMMA OthersFollow ==
    ASSUME Types, Following, NEW i \in Names, mode' = mode, hurt' = hurt,
           \A j \in Names \ {i} : it'[j] = it[j] /\ mem'.heads[j] = mem.heads[j],
           (unsaved' = unsaved /\ saved' = saved) \/ saved' = mem'
    PROVE  \A j \in Names \ {i} : mode' = "number" /\ ~hurt' /\ ~it'[j].raced => Positioned(j)'
<1> SUFFICES ASSUME NEW j \in Names \ {i}, mode = "number", ~hurt, ~it[j].raced
             PROVE  Positioned(j)'
  OBVIOUS
<1>1. Positioned(j) /\ it'[j] = it[j]
  BY DEF Following
<1>2. HeadOf(j)' = HeadOf(j) /\ HeadOf(j) \in Blocks
  BY ChainAssumption DEF HeadOf, Types, Heads
<1>3. ~unsaved' => SavedHeadOf(j)' \in Ancestors[HeadOf(j)']
  <2>1. CASE unsaved' = unsaved /\ saved' = saved
    <3>1. SavedHeadOf(j)' = SavedHeadOf(j)
      BY <2>1 DEF SavedHeadOf
    <3> QED
      BY <1>1, <1>2, <2>1, <3>1 DEF Positioned
  <2>2. CASE saved' = mem'
    <3>1. SavedHeadOf(j)' = HeadOf(j)'
      BY <2>2 DEF SavedHeadOf, HeadOf
    <3> QED
      BY <1>2, <3>1, AncestorsNest
  <2> QED
    BY <2>1, <2>2
<1> QED
  BY <1>1, <1>2, <1>3 DEF Positioned

\* A head that does not move passes over nothing.
LEMMA StillUnskipped ==
    ASSUME Types, NEW i \in Names, mem'.heads[i] = mem.heads[i]
    PROVE  Unskipped(i)
<1>1. HeadOf(i)' = HeadOf(i) /\ HeadOf(i) \in Blocks
  BY ChainAssumption DEF HeadOf, Types, Heads
<1> QED
  BY <1>1, AncestorsNest DEF Unskipped

\* An iterator takes the lock.
LEMMA StartKeeps ==
    ASSUME IInv, NEW i \in Names, NEW release \in BOOLEAN, IteratorStart(i, release)
    PROVE  IInv' /\ \A j \in Names : Unskipped(j)
<1>1. Types /\ ChainInv /\ Locking /\ Following /\ UnclesChecked
  BY IInvParts
<1>2. /\ lock = None /\ it[i].pc = "idle" /\ lock' = i
      /\ it' = [it EXCEPT ![i] = [Idle EXCEPT !.pc = "fetch", !.release = release,
                                              !.next = Number[HeadOf(i)] + 1]]
      /\ mode' = mode /\ td' = td /\ bodies' = bodies /\ canon' = canon /\ mem' = mem
      /\ saved' = saved /\ unsaved' = unsaved /\ hurt' = hurt
  BY DEF IteratorStart
<1>3. /\ it \in [Names -> Runs] /\ Idle \in Runs /\ Idle.raced = FALSE /\ Idle.last = None
      /\ HeadOf(i) \in Blocks /\ Number[HeadOf(i)] \in Nat /\ HeadOf(i)' = HeadOf(i)
  BY <1>1, <1>2, ChainAssumption DEF Types, Idle, Runs, HeadOf, Heads
<1> DEFINE run == [Idle EXCEPT !.pc = "fetch", !.release = release, !.next = Number[HeadOf(i)] + 1]
<1>4. /\ run \in Runs /\ run.pc = "fetch" /\ run.next = Number[HeadOf(i)] + 1
      /\ run.raced = FALSE /\ run.last = None
  <2> DEFINE n == Number[HeadOf(i)] + 1
  <2>1. n \in Nat /\ run = [Idle EXCEPT !.pc = "fetch", !.release = release, !.next = n]
    BY <1>3
  <2> HIDE DEF n, run
  <2>2. run \in Runs /\ run.pc = "fetch" /\ run.next = n /\ run.raced = Idle.raced /\ run.last = Idle.last
    <3>1. Idle \in Runs
      BY <1>3
    <3> QED
      BY <2>1, <3>1 DEF Runs
  <2> QED
    BY <1>3, <2>2 DEF n
<1>5. it' \in [Names -> Runs] /\ it'[i] = run /\ \A j \in Names \ {i} : it'[j] = it[j]
  <2>1. it' = [it EXCEPT ![i] = run]
    BY <1>2
  <2> HIDE DEF run
  <2> QED
    BY <1>3, <1>4, <2>1
<1> HIDE DEF run
<1>6. Types'
  BY <1>1, <1>2, <1>5 DEF Types
<1>7. ChainInv'
  <2>1. OnChain(mem)' = OnChain(mem)
    BY <1>2 DEF OnChain, IsCanonical
  <2>2. mem \in Heads /\ saved \in Heads
    BY <1>1 DEF Types
  <2>3. mode # "td" /\ ~hurt => OnChain(mem)
    BY <1>1 DEF ChainInv, SavedHeads
  <2>4. mode # "td" /\ ~hurt => OnChain(mem)'
    BY <2>1, <2>3
  <2> QED
    BY <1>1, <1>2, <2>2, <2>4, SameChain
<1>8. Locking'
  <2>1. Holding(i)'
    BY <1>2, <1>3, <1>4, <1>5 DEF Holding
  <2>2. \A j \in Names \ {i} : Holding(j)'
    BY <1>1, <1>2, <1>5, OthersHold
  <2> QED
    BY <2>1, <2>2 DEF Locking
<1>9. Following'
  <2>1. ASSUME mode = "number", ~hurt
        PROVE  Positioned(i)'
    <3>1. ~it[i].raced
      BY <1>1, <1>2 DEF Locking, Holding
    <3>2. ~unsaved => SavedHeadOf(i) \in Ancestors[HeadOf(i)]
      BY <1>1, <2>1, <3>1 DEF Following, Positioned
    <3>3. SavedHeadOf(i)' = SavedHeadOf(i)
      BY <1>2 DEF SavedHeadOf
    <3> QED
      BY <1>2, <1>3, <1>4, <1>5, <3>2, <3>3 DEF Positioned
  <2>2. \A j \in Names \ {i} : mode' = "number" /\ ~hurt' /\ ~it'[j].raced => Positioned(j)'
    BY <1>1, <1>2, <1>5, OthersFollow
  <2> QED
    BY <1>2, <2>1, <2>2 DEF Following
<1>10. \A j \in Names : Unskipped(j)
  BY <1>1, <1>2, StillUnskipped
<1>11. UnclesChecked'
  BY <1>1, <1>2 DEF UnclesChecked, UncleChecked
<1> QED
  BY <1>6, <1>7, <1>8, <1>9, <1>10, <1>11 DEF IInv, ChainInv

\* Leaving the loop.
LEMMA FinishKeeps ==
    ASSUME IInv, NEW i \in Names, lock \in {None, i}, Finish(i, mem),
           UNCHANGED <<mode, td, bodies, canon, hurt>>
    PROVE  IInv' /\ \A j \in Names : Unskipped(j)
<1>1. Types /\ ChainInv /\ Locking /\ Following /\ UnclesChecked
  BY IInvParts
<1>2. /\ lock' = None /\ mem' = mem /\ saved' = mem /\ unsaved' = FALSE /\ it' = [it EXCEPT ![i] = Idle]
      /\ mode' = mode /\ td' = td /\ bodies' = bodies /\ canon' = canon /\ hurt' = hurt
  BY DEF Finish, Save
<1>3. /\ it \in [Names -> Runs] /\ Idle \in Runs /\ Idle.raced = FALSE /\ Idle.last = None
      /\ Idle.pc = "idle" /\ None \notin Names
  BY <1>1, ChainAssumption DEF Types, Idle, Runs
<1>4. it' \in [Names -> Runs] /\ it'[i] = Idle /\ \A j \in Names \ {i} : it'[j] = it[j]
  BY <1>2, <1>3
<1>5. Types'
  BY <1>1, <1>2, <1>4 DEF Types
<1>6. ChainInv'
  <2>1. OnChain(mem)' = OnChain(mem)
    BY <1>2 DEF OnChain, IsCanonical
  <2> QED
    BY <1>1, <1>2, <2>1, SameChain DEF ChainInv, SavedHeads, Types
<1>7. Locking'
  <2>1. Holding(i)'
    BY <1>2, <1>3, <1>4 DEF Holding
  <2>2. \A j \in Names \ {i} : Holding(j)'
    BY <1>1, <1>2, <1>4, OthersHold
  <2> QED
    BY <2>1, <2>2 DEF Locking
<1>8. Following'
  <2>1. Positioned(i)'
    <3>1. HeadOf(i)' \in Blocks /\ SavedHeadOf(i)' = HeadOf(i)'
      BY <1>1, <1>2, ChainAssumption DEF HeadOf, SavedHeadOf, Types, Heads
    <3>2. SavedHeadOf(i)' \in Ancestors[HeadOf(i)']
      BY <3>1, AncestorsNest
    <3> QED
      BY <1>3, <1>4, <3>2 DEF Positioned
  <2>2. \A j \in Names \ {i} : mode' = "number" /\ ~hurt' /\ ~it'[j].raced => Positioned(j)'
    BY <1>1, <1>2, <1>4, OthersFollow
  <2> QED
    BY <2>1, <2>2 DEF Following
<1>9. \A j \in Names : Unskipped(j)
  BY <1>1, <1>2, StillUnskipped
<1>10. UnclesChecked'
  BY <1>1, <1>2 DEF UnclesChecked, UncleChecked
<1> QED
  BY <1>5, <1>6, <1>7, <1>8, <1>9, <1>10 DEF IInv, ChainInv

\* The heads of an unhurt chain that nothing but their fork choice moves.
LEMMA HeadsOnPath ==
    ASSUME Types, ChainInv, mode = "number", ~hurt, NEW i \in Names
    PROVE  /\ mem.header \in Blocks /\ canon = Path[mem.header]
           /\ HeadOf(i) \in Blocks /\ HeadOf(i) \in Ancestors[mem.header]
<1>1. Stored(mem.header)
  BY DEF ChainInv, PathToHead
<1>2. /\ mem.header \in Blocks /\ canon = Path[mem.header]
      /\ mem.heads[i] # None => mem.heads[i] \in Ancestors[mem.header]
  BY <1>1, ChainFacts
<1>3. Genesis \in Ancestors[mem.header] /\ Ancestors[mem.header] \in SUBSET Blocks
  BY <1>2, AncestorsNest
<1> QED
  BY <1>2, <1>3 DEF HeadOf

\* The block a run fetches is a child of its head or of the block before.
LEMMA FetchedChild ==
    ASSUME Types, ChainInv, mode = "number", ~hurt, NEW i \in Names, Positioned(i),
           it[i].pc = "fetch", it[i].next > 0, CanonicalReadable(FetchAt(i))
    PROVE  LET c == canon[FetchAt(i)]
           IN  /\ Number[HeadOf(i)] < Number[c] /\ Parent[c] \in {HeadOf(i), it[i].last}
               /\ it[i].last = None => FetchAt(i) = Number[HeadOf(i)] + 1
<1> DEFINE h == mem.header
           n == FetchAt(i)
           x == HeadOf(i)
           c == canon[n]
<1>1. h \in Blocks /\ canon = Path[h] /\ x \in Blocks /\ x \in Ancestors[h]
  BY HeadsOnPath
<1>2. n \in DOMAIN canon
  BY DEF CanonicalReadable
<1>3. n = IF /\ it[i].last # None /\ CanonicalReadable(it[i].next)
             /\ Parent[canon[it[i].next]] # it[i].last
          THEN Number[x] + 1 ELSE it[i].next
  BY DEF FetchAt
<1>4. /\ it[i] \in Runs /\ it[i].next \in Nat /\ it[i].last \in Blocks \cup {None}
      /\ it[i].last = None => it[i].next = Number[x] + 1
      /\ it[i].last # None => Number[x] <= Number[it[i].last]
  BY DEF Types, Runs, Positioned
<1>5. CanonicalReadable(n)
  OBVIOUS
<1> HIDE DEF h, n, x
<1>6. Traced(h) /\ Number[h] \in Nat /\ DOMAIN canon = 0..Number[h]
  BY <1>1, PathFacts, OnPath
<1>7. /\ Number[x] \in Nat /\ c \in Blocks /\ Number[c] = n /\ n \in 0..Number[h]
      /\ Number[x] \in 0..Number[h] /\ canon[Number[x]] = x
  BY <1>1, <1>2, <1>6 DEF Traced
<1>8. ASSUME n = Number[x] + 1
      PROVE  Number[x] < Number[c] /\ Parent[c] = x
  <2>1. n \in 1..Number[h] /\ n - 1 = Number[x]
    BY <1>6, <1>7, <1>8
  <2>2. Parent[Path[h][n]] = Path[h][n - 1]
    BY <1>6, <2>1 DEF Traced
  <2> QED
    BY <1>1, <1>7, <1>8, <2>1, <2>2
<1>9. CASE n = Number[x] + 1
  BY <1>8, <1>9 DEF n, x
<1>10. CASE n # Number[x] + 1
  <2>1. n = it[i].next /\ it[i].last # None /\ it[i].last \in Blocks
    BY <1>3, <1>4, <1>10
  <2>2. Parent[c] = it[i].last
    BY <1>3, <1>5, <1>10, <2>1
  <2>3. c # Genesis
    BY <1>7, <2>1, ChainAssumption
  <2>4. Number[c] = Number[it[i].last] + 1 /\ Number[it[i].last] \in Nat
    BY <1>7, <2>1, <2>2, <2>3, ChainAssumption
  <2>5. Number[x] < Number[c]
    BY <1>4, <1>7, <2>1, <2>4
  <2> QED
    BY <2>1, <2>2, <2>5 DEF n, x
<1> QED
  BY <1>9, <1>10

\* An iterator fetches the next block and calls back, with or without the lock.
LEMMA FetchKeeps ==
    ASSUME IInv, NEW i \in Names, IteratorFetch(i)
    PROVE  IInv' /\ \A j \in Names : Unskipped(j)
<1> DEFINE n == FetchAt(i)
<1>1. Types /\ ChainInv /\ Locking /\ Following /\ UnclesChecked
  BY IInvParts
<1>2. /\ lock = i /\ it[i].pc = "fetch" /\ CanonicalReadable(n)
      /\ it' = [it EXCEPT ![i].pc = "callback", ![i].next = n, ![i].block = canon[n],
                          ![i].from = HeadOf(i)]
      /\ lock' = IF it[i].release THEN None ELSE i
      /\ mode' = mode /\ td' = td /\ bodies' = bodies /\ canon' = canon /\ mem' = mem
      /\ saved' = saved /\ unsaved' = unsaved /\ hurt' = hurt
  BY DEF IteratorFetch
<1>3. /\ it \in [Names -> Runs] /\ None \notin Names /\ Holding(i)
      /\ HeadOf(i) \in Blocks /\ HeadOf(i)' = HeadOf(i) /\ Number[HeadOf(i)] \in Nat
  BY <1>1, <1>2, ChainAssumption DEF Types, Locking, HeadOf, Heads
<1>4. n \in DOMAIN canon /\ n \in Nat /\ canon[n] \in Blocks /\ Number[canon[n]] = n
  BY <1>1, <1>2 DEF CanonicalReadable, ChainInv, Index
<1>5. n > 0
  <2>1. it[i].next > 0 /\ it[i].next \in Nat
    BY <1>2, <1>3 DEF Holding, Runs
  <2> QED
    BY <1>3, <2>1 DEF FetchAt
<1>6. ASSUME mode = "number", ~hurt, ~it[i].raced
      PROVE  /\ Number[HeadOf(i)] < Number[canon[n]] /\ Parent[canon[n]] \in {HeadOf(i), it[i].last}
             /\ it[i].last = None => n = Number[HeadOf(i)] + 1
             /\ it[i].last # None => Number[HeadOf(i)] <= Number[it[i].last]
             /\ ~unsaved => SavedHeadOf(i) \in Ancestors[HeadOf(i)]
  <2>1. Positioned(i) /\ it[i].next > 0
    BY <1>1, <1>2, <1>3, <1>6 DEF Following, Holding
  <2>2. /\ Number[HeadOf(i)] < Number[canon[n]] /\ Parent[canon[n]] \in {HeadOf(i), it[i].last}
        /\ it[i].last = None => n = Number[HeadOf(i)] + 1
    BY <1>1, <1>2, <1>6, <2>1, FetchedChild
  <2> QED
    BY <2>1, <2>2 DEF Positioned
<1> HIDE DEF n
<1>7. /\ it' \in [Names -> Runs]
      /\ it'[i].pc = "callback" /\ it'[i].next = n /\ it'[i].block = canon[n] /\ it'[i].from = HeadOf(i)
      /\ it'[i].release = it[i].release /\ it'[i].last = it[i].last /\ it'[i].raced = it[i].raced
      /\ \A j \in Names \ {i} : it'[j] = it[j]
  <2> DEFINE c == canon[n]
             x == HeadOf(i)
  <2>1. /\ it' = [it EXCEPT ![i].pc = "callback", ![i].next = n, ![i].block = c, ![i].from = x]
        /\ c \in Blocks /\ x \in Blocks
    BY <1>2, <1>3, <1>4
  <2> HIDE DEF c, x
  <2>2. it' \in [Names -> Runs]
    <3>1. it \in [Names -> Runs] /\ n \in Nat
      BY <1>3, <1>4
    <3> DEFINE o == it[i]
               q == [o EXCEPT !.pc = "callback", !.next = n, !.block = c, !.from = x]
    <3>2. o \in Runs /\ it' = [it EXCEPT ![i] = q]
      BY <2>1, <3>1
    <3> HIDE DEF o
    <3>3. q \in Runs
      BY <2>1, <3>1, <3>2 DEF Runs
    <3> HIDE DEF q
    <3> QED
      BY <3>1, <3>2, <3>3
  <2>3. /\ it'[i].pc = "callback" /\ it'[i].next = n /\ it'[i].block = c /\ it'[i].from = x
        /\ it'[i].release = it[i].release /\ it'[i].last = it[i].last /\ it'[i].raced = it[i].raced
        /\ \A j \in Names \ {i} : it'[j] = it[j]
    BY <1>3, <2>1 DEF Runs
  <2> QED
    BY <2>2, <2>3 DEF c, x
<1>8. Types'
  <2>1. lock' \in Names \cup {None}
    BY <1>2
  <2> QED
    BY <1>1, <1>2, <1>7, <2>1 DEF Types
<1>9. ChainInv'
  <2>1. OnChain(mem)' = OnChain(mem)
    BY <1>2 DEF OnChain, IsCanonical
  <2>2. mem \in Heads /\ saved \in Heads
    BY <1>1 DEF Types
  <2>3. mode # "td" /\ ~hurt => OnChain(mem)
    BY <1>1 DEF ChainInv, SavedHeads
  <2>4. mode # "td" /\ ~hurt => OnChain(mem)'
    BY <2>1, <2>3
  <2> QED
    BY <1>1, <1>2, <2>2, <2>4, SameChain
<1>10. Locking'
  <2>1. Holding(i)'
    BY <1>2, <1>3, <1>4, <1>5, <1>7 DEF Holding
  <2>2. \A j \in Names \ {i} : Holding(j)'
    BY <1>1, <1>2, <1>7, OthersHold
  <2> QED
    BY <2>1, <2>2 DEF Locking
<1>11. Following'
  <2>1. ASSUME mode = "number", ~hurt, ~it[i].raced
        PROVE  Positioned(i)'
    <3>1. SavedHeadOf(i)' = SavedHeadOf(i)
      BY <1>2 DEF SavedHeadOf
    <3> QED
      BY <1>2, <1>3, <1>6, <1>7, <2>1, <3>1 DEF Positioned
  <2>2. \A j \in Names \ {i} : mode' = "number" /\ ~hurt' /\ ~it'[j].raced => Positioned(j)'
    BY <1>1, <1>2, <1>7, OthersFollow
  <2> QED
    BY <1>2, <1>7, <2>1, <2>2 DEF Following
<1>12. \A j \in Names : Unskipped(j)
  BY <1>1, <1>2, StillUnskipped
<1>13. UnclesChecked'
  BY <1>1, <1>2 DEF UnclesChecked, UncleChecked
<1> QED
  BY <1>8, <1>9, <1>10, <1>11, <1>12, <1>13 DEF IInv, ChainInv

\* The callback returned: its block still has its place, or was reorganised away.
LEMMA ReturnKeeps ==
    ASSUME IInv, NEW i \in Names, IteratorReturn(i)
    PROVE  IInv' /\ \A j \in Names : Unskipped(j)
<1> DEFINE b == it[i].block
           reorged == it[i].release
                       /\ ~(CanonicalReadable(it[i].next) /\ canon[it[i].next] = b)
<1>1. Types /\ ChainInv /\ Locking /\ Following /\ UnclesChecked
  BY IInvParts
<1>2. /\ it[i].pc = "callback" /\ lock = (IF it[i].release THEN None ELSE i) /\ lock' = i
      /\ IF reorged
         THEN it' = [it EXCEPT ![i].pc = "fetch"] /\ mem' = mem
         ELSE /\ it' = [it EXCEPT ![i].pc = "fetch", ![i].last = b, ![i].next = @ + 1]
              /\ mem' = [mem EXCEPT !.heads[i] = b]
      /\ mode' = mode /\ td' = td /\ bodies' = bodies /\ canon' = canon
      /\ saved' = saved /\ unsaved' = unsaved /\ hurt' = hurt
  BY DEF IteratorReturn
<1>3. /\ it \in [Names -> Runs] /\ it[i] \in Runs /\ None \notin Names /\ Holding(i) /\ mem \in Heads
      /\ saved \in Heads /\ HeadOf(i) \in Blocks /\ Number[HeadOf(i)] \in Nat
  BY <1>1, ChainAssumption DEF Types, Locking, HeadOf, Heads
<1>4. b \in Blocks /\ Number[b] = it[i].next /\ it[i].next \in Nat /\ it[i].next > 0 /\ b # None
  BY <1>2, <1>3, ChainAssumption DEF Holding, Runs
<1>5. UnclesChecked'
  BY <1>1, <1>2 DEF UnclesChecked, UncleChecked
<1>6. lock \in {None, i} /\ lock' \in {None, i} /\ lock' \in Names \cup {None}
  BY <1>2
<1>7. CASE reorged
  <2>1. it' = [it EXCEPT ![i].pc = "fetch"] /\ mem' = mem
    BY <1>2, <1>7
  <2>2. /\ it' \in [Names -> Runs] /\ it'[i].pc = "fetch" /\ it'[i].next = it[i].next
        /\ it'[i].last = it[i].last /\ it'[i].raced = it[i].raced
        /\ \A j \in Names \ {i} : it'[j] = it[j]
    BY <1>3, <2>1 DEF Runs
  <2>3. Types'
    BY <1>1, <1>2, <1>6, <2>1, <2>2 DEF Types
  <2>4. ChainInv'
    <3>1. OnChain(mem)' = OnChain(mem)
      BY <1>2, <2>1 DEF OnChain, IsCanonical
    <3>2. mode # "td" /\ ~hurt => OnChain(mem)'
      BY <1>1, <3>1 DEF ChainInv, SavedHeads
    <3> QED
      BY <1>1, <1>2, <1>3, <2>1, <3>2, SameChain
  <2>5. Locking'
    <3>1. Holding(i)'
      BY <1>2, <1>3, <1>4, <2>2 DEF Holding
    <3>2. \A j \in Names \ {i} : Holding(j)'
      BY <1>1, <1>6, <2>2, OthersHold
    <3> QED
      BY <3>1, <3>2 DEF Locking
  <2>6. Following'
    <3>1. ASSUME mode = "number", ~hurt, ~it[i].raced
          PROVE  Positioned(i)'
      <4>1. Positioned(i)
        BY <1>1, <3>1 DEF Following
      <4>2. SavedHeadOf(i)' = SavedHeadOf(i) /\ HeadOf(i)' = HeadOf(i)
        BY <1>2, <2>1 DEF SavedHeadOf, HeadOf
      <4> QED
        BY <1>2, <2>2, <4>1, <4>2 DEF Positioned
    <3>2. \A j \in Names \ {i} : mode' = "number" /\ ~hurt' /\ ~it'[j].raced => Positioned(j)'
      BY <1>1, <1>2, <2>1, <2>2, OthersFollow
    <3> QED
      BY <1>2, <2>2, <3>1, <3>2 DEF Following
  <2>7. \A j \in Names : Unskipped(j)
    BY <1>1, <2>1, StillUnskipped
  <2> QED
    BY <1>5, <2>3, <2>4, <2>5, <2>6, <2>7 DEF IInv, ChainInv
<1>8. CASE ~reorged
  <2>1. /\ it' = [it EXCEPT ![i].pc = "fetch", ![i].last = b, ![i].next = @ + 1]
        /\ mem' = [mem EXCEPT !.heads[i] = b]
    BY <1>2, <1>8
  <2>2. mode # "td" /\ ~hurt => IsCanonical(b)
    <3>1. CASE it[i].release
      BY <1>4, <1>8, <3>1 DEF CanonicalReadable, IsCanonical
    <3>2. CASE ~it[i].release
      BY <1>2, <1>3, <1>4, <3>2 DEF Holding, IsCanonical
    <3> QED
      BY <3>1, <3>2
  <2>3. ASSUME mode = "number", ~hurt, ~it[i].raced
        PROVE  /\ HeadOf(i) \in Ancestors[b] /\ Parent[b] \in {it[i].from, it[i].last}
               /\ ~unsaved => SavedHeadOf(i) \in Ancestors[b]
    <3>1. Positioned(i)
      BY <1>1, <2>3 DEF Following
    <3>2. /\ mem.header \in Blocks /\ canon = Path[mem.header] /\ HeadOf(i) \in Ancestors[mem.header]
          /\ b \in Ancestors[mem.header]
      <4>1. /\ mem.header \in Blocks /\ canon = Path[mem.header]
            /\ HeadOf(i) \in Ancestors[mem.header]
        BY <1>1, <2>3, HeadsOnPath
      <4>2. IsCanonical(b)
        BY <2>2, <2>3
      <4> QED
        BY <1>4, <4>1, <4>2, OnPath
    <3>3. Number[HeadOf(i)] < Number[b] /\ Parent[b] \in {it[i].from, it[i].last}
      BY <1>2, <3>1 DEF Positioned
    <3>4. Number[HeadOf(i)] <= Number[b]
      BY <1>3, <1>4, <3>3
    <3>5. HeadOf(i) \in Ancestors[b]
      BY <3>2, <3>4, AncestorsNest
    <3>6. ~unsaved => SavedHeadOf(i) \in Ancestors[b]
      BY <1>4, <3>1, <3>5, AncestorsNest DEF Positioned
    <3> QED
      BY <3>3, <3>5, <3>6
  <2> HIDE DEF b, reorged
  <2>4. /\ it' \in [Names -> Runs] /\ it'[i].pc = "fetch" /\ it'[i].next = it[i].next + 1
        /\ it'[i].last = b /\ it'[i].raced = it[i].raced
        /\ \A j \in Names \ {i} : it'[j] = it[j]
    <3>1. it[i] \in Runs /\ it[i].next \in Nat /\ it[i].next + 1 \in Nat
      BY <1>3, <1>4
    <3>2. /\ it' \in [Names -> Runs]
          /\ \A j \in Names \ {i} : it'[j] = it[j]
      BY <1>3, <1>4, <2>1, <3>1 DEF Runs
    <3>3. /\ it'[i].pc = "fetch" /\ it'[i].next = it[i].next + 1
          /\ it'[i].last = b /\ it'[i].raced = it[i].raced
      BY <1>3, <1>4, <2>1, <3>1 DEF Runs
    <3> QED
      BY <3>2, <3>3
  <2>5. /\ mem' \in Heads /\ mem'.header = mem.header /\ mem'.block = mem.block /\ mem'.heads[i] = b
        /\ \A j \in Names \ {i} : mem'.heads[j] = mem.heads[j]
    BY <1>3, <1>4, <2>1 DEF Heads
  <2>6. Types'
    BY <1>1, <1>2, <1>6, <2>4, <2>5 DEF Types
  <2>7. ChainInv'
    <3>1. ASSUME mode # "td", ~hurt
          PROVE  OnChain(mem)'
      <4>1. OnChain(mem)
        BY <1>1, <3>1 DEF ChainInv, SavedHeads
      <4> QED
        BY <1>2, <2>2, <2>5, <3>1, <4>1 DEF OnChain, IsCanonical
    <3> QED
      BY <1>1, <1>2, <1>3, <2>5, <3>1, SameChain
  <2>8. Locking'
    <3>1. Holding(i)'
      BY <1>2, <1>3, <1>4, <2>4 DEF Holding
    <3>2. \A j \in Names \ {i} : Holding(j)'
      BY <1>1, <1>6, <2>4, OthersHold
    <3> QED
      BY <3>1, <3>2 DEF Locking
  <2>9. HeadOf(i)' = b
    BY <1>4, <2>5 DEF HeadOf
  <2>10. Following'
    <3>1. ASSUME mode = "number", ~hurt, ~it[i].raced
          PROVE  Positioned(i)'
      <4>1. SavedHeadOf(i)' = SavedHeadOf(i) /\ (~unsaved' => SavedHeadOf(i) \in Ancestors[b])
        BY <1>2, <2>3, <3>1 DEF SavedHeadOf
      <4> QED
        BY <1>4, <2>4, <2>9, <4>1 DEF Positioned
    <3>2. \A j \in Names \ {i} : mode' = "number" /\ ~hurt' /\ ~it'[j].raced => Positioned(j)'
      BY <1>1, <1>2, <2>4, <2>5, OthersFollow
    <3> QED
      BY <1>2, <2>4, <3>1, <3>2 DEF Following
  <2>11. ASSUME NEW j \in Names
         PROVE  Unskipped(j)
    <3>1. CASE j = i
      BY <1>2, <2>3, <2>9, <3>1 DEF Unskipped
    <3>2. CASE j # i
      BY <1>1, <2>5, <3>2, StillUnskipped
    <3> QED
      BY <3>1, <3>2
  <2> QED
    BY <1>5, <2>6, <2>7, <2>8, <2>10, <2>11 DEF IInv, ChainInv
<1> QED
  BY <1>7, <1>8

\* A step that changes nothing.
LEMMA StillKeeps ==
    ASSUME IInv, UNCHANGED vars
    PROVE  IInv' /\ \A i \in Names : Unskipped(i)
<1>1. /\ mode' = mode /\ td' = td /\ bodies' = bodies /\ canon' = canon /\ mem' = mem /\ saved' = saved
      /\ lock' = lock /\ it' = it /\ unsaved' = unsaved /\ hurt' = hurt
  BY DEF vars
<1>2. IInv'
  BY <1>1 DEF IInv, Types, Index, PathToHead, SavedHeads, OnChain, IsCanonical, Locking, Holding,
              Following, Positioned, HeadOf, SavedHeadOf, UnclesChecked, UncleChecked, Stored
<1>3. \A i \in Names : Unskipped(i)
  BY <1>1, StillUnskipped DEF IInv
<1> QED
  BY <1>2, <1>3

\* Every step keeps the invariant, and passes over no block.
LEMMA StepKeeps ==
    ASSUME IInv, [Next]_vars
    PROVE  IInv' /\ \A i \in Names : Unskipped(i)
<1>1. CASE \E b \in Blocks : PutBlock(b) \/ PutHeader(b)
  <2>1. PICK b \in Blocks : PutBlockOrHeader(b, TRUE) \/ PutBlockOrHeader(b, FALSE)
    BY <1>1 DEF PutBlock, PutHeader
  <2> QED
    BY <2>1, PutKeeps
<1>2. CASE \E b \in Blocks : DelBlock(b)
  BY <1>2, DelKeeps
<1>3. CASE \E n \in DOMAIN canon : ResetCanonicalHead(n)
  BY <1>3, ResetKeeps
<1>4. CASE \E i \in Names, b \in Blocks : SetIteratorHead(i, b)
  BY <1>4, SetKeeps
<1>5. CASE \E i \in Names : IteratorStep(i)
  <2>1. PICK i \in Names : IteratorStep(i)
    BY <1>5
  <2>2. CASE \E release \in BOOLEAN : IteratorStart(i, release)
    BY <2>2, StartKeeps
  <2>3. CASE IteratorFetch(i)
    BY <2>3, FetchKeeps
  <2>4. CASE IteratorEnd(i)
    <3>1. /\ lock \in {None, i} /\ Finish(i, mem) /\ UNCHANGED <<mode, td, bodies, canon, hurt>>
      BY <2>4 DEF IteratorEnd
    <3> QED
      BY <3>1, FinishKeeps
  <2>5. CASE IteratorReturn(i)
    BY <2>5, ReturnKeeps
  <2>6. CASE IteratorThrow(i)
    <3>1. /\ lock \in {None, i} /\ Finish(i, mem) /\ UNCHANGED <<mode, td, bodies, canon, hurt>>
      BY <2>6 DEF IteratorThrow
    <3> QED
      BY <3>1, FinishKeeps
  <2> QED
    BY <2>1, <2>2, <2>3, <2>4, <2>5, <2>6 DEF IteratorStep
<1>6. CASE Restart
  BY <1>6, RestartKeeps
<1>7. CASE UNCHANGED vars
  BY <1>7, StillKeeps
<1> QED
  BY <1>1, <1>2, <1>3, <1>4, <1>5, <1>6, <1>7 DEF Next

\* The parts of the promise.
LEMMA Promised ==
    ASSUME IInv
    PROVE  ChainSound
<1>1. Types /\ Index /\ PathToHead /\ SavedHeads /\ UnclesChecked
  BY DEF IInv
<1>2. TypeOK
  <2>1. Range(canon) \subseteq DOMAIN td
    BY <1>1 DEF Range, Index, Stored
  <2>2. \A i \in Names : it[i].block \in Blocks \cup {None} /\ it[i].next \in Nat
    BY <1>1 DEF Types, Runs
  <2> QED
    BY <1>1, <2>1, <2>2 DEF TypeOK, Types, Index
<1>3. CanonicalPath
  BY <1>1 DEF CanonicalPath, PathToHead
<1>4. HeadsCanonical
  BY <1>1 DEF HeadsCanonical, SavedHeads, OnChain
<1>5. UnclesSound
  BY <1>1, CountedOnce
<1> QED
  BY <1>2, <1>3, <1>4, <1>5 DEF ChainSound

\* The inductive invariant holds throughout.
LEMMA AlwaysIInv ==
    Spec => []IInv
<1>1. IInv /\ [Next]_vars => IInv'
  BY StepKeeps
<1> QED
  BY InitHolds, <1>1, PTL DEF Spec

-----------------------------------------------------------------------------

\* The index is the path to the head, heads stay on it, and uncles count once,
\* in every tree of blocks: the promise of _putBlockOrHeader, resetCanonicalHead,
\* delBlock and of a restart between any two of them.
THEOREM ChainSafe == Spec => []ChainSound
BY AlwaysIInv, Promised, PTL

\* The head of an iterator passes over no block without a callback: the promise
\* of iterator, with the lock released or held.
THEOREM NoneSkipped == Spec => NoBlockSkipped
<1>1. IInv /\ [Next]_vars =>
        [\A i \in Names :
            LET old == HeadOf(i)
                new == HeadOf(i)'
            IN  \/ mode # "number" \/ hurt' \/ it[i].raced
                \/ new \in Ancestors[old] \/ Parent[new] \in {it[i].from, it[i].last}
                \/ \E b \in Blocks : SetIteratorHead(i, b)]_vars
  BY StepKeeps DEF Unskipped
<1> QED
  BY AlwaysIInv, <1>1, PTL DEF Spec, NoBlockSkipped

-----------------------------------------------------------------------------
(***************************************************************************)
(* The database under the state trees: layers, read cache and disk         *)
(* together answer every read with the last write, for every set of keys   *)
(* and values, every cache size and every nesting, as long as callers      *)
(* await their reads (~Overlap).                                           *)
(***************************************************************************)

\* A read that waits has what the disk still holds, and no layer has the key.
Awaited == \A k \in Keys : waiting[k] # Unset => waiting[k] = disk[k] /\ Held(k) = {}

\* Without a cache nothing is cached.
NoCache == CacheSize = 0 => lru = Nowhere

DatabaseInv == DatabaseTypeOK /\ CacheCoherent /\ Awaited /\ NoCache

-----------------------------------------------------------------------------
(* What a read answers, key by key.                                        *)

\* The layers of ls that hold k, up to layer n.
HeldIn(ls, n, k) == {i \in 1..n : ls[i][k] # Unset}

AnswerOf(ls, c, d, H, k) ==
    IF H # {} THEN ls[CHOOSE i \in H : \A j \in H : j <= i][k]
    ELSE IF c[k] # Absent THEN c[k] ELSE d[k]

AnswerIn(ls, c, d, n, k) == AnswerOf(ls, c, d, HeldIn(ls, n, k), k)

\* A layer that holds a key has one that is innermost.
LEMMA Innermost ==
    ASSUME NEW n \in Nat, NEW H \in SUBSET (1..n), H # {}
    PROVE  \E i \in H : \A j \in H : j <= i
<1> DEFINE T == {n - i : i \in H}
<1>1. T \subseteq Nat
  OBVIOUS
<1>2. PICK h \in H : TRUE
  OBVIOUS
<1>3. n - h \in T
  BY <1>2
<1>4. PICK m \in T : \A t \in T : ~(<<t, m>> \in OpToRel(<, Nat))
  <2> DEFINE R == OpToRel(<, Nat)
  <2>1. IsWellFoundedOn(R, Nat)
    BY NatLessThanWellFounded
  <2>2. T # {}
    BY <1>3
  <2> HIDE DEF R, T
  <2>3. \E x \in T : \A y \in T : ~(<<y, x>> \in R)
    BY <1>1, <2>1, <2>2, WFMin
  <2> QED
    BY <2>3 DEF R
<1>5. PICK i \in H : m = n - i
  BY <1>4
<1>6. ASSUME NEW j \in H
      PROVE  j <= i
  <2>1. n - j \in T
    OBVIOUS
  <2>2. n - j \in Nat /\ n - i \in Nat /\ i \in Int /\ j \in Int
    BY <2>1, <1>1, <1>5
  <2>3. ~(<<n - j, n - i>> \in OpToRel(<, Nat))
    BY <2>1, <1>4, <1>5
  <2>4. <<n - j, n - i>> \in Nat \X Nat
    BY <2>2
  <2>5. ~(n - j < n - i)
    BY <2>3, <2>4 DEF OpToRel
  <2> QED
    BY <2>2, <2>5
<1> QED
  BY <1>6

\* Only the layers up to n, the cache and the disk decide the answer.
LEMMA SameAnswer ==
    ASSUME NEW n \in Nat, NEW k, NEW ls, NEW ms, NEW c, NEW d, NEW e, NEW f,
           \A i \in 1..n : ls[i][k] = ms[i][k],
           (IF c[k] # Absent THEN c[k] ELSE d[k]) = (IF e[k] # Absent THEN e[k] ELSE f[k])
    PROVE  AnswerIn(ls, c, d, n, k) = AnswerIn(ms, e, f, n, k)
<1> DEFINE H == HeldIn(ls, n, k)
<1>1. HeldIn(ms, n, k) = H
  BY DEF HeldIn
<1>2. H \in SUBSET (1..n)
  BY DEF HeldIn
<1>3. CASE H = {}
  BY <1>1, <1>3 DEF AnswerIn, AnswerOf
<1>4. CASE H # {}
  <2> DEFINE t == CHOOSE i \in H : \A j \in H : j <= i
  <2>1. t \in H
    BY <1>2, <1>4, Innermost
  <2>2. ls[t][k] = ms[t][k]
    BY <1>2, <2>1
  <2>3. AnswerIn(ls, c, d, n, k) = ls[t][k]
    BY <1>4 DEF AnswerIn, AnswerOf
  <2>4. AnswerIn(ms, e, f, n, k) = ms[t][k]
    BY <1>1, <1>4 DEF AnswerIn, AnswerOf
  <2> QED
    BY <2>2, <2>3, <2>4
<1> QED
  BY <1>3, <1>4

\* The innermost layer answers for the keys it has, the rest for the others.
LEMMA TopAnswers ==
    ASSUME NEW n \in Nat \ {0}, NEW k, NEW ls, NEW c, NEW d
    PROVE  AnswerIn(ls, c, d, n, k) =
              IF ls[n][k] # Unset THEN ls[n][k] ELSE AnswerIn(ls, c, d, n - 1, k)
<1> DEFINE H == HeldIn(ls, n, k)
<1>1. CASE ls[n][k] # Unset
  <2> DEFINE t == CHOOSE i \in H : \A j \in H : j <= i
  <2>1. n \in H /\ \A j \in H : j <= n
    BY <1>1 DEF HeldIn
  <2>2. t \in H /\ \A j \in H : j <= t
    BY <2>1
  <2>3. t <= n /\ n <= t /\ t \in Int
    BY <2>1, <2>2 DEF HeldIn
  <2>4. t = n
    BY <2>3
  <2>5. AnswerIn(ls, c, d, n, k) = ls[t][k]
    BY <2>1 DEF AnswerIn, AnswerOf
  <2> QED
    BY <1>1, <2>4, <2>5
<1>2. CASE ls[n][k] = Unset
  <2>1. HeldIn(ls, n - 1, k) = H
    BY <1>2 DEF HeldIn
  <2> HIDE DEF H
  <2>2. AnswerIn(ls, c, d, n, k) = AnswerIn(ls, c, d, n - 1, k)
    BY <2>1 DEF AnswerIn, H
  <2> QED
    BY <1>2, <2>2
<1> QED
  BY <1>1, <1>2

\* Without layers a coherent cache answers what the disk holds.
LEMMA DiskAnswers ==
    ASSUME NEW k, NEW ls, NEW c, NEW d, c[k] # Absent => c[k] = d[k]
    PROVE  /\ AnswerIn(ls, c, d, 0, k) = d[k]
           /\ (IF c[k] # Absent THEN c[k] ELSE d[k]) = d[k]
<1>1. HeldIn(ls, 0, k) = {}
  BY DEF HeldIn
<1> QED
  BY <1>1 DEF AnswerIn, AnswerOf

\* Answer, key by key, before and after a step.
LEMMA Answers ==
    ASSUME NEW n
    PROVE  /\ Answer(n) = [k \in Keys |-> AnswerIn(layers, lru, disk, n, k)]
           /\ Answer(n)' = [k \in Keys |-> AnswerIn(layers', lru', disk', n, k)]
BY DEF Answer, AnswerIn, AnswerOf, HeldIn

-----------------------------------------------------------------------------
(* The pieces of the model.                                                *)

\* The innermost layer, what it is replaced by, and the layers below it.
LEMMA LayerFacts ==
    ASSUME layers \in Seq(Layer), layers # << >>
    PROVE  /\ Len(layers) \in Nat \ {0}
           /\ Top \in Layer
           /\ \A m \in Layer : /\ WithTop(m) \in Seq(Layer)
                              /\ Len(WithTop(m)) = Len(layers)
                              /\ WithTop(m)[Len(layers)] = m
                              /\ \A i \in 1..(Len(layers) - 1) : WithTop(m)[i] = layers[i]
           /\ Below \in Seq(Layer)
           /\ Len(Below) = Len(layers) - 1
           /\ \A i \in 1..(Len(layers) - 1) : Below[i] = layers[i]
<1>1. Len(layers) \in Nat \ {0}
  BY EmptySeq
<1>2. Top \in Layer
  BY <1>1 DEF Top
<1>3. PICK n \in Nat : n = Len(layers) - 1
  BY <1>1
<1>4. \A i \in 1..n : layers[i] \in Layer
  BY <1>1, <1>3
<1>5. /\ SubSeq(layers, 1, n) \in Seq(Layer)
      /\ Len(SubSeq(layers, 1, n)) = IF 1 <= n THEN n - 1 + 1 ELSE 0
      /\ \A i \in 1..n - 1 + 1 : SubSeq(layers, 1, n)[i] = layers[1 + i - 1]
  BY <1>3, <1>4, SubSeqProperties
<1>6. \A i \in 1..n : SubSeq(layers, 1, n)[i] = layers[i]
  BY <1>3, <1>5
<1>7. Below = SubSeq(layers, 1, n)
  BY <1>3 DEF Below
<1>8. ASSUME NEW m \in Layer
      PROVE  /\ WithTop(m) \in Seq(Layer)
             /\ Len(WithTop(m)) = Len(layers)
             /\ WithTop(m)[Len(layers)] = m
             /\ \A i \in 1..(Len(layers) - 1) : WithTop(m)[i] = layers[i]
  BY <1>1 DEF WithTop
<1> QED
  BY <1>1, <1>2, <1>3, <1>5, <1>6, <1>7, <1>8

\* Writing a layer over contents gives contents, over a layer a layer.
LEMMA OverType ==
    ASSUME NEW m \in Layer
    PROVE  /\ \A d \in [Keys -> Contents] : Over(d, m) \in [Keys -> Contents]
           /\ \A l \in Layer : Over(l, m) \in Layer
BY DEF Over, Layer, Contents

LEMMA OneType ==
    ASSUME NEW k \in Keys, NEW v \in Contents
    PROVE  /\ One(k, v) \in Layer
           /\ One(k, v)[k] = v
           /\ \A j \in Keys \ {k} : One(k, v)[j] = Unset
BY DEF One, Layer, EmptyLayer, Contents

LEMMA EmptyLayerType == EmptyLayer \in Layer
BY DEF EmptyLayer, Layer

\* A cache that was coherent with the disk is coherent with the disk after m was
\* written to it, whatever it drops.
LEMMA RememberCoherent ==
    ASSUME NEW c \in [Keys -> Contents], NEW d \in [Keys -> Contents], NEW m \in Layer,
           Cardinality(Cached(c)) <= CacheSize,
           \A k \in Keys : c[k] # Absent => c[k] = d[k],
           CacheSize = 0 => c = Nowhere,
           NEW e \in Remember(c, m)
    PROVE  /\ e \in [Keys -> Contents]
           /\ Cardinality(Cached(e)) <= CacheSize
           /\ \A k \in Keys : e[k] # Absent => e[k] = Over(d, m)[k]
           /\ CacheSize = 0 => e = Nowhere
<1>1. CASE CacheSize = 0
  <2>1. e = c /\ c = Nowhere
    BY <1>1 DEF Remember
  <2>2. \A k \in Keys : e[k] = Absent
    BY <2>1 DEF Nowhere
  <2> QED
    BY <2>1, <2>2
<1>2. CASE CacheSize # 0
  <2>1. /\ e \in [Keys -> Contents]
        /\ \A k \in Keys : e[k] \in {Over(c, m)[k], Absent}
        /\ Cardinality(Cached(e)) <= CacheSize
    BY <1>2 DEF Remember
  <2>2. \A k \in Keys : e[k] # Absent => e[k] = Over(d, m)[k]
    BY <2>1 DEF Over
  <2> QED
    BY <1>2, <2>1, <2>2
<1> QED
  BY <1>1, <1>2

-----------------------------------------------------------------------------
(* One lemma per step: it keeps the invariant and the answers.             *)

\* What LastWriteRead says of one step.
Reads ==
    /\ \/ View' = View
       \/ \E m \in Layer : Write(m) /\ View' = Over(View, m)
       \/ Revert /\ View' = Answer(Len(layers) - 1)
    /\ \A i \in 1..Len(layers) : i <= Len(layers') => Answer(i - 1)' = Answer(i - 1)

\* The invariant in the form the steps use.
LEMMA Facts ==
    ASSUME DatabaseInv
    PROVE  /\ disk \in [Keys -> Contents]
           /\ lru \in [Keys -> Contents]
           /\ Cardinality(Cached(lru)) <= CacheSize
           /\ layers \in Seq(Layer)
           /\ waiting \in Layer
           /\ \A k \in Keys : lru[k] # Absent => lru[k] = disk[k]
           /\ CacheSize = 0 => lru = Nowhere
           /\ \A k \in Keys : (IF lru[k] # Absent THEN lru[k] ELSE disk[k]) = disk[k]
BY DEF DatabaseInv, DatabaseTypeOK, CacheCoherent, NoCache, Cached

\* While no read waits only the cache, the disk and the layers need care.
LEMMA QuietInv ==
    ASSUME disk' \in [Keys -> Contents], lru' \in [Keys -> Contents],
           Cardinality(Cached(lru')) <= CacheSize,
           layers' \in Seq(Layer),
           waiting' = EmptyLayer,
           \A k \in Keys : lru'[k] # Absent => lru'[k] = disk'[k],
           CacheSize = 0 => lru' = Nowhere
    PROVE  DatabaseInv'
<1>1. DatabaseTypeOK'
  BY EmptyLayerType DEF DatabaseTypeOK, Cached
<1>2. CacheCoherent'
  BY DEF CacheCoherent, Cached
<1>3. Awaited'
  BY DEF Awaited, EmptyLayer
<1>4. NoCache'
  BY DEF NoCache
<1> QED
  BY <1>1, <1>2, <1>3, <1>4 DEF DatabaseInv

LEMMA Starts ==
    ASSUME DatabaseInit
    PROVE  DatabaseInv
<1>1. disk = Nowhere /\ lru = Nowhere /\ layers = << >> /\ waiting = EmptyLayer
  BY DEF DatabaseInit
<1>2. Nowhere \in [Keys -> Contents] /\ \A k \in Keys : Nowhere[k] = Absent
  BY DEF Nowhere, Contents
<1>3. Cached(lru) = {}
  BY <1>1, <1>2 DEF Cached
<1>4. Cardinality(Cached(lru)) <= CacheSize
  BY <1>3, FS_EmptySet, DBAssumption
<1>5. DatabaseTypeOK
  BY <1>1, <1>2, <1>4, EmptyLayerType DEF DatabaseTypeOK
<1> QED
  BY <1>1, <1>3, <1>5 DEF DatabaseInv, CacheCoherent, Awaited, NoCache, EmptyLayer

\* A write changes the answers of its keys, on the disk or in the innermost layer.
LEMMA WriteStep ==
    ASSUME DatabaseInv, ~Overlap, NEW m \in Layer, Write(m)
    PROVE  DatabaseInv' /\ Reads
<1>1. waiting = EmptyLayer /\ waiting' = EmptyLayer
  BY DEF Write, Quiet
<1>2. CASE layers = << >>
  <2>1. disk' = Over(disk, m) /\ lru' \in Remember(lru, m) /\ layers' = layers
    BY <1>2 DEF Write, CacheAfterBatch
  <2>2. /\ lru' \in [Keys -> Contents]
        /\ Cardinality(Cached(lru')) <= CacheSize
        /\ \A k \in Keys : lru'[k] # Absent => lru'[k] = disk'[k]
        /\ CacheSize = 0 => lru' = Nowhere
    BY <2>1, Facts, RememberCoherent
  <2>3. DatabaseInv'
    BY <1>1, <2>1, <2>2, Facts, OverType, QuietInv
  <2>4. Len(layers) = 0 /\ Len(layers') = 0
    BY <1>2, <2>1
  <2>5. View = disk
    BY <2>4, Facts, Answers, DiskAnswers DEF View
  <2>6. View' = disk'
    BY <2>1, <2>2, <2>4, Facts, OverType, Answers, DiskAnswers DEF View
  <2> QED
    BY <2>1, <2>3, <2>4, <2>5, <2>6 DEF Reads
<1>3. CASE layers # << >>
  <2>1. layers' = WithTop(Over(Top, m)) /\ disk' = disk /\ lru' = lru
    BY <1>3 DEF Write
  <2>2. PICK n \in Nat \ {0} : n = Len(layers)
    BY <1>3, Facts, LayerFacts
  <2>3. Over(Top, m) \in Layer
    BY <1>3, Facts, LayerFacts, OverType
  <2>4. /\ layers' \in Seq(Layer) /\ Len(layers') = n
        /\ layers'[n] = Over(Top, m) /\ Top = layers[n]
        /\ \A i \in 1..(n - 1) : layers'[i] = layers[i]
    BY <1>3, <2>1, <2>2, <2>3, Facts, LayerFacts DEF Top
  <2>5. DatabaseInv'
    BY <1>1, <2>1, <2>4, Facts, QuietInv
  <2>6. ASSUME NEW i \in 0..(n - 1)
        PROVE  Answer(i)' = Answer(i)
    <3>1. \A k \in Keys : AnswerIn(layers', lru', disk', i, k) = AnswerIn(layers, lru, disk, i, k)
      BY <2>1, <2>4, SameAnswer
    <3> QED
      BY <3>1, Answers
  <2>7. View' = Over(View, m)
    <3>1. ASSUME NEW k \in Keys
          PROVE  AnswerIn(layers', lru', disk', n, k) =
                    IF m[k] = Unset THEN AnswerIn(layers, lru, disk, n, k) ELSE m[k]
      <4>1. AnswerIn(layers', lru', disk', n - 1, k) = AnswerIn(layers, lru, disk, n - 1, k)
        BY <2>1, <2>2, <2>4, SameAnswer
      <4>2. layers'[n][k] = IF m[k] = Unset THEN layers[n][k] ELSE m[k]
        BY <2>4 DEF Over
      <4>3. AnswerIn(layers', lru', disk', n, k) =
              IF layers'[n][k] # Unset THEN layers'[n][k]
              ELSE AnswerIn(layers', lru', disk', n - 1, k)
        BY TopAnswers
      <4>4. AnswerIn(layers, lru, disk, n, k) =
              IF layers[n][k] # Unset THEN layers[n][k]
              ELSE AnswerIn(layers, lru, disk, n - 1, k)
        BY TopAnswers
      <4> QED
        BY <4>1, <4>2, <4>3, <4>4
    <3>2. View = [k \in Keys |-> AnswerIn(layers, lru, disk, n, k)]
      BY <2>2, Answers DEF View
    <3>3. View' = [k \in Keys |-> AnswerIn(layers', lru', disk', n, k)]
      BY <2>4, Answers DEF View
    <3> QED
      BY <3>1, <3>2, <3>3 DEF Over
  <2>8. ASSUME NEW i \in 1..Len(layers)
        PROVE  Answer(i - 1)' = Answer(i - 1)
    <3>1. i - 1 \in 0..(n - 1)
      BY <2>2
    <3> QED
      BY <2>6, <3>1
  <2>9. \E l \in Layer : Write(l) /\ View' = Over(View, l)
    BY <2>7
  <2> QED
    BY <2>5, <2>8, <2>9 DEF Reads
<1> QED
  BY <1>2, <1>3

\* A read that misses only waits.
LEMMA MissStep ==
    ASSUME DatabaseInv, NEW k \in Keys, GetMiss(k)
    PROVE  DatabaseInv' /\ Reads
<1>1. /\ Held(k) = {} /\ disk' = disk /\ lru' = lru /\ layers' = layers
      /\ waiting' = [waiting EXCEPT ![k] = disk[k]]
  BY DEF GetMiss
<1>2. DatabaseTypeOK' /\ CacheCoherent' /\ NoCache'
  BY <1>1, Facts DEF DatabaseInv, DatabaseTypeOK, CacheCoherent, NoCache, Cached, Layer
<1>3. ASSUME NEW j \in Keys, waiting'[j] # Unset
      PROVE  waiting'[j] = disk'[j] /\ Held(j)' = {}
  <2>1. Held(j)' = Held(j)
    BY <1>1 DEF Held
  <2>2. CASE j = k
    BY <1>1, <2>1, <2>2, Facts DEF Layer
  <2>3. CASE j # k
    BY <1>1, <1>3, <2>1, <2>3, Facts DEF DatabaseInv, Awaited, Layer
  <2> QED
    BY <2>2, <2>3
<1>4. Awaited'
  BY <1>3 DEF Awaited
<1>5. \A i : Answer(i)' = Answer(i)
  BY <1>1, Answers
<1>6. View' = View
  BY <1>1 DEF View, Answer
<1> QED
  BY <1>2, <1>4, <1>5, <1>6 DEF DatabaseInv, Reads

\* The answer goes over a key that no layer holds and is what the disk holds.
LEMMA AnswerStep ==
    ASSUME DatabaseInv, NEW k \in Keys, GetAnswer(k)
    PROVE  DatabaseInv' /\ Reads
<1> DEFINE v == waiting[k]
           m == One(k, v)
<1>1. /\ v # Unset /\ disk' = disk /\ lru' \in Remember(lru, m)
      /\ waiting' = [waiting EXCEPT ![k] = Unset]
      /\ layers' = IF layers = << >> THEN layers ELSE WithTop(Over(Top, m))
  BY DEF GetAnswer
<1>2. v = disk[k] /\ Held(k) = {} /\ v \in Contents
  BY <1>1, Facts DEF DatabaseInv, Awaited
<1>3. m \in Layer /\ m[k] = v /\ \A j \in Keys \ {k} : m[j] = Unset
  BY <1>2, OneType
<1>4. Over(disk, m) = disk
  <2>1. \A j \in Keys : Over(disk, m)[j] = disk[j]
    BY <1>2, <1>3 DEF Over
  <2>2. Over(disk, m) \in [Keys -> Contents] /\ disk \in [Keys -> Contents]
    BY <1>3, Facts, OverType
  <2> QED
    BY <2>1, <2>2
<1> HIDE DEF m
<1>5. /\ lru' \in [Keys -> Contents]
      /\ Cardinality(Cached(lru')) <= CacheSize
      /\ \A j \in Keys : lru'[j] # Absent => lru'[j] = disk[j]
      /\ CacheSize = 0 => lru' = Nowhere
  BY <1>1, <1>3, <1>4, Facts, RememberCoherent
<1>6. \A j \in Keys : (IF lru'[j] # Absent THEN lru'[j] ELSE disk'[j]) = disk[j]
  BY <1>1, <1>5
<1>7. waiting' \in Layer /\ \A j \in Keys : waiting'[j] # Unset => j # k /\ waiting[j] = waiting'[j]
  BY <1>1, Facts DEF Layer
<1>8. PICK n \in Nat : n = Len(layers)
  BY Facts
<1>9. /\ layers' \in Seq(Layer) /\ Len(layers') = n
      /\ \A i \in 1..(n - 1) : layers'[i] = layers[i]
      /\ n # 0 => layers'[n] = Over(layers[n], m)
  <2>1. CASE layers = << >>
    <3>1. n = 0 /\ layers' = layers
      BY <1>1, <1>8, <2>1
    <3> QED
      BY <1>8, <3>1, Facts
  <2>2. CASE layers # << >>
    <3>1. layers' = WithTop(Over(Top, m)) /\ Top \in Layer /\ Top = layers[n]
      BY <1>1, <1>8, <2>2, Facts, LayerFacts DEF Top
    <3>2. Over(Top, m) \in Layer
      BY <1>3, <3>1, OverType
    <3> QED
      BY <1>8, <2>2, <3>1, <3>2, Facts, LayerFacts
  <2> QED
    BY <2>1, <2>2
<1>10. \A i \in 1..n, j \in Keys : j # k => layers'[i][j] = layers[i][j]
  <2> TAKE i \in 1..n, j \in Keys
  <2>1. CASE i = n
    BY <1>3, <1>9, <2>1 DEF Over
  <2>2. CASE i # n
    BY <1>8, <1>9, <2>2
  <2> QED
    BY <2>1, <2>2
<1>11. DatabaseInv'
  <2>1. DatabaseTypeOK' /\ CacheCoherent' /\ NoCache'
    BY <1>1, <1>5, <1>7, <1>9, Facts DEF DatabaseTypeOK, CacheCoherent, NoCache, Cached
  <2>2. ASSUME NEW j \in Keys, waiting'[j] # Unset
        PROVE  waiting'[j] = disk'[j] /\ Held(j)' = {}
    <3>1. j # k /\ waiting[j] = waiting'[j]
      BY <1>7, <2>2
    <3>2. waiting[j] = disk[j] /\ Held(j) = {}
      BY <2>2, <3>1 DEF DatabaseInv, Awaited
    <3>3. Held(j)' = Held(j)
      BY <1>8, <1>9, <1>10, <3>1 DEF Held
    <3> QED
      BY <1>1, <3>1, <3>2, <3>3
  <2>3. Awaited'
    BY <2>2 DEF Awaited
  <2> QED
    BY <2>1, <2>3 DEF DatabaseInv
<1>12. ASSUME NEW i \in 0..n, NEW j \in Keys, i # n \/ j # k
       PROVE  AnswerIn(layers', lru', disk', i, j) = AnswerIn(layers, lru, disk, i, j)
  <2>1. \A h \in 1..i : layers'[h][j] = layers[h][j]
    BY <1>8, <1>9, <1>10, <1>12
  <2>2. (IF lru'[j] # Absent THEN lru'[j] ELSE disk'[j]) =
            (IF lru[j] # Absent THEN lru[j] ELSE disk[j])
    BY <1>6, Facts
  <2>3. i \in Nat
    OBVIOUS
  <2> QED
    BY <2>1, <2>2, <2>3, SameAnswer
<1>13. AnswerIn(layers', lru', disk', n, k) = AnswerIn(layers, lru, disk, n, k)
  <2>1. HeldIn(layers, n, k) = {}
    BY <1>2, <1>8 DEF Held, HeldIn
  <2>2. AnswerIn(layers, lru, disk, n, k) = disk[k]
    BY <2>1, Facts DEF AnswerIn, AnswerOf
  <2>3. CASE n = 0
    BY <1>1, <1>5, <2>2, <2>3, DiskAnswers
  <2>4. CASE n # 0
    <3>1. layers'[n][k] = v
      BY <1>1, <1>3, <1>9, <2>4 DEF Over
    <3>2. AnswerIn(layers', lru', disk', n, k) = layers'[n][k]
      BY <1>1, <2>4, <3>1, TopAnswers
    <3> QED
      BY <1>2, <2>2, <3>1, <3>2
  <2> QED
    BY <2>3, <2>4
<1>14. \A i \in 0..n, j \in Keys :
           AnswerIn(layers', lru', disk', i, j) = AnswerIn(layers, lru, disk, i, j)
  BY <1>12, <1>13
<1>15. \A i \in 0..n : Answer(i)' = Answer(i)
  BY <1>14, Answers
<1>16. View' = View
  <2>1. View = [j \in Keys |-> AnswerIn(layers, lru, disk, n, j)]
    BY <1>8, Answers DEF View
  <2>2. View' = [j \in Keys |-> AnswerIn(layers', lru', disk', n, j)]
    BY <1>9, Answers DEF View
  <2>3. n \in 0..n
    OBVIOUS
  <2> QED
    BY <1>14, <2>1, <2>2, <2>3
<1> QED
  BY <1>8, <1>11, <1>15, <1>16 DEF Reads

\* Layers, cache and disk that stay go on answering the same.
LEMMA KeptAnswers ==
    ASSUME NEW n \in Nat, disk' = disk, lru' = lru,
           \A i \in 1..n : layers'[i] = layers[i]
    PROVE  \A i \in 0..n, k \in Keys :
               AnswerIn(layers', lru', disk', i, k) = AnswerIn(layers, lru, disk, i, k)
<1> TAKE i \in 0..n, k \in Keys
<1>1. i \in Nat /\ \A j \in 1..i : layers'[j][k] = layers[j][k]
  OBVIOUS
<1> QED
  BY <1>1, SameAnswer

\* A new layer holds nothing.
LEMMA CheckpointStep ==
    ASSUME DatabaseInv, ~Overlap, Checkpoint
    PROVE  DatabaseInv' /\ Reads
<1>1. /\ waiting' = EmptyLayer /\ disk' = disk /\ lru' = lru
      /\ layers' = Append(layers, EmptyLayer)
  BY DEF Checkpoint, Quiet
<1>2. PICK n \in Nat : n = Len(layers)
  BY Facts
<1>3. /\ layers' \in Seq(Layer) /\ Len(layers') = n + 1
      /\ layers'[n + 1] = EmptyLayer
      /\ \A i \in 1..n : layers'[i] = layers[i]
  BY <1>1, <1>2, Facts, EmptyLayerType
<1>4. DatabaseInv'
  BY <1>1, <1>3, Facts, QuietInv
<1>5. \A i \in 0..n, k \in Keys :
          AnswerIn(layers', lru', disk', i, k) = AnswerIn(layers, lru, disk, i, k)
  BY <1>1, <1>3, KeptAnswers
<1>6. \A i \in 0..n : Answer(i)' = Answer(i)
  BY <1>5, Answers
<1>7. View' = View
  <2>1. ASSUME NEW k \in Keys
        PROVE  AnswerIn(layers', lru', disk', n + 1, k) = AnswerIn(layers, lru, disk, n, k)
    <3>1. layers'[n + 1][k] = Unset
      BY <1>3 DEF EmptyLayer
    <3>2. n + 1 \in Nat \ {0} /\ (n + 1) - 1 = n /\ n \in 0..n
      OBVIOUS
    <3>3. AnswerIn(layers', lru', disk', n + 1, k) = AnswerIn(layers', lru', disk', n, k)
      BY <3>1, <3>2, TopAnswers
    <3> QED
      BY <1>5, <3>2, <3>3
  <2>2. View = [k \in Keys |-> AnswerIn(layers, lru, disk, n, k)]
    BY <1>2, Answers DEF View
  <2>3. View' = [k \in Keys |-> AnswerIn(layers', lru', disk', n + 1, k)]
    BY <1>3, Answers DEF View
  <2> QED
    BY <2>1, <2>2, <2>3
<1> QED
  BY <1>2, <1>4, <1>6, <1>7 DEF Reads

\* The outermost layer answers what the disk answers once it is written there.
LEMMA CommitToDiskStep ==
    ASSUME DatabaseInv, ~Overlap, CommitToDisk
    PROVE  DatabaseInv' /\ Reads
<1>1. /\ waiting' = EmptyLayer /\ disk' = Over(disk, Top) /\ lru' \in Remember(lru, Top)
      /\ layers' = << >> /\ Len(layers) = 1
  BY DEF CommitToDisk, Quiet, CacheAfterBatch
<1>2. layers # << >> /\ Top \in Layer /\ Top = layers[1]
  <2>1. layers # << >>
    BY <1>1
  <2> QED
    BY <1>1, <2>1, Facts, LayerFacts DEF Top
<1>3. /\ lru' \in [Keys -> Contents]
      /\ Cardinality(Cached(lru')) <= CacheSize
      /\ \A k \in Keys : lru'[k] # Absent => lru'[k] = disk'[k]
      /\ CacheSize = 0 => lru' = Nowhere
  BY <1>1, <1>2, Facts, RememberCoherent
<1>4. disk' \in [Keys -> Contents] /\ layers' \in Seq(Layer) /\ Len(layers') = 0
  BY <1>1, <1>2, Facts, OverType
<1>5. DatabaseInv'
  BY <1>1, <1>3, <1>4, QuietInv
<1>6. View' = disk'
  BY <1>3, <1>4, Answers, DiskAnswers DEF View
<1>7. View = Over(disk, Top)
  <2>1. ASSUME NEW k \in Keys
        PROVE  AnswerIn(layers, lru, disk, 1, k) =
                  IF layers[1][k] = Unset THEN disk[k] ELSE layers[1][k]
    <3>1. AnswerIn(layers, lru, disk, 0, k) = disk[k]
      BY Facts, DiskAnswers
    <3>2. 1 \in Nat \ {0} /\ 1 - 1 = 0
      OBVIOUS
    <3> QED
      BY <3>1, <3>2, TopAnswers
  <2>2. View = [k \in Keys |-> AnswerIn(layers, lru, disk, 1, k)]
    BY <1>1, Answers DEF View
  <2> QED
    BY <1>2, <2>1, <2>2 DEF Over
<1> QED
  BY <1>1, <1>4, <1>5, <1>6, <1>7 DEF Reads

\* A layer and its parent answer together what the merged layer answers.
LEMMA CommitToParentStep ==
    ASSUME DatabaseInv, ~Overlap, CommitToParent
    PROVE  DatabaseInv' /\ Reads
<1>1. /\ waiting' = EmptyLayer /\ disk' = disk /\ lru' = lru /\ Len(layers) > 1
      /\ layers' = [Below EXCEPT ![Len(layers) - 1] = Merge(@, Top)]
  BY DEF CommitToParent, Quiet
<1>2. PICK n \in Nat \ {0} : Len(layers) = n + 1
  BY <1>1, Facts
<1>3. layers # << >>
  BY <1>1, Facts, EmptySeq
<1>4. /\ Below \in Seq(Layer) /\ Len(Below) = n /\ Top \in Layer /\ Top = layers[n + 1]
      /\ \A i \in 1..n : Below[i] = layers[i]
  BY <1>2, <1>3, Facts, LayerFacts DEF Top
<1>5. Over(Below[n], Top) \in Layer
  BY <1>2, <1>4, OverType
<1>6. layers' = [Below EXCEPT ![n] = Over(Below[n], Top)]
  BY <1>1, <1>2 DEF Merge
<1>7. /\ layers' \in Seq(Layer) /\ Len(layers') = n
      /\ layers'[n] = Over(layers[n], layers[n + 1])
      /\ \A i \in 1..(n - 1) : layers'[i] = layers[i]
  BY <1>2, <1>4, <1>5, <1>6
<1>8. DatabaseInv'
  BY <1>1, <1>7, Facts, QuietInv
<1>9. \A i \in 0..(n - 1), k \in Keys :
          AnswerIn(layers', lru', disk', i, k) = AnswerIn(layers, lru, disk, i, k)
  <2>1. n - 1 \in Nat
    OBVIOUS
  <2> QED
    BY <1>1, <1>7, <2>1, KeptAnswers
<1>10. \A i \in 0..(n - 1) : Answer(i)' = Answer(i)
  BY <1>9, Answers
<1>11. View' = View
  <2>1. ASSUME NEW k \in Keys
        PROVE  AnswerIn(layers', lru', disk', n, k) = AnswerIn(layers, lru, disk, n + 1, k)
    <3>1. n + 1 \in Nat \ {0} /\ (n + 1) - 1 = n /\ n - 1 \in 0..(n - 1)
      OBVIOUS
    <3>2. AnswerIn(layers', lru', disk', n, k) =
            IF layers'[n][k] # Unset THEN layers'[n][k]
            ELSE AnswerIn(layers', lru', disk', n - 1, k)
      BY TopAnswers
    <3>3. AnswerIn(layers, lru, disk, n + 1, k) =
            IF layers[n + 1][k] # Unset THEN layers[n + 1][k]
            ELSE AnswerIn(layers, lru, disk, n, k)
      BY <3>1, TopAnswers
    <3>4. AnswerIn(layers, lru, disk, n, k) =
            IF layers[n][k] # Unset THEN layers[n][k]
            ELSE AnswerIn(layers, lru, disk, n - 1, k)
      BY TopAnswers
    <3>5. layers'[n][k] = IF layers[n + 1][k] = Unset THEN layers[n][k] ELSE layers[n + 1][k]
      BY <1>7 DEF Over
    <3>6. AnswerIn(layers', lru', disk', n - 1, k) = AnswerIn(layers, lru, disk, n - 1, k)
      BY <1>9, <3>1
    <3> QED
      BY <3>2, <3>3, <3>4, <3>5, <3>6
  <2>2. View = [k \in Keys |-> AnswerIn(layers, lru, disk, n + 1, k)]
    BY <1>2, Answers DEF View
  <2>3. View' = [k \in Keys |-> AnswerIn(layers', lru', disk', n, k)]
    BY <1>7, Answers DEF View
  <2> QED
    BY <2>1, <2>2, <2>3
<1> QED
  BY <1>2, <1>7, <1>8, <1>10, <1>11 DEF Reads

\* Without its innermost layer the database answers what that layer found.
LEMMA RevertStep ==
    ASSUME DatabaseInv, ~Overlap, Revert
    PROVE  DatabaseInv' /\ Reads
<1>1. /\ waiting' = EmptyLayer /\ disk' = disk /\ lru' = lru
      /\ layers # << >> /\ layers' = Below
  BY DEF Revert, Quiet
<1>2. PICK n \in Nat : Len(layers) = n + 1
  BY <1>1, Facts, EmptySeq
<1>3. /\ layers' \in Seq(Layer) /\ Len(layers') = n
      /\ \A i \in 1..n : layers'[i] = layers[i]
  BY <1>1, <1>2, Facts, LayerFacts
<1>4. DatabaseInv'
  BY <1>1, <1>3, Facts, QuietInv
<1>5. \A i \in 0..n, k \in Keys :
          AnswerIn(layers', lru', disk', i, k) = AnswerIn(layers, lru, disk, i, k)
  BY <1>1, <1>3, KeptAnswers
<1>6. \A i \in 0..n : Answer(i)' = Answer(i)
  BY <1>5, Answers
<1>7. View' = Answer(Len(layers) - 1)
  <2>1. View' = [k \in Keys |-> AnswerIn(layers', lru', disk', n, k)]
    BY <1>3, Answers DEF View
  <2>2. Answer(Len(layers) - 1) = [k \in Keys |-> AnswerIn(layers, lru, disk, n, k)]
    BY <1>2, Answers
  <2>3. n \in 0..n
    OBVIOUS
  <2> QED
    BY <1>5, <2>1, <2>2, <2>3
<1> QED
  BY <1>2, <1>3, <1>4, <1>6, <1>7 DEF Reads

\* A step that changes nothing.
LEMMA StutterStep ==
    ASSUME DatabaseInv, UNCHANGED databaseVars
    PROVE  DatabaseInv' /\ Reads
<1>1. disk' = disk /\ lru' = lru /\ layers' = layers /\ waiting' = waiting
  BY DEF databaseVars
<1>2. DatabaseInv'
  BY <1>1 DEF DatabaseInv, DatabaseTypeOK, CacheCoherent, Awaited, NoCache, Cached, Held
<1>3. \A i : Answer(i)' = Answer(i)
  BY <1>1, Answers
<1>4. View' = View
  BY <1>1 DEF View, Answer
<1> QED
  BY <1>2, <1>3, <1>4 DEF Reads

LEMMA Step ==
    ASSUME DatabaseInv, ~Overlap, [DatabaseNext]_databaseVars
    PROVE  DatabaseInv' /\ Reads
<1>1. ASSUME NEW k \in Keys, Del(k)
      PROVE  DatabaseInv' /\ Reads
  BY <1>1, OneType, WriteStep DEF Del, Contents
<1>2. ASSUME NEW k \in Keys, NEW v \in Values, Put(k, v)
      PROVE  DatabaseInv' /\ Reads
  BY <1>2, OneType, WriteStep DEF Put, Contents
<1>3. ASSUME NEW m \in Layer, Batch(m)
      PROVE  DatabaseInv' /\ Reads
  BY <1>3, WriteStep DEF Batch
<1>4. CASE CommitFails
  BY <1>4, StutterStep DEF CommitFails
<1> QED
  BY <1>1, <1>2, <1>3, <1>4, MissStep, AnswerStep, CheckpointStep, CommitToDiskStep,
     CommitToParentStep, RevertStep, StutterStep DEF DatabaseNext

\* The read cache never disagrees with the backing database, through failed
\* batches, reverts and evictions, for callers that await their reads.
THEOREM DatabaseCoherent ==
    ASSUME ~Overlap
    PROVE  DatabaseSpec => []DatabaseSound
<1>1. DatabaseInit => DatabaseInv
  BY Starts
<1>2. DatabaseInv /\ [DatabaseNext]_databaseVars => DatabaseInv'
  BY Step
<1>3. DatabaseInv => DatabaseSound
  BY DEF DatabaseInv, DatabaseSound
<1> QED
  BY <1>1, <1>2, <1>3, PTL DEF DatabaseSpec

\* Every get answers the last value written and a revert brings back the answers
\* of its checkpoint, for callers that await their reads.
THEOREM DatabaseReads ==
    ASSUME ~Overlap
    PROVE  DatabaseSpec => LastWriteRead
<1>1. DatabaseInit => DatabaseInv
  BY Starts
<1>2. DatabaseInv /\ [DatabaseNext]_databaseVars => DatabaseInv'
  BY Step
<1>3. DatabaseInv /\ [DatabaseNext]_databaseVars => [Reads]_databaseVars
  BY Step
<1>4. DatabaseSpec => [][Reads]_databaseVars
  BY <1>1, <1>2, <1>3, PTL DEF DatabaseSpec
<1>5. LastWriteRead <=> [][Reads]_databaseVars
  BY DEF LastWriteRead, Reads
<1> QED
  BY <1>4, <1>5
=============================================================================
