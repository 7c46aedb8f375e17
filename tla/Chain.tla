------------------------------- MODULE Chain -------------------------------
(***************************************************************************)
(* The Blockchain of packages/blockchain: one database holding headers,    *)
(* bodies, total difficulties and the canonical number index, the three    *)
(* kinds of heads (iterator heads, head header, head block) in memory and  *)
(* as last saved, and the iterator, which calls back into its user with    *)
(* the lock held or released.  Blocks come from a fixed tree, so a block   *)
(* name stands for its hash.  A header, its hash-to-number entry and its   *)
(* total difficulty are written and deleted together: the domain of td.    *)
(***************************************************************************)
EXTENDS Integers, FiniteSets, Sequences, SequencesExt, FiniteSetsExt, Functions

CONSTANTS
    Blocks,         \* the block hashes of the tree
    Genesis,        \* genesisBlock, never put again
    Parent,         \* parentHash of every block; Genesis is its own
    Number,         \* header.number
    Difficulty,     \* header.difficulty under proof of work
    Uncles,         \* uncleHeaders of every block
    Empty,          \* blocks readable without a stored body
    Names,          \* the iterators
    Modes,          \* fork choices of this instance
    IteratedModes,  \* those in which iterators run
    None

ASSUME ChainAssumption ==
    /\ Genesis \in Blocks /\ None \notin Blocks \cup Names /\ Empty \subseteq Blocks
    /\ Parent \in [Blocks -> Blocks] /\ Parent[Genesis] = Genesis
    /\ Number \in [Blocks -> Nat] /\ Number[Genesis] = 0
    /\ \A b \in Blocks \ {Genesis} : Number[b] = Number[Parent[b]] + 1
    /\ Uncles \in [Blocks -> SUBSET Blocks]
    /\ Uncles[Genesis] = {} /\ \A b \in Empty : Uncles[b] = {}
    /\ Difficulty \in [Blocks -> Nat]
    /\ Modes \subseteq {"number", "td", "stake"}

VARIABLES
    mode,       \* number order without consensus metadata, difficulty, or stake
    td,         \* stored headers and their total difficulty
    bodies,     \* stored bodies
    canon,      \* numberToHash
    mem,        \* _heads, _headHeaderHash, _headBlockHash
    saved,      \* the same three as last written to the database
    lock,       \* None or the iterator that holds it
    it,         \* the run of every iterator
    unsaved,    \* history: delBlock moved heads that no batch has saved yet
    hurt        \* history: such heads were lost, or delBlock ran in a callback
                \* that holds the lock: the two uses delBlock does not survive

vars == <<mode, td, bodies, canon, mem, saved, lock, it, unsaved, hurt>>

\* A block with all its ancestors, and the one of them with a given number.
Ancestors ==
    LET up[b \in Blocks] == IF b = Genesis THEN {b} ELSE {b} \cup up[Parent[b]]
    IN  [b \in Blocks |-> up[b]]

Path == [b \in Blocks |-> [n \in 0..Number[b] |-> CHOOSE a \in Ancestors[b] : Number[a] = n]]

AncestorAt(b, n) == Path[b][n]

Heads == [heads : [Names -> Blocks \cup {None}], header : Blocks, block : Blocks]

\* The history of a run: `from` is the iterator's head when it fetched its block,
\* `raced` that the head was moved under the first callback, or set by its user
\* under any.
Idle == [pc |-> "idle", release |-> FALSE, next |-> 0, block |-> None, last |-> None,
         from |-> None, raced |-> FALSE]

(***************************************************************************)
(* Reading.                                                                *)
(***************************************************************************)

Stored(b) == b \in DOMAIN td

\* dbManager.getBlock on a known hash: a body that was never stored is taken
\* for an empty one if the header says so, and is an error otherwise.
Readable(b) == b \in bodies \/ b \in Empty

\* getBlock of a number.
CanonicalReadable(n) == n \in DOMAIN canon /\ Readable(canon[n])

IsCanonical(b) == Number[b] \in DOMAIN canon /\ canon[Number[b]] = b

\* getTotalDifficulty of the parent; an absent entry decodes to zero.
GetParentTD(b) == IF Stored(Parent[b]) THEN td[Parent[b]] ELSE 0

\* getBlocks from a number: every (skip + 1)-th canonical block until maxBlocks
\* are found or a number is missing.
GetBlocks(first, max, skip, reverse) ==
    LET Next[i \in 0..(Cardinality(Blocks) + 1)] ==
            LET n == IF reverse THEN first - i ELSE first + i
                rest == Next[i + 1]
            IN  IF n \notin DOMAIN canon THEN <<>>
                ELSE IF i # 0 /\ skip # 0 /\ i % (skip + 1) # 0 THEN rest
                ELSE <<canon[n]>> \o rest
        all == Next[0]
    IN  SubSeq(all, 1, IF max < Len(all) THEN max ELSE Len(all))


\* selectNeededHashes: binary search for the first hash that is not stored.
SelectNeededHashes(hashes) ==
    LET Search[lo \in 0..Len(hashes), hi \in -1..(Len(hashes) - 1), mid \in -1..Len(hashes)] ==
            IF hi < lo THEN lo
            ELSE IF Stored(hashes[mid + 1])
                 THEN Search[mid + 1, hi, (mid + 1 + hi) \div 2]
                 ELSE Search[lo, mid - 1, (lo + mid - 1) \div 2]
    IN  SubSeq(hashes, Search[0, Len(hashes) - 1, 0] + 1, Len(hashes))

(***************************************************************************)
(* Validation of a full block.                                             *)
(***************************************************************************)

\* validateHeader: the parent is known; numbers follow from the tree.
ValidHeader(b) == Stored(Parent[b])

\* ... and as an uncle of a block at height, neither too old nor too young.
ValidUncleHeader(u, height) ==
    /\ ValidHeader(u)
    /\ height - Number[Parent[u]] \in 2..7

\* _validateUncleHeaders: the uncles hang off the ancestors back to the parent
\* of the lowest one, are none of them and were not counted before.
ValidUncles(b) ==
    Uncles[b] # {} =>
        LET low    == Min({Number[u] : u \in Uncles[b]})
            recent == {a \in Ancestors[b] \ {b} : Number[a] >= low - 1}
        IN  /\ \A u \in Uncles[b] : ValidUncleHeader(u, Number[b])
            /\ \A a \in recent : Stored(a) /\ Readable(a)
            /\ \A u \in Uncles[b] : /\ Parent[u] \in recent
                                    /\ u \notin UNION {Uncles[a] : a \in recent}
                                    /\ u \notin recent

ValidateBlock(b) == ValidHeader(b) /\ ValidUncles(b)

(***************************************************************************)
(* Moving the canonical chain.  Every operator takes the heads it moves.   *)
(***************************************************************************)

\* The numbers whose index entries _deleteCanonicalChainReferences removes.
Above(n) == {k \in DOMAIN canon : k >= n /\ \A j \in n..k : j \in DOMAIN canon}

\* The index without them.
IndexBelow(n) == Restrict(canon, (DOMAIN canon) \ Above(n))

\* Every head that points at one of the stale hashes moves to hash.
Moved(m, stale, hash) ==
    [heads  |-> [i \in Names |-> IF m.heads[i] \in stale THEN hash ELSE m.heads[i]],
     header |-> IF m.header \in stale THEN hash ELSE m.header,
     block  |-> IF m.block \in stale THEN hash ELSE m.block]

\* _deleteCanonicalChainReferences: the heads above n move to hash.
DeleteReferences(m, n, hash) == Moved(m, {canon[k] : k \in Above(n)}, hash)

\* The canonical hash findCommonAncestor compares with at number k.
HeadAt(k) == IF k = Number[mem.header] THEN mem.header ELSE canon[k]

\* findCommonAncestor: walk the new block down to the head's number and then
\* both sides until they meet.  None when a header on the way is missing.
CommonAncestor(b) ==
    LET top    == Min({Number[b], Number[mem.header]})
        meets  == {k \in 0..top : /\ \A j \in k..top : j = Number[mem.header] \/ j \in DOMAIN canon
                                  /\ AncestorAt(b, k) = HeadAt(k)}
    IN  IF \/ ~Stored(mem.header) \/ meets = {}
           \/ \E a \in Ancestors[b] \ {b} : Number[a] >= Max(meets) /\ ~Stored(a)
        THEN None
        ELSE AncestorAt(b, Max(meets))

\* Faulty variant: only the parent is compared with the index.
RebuildFromParent(b) == Number[b] - 1

\* _rebuildCanonical: index the new block and its ancestors down to the first
\* one the index already agrees with; heads on the replaced entries move there.
RebuildFrom(b) == Max({k \in 0..Number[b] : k = 0 \/ (k \in DOMAIN canon /\ canon[k] = AncestorAt(b, k))})

Rebuilt(m, b) ==
    Moved(m, {canon[k] : k \in {j \in DOMAIN canon : RebuildFrom(b) < j /\ j <= Number[b]}},
          AncestorAt(b, RebuildFrom(b)))

RebuiltIndex(b) ==
    [k \in ((DOMAIN canon) \ Above(Number[b] + 1)) \cup (RebuildFrom(b) + 1)..Number[b] |->
        IF k \in (RebuildFrom(b) + 1)..Number[b] THEN AncestorAt(b, k) ELSE canon[k]]

\* The fork choice: a higher number without consensus metadata, a higher total
\* difficulty under proof of work, always under proof of stake.
ExtendsCanonicalHead(b, total) ==
    CASE mode = "number" -> Number[b] > Number[mem.header]
      [] mode = "td"     -> total > td[mem.header]
      [] mode = "stake"  -> TRUE

\* A block that is not the new head may still be the best full block.
AdvancesHeadBlock(b, total) ==
    IF mode = "number" THEN IsCanonical(b) /\ Number[b] > Number[mem.block]
                       ELSE total > td[mem.block]

\* DBSetTD and DBSetBlockOrHeader: a header comes with no body.
WithHeader(b, total) == [a \in (DOMAIN td) \cup {b} |-> IF a = b THEN total ELSE td[a]]

WithBody(b, full) == IF full THEN bodies \cup {b} ELSE bodies

\* The heads a put ends with: set, then moved off the deleted and the replaced
\* entries; or only the head block of a put that does not extend the chain.
NewHeads(b, full, total) ==
    IF ExtendsCanonicalHead(b, total)
    THEN LET set == [mem EXCEPT !.header = b, !.block = IF full THEN b ELSE @]
         IN  Rebuilt(DeleteReferences(set, Number[b] + 1, b), b)
    ELSE [mem EXCEPT !.block = IF full /\ AdvancesHeadBlock(b, total) THEN b ELSE @]

-----------------------------------------------------------------------------

Init ==
    /\ mode \in Modes
    /\ td = [b \in {Genesis} |-> Difficulty[Genesis]]
    /\ bodies = {Genesis}
    /\ canon = [n \in {0} |-> Genesis]
    /\ mem = [heads |-> [i \in Names |-> None], header |-> Genesis, block |-> Genesis]
    /\ saved = mem
    /\ lock = None
    /\ it = [i \in Names |-> Idle]
    /\ unsaved = FALSE
    /\ hurt = FALSE

\* History: a callback that is the first of its run loses the head under it.
RaceNoted(new) ==
    it' = [i \in Names |-> [it[i] EXCEPT !.raced =
              @ \/ (it[i].pc = "callback" /\ it[i].last = None /\ new.heads[i] # mem.heads[i])]]

\* _saveHeadOps as part of a batch.
Save(m) == saved' = m /\ unsaved' = FALSE

\* _putBlockOrHeader of a full block or a header: refused without effect when
\* invalid or when an ancestor is missing, restored when the batch fails.
PutBlockOrHeader(b, full) ==
    LET total == (IF mode = "number" THEN 0 ELSE Difficulty[b]) + GetParentTD(b)
        new   == NewHeads(b, full, total)
    IN  /\ lock = None
        /\ b # Genesis
        /\ full => ValidateBlock(b)
        /\ Stored(mem.header) /\ Stored(mem.block)
        /\ ExtendsCanonicalHead(b, total) => CommonAncestor(b) # None
        /\ td' = WithHeader(b, total)
        /\ bodies' = WithBody(b, full)
        /\ canon' = IF ExtendsCanonicalHead(b, total) THEN RebuiltIndex(b) ELSE canon
        /\ mem' = new
        /\ Save(new)
        /\ RaceNoted(new)
        /\ UNCHANGED <<mode, lock, hurt>>

PutBlock(b) == PutBlockOrHeader(b, TRUE)

PutHeader(b) == PutBlockOrHeader(b, FALSE)

\* resetCanonicalHead: everything above the number leaves the index.
ResetCanonicalHead(n) ==
    /\ lock = None
    /\ n \in DOMAIN canon
    /\ canon' = IndexBelow(n + 1)
    /\ mem' = DeleteReferences(mem, n + 1, canon[n])
    /\ Save(mem')
    /\ RaceNoted(mem')
    /\ UNCHANGED <<mode, td, bodies, lock, hurt>>

\* delBlock takes no lock and saves no heads.  A canonical block goes with its
\* canonical descendants and the heads fall back to its parent; any other
\* block goes alone.
DelBlock(b) ==
    LET gone == IF IsCanonical(b) THEN {canon[k] : k \in Above(Number[b])} ELSE {b}
    IN  /\ b # Genesis /\ Stored(b)
        /\ lock # None => it[lock].pc = "callback"
        /\ hurt' = (hurt \/ (lock # None /\ it[lock].block \in gone))
        /\ td' = Restrict(td, (DOMAIN td) \ gone)
        /\ bodies' = bodies \ gone
        /\ IF IsCanonical(b)
           THEN /\ canon' = IndexBelow(Number[b])
                /\ mem' = DeleteReferences(mem, Number[b], Parent[b])
                /\ unsaved' = TRUE
           ELSE UNCHANGED <<canon, mem, unsaved>>
        /\ RaceNoted(mem')
        /\ UNCHANGED <<mode, saved, lock>>

\* setIteratorHead, with the canonical block its documentation asks for.
SetIteratorHead(i, b) ==
    /\ lock = None
    /\ IsCanonical(b)
    /\ mem' = [mem EXCEPT !.heads[i] = b]
    /\ Save(mem')
    /\ it' = [it EXCEPT ![i].raced = (it[i].pc # "idle")]
    /\ UNCHANGED <<mode, td, bodies, canon, lock, hurt>>

\* createBlockchain over the same database.
Restart ==
    /\ mem' = saved
    /\ lock' = None
    /\ it' = [i \in Names |-> Idle]
    /\ unsaved' = FALSE
    /\ hurt' = (hurt \/ unsaved)
    /\ UNCHANGED <<mode, td, bodies, canon, saved>>

-----------------------------------------------------------------------------
(***************************************************************************)
(* The iterator.                                                           *)
(***************************************************************************)

HeadOf(i) == IF mem.heads[i] = None THEN Genesis ELSE mem.heads[i]

\* Leaving the loop, by its end, a missing block or an error: save the heads.
Finish(i, m) ==
    /\ it' = [it EXCEPT ![i] = Idle]
    /\ lock' = None
    /\ mem' = m
    /\ Save(m)

\* The lock is taken and the position read from the iterator's head.
IteratorStart(i, release) ==
    /\ lock = None
    /\ it[i].pc = "idle"
    /\ mode \in IteratedModes
    /\ Stored(HeadOf(i))
    /\ lock' = i
    /\ it' = [it EXCEPT ![i] = [Idle EXCEPT !.pc = "fetch", !.release = release,
                                            !.next = Number[HeadOf(i)] + 1]]
    /\ UNCHANGED <<mode, td, bodies, canon, mem, saved, unsaved, hurt>>

\* Faulty variant: the position is never read again.
FetchAtNext(i) == it[i].next

\* After a block of this run, a next block that is not its child means the
\* chain was reorganised: the position is read again from the head.
FetchAt(i) ==
    LET n == it[i].next
    IN  IF /\ it[i].last # None /\ CanonicalReadable(n)
           /\ Parent[canon[n]] # it[i].last
        THEN Number[HeadOf(i)] + 1
        ELSE n

\* Read the next canonical block and call back, with the lock released if the
\* caller asked for it.
IteratorFetch(i) ==
    LET n == FetchAt(i)
    IN  /\ lock = i
        /\ it[i].pc = "fetch"
        /\ CanonicalReadable(n)
        /\ it' = [it EXCEPT ![i].pc = "callback", ![i].next = n, ![i].block = canon[n],
                            ![i].from = HeadOf(i)]
        /\ lock' = IF it[i].release THEN None ELSE i
        /\ UNCHANGED <<mode, td, bodies, canon, mem, saved, unsaved, hurt>>

\* The loop ends: maxBlocks, whatever it is, is reached, there is no next block,
\* or an unreadable one.
IteratorEnd(i) ==
    /\ lock = i
    /\ it[i].pc = "fetch"
    /\ Finish(i, mem)
    /\ UNCHANGED <<mode, td, bodies, canon, hurt>>

\* The callback returned: with the lock back, the head advances unless the
\* block lost its place meanwhile.
IteratorReturn(i) ==
    LET b       == it[i].block
        reorged == it[i].release
                   /\ ~(CanonicalReadable(it[i].next) /\ canon[it[i].next] = b)
    IN  /\ it[i].pc = "callback"
        /\ lock = IF it[i].release THEN None ELSE i
        /\ lock' = i
        /\ IF reorged
           THEN /\ it' = [it EXCEPT ![i].pc = "fetch"]
                /\ UNCHANGED mem
           ELSE /\ it' = [it EXCEPT ![i].pc = "fetch",
                                    ![i].last = b, ![i].next = @ + 1]
                /\ mem' = [mem EXCEPT !.heads[i] = b]
        /\ UNCHANGED <<mode, td, bodies, canon, saved, unsaved, hurt>>

\* The callback threw: the head stays and is saved.
IteratorThrow(i) ==
    /\ it[i].pc = "callback"
    /\ lock = IF it[i].release THEN None ELSE i
    /\ Finish(i, mem)
    /\ UNCHANGED <<mode, td, bodies, canon, hurt>>

IteratorStep(i) ==
    \/ \E release \in BOOLEAN : IteratorStart(i, release)
    \/ IteratorFetch(i) \/ IteratorEnd(i) \/ IteratorReturn(i) \/ IteratorThrow(i)

Next ==
    \/ \E b \in Blocks : PutBlock(b) \/ PutHeader(b) \/ DelBlock(b)
    \/ \E n \in DOMAIN canon : ResetCanonicalHead(n)
    \/ \E i \in Names, b \in Blocks : SetIteratorHead(i, b)
    \/ \E i \in Names : IteratorStep(i)
    \/ Restart

Spec == Init /\ [][Next]_vars

-----------------------------------------------------------------------------
(***************************************************************************)
(* Properties.                                                             *)
(***************************************************************************)

\* The variables keep their types, and what the index names can be read.
TypeOK ==
    /\ mode \in Modes
    /\ DOMAIN td \subseteq Blocks /\ \A b \in DOMAIN td : td[b] \in Nat
    /\ bodies \subseteq DOMAIN td
    /\ DOMAIN canon \subseteq Nat /\ Range(canon) \subseteq DOMAIN td
    /\ mem \in Heads /\ saved \in Heads
    /\ lock \in Names \cup {None}
    /\ \A i \in Names : it[i].block \in Blocks \cup {None} /\ it[i].next \in Nat

\* Through puts of blocks and headers in any order, reorganisations, resets and
\* deletions, the number index is exactly the path from genesis to the head
\* header (_rebuildCanonical, _deleteCanonicalChainReferences).
CanonicalPath ==
    ~hurt => canon = Path[mem.header]

\* Without consensus metadata, and under proof of stake, the head block and every
\* iterator head always point into the canonical chain, also while callbacks run
\* (the comment at blockchain.ts:68 says so of every fork choice).
HeadsCanonical ==
    (mode # "td" /\ ~hurt) =>
        /\ IsCanonical(mem.block)
        /\ \A i \in Names : mem.heads[i] # None => IsCanonical(mem.heads[i])

\* An iterator's head only moves forward to the child of a block it stood on,
\* when it fetched or when it last advanced, and back along its own ancestors, so
\* no block is passed over without a callback: through reorganisations, resets,
\* deletions and crashes, with the lock held or released.  Excepted is the run
\* whose first callback was overtaken: iterator reloads its position only after
\* that one.
NoBlockSkipped ==
    [][\A i \in Names :
        LET old == HeadOf(i)
            new == HeadOf(i)'
        IN  \/ mode # "number" \/ hurt' \/ it[i].raced
            \/ new \in Ancestors[old] \/ Parent[new] \in {it[i].from, it[i].last}
            \/ \E b \in Blocks : SetIteratorHead(i, b)]_vars

\* The uncles of a block with a body are off its chain, children of ancestors at
\* most seven generations up, and counted once by the bodies of the whole path.
\* A header alone is stored without a look at its uncles.
UnclesSound ==
    \A b \in bodies : \A u \in Uncles[b] :
        /\ u \notin Ancestors[b] /\ Parent[u] \in Ancestors[b]
        /\ Number[b] - Number[Parent[u]] <= 7
        /\ \A a \in Ancestors[b] \cap bodies : a # b => u \notin Uncles[a]


\* The index is the path to the head, heads stay on it, and uncles count once.
ChainSound == TypeOK /\ CanonicalPath /\ HeadsCanonical /\ UnclesSound
=============================================================================
