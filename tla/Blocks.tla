------------------------------- MODULE Blocks -------------------------------
(***************************************************************************)
(* How a block is made and how it is checked: BlockBuilder                 *)
(* (vm/src/buildBlock.ts) and the generate option of runBlock on one side, *)
(* runBlock (vm/src/runBlock.ts), Blockchain.validateHeader and the header *)
(* and body checks of the block package on the other.                      *)
(*                                                                         *)
(* The world state is the sequence of what was done to it, and every root  *)
(* and hash is the value it commits to.  A tie between two headers is a    *)
(* set: parentHash holds the parent's header, and nothing at genesis.      *)
(*                                                                         *)
(* The TRON profile knows one hardfork, so Ethash computes the difficulty  *)
(* by its first rule, with no delay for the bomb; withdrawals, requests    *)
(* and the block hash contract cannot be activated.  Uncles are in Chain.  *)
(*                                                                         *)
(* astray is a ghost: a reward was paid outside a checkpoint or twice, or  *)
(* a commit failed after the block had entered the chain.                  *)
(***************************************************************************)
EXTENDS Integers, Sequences, SequencesExt

CONSTANTS TxPool,          \* transactions: id, gasLimit, spent, price, status, logs, reads, signed
          Consensuses,     \* subset of {"none", "pow", "pos"}
          GenesisFees,     \* base fees of the first block
          GenesisGasLimit,
          GivenGasLimits,  \* what users ask for
          minGasLimit, gasLimitBoundDivisor, gasLimitCap,
          elasticityMultiplier, baseFeeMaxChangeDenominator,
          minimumDifficulty, difficultyBoundDivisor, durationLimit, bombPeriod,
          MaxBlocks,       \* bound: blocks in the chain
          MaxNow           \* bound: the clock

\* A transaction's id is its hash.  Nobody asks for a gas limit at the cap (2^63),
\* which runBlock alone looks at, and a block has room for its gas target.
ASSUME BlocksAssumption ==
    /\ \A t \in TxPool : /\ t.gasLimit \in Nat /\ t.spent \in Nat /\ t.price \in Nat
                         /\ \A u \in TxPool : t.id = u.id => t = u
    /\ Consensuses \subseteq {"none", "pow", "pos"}
    /\ GenesisFees \subseteq Nat
    /\ {gasLimitBoundDivisor, elasticityMultiplier, baseFeeMaxChangeDenominator,
        difficultyBoundDivisor, bombPeriod, MaxBlocks} \subseteq Nat \ {0}
    /\ {minGasLimit, gasLimitCap, minimumDifficulty, durationLimit, MaxNow} \subseteq Nat
    /\ elasticityMultiplier <= minGasLimit /\ elasticityMultiplier <= GenesisGasLimit
    /\ \A g \in GivenGasLimits \cup {GenesisGasLimit} : g \in Nat /\ g < gasLimitCap

VARIABLES consensus,  \* what the chain configuration says
          blocks,     \* the canonical chain
          world,      \* the state of the VM
          saves,      \* its checkpoints
          bld,        \* the BlockBuilder
          held,       \* a block that was built but not put into the chain
          now,        \* the clock, in seconds
          astray      \* ghost

blkVars == <<consensus, blocks, world, saves, bld, held, now, astray>>
-----------------------------------------------------------------------------
(* Headers *)

\* The base fee of the next block.
calcNextBaseFee(h) ==
    LET parentGasTarget == h.gasLimit \div elasticityMultiplier
        Delta(d) == ((h.baseFee * d) \div parentGasTarget) \div baseFeeMaxChangeDenominator
        Floor(least, x) == IF x > least THEN x ELSE least
    IN  IF h.gasUsed = parentGasTarget THEN h.baseFee
        ELSE IF h.gasUsed > parentGasTarget
             THEN h.baseFee + Floor(1, Delta(h.gasUsed - parentGasTarget))
             ELSE Floor(0, h.baseFee - Delta(parentGasTarget - h.gasUsed))

ethashCanonicalDifficulty(h, p) ==
    LET offset == p.difficulty \div difficultyBoundDivisor
        exp == h.number \div bombPeriod - 2
        dif == (IF p.timestamp + durationLimit > h.timestamp THEN p.difficulty + offset ELSE p.difficulty - offset)
                   + IF exp >= 0 THEN 2 ^ exp ELSE 0
    IN  IF dif < minimumDifficulty THEN minimumDifficulty ELSE dif

validateGasLimit(h, p) ==
    LET a == p.gasLimit \div gasLimitBoundDivisor
    IN  /\ h.gasLimit < p.gasLimit + a
        /\ h.gasLimit > p.gasLimit - a
        /\ h.gasLimit >= minGasLimit

\* What the constructors of a header refuse.
genericFormatValidation(h) == h.gasUsed <= h.gasLimit
consensusFormatValidation(h) == (consensus = "pos" /\ h.number # 0) => h.difficulty = 0
createBlock(h) == genericFormatValidation(h) /\ consensusFormatValidation(h)

\* Ethash asks for its own difficulty; Casper is not asked, and would want none.
validateDifficulty(h, p) == consensus = "pow" => h.difficulty = ethashCanonicalDifficulty(h, p)

\* Against the parent, which must be known.
validateHeader(h, known) ==
    h.number = 0 \/ \E p \in h.parentHash \cap known :
        /\ h.number = p.number + 1
        /\ h.timestamp > p.timestamp
        /\ validateDifficulty(h, p)
        /\ validateGasLimit(h, p)
        /\ h.baseFee = calcNextBaseFee(p)
-----------------------------------------------------------------------------
(* Bodies *)

\* The transactions trie commits to the transactions and their order.
genTxTrie(txs) == [i \in 1..Len(txs) |-> txs[i].id]
transactionsTrieIsValid(b) == b.header.txTrie = genTxTrie(b.txs)
getTransactionsValidationErrors(b) == {i \in 1..Len(b.txs) : b.txs[i].price < b.header.baseFee}

validateData(b) == /\ getTransactionsValidationErrors(b) = {}
                   /\ \A i \in 1..Len(b.txs) : b.txs[i].signed
                   /\ transactionsTrieIsValid(b)

\* runTx: it refuses a transaction that is unsigned, cannot pay the base fee,
\* exceeds the block or was run before (its nonce); what it does to the world
\* may depend on the block.
Runs(w, t, h) == /\ t.signed
                 /\ t.price >= h.baseFee
                 /\ t.gasLimit <= h.gasLimit
                 /\ \A i \in 1..Len(w) : w[i].id # t.id
Effect(t, h) == [id |-> t.id, fee |-> h.baseFee, at |-> IF t.reads THEN h.timestamp ELSE 0]
Receipt(t, before) == [status |-> t.status, cumulativeBlockGasUsed |-> before + t.spent, logs |-> t.logs]

NoResult(w) == [ok |-> TRUE, world |-> w, gasUsed |-> 0, receipts |-> << >>, bloom |-> {}]
Refused(r) == [r EXCEPT !.ok = FALSE]
Ran(r, t, h) == [ok |-> TRUE, world |-> Append(r.world, Effect(t, h)), gasUsed |-> r.gasUsed + t.spent,
                 receipts |-> Append(r.receipts, Receipt(t, r.gasUsed)), bloom |-> r.bloom \cup t.logs]

applyTransactions(w, h, txs) ==
    FoldLeft(LAMBDA r, t : IF r.ok /\ h.gasLimit >= t.gasLimit + r.gasUsed /\ Runs(r.world, t, h)
                           THEN Ran(r, t, h) ELSE Refused(r), NoResult(w), txs)

\* The miner's reward, with proof of work only.
RewardEntry(h) == [id |-> "reward", fee |-> h.number, at |-> 0]
assignBlockRewards(w, h) == IF consensus = "pow" THEN Append(w, RewardEntry(h)) ELSE w

applyBlock(w, b, known, skip) ==
    LET r == applyTransactions(w, b.header, b.txs)
    IN  IF skip \/ (b.header.gasLimit < gasLimitCap /\ validateHeader(b.header, known) /\ validateData(b))
        THEN [r EXCEPT !.world = assignBlockRewards(r.world, b.header)]
        ELSE Refused(NoResult(w))

\* Faulty variant: the receipts are not compared.
runBlockUnreceipted(w, b, known) ==
    LET r == applyBlock(w, b, known, FALSE)
    IN  /\ r.ok
        /\ r.bloom = b.header.bloom
        /\ r.gasUsed = b.header.gasUsed
        /\ r.world = b.header.stateRoot

\* A block is accepted on top of the world w, where the headers of known are.
runBlock(w, b, known) ==
    LET r == applyBlock(w, b, known, FALSE)
    IN  /\ r.ok
        /\ r.receipts = b.header.receiptTrie
        /\ r.bloom = b.header.bloom
        /\ r.gasUsed = b.header.gasUsed
        /\ r.world = b.header.stateRoot

\* With the generate option the header takes what the run gave.
generated(b, r) ==
    [b EXCEPT !.header = [@ EXCEPT !.stateRoot = r.world, !.bloom = r.bloom, !.gasUsed = r.gasUsed,
                                   !.receiptTrie = r.receipts, !.txTrie = genTxTrie(b.txs)]]
-----------------------------------------------------------------------------
(* The chain *)

Headers(n) == {blocks[i].header : i \in 1..n}
Tip == blocks[Len(blocks)].header

\* A block enters the chain when it is valid and, with Ethash, sealed.
putBlock(b) == /\ validateHeader(b.header, Headers(Len(blocks)))
               /\ validateData(b)
               /\ consensus = "pow" => b.header.seal = "good"

GenesisBlock(fee) ==
    [header |-> [number |-> 0, parentHash |-> {}, gasLimit |-> GenesisGasLimit, gasUsed |-> 0, timestamp |-> 0,
                 baseFee |-> fee, difficulty |-> minimumDifficulty, stateRoot |-> << >>, txTrie |-> << >>,
                 receiptTrie |-> << >>, bloom |-> {}, seal |-> "none"],
     txs |-> << >>]

NoBuilder == [status |-> "none", header |-> [number |-> 0], txs |-> << >>, receipts |-> << >>, bloom |-> {},
              gasUsed |-> 0, checkpointed |-> FALSE, put |-> FALSE, paid |-> 0]
\* A builder that has ended is asked for nothing but its status.
Ended(status) == [NoBuilder EXCEPT !.status = status]

BlkInit == /\ consensus \in Consensuses
           /\ \E fee \in GenesisFees : blocks = <<GenesisBlock(fee)>>
           /\ world = << >> /\ saves = << >> /\ bld = NoBuilder /\ held = << >>
           /\ now = 0 /\ astray = FALSE

Tick == /\ now < MaxNow
        /\ now' = now + 1
        /\ UNCHANGED <<consensus, blocks, world, saves, bld, held, astray>>

\* The header the user asks for: the rest are the constructor's defaults.
HeaderData(gasLimit, baseFee) ==
    [GenesisBlock(baseFee).header EXCEPT
        !.number = Tip.number + 1, !.parentHash = {Tip}, !.gasLimit = gasLimit,
        !.timestamp = now, !.difficulty = 0]
Calculated(h) == [h EXCEPT !.difficulty = ethashCanonicalDifficulty(h, Tip)]
-----------------------------------------------------------------------------
(* BlockBuilder *)

Free == bld.status \in {"none", "build", "reverted"} /\ ~bld.checkpointed /\ held = << >> /\ Len(blocks) < MaxBlocks

\* The difficulty is left out, given or, with Ethash, calculated.
constructor(gasLimit, baseFee, difficulty, put) ==
    /\ Free
    /\ \E h \in {[HeaderData(gasLimit, baseFee) EXCEPT !.difficulty = IF difficulty = "given" THEN 1 ELSE 0]} :
          bld' = [NoBuilder EXCEPT !.status = "pending", !.put = put,
                                   !.header = IF difficulty = "calculated" THEN Calculated(h) ELSE h]
    /\ UNCHANGED <<consensus, blocks, world, saves, held, now, astray>>

\* The checkpoint is taken before the transaction is looked at.
Lazily == IF bld.checkpointed THEN saves ELSE Append(saves, world)
Fits(t) == t.gasLimit <= bld.header.gasLimit - bld.gasUsed
InPlace == [bld.header EXCEPT !.gasUsed = bld.gasUsed]

\* Faulty variant: the block that runTx sees has used no gas yet.
addTransactionUncounted(t) ==
    /\ bld.status = "pending"
    /\ saves' = Lazily
    /\ IF Fits(t) /\ createBlock(InPlace) /\ Runs(world, t, InPlace)
       THEN /\ world' = Append(world, Effect(t, InPlace))
            /\ bld' = [bld EXCEPT !.checkpointed = TRUE, !.txs = Append(@, t), !.gasUsed = @ + t.spent,
                                  !.receipts = Append(@, Receipt(t, 0)), !.bloom = @ \cup t.logs]
       ELSE /\ bld' = [bld EXCEPT !.checkpointed = TRUE]
            /\ UNCHANGED world
    /\ UNCHANGED <<consensus, blocks, held, now, astray>>

addTransaction(t) ==
    /\ bld.status = "pending"
    /\ saves' = Lazily
    /\ IF Fits(t) /\ createBlock(InPlace) /\ Runs(world, t, InPlace)
       THEN /\ world' = Append(world, Effect(t, InPlace))
            /\ bld' = [bld EXCEPT !.checkpointed = TRUE, !.txs = Append(@, t), !.gasUsed = @ + t.spent,
                                  !.receipts = Append(@, Receipt(t, InPlace.gasUsed)), !.bloom = @ \cup t.logs]
       ELSE /\ bld' = [bld EXCEPT !.checkpointed = TRUE]
            /\ UNCHANGED world
    /\ UNCHANGED <<consensus, blocks, held, now, astray>>

\* revert looks at no status.
revert ==
    /\ bld.status \in {"pending", "build", "reverted"}
    /\ world' = IF bld.checkpointed THEN Last(saves) ELSE world
    /\ saves' = IF bld.checkpointed THEN Front(saves) ELSE saves
    /\ bld' = Ended("reverted")
    /\ UNCHANGED <<consensus, blocks, held, now, astray>>

rewardMiner(w) == assignBlockRewards(w, bld.header)

\* The block of the builder, whose state is now w.
Sealed(w, seal) ==
    [header |-> [bld.header EXCEPT !.stateRoot = w, !.txTrie = genTxTrie(bld.txs), !.receiptTrie = bld.receipts,
                                   !.bloom = bld.bloom, !.gasUsed = bld.gasUsed, !.seal = seal],
     txs |-> bld.txs]

\* The block was refused after the reward: the builder stays as it is.
BuildThrows(w) ==
    /\ bld' = [bld EXCEPT !.paid = IF w # world THEN @ + 1 ELSE @]
    /\ astray' = (astray \/ (w # world /\ ~bld.checkpointed))
    /\ UNCHANGED <<blocks, saves, held>>

\* The block is in the chain, if it goes there, before the state is committed.
BuildReturns(w, b) ==
    /\ blocks' = IF bld.put THEN Append(blocks, b) ELSE blocks
    /\ held' = IF bld.put THEN << >> ELSE <<b>>
    /\ \/ /\ bld' = Ended("build")
          /\ saves' = IF bld.checkpointed THEN Front(saves) ELSE saves
          /\ astray' = (astray \/ (w # world /\ bld.paid > 0))
       \/ /\ bld.checkpointed
          /\ bld' = [bld EXCEPT !.status = "build"]
          /\ astray' = TRUE
          /\ UNCHANGED saves

build(seal) ==
    /\ bld.status = "pending"
    /\ bld.paid < 2
    /\ \E w \in {rewardMiner(world)} : \E b \in {Sealed(w, seal)} :
          /\ world' = w
          /\ IF createBlock(b.header) /\ (bld.put => putBlock(b)) THEN BuildReturns(w, b) ELSE BuildThrows(w)
    /\ UNCHANGED <<consensus, now>>

\* The caller puts the block that was built aside into the chain, or cannot.
putBuilt ==
    /\ held # << >>
    /\ IF putBlock(held[1])
       THEN blocks' = Append(blocks, held[1]) /\ UNCHANGED astray
       ELSE astray' = TRUE /\ UNCHANGED blocks
    /\ held' = << >>
    /\ UNCHANGED <<consensus, world, saves, bld, now>>
-----------------------------------------------------------------------------
(* runBlock with the generate option, then putBlock *)

\* A block whose header says nothing of its body; the transactions trie is
\* right or missing.
Skeleton(txs, trie) ==
    [header |-> [Calculated(HeaderData(Tip.gasLimit, calcNextBaseFee(Tip))) EXCEPT
                    !.seal = "good", !.difficulty = IF consensus = "pow" THEN @ ELSE 0,
                    !.txTrie = IF trie THEN genTxTrie(txs) ELSE << >>],
     txs |-> txs]

generate(txs, trie, skip) ==
    /\ Free
    /\ \E b \in {Skeleton(txs, trie)} :
       \E r \in {applyBlock(world, b, Headers(Len(blocks)), skip)} :
       \E g \in {generated(b, r)} :
          /\ r.ok
          /\ createBlock(g.header)
          /\ world' = r.world
          /\ held' = <<g>>
    /\ UNCHANGED <<consensus, blocks, saves, bld, now, astray>>

\* What users ask for.
Bodies == {<< >>} \cup {<<t>> : t \in TxPool}
Usual == IF consensus = "pow" THEN "calculated" ELSE "none"
Difficulties == CASE consensus = "pow" -> {"calculated", "none"}
                  [] consensus = "pos" -> {"given", "none"}
                  [] OTHER -> {"none"}

BlkNext ==
    \/ Tick
    \/ \E gasLimit \in GivenGasLimits, put \in BOOLEAN :
          constructor(gasLimit, calcNextBaseFee(Tip), Usual, put)
    \/ \E difficulty \in Difficulties, more \in {0, 1} :
          constructor(Tip.gasLimit, calcNextBaseFee(Tip) + more, difficulty, TRUE)
    \/ \E t \in TxPool : addTransaction(t)
    \/ revert
    \/ \E seal \in IF consensus = "pow" THEN {"good", "bad"} ELSE {"none"} : build(seal)
    \/ putBuilt
    \/ \E txs \in Bodies, trie \in BOOLEAN, skip \in BOOLEAN :
          generate(txs, trie, skip)

BlkSpec == BlkInit /\ [][BlkNext]_blkVars
-----------------------------------------------------------------------------
(* Properties *)

Statuses == {"none", "pending", "build", "reverted"}

\* The chain is linked, the builder's checkpoint is one of the VM's, and a
\* builder that has ended holds none unless its commit failed.
BlocksTypeOK ==
    /\ consensus \in Consensuses /\ now \in 0..MaxNow /\ astray \in BOOLEAN
    /\ Len(blocks) \in 1..MaxBlocks /\ Len(held) <= 1
    /\ \A i \in 2..Len(blocks) : blocks[i].header.parentHash = {blocks[i - 1].header}
    /\ bld.status \in Statuses
    /\ Len(saves) = (IF bld.checkpointed THEN 1 ELSE 0)
    /\ (bld.checkpointed /\ bld.status # "pending") => astray

\* Outside a builder and outside a block that waits to be put, the state of the
\* VM is the one the head of the chain commits to, and a builder's checkpoint
\* holds it: so an abandoned builder leaves the state of the head, and a built
\* block leaves its own.  The ghost marks the paths on which the code loses it.
HeadHasState ==
    (~astray /\ held = << >> /\ (bld.status = "pending" => bld.checkpointed))
        => (IF bld.checkpointed THEN saves[1] ELSE world) = Tip.stateRoot

\* Every block that entered the chain is accepted by another VM that has the
\* blocks before it: the gas, the receipts with their running totals, the bloom,
\* the fee and the state that builder and generator wrote are what runBlock
\* computes for itself.
BuiltIsAccepted ==
    ~astray => \A i \in 2..Len(blocks) : runBlock(blocks[i - 1].header.stateRoot, blocks[i], Headers(i - 1))

\* Ways to alter a block: some fields of the header, and the body.
OtherField(b, f) ==
    CASE f = "gasUsed" -> {b.header.gasUsed + 1}
      [] f = "stateRoot" -> {Append(b.header.stateRoot, RewardEntry(b.header)), << >>}
      [] f = "receiptTrie" -> {Append(b.header.receiptTrie, [status |-> 1, cumulativeBlockGasUsed |-> 0, logs |-> {}])}
      [] f = "bloom" -> {b.header.bloom \cup {"forged"}}
      [] f = "txTrie" -> {Reverse(b.header.txTrie), << >>}
      [] f = "baseFee" -> {b.header.baseFee + 1}
      [] f = "number" -> {b.header.number + 1}
      [] f = "difficulty" -> {b.header.difficulty + 1}
Checked == {"gasUsed", "stateRoot", "receiptTrie", "bloom", "txTrie", "baseFee", "number"}
               \cup (IF consensus = "pow" THEN {"difficulty"} ELSE {})
WithField(b, f) == {[b EXCEPT !.header = [@ EXCEPT ![f] = v]] : v \in OtherField(b, f)}
WithBody(b) == {[b EXCEPT !.txs = txs] : txs \in {Reverse(b.txs), b.txs \o b.txs, << >>} \cup {Append(b.txs, t) : t \in TxPool}}
Altered(b) ==
    (WithBody(b) \cup (UNION {WithField(b, f) : f \in Checked})
        \cup (UNION {WithField(c, "txTrie") : c \in WithBody(b)})
        \cup (UNION {UNION {WithField(c, f) : f \in Checked} : c \in UNION {WithField(b, f) : f \in Checked}})) \ {b}

\* No VM accepts a block that differs from an honest one in its body or in one
\* or two fields of its header that the rules fix, whichever they are.
NoForgedBlock ==
    (~astray /\ Len(blocks) > 1 /\ bld.status \in {"build", "none"}) =>
        \A c \in Altered(blocks[Len(blocks)]) :
            ~runBlock(blocks[Len(blocks) - 1].header.stateRoot, c, Headers(Len(blocks) - 1))

\* A block above its gas target makes the next one dearer, by one unit at least
\* and by the fixed fraction of the fee at most, of which a gas limit that is not
\* a multiple of the target adds a share; one below never does, and costs the
\* fee no more than that fraction.
FeeSteady ==
    \A i \in 2..Len(blocks) : LET p == blocks[i - 1].header
                                  fee == blocks[i].header.baseFee
                                  target == p.gasLimit \div elasticityMultiplier
                                  most == p.baseFee * (elasticityMultiplier - 1)
                                  step(x) == x \div baseFeeMaxChangeDenominator + 1
                              IN  /\ p.gasUsed > target => fee \in (p.baseFee + 1)..(p.baseFee + step(most + most \div target))
                                  /\ p.gasUsed = target => fee = p.baseFee
                                  /\ p.gasUsed < target => fee \in (p.baseFee - step(p.baseFee))..p.baseFee /\ fee >= 0

\* The later the next block, the smaller its difficulty, which never falls
\* below the minimum.
SlowerIsEasier ==
    consensus = "pow" =>
        \A s, t \in (Tip.timestamp + 1)..(Tip.timestamp + durationLimit + 1) :
            LET Dif(x) == ethashCanonicalDifficulty([number |-> Tip.number + 1, timestamp |-> x], Tip)
            IN  s <= t => Dif(t) <= Dif(s) /\ Dif(t) >= minimumDifficulty

\* Builders and generators: state, head and checkpoint belong together, whoever
\* has the blocks before accepts the block made here, and fee and difficulty
\* answer to load and time in the right direction.
BlocksSound == BlocksTypeOK /\ HeadHasState /\ BuiltIsAccepted /\ FeeSteady /\ SlowerIsEasier
=============================================================================
