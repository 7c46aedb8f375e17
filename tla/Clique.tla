------------------------------- MODULE Clique -------------------------------
(***************************************************************************)
(* Proof of authority: CliqueConsensus (blockchain/src/consensus/clique.ts)*)
(* and the header functions it uses (block/src/consensus/clique.ts).       *)
(*                                                                         *)
(* The consensus keeps three lists in memory, each with a copy in the      *)
(* database: the signer sets with the block that made them, the votes, and *)
(* the signers of the latest blocks.  An address is a number, which is how *)
(* addresses are sorted; a header says who signed it, what it votes for    *)
(* and, at an epoch, which signers it lists.  Deep in the chain a header   *)
(* is looked up by its number, so the canonical headers are a sequence.    *)
(* Branches of one or two blocks may compete with them.                    *)
(*                                                                         *)
(* fate is a ghost.  A switch to a branch whose blocks were checked with   *)
(* the lists of the other is "switched"; where either branch changes the   *)
(* voting state, which the class does not support, or a restart forgets    *)
(* votes, it is "astray"; and where newBlock throws, "threw".              *)
(***************************************************************************)
EXTENDS Integers, Sequences, SequencesExt, FiniteSets

CONSTANTS Accounts,        \* addresses, as numbers
          GenesisSigners,  \* the lists that genesis blocks may carry
          Ballots,         \* votes users cast: <<beneficiary, auth>>, and <<0, FALSE>> for none
          Epoch,
          HistoryLimit,    \* CLIQUE_SIGNER_HISTORY_BLOCK_LIMIT
          MaxHeight,       \* bound: blocks of the chain
          MaxBranch        \* bound: blocks that are replaced, and blocks that replace them

VARIABLES headers,      \* the canonical headers after genesis
          snap,       \* the lists in memory
          disk,       \* their copies
          fate        \* ghost: "well", "switched", "astray" or "threw"

cliqueVars == <<headers, snap, disk, fate>>
-----------------------------------------------------------------------------
(* The lists *)

SelectFrom(s, n) == SelectSeq(s, LAMBDA e : e.number >= n)
SelectTo(s, n) == SelectSeq(s, LAMBDA e : e.number <= n)
ByAddress(S) == SetToSortSeq(S, <)
LastNumber(c) == IF c.mem.recent = << >> THEN 0 ELSE Last(c.mem.recent).number

\* The last set made before block n.  None is an error.
StatesBefore(mem, n) == SelectSeq(mem.states, LAMBDA s : s.number < n)
Loadable(mem, n) == StatesBefore(mem, n) # << >>
cliqueActiveSigners(mem, n) == Last(StatesBefore(mem, n)).signers
cliqueSignerLimit(mem, n) == Len(cliqueActiveSigners(mem, n)) \div 2 + 1

cliqueIsEpochTransition(n) == n % Epoch = 0
LastEpoch(n) == n - (n % Epoch)

\* c is [mem, db, ok].  Old sets are dropped, but for the last.
TrimmedStates(c) ==
    LET kept == SelectFrom(c.mem.states, LastNumber(c) - HistoryLimit)
    IN  IF LastNumber(c) = 0 THEN c.mem.states
        ELSE IF kept = << >> THEN <<Last(c.mem.states)>> ELSE kept
SaveStates(c, states) == [c EXCEPT !.mem.states = states, !.db.states = states]

cliqueUpdateSignerStates(c, new) ==
    IF \E i \in 1..Len(c.mem.states), s \in new : c.mem.states[i].number = s.number THEN c
    ELSE LET grown == [c EXCEPT !.mem.states = SortSeq(@ \o SetToSeq(new), LAMBDA a, b : a.number < b.number)]
         IN  SaveStates(grown, TrimmedStates(grown))

SaveVotes(c) ==
    LET votes == IF LastNumber(c) = 0 THEN c.mem.votes
                 ELSE SelectFrom(c.mem.votes, LastEpoch(LastNumber(c)) - HistoryLimit)
    IN  [c EXCEPT !.mem.votes = votes, !.db.votes = votes]
-----------------------------------------------------------------------------
(* Votes *)

Vote(h) == [number |-> h.number, signer |-> h.signer, beneficiary |-> h.beneficiary, auth |-> h.auth]

\* Who else voted so on the beneficiary of h in this epoch.
Voters(mem, h, auth) ==
    {v.signer : v \in {x \in ToSet(mem.votes) : /\ x.number >= LastEpoch(h.number)
                                                /\ x.signer # h.signer
                                                /\ x.beneficiary = h.beneficiary
                                                /\ x.auth = auth}}
Count(mem, h, auth, round) ==
    Cardinality(Voters(mem, h, auth)) + (IF round = 2 /\ h.auth = auth THEN 1 ELSE 0)

\* Only others are admitted, only signers are dropped.
Reached(mem, h, auth, round) ==
    /\ auth <=> h.beneficiary \notin ToSet(cliqueActiveSigners(mem, h.number))
    /\ Count(mem, h, auth, round) >= cliqueSignerLimit(mem, h.number)

\* Votes for a new signer are discarded; of one that goes, those it cast too.
Discarded(votes, h, auth) ==
    SelectSeq(votes, LAMBDA v : v.beneficiary # h.beneficiary /\ (auth \/ v.signer # h.beneficiary))
NewSigners(mem, h, auth) ==
    LET active == cliqueActiveSigners(mem, h.number)
    IN  IF auth THEN ByAddress(ToSet(active) \cup {h.beneficiary})
        ELSE SelectSeq(active, LAMBDA a : a # h.beneficiary)

Round(c, h, round) ==
    LET AuthWins == Reached(c.mem, h, TRUE, round)
        DropWins == Reached(c.mem, h, FALSE, round)
        wins == AuthWins \/ DropWins
        left == IF wins THEN Discarded(c.mem.votes, h, AuthWins) ELSE c.mem.votes
        cast == [c EXCEPT !.mem.votes = IF round = 1 THEN Append(left, Vote(h)) ELSE left]
    IN  [won |-> wins,
         c |-> IF wins
               THEN cliqueUpdateSignerStates(cast, {[number |-> h.number, signers |-> NewSigners(c.mem, h, AuthWins)]})
               ELSE cast]

\* A first round on what was cast before, a second with the new vote.  When a
\* majority is found the votes are not written to the database.
cliqueUpdateVotes(c, h) ==
    IF h.beneficiary = 0 THEN SaveVotes(c)
    ELSE LET first == Round(c, h, 1)
             second == Round(first.c, h, 2)
         IN  IF first.won THEN first.c ELSE IF second.won THEN second.c ELSE SaveVotes(second.c)
-----------------------------------------------------------------------------
(* Latest signers *)

SignedBy(h) == [number |-> h.number, signer |-> h.signer]
SaveRecent(c) == [c EXCEPT !.db.recent = c.mem.recent]

\* The limit is that of the block itself; where its signers have been trimmed
\* away, looking them up throws.
cliqueUpdateLatestBlockSigners(c, h) ==
    IF ~Loadable(c.mem, h.number) THEN [c EXCEPT !.mem.recent = Append(@, SignedBy(h)), !.ok = FALSE]
    ELSE LET all == Append(c.mem.recent, SignedBy(h))
             limit == cliqueSignerLimit(c.mem, h.number)
         IN  SaveRecent([c EXCEPT !.mem.recent = IF Len(all) > limit THEN SubSeq(all, Len(all) - limit + 1, Len(all)) ELSE all])

\* Faulty variant: the oldest never counts.
cliqueCheckRecentlySignedLess(mem, h) ==
    /\ h.number > 1 /\ mem.recent # << >>
    /\ Last(mem.recent).number = h.number - 1
    /\ h.signer \in {mem.recent[i].signer : i \in 2..Len(mem.recent)}

\* With fewer entries than the limit all count, otherwise the oldest does not.
cliqueCheckRecentlySigned(mem, h) ==
    /\ h.number > 1
    /\ LET limit == cliqueSignerLimit(mem, h.number)
           recent == IF Len(mem.recent) < limit THEN mem.recent ELSE Tail(mem.recent)
       IN  /\ recent # << >> => Last(recent).number = h.number - 1
           /\ h.signer \in {recent[i].signer : i \in 1..Len(recent)}
-----------------------------------------------------------------------------
(* Consensus *)

\* In turn is the signer whose place in the list the number names.
InTurn(active, h) == \E i \in 1..Len(active) : active[i] = h.signer /\ h.number % Len(active) = i - 1

validateCliqueDifficulty(mem, h) ==
    LET active == cliqueActiveSigners(mem, h.number)
    IN  active # << >> /\ h.difficulty = (IF InTurn(active, h) THEN 2 ELSE 1)

cliqueVerifySignature(h, active) == h.signer \in ToSet(active)

\* Signed by a signer, not too soon, and at an epoch listing them in order.
validateConsensus(mem, h) ==
    /\ cliqueVerifySignature(h, cliqueActiveSigners(mem, h.number))
    /\ ~cliqueCheckRecentlySigned(mem, h)
    /\ cliqueIsEpochTransition(h.number) => h.listed = cliqueActiveSigners(mem, h.number)

\* A vote is named by the coinbase, which is zero at an epoch; signers are
\* listed there only.
CliqueFormat(h) == IF cliqueIsEpochTransition(h.number) THEN h.beneficiary = 0 ELSE h.listed = << >>

Acceptable(mem, h) == /\ CliqueFormat(h)
                      /\ Loadable(mem, h.number)
                      /\ validateCliqueDifficulty(mem, h)
                      /\ validateConsensus(mem, h)

cliqueBuildSnapshots(c, h) ==
    IF c.ok /\ Loadable(c.mem, h.number)
    THEN cliqueUpdateLatestBlockSigners(IF cliqueIsEpochTransition(h.number) THEN c ELSE cliqueUpdateVotes(c, h), h)
    ELSE [c EXCEPT !.ok = FALSE]

\* Faulty variant: the votes are left as they are.
cliqueDeleteSnapshotsKept(c, n) ==
    LET states == cliqueUpdateSignerStates([c EXCEPT !.mem.states = SelectTo(@, n)], {})
    IN  SaveRecent([states EXCEPT !.mem.recent = SelectTo(@, n)])

\* Everything after block n goes; the copies are written.
cliqueDeleteSnapshots(c, n) ==
    LET states == cliqueUpdateSignerStates([c EXCEPT !.mem.states = SelectTo(@, n)], {})
        votes == SaveVotes([states EXCEPT !.mem.votes = SelectTo(@, n)])
    IN  SaveRecent([votes EXCEPT !.mem.recent = SelectTo(@, n)])

\* The headers hs follow the block of number ancestor in the new chain.
newBlock(c, ancestor, hs) == FoldLeft(cliqueBuildSnapshots, cliqueDeleteSnapshots(c, ancestor + 1), hs)

NoSnapshot == [states |-> << >>, votes |-> << >>, recent |-> << >>]

\* genesisInit: the list of the genesis block, and no votes.
genesisInit(signers) ==
    SaveVotes(cliqueUpdateSignerStates([mem |-> NoSnapshot, db |-> NoSnapshot, ok |-> TRUE],
                                       {[number |-> 0, signers |-> signers]}))
-----------------------------------------------------------------------------
(* The chain *)

Weight(hs) == FoldLeft(LAMBDA w, h : w + h.difficulty, 0, hs)
After(n) == SubSeq(headers, n + 1, Len(headers))

CliqueInit == \E signers \in GenesisSigners : \E c \in {genesisInit(signers)} :
                 /\ snap = c.mem /\ disk = c.db
                 /\ headers = << >> /\ fate = "well"

\* The headers somebody may offer for block n.
Offered(n, listed) ==
    {[number |-> n, signer |-> a, beneficiary |-> b[1], auth |-> b[2], difficulty |-> d,
      listed |-> IF cliqueIsEpochTransition(n) THEN listed ELSE << >>] : a \in Accounts, b \in Ballots, d \in {1, 2}}

Active(n) == cliqueActiveSigners(snap, n)
Became(c, ghost) == /\ snap' = c.mem /\ disk' = c.db
                    /\ fate' = IF c.ok THEN ghost ELSE "threw"

\* The next block of the canonical chain.
Extend(h) ==
    /\ Acceptable(snap, h)
    /\ \E c \in {newBlock([mem |-> snap, db |-> disk, ok |-> TRUE], h.number - 1, <<h>>)} : Became(c, fate)
    /\ headers' = Append(headers, h)

\* A branch becomes the chain with the block that makes it heavier.  Its blocks
\* were checked one by one against the lists of the other branch; a branch that
\* stays lighter changes no list, so it is no step.
ChangesVoting(n, c) == \/ headers[n + 1].beneficiary # 0
                       \/ \E s \in ToSet(snap.states) \cup ToSet(c.mem.states) : s.number > n
Switch(from, branch) ==
    /\ \A i \in 1..Len(branch) : Acceptable(snap, branch[i])
    /\ Weight(branch) > Weight(After(from))
    /\ Weight(Front(branch)) <= Weight(After(from))
    /\ \E c \in {newBlock([mem |-> snap, db |-> disk, ok |-> TRUE], from, branch)} :
          Became(c, IF ChangesVoting(from, c) THEN "astray" ELSE "switched")
    /\ headers' = SubSeq(headers, 1, from) \o branch

\* setup: the copies are read.
CliqueRestart ==
    /\ snap # disk
    /\ snap' = disk
    /\ fate' = "astray"
    /\ UNCHANGED <<headers, disk>>

\* Headers for block n that pass the checks.
Passing(n) == IF Loadable(snap, n) THEN {h \in Offered(n, Active(n)) : Acceptable(snap, h)} ELSE {}

CliqueNext ==
    \/ Len(headers) < MaxHeight /\ \E h \in Passing(Len(headers) + 1) : Extend(h)
    \/ \E from \in 0..(Len(headers) - 1) :
          /\ fate = "well" /\ Len(headers) - from <= MaxBranch  \* bound: one switch
          /\ \E h \in Passing(from + 1) :
                \/ Switch(from, <<h>>)
                \/ \E g \in Passing(from + 2) : Switch(from, <<h, g>>)
    \/ CliqueRestart
-----------------------------------------------------------------------------
(* Properties *)

\* Every change of the signers is of one address, for which a majority of the
\* signers of that time voted, in blocks of the same epoch of the chain.
SignersByMajority ==
    fate \in {"well", "switched"} => \A i \in 2..Len(snap.states) :
        LET n == snap.states[i].number
            before == ToSet(snap.states[i - 1].signers)
            after == ToSet(snap.states[i].signers)
        IN  \E x \in Accounts :
               /\ (before \ after) \cup (after \ before) = {x}
               /\ Cardinality({s \in before : \E k \in 1..n :
                                  /\ k >= LastEpoch(n) /\ headers[k].signer = s
                                  /\ headers[k].beneficiary = x /\ headers[k].auth = (x \in after)})
                     >= Cardinality(before) \div 2 + 1

\* No signer signs twice within the number of consecutive blocks that the
\* signers of the later block allow one of.
SpacedSigning ==
    (fate = "well" /\ Len(headers) > 0) =>
        LET n == Len(headers)
        IN  Loadable(snap, n) =>
               \A k \in 1..(n - 1) : headers[k].signer = headers[n].signer => n - k >= cliqueSignerLimit(snap, n)

Signing(a) == [number |-> Len(headers) + 1, signer |-> a]

\* Somebody may sign the next block.
SomeoneCanSign ==
    fate = "well" => \E a \in ToSet(Active(Len(headers) + 1)) : ~cliqueCheckRecentlySigned(snap, Signing(a))

\* While there are two signers or more, somebody may sign the next block.
QuorumCanSign == Len(Active(Len(headers) + 1)) > 1 => SomeoneCanSign

\* The lists are those that a node which only ever saw the canonical chain would
\* have: after a competing branch of which nothing is left, after a switch to it
\* that does not touch the voting, and after a restart.
SnapshotIsReplay ==
    fate \in {"well", "switched"} =>
        LET c == FoldLeft(LAMBDA x, h : newBlock(x, h.number - 1, <<h>>), genesisInit(snap.states[1].signers), headers)
        IN  snap.states[1].number = 0 => c.mem.states = snap.states /\ c.mem.votes = snap.votes

\* Signers come and go by majority, take turns, and do not run out of turns.
SignersSound == SignersByMajority /\ SpacedSigning /\ QuorumCanSign
=============================================================================
