------------------------------ MODULE Mining ------------------------------
(***************************************************************************)
(* Block production of the development node (client/src/core/node.ts):     *)
(* the write lock and its queue of tasks, admission against the pending    *)
(* state, instant and interval mining, the interval timer, the adjustable  *)
(* clock, and the development writes that change state and mine a block.   *)
(*                                                                         *)
(* The chain state a root and the tables beside it stand for is the        *)
(* sequence of effects applied so far: a transaction is rejected when the  *)
(* state holds something it conflicts with, or when the head has reached   *)
(* its expiration.  Time is counted in seconds since the first block.      *)
(***************************************************************************)
EXTENDS Naturals, Sequences, FiniteSets, SequencesExt

CONSTANTS
    Txs,          \* transaction ids
    Cheats,       \* development writes (balance, code, storage, accounts)
    Conflicts,    \* <<e, t>>: t is rejected once effect e is applied
    Expiration,   \* head time at which each transaction has expired
    Intervals,    \* positive block times a client asks for
    Jumps,        \* seconds a client asks to advance the clock by
    MaxTime,      \* the largest time the clock can state (safe integer)
    MaxSource,    \* bound: how far the system clock runs on its own
    MaxMine,      \* bound: largest count of blocks one request mines
    MaxWaiting,   \* bound: tasks waiting for the write lock
    MaxRequests,  \* bound: requests clients make
    MaxTicks,     \* bound: timer ticks while nothing is queued
    MaxFaults,    \* bound: machinery faults
    None          \* "undefined": no pending state, no timer, no block

ASSUME MiningAssumption ==
    /\ Conflicts \subseteq (Txs \cup Cheats) \X Txs
    /\ Expiration \in [Txs -> Nat]
    /\ Intervals \subseteq Nat \ {0}
    /\ Jumps \subseteq Nat
    /\ {MaxTime, MaxSource, MaxWaiting, MaxRequests, MaxTicks, MaxFaults} \subseteq Nat
    /\ MaxMine \in Nat \ {0}

VARIABLES
    state,     \* effects applied: the state root and the tables beside it
    blocks,    \* committed chain, from the block sealed at start-up
    txs,       \* index of mined transactions
    queue,     \* pendingTransactions, in insertion order
    pending,   \* pendingState: state with the queue executed on it
    mode,      \* blockTimeSeconds, 0 = instant
    timer,     \* blockTimer: which setInterval is live
    source,    \* the system clock
    offset,    \* what advanceMs has added to it
    waiting,   \* writeQueue: tasks that wait for the lock, oldest first
    op,        \* the task that holds the lock and where it stands
    bp,        \* the block produceBlock is working on
    base,      \* ghost: what the task in progress must leave if it fails
    spent      \* counters of the bounded events

chain == <<state, blocks, txs>>
miner == <<queue, mode, timer>>
env == <<waiting, source, spent>>
vars == <<chain, miner, env, pending, offset, op, bp, base>>

\* A step that only moves the task on.
OnlyTask == UNCHANGED <<env, chain, miner, pending, offset, bp, base>>

Effects == Txs \cup Cheats

Requests ==
    [kind : {"submit"}, arg : Txs]
        \cup [kind : {"mine"}, arg : 1..MaxMine]
        \cup [kind : {"increaseTime"}, arg : Jumps]
        \cup [kind : {"setBlockTime"}, arg : Intervals \cup {0}]
        \cup [kind : {"cheat"}, arg : Cheats]

Timers == Nat \ {0}
Ticks == [kind : {"tick"}, arg : Timers]

Block == [ts : 0..MaxTime, txs : Seq(Txs)]
Production ==
    [cand : Seq(Txs), done : Seq(Txs), rejected : SUBSET Txs,
     skipRejected : BOOLEAN, allowEmpty : BOOLEAN, ts : 0..MaxTime,
     root : Seq(Effects), sealed : BOOLEAN, indexed : Nat]

\* None is no number, no state and no block in production.
ASSUME NoneAssumption == None \notin Nat \cup Seq(Effects) \cup Production

\* Where the holder of the lock stands; the lock is free after "done" and
\* "failed".
Free == {"done", "failed"}
Places == Free \cup {"start", "drain", "ready", "mining"}

Task == [req : Requests \cup Ticks, at : Places, left : Nat,
         root : Seq(Effects), clock : Nat]

nowMs == source + offset
head == blocks[Len(blocks)]

\* What the node shows to its clients: compared by the ghost `base`.
Chain == [state |-> state, blocks |-> blocks, txs |-> txs, queue |-> queue,
          mode |-> mode, timer |-> timer, offset |-> offset]
-----------------------------------------------------------------------------
(* Execution, abstracted to acceptance or rejection.                       *)

\* Transaction t is refused on state st above a head of that time.
Rejects(time, st, t) ==
    \/ \E i \in 1..Len(st) : <<st[i], t>> \in Conflicts
    \/ Expiration[t] <= time

Execute(time, st, t) == IF Rejects(time, st, t) THEN st ELSE Append(st, t)

\* Transactions executed in turn, the rejected ones skipped.
Replay(time, st, ts) ==
    LET after[n \in 0..Len(ts)] ==
            IF n = 0 THEN st ELSE Execute(time, after[n - 1], ts[n])
    IN  after[Len(ts)]

\* getPendingState: what is cached, or the queue replayed on the canonical
\* state, rejected entries skipped but kept in the queue.
getPendingState ==
    IF pending # None THEN pending ELSE Replay(head.ts, state, queue)

knownQueued(t) == \E i \in 1..Len(queue) : queue[i] = t
known(t) == t \in txs \/ \E i \in 1..Len(queue) : queue[i] = t
-----------------------------------------------------------------------------
Init ==
    /\ state = << >>
    /\ blocks = <<[ts |-> 0, txs |-> << >>]>>
    /\ txs = {}
    /\ queue = << >>
    /\ pending = None
    /\ mode = 0
    /\ timer = None
    /\ source = 0
    /\ offset = 0
    /\ waiting = << >>
    /\ op = [req |-> [kind |-> "mine", arg |-> 1], at |-> "done", left |-> 0,
             root |-> << >>, clock |-> 0]
    /\ bp = None
    /\ base = Chain
    /\ spent = [requests |-> 0, ticks |-> 0, faults |-> 0, timers |-> 0]

\* A request enters the lock's queue; the caller waits for its turn.
Arrive(r) ==
    /\ Len(waiting) < MaxWaiting
    /\ spent.requests < MaxRequests
    /\ waiting' = Append(waiting, r)
    /\ spent' = [spent EXCEPT !.requests = @ + 1]
    /\ UNCHANGED <<chain, miner, pending, source, offset, op, bp, base>>

\* The live interval fires and queues a task behind whatever holds the lock.
Fire ==
    /\ timer # None
    /\ Len(waiting) < MaxWaiting
    /\ queue # << >> \/ spent.ticks < MaxTicks
    /\ waiting' = Append(waiting, [kind |-> "tick", arg |-> timer])
    /\ spent' = [spent EXCEPT !.ticks = IF @ < MaxTicks THEN @ + 1 ELSE @]
    /\ UNCHANGED <<chain, miner, pending, source, offset, op, bp, base>>

\* The system clock runs, also while a task is in progress.
PassTime ==
    /\ source < MaxSource
    /\ source' = source + 1
    /\ UNCHANGED <<chain, miner, pending, offset, waiting, op, bp, base, spent>>

\* withWriteLock: the oldest task runs once its predecessor has settled,
\* whether that one returned or threw.
Acquire ==
    /\ op.at \in Free
    /\ waiting # << >>
    /\ op' = [req |-> Head(waiting), at |-> "start", left |-> 0,
              root |-> state, clock |-> offset]
    /\ waiting' = Tail(waiting)
    /\ base' = Chain
    /\ UNCHANGED <<chain, miner, pending, source, offset, bp, spent>>

At(kind, place) == op.req.kind = kind /\ op.at = place /\ bp = None

\* The task returns, or throws, and gives the lock up.
Settle(place) == op' = [op EXCEPT !.at = place]
-----------------------------------------------------------------------------
(* submitTransaction                                                       *)

SubmitDuplicate ==
    /\ At("submit", "start")
    /\ known(op.req.arg)
    /\ Settle("failed")
    /\ OnlyTask

\* Interval mode: preview and execute on the pending state, then queue.  The
\* pending state that was built stays cached when the transaction is refused.
SubmitPending ==
    /\ At("submit", "start")
    /\ ~known(op.req.arg)
    /\ mode > 0
    /\ IF Rejects(head.ts, getPendingState, op.req.arg)
       THEN /\ pending' = getPendingState
            /\ queue' = queue
            /\ Settle("failed")
       ELSE /\ pending' = Append(getPendingState, op.req.arg)
            /\ queue' = Append(queue, op.req.arg)
            /\ Settle("done")
    /\ UNCHANGED <<env, chain, mode, timer, offset, bp, base>>

\* Instant mode: whatever is queued is mined first.
SubmitInstant ==
    /\ At("submit", "start")
    /\ ~known(op.req.arg)
    /\ mode = 0
    /\ Settle("drain")
    /\ OnlyTask

\* The preview of an instant submission throws the rejection to its caller.
PreviewRejected ==
    /\ At("submit", "ready")
    /\ Rejects(head.ts, state, op.req.arg)
    /\ Settle("failed")
    /\ OnlyTask
-----------------------------------------------------------------------------
(* The other tasks                                                         *)

StartMine ==
    /\ At("mine", "start")
    /\ op' = [op EXCEPT !.at = "mining", !.left = op.req.arg]
    /\ OnlyTask

\* A tick mines only if its own interval is still the live one.
TickCurrent(t) == timer = t

StartTick ==
    /\ At("tick", "start")
    /\ IF TickCurrent(op.req.arg)
       THEN op' = [op EXCEPT !.at = "mining", !.left = 1]
       ELSE Settle("done")
    /\ OnlyTask

\* increaseTime: the clock moves first; a jump it cannot state throws.
StartIncreaseTime ==
    /\ At("increaseTime", "start")
    /\ IF nowMs + op.req.arg <= MaxTime
       THEN /\ offset' = offset + op.req.arg
            /\ op' = [op EXCEPT !.at = "mining", !.left = 1]
       ELSE /\ Settle("failed")
            /\ offset' = offset
    /\ UNCHANGED <<env, chain, miner, pending, bp, base>>

\* A development write: one transaction around the write and its block.
StartCheat ==
    /\ At("cheat", "start")
    /\ state' = Append(state, op.req.arg)
    /\ op' = [op EXCEPT !.at = "mining", !.left = 1]
    /\ UNCHANGED <<env, blocks, txs, miner, pending, offset, bp, base>>

\* Switching to instant mining drains the queue before anything else.
FirstStage == IF op.req.arg = 0 THEN "drain" ELSE "ready"

StartSetBlockTime ==
    /\ At("setBlockTime", "start")
    /\ Settle(FirstStage)
    /\ OnlyTask

\* The interval a mode change leaves live.
CancelOnly == None
NextTimer == IF op.req.arg = 0 THEN None ELSE spent.timers + 1

\* The drain is over: cancel the interval, set the mode, start a new interval.
SwitchMode ==
    /\ At("setBlockTime", "ready")
    /\ mode' = op.req.arg
    /\ timer' = NextTimer
    /\ spent' = [spent EXCEPT !.timers = IF op.req.arg = 0 THEN @ ELSE @ + 1]
    /\ Settle("done")
    /\ UNCHANGED <<chain, queue, pending, source, offset, waiting, bp, base>>

\* mine(count) has produced its blocks; a development write commits its outer
\* transaction, which invalidates the pending state.
FinishMining ==
    /\ op.at = "mining" /\ bp = None /\ op.left = 0
    /\ pending' = IF op.req.kind = "cheat" THEN None ELSE pending
    /\ Settle("done")
    /\ UNCHANGED <<env, chain, miner, offset, bp, base>>

DrainOver ==
    /\ op.at = "drain" /\ bp = None
    /\ queue = << >>
    /\ Settle("ready")
    /\ OnlyTask
-----------------------------------------------------------------------------
(* produceBlock                                                            *)

Stamp(interval) ==
    LET next == head.ts + interval IN IF nowMs >= next THEN nowMs ELSE next

\* The clock or the block time is past what an integer can state.
Overflows(interval) == nowMs > MaxTime \/ Stamp(interval) > MaxTime

\* A throw out of produceBlock: every enclosing transaction unwinds.  The
\* development write restores its own savepoint, increaseTime its clock.
UnwindTo(root) ==
    /\ state' = IF op.req.kind = "cheat" THEN op.root ELSE root
    /\ offset' = IF op.req.kind = "increaseTime" THEN op.clock ELSE offset
    /\ Settle("failed")
    /\ bp' = None
    /\ UNCHANGED <<miner, base>>

Produce(cand, skipRejected, allowEmpty, interval) ==
    IF Overflows(interval)
    THEN UnwindTo(state) /\ UNCHANGED <<blocks, txs, pending>>
    ELSE /\ bp' = [cand |-> cand, done |-> << >>, rejected |-> {},
                   skipRejected |-> skipRejected, allowEmpty |-> allowEmpty,
                   ts |-> Stamp(interval), root |-> state, sealed |-> FALSE,
                   indexed |-> 0]
         /\ UNCHANGED <<chain, miner, pending, offset, op, base>>

\* mine: everything queued in interval mode, the oldest entry in instant mode.
MineBlock ==
    /\ op.at = "mining" /\ bp = None /\ op.left > 0
    /\ Produce(IF mode = 0 THEN SubSeq(queue, 1, IF queue = << >> THEN 0 ELSE 1)
               ELSE queue,
               TRUE, TRUE, mode)
    /\ UNCHANGED env

\* minePendingIndividually: one block per entry, none for a rejected one.
DrainBlock ==
    /\ op.at = "drain" /\ bp = None
    /\ queue # << >>
    /\ Produce(<<Head(queue)>>, TRUE, FALSE, 0)
    /\ UNCHANGED env

\* The preview validates but does not bill, so execution may still reject.
SubmitBlock ==
    /\ At("submit", "ready")
    /\ Produce(<<op.req.arg>>, FALSE, TRUE, mode)
    /\ UNCHANGED env

\* One candidate in a transaction of its own: accepted, or rejected and undone.
ExecuteCandidate ==
    /\ bp # None /\ bp.cand # << >> /\ ~bp.sealed
    /\ LET t == Head(bp.cand) IN
       /\ bp.skipRejected \/ ~Rejects(head.ts, state, t)
       /\ state' = Execute(head.ts, state, t)
       /\ bp' = [bp EXCEPT !.cand = Tail(@),
                           !.done = IF Rejects(head.ts, state, t) THEN @ ELSE Append(@, t),
                           !.rejected = IF Rejects(head.ts, state, t) THEN @ \cup {t} ELSE @]
    /\ UNCHANGED <<env, blocks, txs, miner, pending, offset, op, base>>

\* sealBlock forgets the pending state that the new block outdates.
PendingKept == pending
PendingAfterSeal == None

\* sealBlock: the block is in the store before its transactions are indexed.
SealBlock ==
    /\ bp # None /\ bp.cand = << >> /\ ~bp.sealed
    /\ bp.allowEmpty \/ bp.done # << >>
    /\ blocks' = Append(blocks, [ts |-> bp.ts, txs |-> bp.done])
    /\ pending' = PendingAfterSeal
    /\ bp' = [bp EXCEPT !.sealed = TRUE]
    /\ UNCHANGED <<env, state, txs, miner, offset, op, base>>

\* A queue, in its order, once some transactions are deleted from it.
Without(ts, gone) ==
    LET kept[n \in 0..Len(ts)] ==
            IF n = 0 THEN << >>
            ELSE IF ts[n] \in gone THEN kept[n - 1] ELSE Append(kept[n - 1], ts[n])
    IN  kept[Len(ts)]

\* The queue without the block's candidates, accepted or rejected.
ClearQueue == << >>
Dequeue == Without(queue, ToSet(bp.done) \cup bp.rejected)

\* Where the task goes on after a block.
Resume ==
    [op EXCEPT !.at = IF op.req.kind = "submit" /\ op.at = "ready" THEN "done" ELSE @,
               !.left = IF op.at = "mining" THEN @ - 1 ELSE @]

\* Receipts are finalized and indexed one by one.
IndexTransaction ==
    /\ bp # None /\ bp.sealed /\ bp.indexed < Len(bp.done)
    /\ txs' = txs \cup {bp.done[bp.indexed + 1]}
    /\ bp' = [bp EXCEPT !.indexed = @ + 1]
    /\ UNCHANGED <<env, state, blocks, miner, pending, offset, op, base>>

\* A block stamped ahead of the clock takes the clock along.
CatchUp == IF bp.ts > nowMs THEN offset + (bp.ts - nowMs) ELSE offset

\* Catch the clock up with the header, commit, and only then remove the
\* candidates from the queue.
CommitBlock ==
    /\ bp # None /\ bp.sealed /\ bp.indexed = Len(bp.done)
    /\ nowMs <= MaxTime
    /\ offset' = CatchUp
    /\ queue' = Dequeue
    /\ bp' = None
    /\ op' = Resume
    /\ base' = [Chain EXCEPT !.queue = queue', !.offset = offset']
    /\ UNCHANGED <<env, chain, pending, mode, timer>>

\* A drained entry that is rejected leaves the queue and mines no block.
CommitNothing ==
    /\ bp # None /\ bp.cand = << >> /\ ~bp.sealed
    /\ ~bp.allowEmpty /\ bp.done = << >>
    /\ queue' = Dequeue
    /\ pending' = None
    /\ bp' = None
    /\ op' = Resume
    /\ base' = [Chain EXCEPT !.queue = queue']
    /\ UNCHANGED <<env, chain, mode, timer, offset>>

\* blocks.drop and the removal of the index entries, as the journal runs them.
DropBlock == IF bp.sealed THEN SubSeq(blocks, 1, Len(blocks) - 1) ELSE blocks
UnindexAll == txs \ {bp.done[i] : i \in 1..bp.indexed}

Unwind ==
    /\ UnwindTo(bp.root)
    /\ blocks' = DropBlock
    /\ txs' = UnindexAll
    /\ pending' = pending

\* An unexpected error anywhere between the start of the block and its commit.
BlockFault ==
    /\ bp # None
    /\ spent.faults < MaxFaults
    /\ Unwind
    /\ spent' = [spent EXCEPT !.faults = @ + 1]
    /\ UNCHANGED <<waiting, source>>

\* The rejection of a candidate that must not be skipped, or a clock that has
\* run past its last value, is thrown the same way.
BlockThrows ==
    /\ bp # None
    /\ \/ bp.cand # << >> /\ ~bp.skipRejected /\ Rejects(head.ts, state, Head(bp.cand))
       \/ bp.sealed /\ bp.indexed = Len(bp.done) /\ nowMs > MaxTime
    /\ Unwind
    /\ UNCHANGED env

\* A fault while the pending state is built or the admission runs on it, or
\* in the preview of an instant submission.
AdmissionFault ==
    /\ \/ /\ At("submit", "start") /\ ~known(op.req.arg) /\ mode > 0
          /\ pending' \in {pending, getPendingState}
       \/ At("submit", "ready") /\ pending' = pending
    /\ spent.faults < MaxFaults
    /\ Settle("failed")
    /\ spent' = [spent EXCEPT !.faults = @ + 1]
    /\ UNCHANGED <<chain, miner, source, offset, waiting, bp, base>>
-----------------------------------------------------------------------------
Submit == SubmitDuplicate \/ SubmitPending \/ SubmitInstant \/ PreviewRejected
Start == StartMine \/ StartTick \/ StartIncreaseTime \/ StartCheat
             \/ StartSetBlockTime
Finish == SwitchMode \/ FinishMining \/ DrainOver
Blocks == MineBlock \/ DrainBlock \/ SubmitBlock \/ ExecuteCandidate
             \/ SealBlock \/ IndexTransaction \/ CommitBlock \/ CommitNothing \/ BlockThrows

\* What the event loop does by itself once a task holds the lock.
Step == Acquire \/ Submit \/ Start \/ Finish \/ Blocks

Next ==
    \/ \E r \in Requests : Arrive(r)
    \/ Fire
    \/ PassTime
    \/ Step
    \/ BlockFault
    \/ AdmissionFault

Spec == Init /\ [][Next]_vars

\* Tasks run to completion and a live interval keeps firing.
FairSpec == Spec /\ WF_vars(Step) /\ WF_vars(Fire)
-----------------------------------------------------------------------------
(* Properties                                                              *)

\* Every variable keeps its type; in particular no committed block carries a
\* time the clock could not state (requireInteger in produceBlock).
TypeOK ==
    /\ state \in Seq(Effects)
    /\ blocks \in Seq(Block) /\ blocks # << >>
    /\ txs \subseteq Txs
    /\ queue \in Seq(Txs)
    /\ pending \in Seq(Effects) \cup {None}
    /\ mode \in Intervals \cup {0}
    /\ timer \in Timers \cup {None}
    /\ source \in 0..MaxSource
    /\ offset \in Nat
    /\ waiting \in Seq(Requests \cup Ticks)
    /\ op \in Task
    /\ bp \in Production \cup {None}

LockFree == op.at \in Free

\* Every transaction is in at most one block and at most once in the queue, a
\* queued one is in no block, and the index the duplicate check reads is
\* exactly what the blocks hold (submitTransaction, produceBlock).
MinedOnce ==
    LockFree =>
        /\ txs = UNION {ToSet(blocks[n].txs) : n \in 1..Len(blocks)}
        /\ \A m, n \in 1..Len(blocks) : m # n =>
              ToSet(blocks[m].txs) \cap ToSet(blocks[n].txs) = {}
        /\ \A n \in 1..Len(blocks) : IsInjective(blocks[n].txs)
        /\ IsInjective(queue)
        /\ ToSet(queue) \cap txs = {}

\* The cached pending state is what rebuilding it would give: the canonical
\* state with the queue replayed on it, so an admission judged on the cache is
\* never judged on a state that a block or a development write has outdated
\* (getPendingState, transact, sealBlock).
PendingExact ==
    LockFree /\ pending # None => pending = Replay(head.ts, state, queue)

\* In instant mode nothing is left in the queue: no timer would ever mine it
\* (setBlockTime drains before it changes the mode).
InstantQueueEmpty == LockFree /\ mode = 0 => queue = << >>

\* The node's clock is never behind its head, and block times never decrease:
\* failed jumps give the clock back, and mining ahead of it takes it along
\* (increaseTime, produceBlock).
ClockCoversHead ==
    /\ LockFree => head.ts <= nowMs
    /\ \A n \in 2..Len(blocks) : blocks[n - 1].ts <= blocks[n].ts

\* A task that throws leaves the chain, the index, the queue, the mining mode,
\* the timer and the clock as they were when it started, or as the last block
\* it committed left them (transact, BlockTimeChangeError, increaseTime).
AllOrNothing ==
    [][op.at \notin Free /\ op'.at = "failed" => Chain' = base]_vars

\* A queued transaction leaves the queue only when a block mines it or rejects
\* it as a candidate; a failed block takes nothing (produceBlock).
NoSilentDrop ==
    [][\A t \in ToSet(queue) \ ToSet(queue') :
          t \in txs' \/ (bp # None /\ t \in bp.rejected)]_vars

\* A tick that waited behind a mode change mines nothing: only the live
\* interval's ticks produce blocks (setBlockTime).
StaleTickMinesNothing ==
    [][op.req.kind = "tick" /\ blocks' # blocks => mode > 0 /\ op.req.arg = timer]_vars

\* A queued transaction is eventually mined or dropped, as long as faults end
\* (interval timer, mine, setBlockTime).
QueueDrains ==
    \A t \in Txs : (t \in ToSet(queue)) ~> (t \notin ToSet(queue))

\* Whoever takes the write lock gives it back: the drain of the queue, the
\* blocks of one request and the rollback of a failure all come to an end
\* (withWriteLock, minePendingIndividually).
LockReleased == (~LockFree) ~> LockFree

\* The life of a transaction as the committed chain shows it.
TxStatus ==
    [t \in Txs |-> IF t \in ToSet(base.queue) THEN "queued"
                   ELSE IF t \in base.txs THEN "mined" ELSE "unknown"]
L == INSTANCE TxLifecycle WITH status <- TxStatus

\* Block production implements the life cycle of TxLifecycle: in particular a
\* mined transaction is never queued, mined or forgotten again.
Lifecycle == L!Spec

\* The queue and the clock (sendTransaction, produceBlock): a transaction is in
\* at most one block, the pending state is what the queue would do, instant mode
\* keeps nothing queued, and no block is later than the clock.
QueueSound == TypeOK /\ MinedOnce /\ PendingExact /\ InstantQueueEmpty /\ ClockCoversHead

\* No step of a task is seen by halves, drops a transaction that could still be
\* mined, or mines for a timer that was cancelled.
StepsHonest == AllOrNothing /\ NoSilentDrop /\ StaleTickMinesNothing

\* The queue empties and the write lock is passed on.
Served == QueueDrains /\ LockReleased
=============================================================================
