----------------------------- MODULE MiningProofs -----------------------------
(***************************************************************************)
(* Whatever clients ask of the node, in whatever order the tasks take the  *)
(* write lock, and wherever a block fails: each transaction is mined once, *)
(* the cached pending state is what the queue would do, a task that throws *)
(* leaves what it found, and the life of every transaction is the one      *)
(* TxLifecycle describes.                                                  *)
(*                                                                         *)
(* The promises speak of a free lock; what makes them last is what holds   *)
(* in the middle of a task: the block in production is made of             *)
(* transactions no committed block has (Working), the cached pending state *)
(* is that of the root a failure would restore (PendingOfRoot), and the    *)
(* ghost `base` is what unwinding would give (Based).                      *)
(***************************************************************************)
EXTENDS Mining, SequenceTheorems, WellFoundedInduction, TLAPS

\* The block in production is in the store, and what the store holds without it.
Sealed == bp # None /\ bp.sealed
Committed == IF Sealed THEN SubSeq(blocks, 1, Len(blocks) - 1) ELSE blocks
MinedIn(bs) == UNION {ToSet(bs[n].txs) : n \in 1..Len(bs)}

\* What a failure of the task restores: state, clock.
CheatMines == op.req.kind = "cheat" /\ op.at = "mining"
RestoredState == IF CheatMines THEN op.root ELSE IF bp # None THEN bp.root ELSE state
RestoredOffset ==
    IF op.req.kind = "increaseTime" /\ op.at = "mining" /\ op.left = 1 THEN op.clock ELSE offset

Types ==
    /\ TypeOK
    /\ spent \in [requests : Nat, ticks : Nat, faults : Nat, timers : Nat]
    /\ base \in [state : Seq(Effects), blocks : Seq(Block), txs : SUBSET Txs, queue : Seq(Txs),
                 mode : Intervals \cup {0}, timer : Timers \cup {None}, offset : Nat]

\* Where each kind of task may stand, and where it works on a block.
Placed ==
    /\ op.at \in Free \cup {"start"} => bp = None
    /\ op.at = "start" => op.root = state /\ op.clock = offset
    /\ op.at = "mining" => op.req.kind \in {"mine", "tick", "increaseTime", "cheat"}
    /\ op.at \in {"drain", "ready"} => op.req.kind \in {"submit", "setBlockTime"}
    /\ op.at = "ready" /\ bp # None => op.req.kind = "submit"
    /\ op.at = "mining" /\ bp # None => op.left > 0
    /\ op.at = "mining" /\ op.req.kind # "mine" => op.left \in {0, 1}
    /\ bp # None => /\ (op.at = "ready") <=> ~bp.skipRejected
                    /\ (op.at = "drain") <=> ~bp.allowEmpty

\* No transaction is in two blocks, and the index has what the blocks hold.
Once ==
    /\ \A n \in 1..Len(blocks) : IsInjective(blocks[n].txs)
    /\ \A m, n \in 1..Len(blocks) : m # n => ToSet(blocks[m].txs) \cap ToSet(blocks[n].txs) = {}
    /\ txs = IF Sealed THEN MinedIn(Committed) \cup {bp.done[i] : i \in 1..bp.indexed}
             ELSE MinedIn(blocks)
    /\ IsInjective(queue)
    /\ ToSet(queue) \cap MinedIn(Committed) = {}

\* The candidates of the block in production, in no committed block.
Working ==
    /\ op.req.kind = "submit" /\ op.at \in {"drain", "ready"} =>
          op.req.arg \notin ToSet(queue) \cup MinedIn(Committed)
    /\ bp # None =>
          /\ IsInjective(bp.cand) /\ IsInjective(bp.done)
          /\ ToSet(bp.cand) \cap (ToSet(bp.done) \cup bp.rejected) = {}
          /\ ToSet(bp.done) \cap bp.rejected = {}
          /\ IF op.at = "ready"
             THEN ToSet(bp.cand) \cup ToSet(bp.done) = {op.req.arg} /\ bp.rejected = {}
             ELSE ToSet(bp.cand) \cup ToSet(bp.done) \cup bp.rejected \subseteq ToSet(queue)
          /\ bp.indexed <= Len(bp.done)
          /\ IF bp.sealed
             THEN /\ bp.cand = << >> /\ Len(blocks) > 1
                  /\ head = [ts |-> bp.ts, txs |-> bp.done]
             ELSE bp.indexed = 0

\* The cached pending state is that of the root a failure would restore.
PendingOfRoot ==
    /\ Sealed => pending = None
    /\ pending # None => pending = Replay(head.ts, RestoredState, queue)

\* Block times never decrease, and neither the block in production nor the clock
\* a failure would restore is behind the committed head.
Clocked ==
    /\ \A n \in 2..Len(blocks) : blocks[n - 1].ts <= blocks[n].ts
    /\ bp # None => Committed[Len(Committed)].ts <= bp.ts
    /\ Committed[Len(Committed)].ts <= source + RestoredOffset

\* The live interval, and a queue that nothing would ever mine.
Timed ==
    /\ (timer = None) <=> (mode = 0)
    /\ op.req.kind = "tick" /\ op.at = "mining" => op.req.arg = timer
    /\ mode = 0 => queue = << >>
    /\ op.req.kind = "setBlockTime" /\ op.at = "ready" /\ op.req.arg = 0 => queue = << >>

\* The ghost is what unwinding would give.
Based ==
    op.at \notin Free =>
        /\ base.queue = queue /\ base.mode = mode /\ base.timer = timer
        /\ base.blocks = Committed
        /\ base.txs = MinedIn(Committed)
        /\ (CheatMines /\ op.left = 0) \/ base.state = RestoredState
        /\ base.offset = RestoredOffset

\* Between tasks the ghost lags behind by the last admission only.
Lagging ==
    op.at \in Free =>
        /\ base.txs = txs
        /\ \/ ToSet(base.queue) = ToSet(queue)
           \/ /\ op.req.kind = "submit"
              /\ op.req.arg \notin ToSet(base.queue) \cup txs
              /\ ToSet(queue) = ToSet(base.queue) \cup {op.req.arg}

IInv == Types /\ Placed /\ Once /\ Working /\ PendingOfRoot /\ Clocked /\ Timed /\ Based /\ Lagging
-----------------------------------------------------------------------------
(* Sequences executed and filtered from left to right.                     *)

\* What holds of every length up to some point and not of all has a first
\* length of which it fails.
LEMMA FirstFailure ==
    ASSUME NEW n \in Nat, NEW H \in SUBSET (0..n), H # {}
    PROVE  \E i \in 0..n : i \in H /\ \A j \in 0..n : j \in H => i <= j
<1> DEFINE R == OpToRel(<, Nat)
<1>1. IsWellFoundedOn(R, Nat)
  BY NatLessThanWellFounded
<1>2. H \subseteq Nat
  OBVIOUS
<1> HIDE DEF R
<1>3. PICK i \in H : \A j \in H : ~(<<j, i>> \in R)
  BY <1>1, <1>2, WFMin
<1>4. ASSUME NEW j \in H
      PROVE  i <= j
  <2>1. i \in Nat /\ j \in Nat
    BY <1>2
  <2>2. ~(<<j, i>> \in OpToRel(<, Nat))
    BY <1>3 DEF R
  <2>3. ~(j < i)
    BY <2>1, <2>2 DEF OpToRel
  <2> QED
    BY <2>1, <2>3
<1> QED
  BY <1>4

\* The states after each transaction of a replay.
Replays(time, st, ts, f) ==
    f = [n \in 0..Len(ts) |-> IF n = 0 THEN st ELSE Execute(time, f[n - 1], ts[n])]

LEMMA ReplaysAt ==
    ASSUME NEW time, NEW st, NEW ts, Len(ts) \in Nat, NEW f, Replays(time, st, ts, f)
    PROVE  \A i \in 0..Len(ts) :
              /\ i = 0 => f[i] = st
              /\ i # 0 => f[i] = Execute(time, f[i - 1], ts[i])
<1> TAKE i \in 0..Len(ts)
<1> DEFINE F == [n \in 0..Len(ts) |-> IF n = 0 THEN st ELSE Execute(time, f[n - 1], ts[n])]
<1>1. f = F
  BY DEF Replays
<1>2. /\ i = 0 => F[i] = st
      /\ i # 0 => F[i] = Execute(time, f[i - 1], ts[i])
  OBVIOUS
<1> HIDE DEF F
<1> QED
  BY <1>1, <1>2

\* Two replays agree as far as their transactions do.
LEMMA ReplaysAgree ==
    ASSUME NEW time, NEW st, NEW ts, NEW us, NEW f, NEW g, NEW n \in Nat,
           Len(ts) \in Nat, Len(us) \in Nat, n <= Len(ts), n <= Len(us),
           \A i \in 1..n : ts[i] = us[i],
           Replays(time, st, ts, f), Replays(time, st, us, g)
    PROVE  f[n] = g[n]
<1> DEFINE H == {i \in 0..n : f[i] # g[i]}
<1>1. \A i \in 0..n : /\ i = 0 => f[i] = st /\ g[i] = st
                      /\ i # 0 => /\ f[i] = Execute(time, f[i - 1], ts[i])
                                  /\ g[i] = Execute(time, g[i - 1], us[i])
  <2>1. \A i \in 0..Len(ts) : /\ i = 0 => f[i] = st
                              /\ i # 0 => f[i] = Execute(time, f[i - 1], ts[i])
    BY ReplaysAt
  <2>2. \A i \in 0..Len(us) : /\ i = 0 => g[i] = st
                              /\ i # 0 => g[i] = Execute(time, g[i - 1], us[i])
    BY ReplaysAt
  <2>3. \A i \in 0..n : i \in 0..Len(ts) /\ i \in 0..Len(us)
    OBVIOUS
  <2> QED
    BY <2>1, <2>2, <2>3
<1>2. H = {}
  <2>1. SUFFICES ASSUME H # {} PROVE FALSE
    OBVIOUS
  <2>2. H \in SUBSET (0..n)
    OBVIOUS
  <2>3. PICK i \in 0..n : i \in H /\ \A j \in 0..n : j \in H => i <= j
    <3> HIDE DEF H
    <3> QED
      BY <2>1, <2>2, FirstFailure
  <2>4. i \in 0..n /\ f[i] # g[i]
    BY <2>3
  <2>5. /\ i = 0 => f[i] = st /\ g[i] = st
        /\ i # 0 => /\ f[i] = Execute(time, f[i - 1], ts[i])
                    /\ g[i] = Execute(time, g[i - 1], us[i])
    BY <1>1, <2>4
  <2>6. i # 0
    BY <2>4, <2>5
  <2>7. i - 1 \in 0..n /\ f[i - 1] = g[i - 1] /\ ts[i] = us[i]
    BY <2>3, <2>4, <2>6
  <2> QED
    BY <2>4, <2>5, <2>6, <2>7
<1> QED
  BY <1>2

\* One accepted transaction is appended, a rejected one changes nothing.
LEMMA ExecuteType ==
    ASSUME NEW time, NEW st \in Seq(Effects), NEW t \in Txs
    PROVE  Execute(time, st, t) \in Seq(Effects)
<1>1. t \in Effects
  BY DEF Effects
<1> QED
  BY <1>1, AppendProperties DEF Execute

\* A replay is its last state, and every replay has states.
LEMMA ReplayStates ==
    ASSUME NEW time, NEW st \in Seq(Effects), NEW ts \in Seq(Txs)
    PROVE  \E f \in [0..Len(ts) -> Seq(Effects)] :
              Replays(time, st, ts, f) /\ Replay(time, st, ts) = f[Len(ts)]
<1> DEFINE Upto(n, f) == /\ f \in [0..n -> Seq(Effects)]
                         /\ f[0] = st
                         /\ \A i \in 1..n : f[i] = Execute(time, f[i - 1], ts[i])
           H == {n \in 0..Len(ts) : ~\E f : Upto(n, f)}
<1>1. Len(ts) \in Nat /\ \A i \in 1..Len(ts) : ts[i] \in Txs
  BY LenProperties, ElementOfSeq
<1>2. H = {}
  <2>1. SUFFICES ASSUME H # {} PROVE FALSE
    OBVIOUS
  <2>2. H \in SUBSET (0..Len(ts))
    OBVIOUS
  <2>3. PICK n \in 0..Len(ts) : n \in H /\ \A j \in 0..Len(ts) : j \in H => n <= j
    <3> HIDE DEF H
    <3> QED
      BY <1>1, <2>1, <2>2, FirstFailure
  <2>4. n \in 0..Len(ts) /\ ~\E f : Upto(n, f)
    BY <2>3
  <2>5. CASE n = 0
    <3>1. Upto(0, [i \in 0..0 |-> st])
      OBVIOUS
    <3> QED
      BY <2>4, <2>5, <3>1
  <2>6. CASE n # 0
    <3>1. n - 1 \in 0..Len(ts) /\ n \in 1..Len(ts) /\ n - 1 \notin H
      <4>1. n \in Nat /\ n \in 0..Len(ts) /\ ~(n <= n - 1)
        BY <1>1, <2>2, <2>3, <2>6
      <4>2. n - 1 \in 0..Len(ts) /\ n \in 1..Len(ts)
        BY <1>1, <2>6
      <4>3. n - 1 \notin H
        BY <2>3, <4>1, <4>2
      <4> QED
        BY <4>2, <4>3
    <3>2. PICK f : Upto(n - 1, f)
      BY <3>1
    <3> DEFINE g == [i \in 0..n |-> IF i = n THEN Execute(time, f[n - 1], ts[n]) ELSE f[i]]
    <3>3. Execute(time, f[n - 1], ts[n]) \in Seq(Effects)
      <4>1. f[n - 1] \in Seq(Effects) /\ ts[n] \in Txs
        BY <1>1, <3>1, <3>2
      <4> QED
        BY <4>1, ExecuteType
    <3>4. Upto(n, g)
      <4>1. g \in [0..n -> Seq(Effects)]
        BY <3>1, <3>2, <3>3
      <4>2. g[0] = st
        BY <3>1, <3>2
      <4>3. ASSUME NEW i \in 1..n PROVE g[i] = Execute(time, g[i - 1], ts[i])
        <5>1. CASE i = n
          BY <3>1, <5>1
        <5>2. CASE i # n
          <6>1. i \in 1..(n - 1) /\ i - 1 \in 0..(n - 1) /\ i \in 0..n /\ i - 1 \in 0..n /\ i - 1 # n
            BY <3>1, <5>2
          <6>2. g[i] = f[i] /\ g[i - 1] = f[i - 1]
            BY <5>2, <6>1
          <6> QED
            BY <3>2, <6>1, <6>2
        <5> QED
          BY <5>1, <5>2
      <4> QED
        BY <4>1, <4>2, <4>3
    <3> QED
      BY <2>4, <3>4
  <2> QED
    BY <2>5, <2>6
<1>3. PICK f : Upto(Len(ts), f)
  <2>1. Len(ts) \in 0..Len(ts)
    BY <1>1
  <2>2. Len(ts) \notin H
    BY <1>2 DEF H
  <2> QED
    BY <2>1, <2>2
<1>4. Replays(time, st, ts, f)
  BY <1>1, <1>3 DEF Replays
<1> DEFINE r == CHOOSE g : Replays(time, st, ts, g)
<1>5. Replays(time, st, ts, r)
  BY <1>4
<1>6. Replay(time, st, ts) = r[Len(ts)]
  BY DEF Replay, Replays
<1>7. r[Len(ts)] = f[Len(ts)]
  <2> HIDE DEF r
  <2> QED
    BY <1>1, <1>4, <1>5, ReplaysAgree
<1> QED
  BY <1>3, <1>4, <1>6, <1>7

LEMMA ReplayType ==
    ASSUME NEW time, NEW st \in Seq(Effects), NEW ts \in Seq(Txs)
    PROVE  Replay(time, st, ts) \in Seq(Effects)
<1>1. PICK f \in [0..Len(ts) -> Seq(Effects)] : Replay(time, st, ts) = f[Len(ts)]
  BY ReplayStates
<1>2. Len(ts) \in 0..Len(ts)
  BY LenProperties
<1> QED
  BY <1>1, <1>2

\* A transaction queued last is executed last.
LEMMA ReplayAppend ==
    ASSUME NEW time, NEW st \in Seq(Effects), NEW ts \in Seq(Txs), NEW t \in Txs
    PROVE  Replay(time, st, Append(ts, t)) = Execute(time, Replay(time, st, ts), t)
<1> DEFINE us == Append(ts, t)
           n == Len(ts)
<1>1. /\ us \in Seq(Txs) /\ Len(us) = n + 1 /\ n \in Nat /\ us[n + 1] = t
      /\ \A i \in 1..n : ts[i] = us[i]
  BY AppendProperties, LenProperties
<1>2. PICK f : Replays(time, st, ts, f) /\ Replay(time, st, ts) = f[n]
  BY ReplayStates
<1>3. PICK g : Replays(time, st, us, g) /\ Replay(time, st, us) = g[Len(us)]
  <2> HIDE DEF us
  <2> QED
    BY <1>1, ReplayStates
<1>4. g[n] = f[n]
  <2> HIDE DEF us
  <2> QED
    BY <1>1, <1>2, <1>3, ReplaysAgree
<1>5. \A i \in 0..Len(us) : i # 0 => g[i] = Execute(time, g[i - 1], us[i])
  <2> HIDE DEF us
  <2> QED
    BY <1>1, <1>3, ReplaysAt
<1>6. n + 1 \in 0..Len(us) /\ n + 1 # 0 /\ n + 1 - 1 = n
  BY <1>1
<1>7. g[n + 1] = Execute(time, g[n], t)
  <2> HIDE DEF us, n
  <2> QED
    BY <1>1, <1>5, <1>6
<1> QED
  BY <1>1, <1>2, <1>3, <1>4, <1>7

\* What is kept after each transaction of a queue.
Keeps(ts, gone, f) ==
    f = [n \in 0..Len(ts) |->
            IF n = 0 THEN << >>
            ELSE IF ts[n] \in gone THEN f[n - 1] ELSE Append(f[n - 1], ts[n])]

LEMMA KeepsAt ==
    ASSUME NEW ts, Len(ts) \in Nat, NEW gone, NEW f, Keeps(ts, gone, f)
    PROVE  \A i \in 0..Len(ts) :
              /\ i = 0 => f[i] = << >>
              /\ i # 0 /\ ts[i] \in gone => f[i] = f[i - 1]
              /\ i # 0 /\ ts[i] \notin gone => f[i] = Append(f[i - 1], ts[i])
<1> TAKE i \in 0..Len(ts)
<1> DEFINE F == [n \in 0..Len(ts) |->
                    IF n = 0 THEN << >>
                    ELSE IF ts[n] \in gone THEN f[n - 1] ELSE Append(f[n - 1], ts[n])]
<1>1. f = F
  BY DEF Keeps
<1>2. /\ i = 0 => F[i] = << >>
      /\ i # 0 /\ ts[i] \in gone => F[i] = f[i - 1]
      /\ i # 0 /\ ts[i] \notin gone => F[i] = Append(f[i - 1], ts[i])
  OBVIOUS
<1> HIDE DEF F
<1> QED
  BY <1>1, <1>2

\* There is such a function.
LEMMA KeptStates ==
    ASSUME NEW ts \in Seq(Txs), NEW gone
    PROVE  \E f : Keeps(ts, gone, f)
<1> DEFINE Upto(n, f) == /\ f \in [0..n -> Seq(Txs)]
                         /\ f[0] = << >>
                         /\ \A i \in 1..n : f[i] = IF ts[i] \in gone THEN f[i - 1]
                                                   ELSE Append(f[i - 1], ts[i])
           H == {n \in 0..Len(ts) : ~\E f : Upto(n, f)}
<1>1. Len(ts) \in Nat /\ \A i \in 1..Len(ts) : ts[i] \in Txs
  BY LenProperties, ElementOfSeq
<1>2. H = {}
  <2>1. SUFFICES ASSUME H # {} PROVE FALSE
    OBVIOUS
  <2>2. H \in SUBSET (0..Len(ts))
    OBVIOUS
  <2>3. PICK n \in 0..Len(ts) : n \in H /\ \A j \in 0..Len(ts) : j \in H => n <= j
    <3> HIDE DEF H
    <3> QED
      BY <1>1, <2>1, <2>2, FirstFailure
  <2>4. n \in 0..Len(ts) /\ ~\E f : Upto(n, f)
    BY <2>3
  <2>5. CASE n = 0
    <3>1. << >> \in Seq(Txs)
      BY EmptySeq
    <3>2. Upto(0, [i \in 0..0 |-> << >>])
      BY <3>1
    <3> QED
      BY <2>4, <2>5, <3>2
  <2>6. CASE n # 0
    <3>1. n - 1 \in 0..Len(ts) /\ n \in 1..Len(ts) /\ n - 1 \notin H
      <4>1. n \in Nat /\ n \in 0..Len(ts) /\ ~(n <= n - 1)
        BY <1>1, <2>2, <2>3, <2>6
      <4>2. n - 1 \in 0..Len(ts) /\ n \in 1..Len(ts)
        BY <1>1, <2>6
      <4>3. n - 1 \notin H
        BY <2>3, <4>1, <4>2
      <4> QED
        BY <4>2, <4>3
    <3>2. PICK f : Upto(n - 1, f)
      BY <3>1
    <3> DEFINE e == IF ts[n] \in gone THEN f[n - 1] ELSE Append(f[n - 1], ts[n])
               g == [i \in 0..n |-> IF i = n THEN e ELSE f[i]]
    <3>3. e \in Seq(Txs)
      <4>1. f[n - 1] \in Seq(Txs) /\ ts[n] \in Txs
        BY <1>1, <3>1, <3>2
      <4> QED
        BY <4>1, AppendProperties
    <3>4. Upto(n, g)
      <4>1. g \in [0..n -> Seq(Txs)]
        <5> HIDE DEF e
        <5> QED
          BY <3>1, <3>2, <3>3
      <4>2. g[0] = << >>
        BY <3>1, <3>2
      <4>3. ASSUME NEW i \in 1..n
            PROVE  g[i] = IF ts[i] \in gone THEN g[i - 1] ELSE Append(g[i - 1], ts[i])
        <5>1. CASE i = n
          BY <3>1, <5>1
        <5>2. CASE i # n
          <6>1. i \in 1..(n - 1) /\ i - 1 \in 0..(n - 1) /\ i \in 0..n /\ i - 1 \in 0..n /\ i - 1 # n
            BY <3>1, <5>2
          <6>2. g[i] = f[i] /\ g[i - 1] = f[i - 1]
            BY <5>2, <6>1
          <6> QED
            BY <3>2, <6>1, <6>2
        <5> QED
          BY <5>1, <5>2
      <4> QED
        BY <4>1, <4>2, <4>3
    <3> QED
      BY <2>4, <3>4
  <2> QED
    BY <2>5, <2>6
<1>3. PICK f : Upto(Len(ts), f)
  <2>1. Len(ts) \in 0..Len(ts)
    BY <1>1
  <2>2. Len(ts) \notin H
    BY <1>2 DEF H
  <2> QED
    BY <2>1, <2>2
<1>4. Keeps(ts, gone, f)
  <2>1. \A i \in 0..Len(ts) :
           f[i] = IF i = 0 THEN << >>
                  ELSE IF ts[i] \in gone THEN f[i - 1] ELSE Append(f[i - 1], ts[i])
    <3> TAKE i \in 0..Len(ts)
    <3>1. CASE i = 0
      BY <1>3, <3>1
    <3>2. CASE i # 0
      <4>1. i \in 1..Len(ts)
        BY <1>1, <3>2
      <4> QED
        BY <1>3, <3>2, <4>1
    <3> QED
      BY <3>1, <3>2
  <2>2. f = [i \in 0..Len(ts) |-> f[i]]
    BY <1>3
  <2> QED
    BY <2>1, <2>2 DEF Keeps
<1> QED
  BY <1>4

\* Deleting transactions leaves the others, in a queue without repetitions.
LEMMA WithoutFacts ==
    ASSUME NEW ts \in Seq(Txs), NEW gone
    PROVE  /\ Without(ts, gone) \in Seq(Txs)
           /\ ToSet(Without(ts, gone)) = ToSet(ts) \ gone
           /\ IsInjective(ts) => IsInjective(Without(ts, gone))
<1> DEFINE r == CHOOSE f : Keeps(ts, gone, f)
           Kept(n) == /\ r[n] \in Seq(Txs)
                      /\ ToSet(r[n]) = {ts[i] : i \in 1..n} \ gone
                      /\ IsInjective(ts) => IsInjective(r[n])
           H == {n \in 0..Len(ts) : ~Kept(n)}
<1>1. Len(ts) \in Nat /\ (\A i \in 1..Len(ts) : ts[i] \in Txs) /\ DOMAIN ts = 1..Len(ts)
  BY LenProperties, ElementOfSeq
<1>2. Without(ts, gone) = r[Len(ts)]
  BY DEF Without, Keeps
<1>3. Keeps(ts, gone, r)
  BY KeptStates
<1> HIDE DEF r
<1>4. \A i \in 0..Len(ts) :
         /\ i = 0 => r[i] = << >>
         /\ i # 0 /\ ts[i] \in gone => r[i] = r[i - 1]
         /\ i # 0 /\ ts[i] \notin gone => r[i] = Append(r[i - 1], ts[i])
  BY <1>1, <1>3, KeepsAt
<1>5. H = {}
  <2>1. SUFFICES ASSUME H # {} PROVE FALSE
    OBVIOUS
  <2>2. H \in SUBSET (0..Len(ts))
    OBVIOUS
  <2>3. PICK n \in 0..Len(ts) : n \in H /\ \A j \in 0..Len(ts) : j \in H => n <= j
    <3> HIDE DEF H
    <3> QED
      BY <1>1, <2>1, <2>2, FirstFailure
  <2>4. ~Kept(n)
    BY <2>3
  <2>5. CASE n = 0
    <3>1. r[n] = << >>
      BY <1>4, <2>5
    <3>2. << >> \in Seq(Txs) /\ ToSet(<< >>) = {} /\ IsInjective(<< >>) /\ 1..n = {}
      BY <2>5, EmptySeq DEF ToSet, IsInjective
    <3> QED
      BY <2>4, <3>1, <3>2
  <2>6. CASE n # 0
    <3>1. n \in 1..Len(ts) /\ n - 1 \in 0..Len(ts) /\ 1..n = 1..(n - 1) \cup {n} /\ n - 1 \notin H
      <4>1. n \in Nat /\ ~(n <= n - 1) /\ n - 1 \in 0..Len(ts) /\ n \in 1..Len(ts)
        BY <1>1, <2>6
      <4>2. n - 1 \notin H
        <5> HIDE DEF H
        <5> QED
          BY <2>3, <4>1
      <4>3. 1..n = 1..(n - 1) \cup {n}
        BY <4>1
      <4> QED
        BY <4>1, <4>2, <4>3
    <3>2. Kept(n - 1)
      BY <3>1
    <3>3. CASE ts[n] \in gone
      <4>1. r[n] = r[n - 1]
        BY <1>4, <2>6, <3>3
      <4>2. {ts[i] : i \in 1..n} \ gone = {ts[i] : i \in 1..(n - 1)} \ gone
        BY <3>1, <3>3
      <4> QED
        BY <2>4, <3>2, <4>1, <4>2
    <3>4. CASE ts[n] \notin gone
      <4> DEFINE s == r[n - 1]
      <4>1. r[n] = Append(s, ts[n])
        BY <1>4, <2>6, <3>4
      <4>2. s \in Seq(Txs) /\ ts[n] \in Txs
        BY <1>1, <3>1, <3>2
      <4> HIDE DEF s
      <4>3. /\ Append(s, ts[n]) \in Seq(Txs) /\ Len(Append(s, ts[n])) = Len(s) + 1
            /\ \A i \in 1..Len(s) : Append(s, ts[n])[i] = s[i]
            /\ Append(s, ts[n])[Len(s) + 1] = ts[n]
            /\ Len(s) \in Nat /\ DOMAIN s = 1..Len(s)
            /\ DOMAIN Append(s, ts[n]) = 1..(Len(s) + 1)
        BY <4>2, AppendProperties, LenProperties
      <4>4. ToSet(Append(s, ts[n])) = ToSet(s) \cup {ts[n]}
        BY <4>3 DEF ToSet
      <4>5. ToSet(s) = {ts[i] : i \in 1..(n - 1)} \ gone
        BY <3>2 DEF s
      <4>6. ToSet(Append(s, ts[n])) = {ts[i] : i \in 1..n} \ gone
        BY <3>1, <3>4, <4>4, <4>5
      <4>7. ASSUME IsInjective(ts) PROVE IsInjective(Append(s, ts[n]))
        <5>1. IsInjective(s)
          BY <3>2, <4>7 DEF s
        <5>2. ts[n] \notin ToSet(s)
          <6>1. \A i \in 1..(n - 1) : ts[i] # ts[n]
            BY <1>1, <3>1, <4>7 DEF IsInjective
          <6> QED
            BY <4>5, <6>1
        <5> QED
          BY <4>3, <5>1, <5>2 DEF IsInjective, ToSet
      <4> QED
        BY <2>4, <4>1, <4>3, <4>6, <4>7
    <3> QED
      BY <3>3, <3>4
  <2> QED
    BY <2>5, <2>6
<1>6. Kept(Len(ts))
  <2>1. Len(ts) \in 0..Len(ts)
    BY <1>1
  <2> QED
    BY <1>5, <2>1
<1> QED
  BY <1>1, <1>2, <1>6 DEF ToSet

-----------------------------------------------------------------------------
(* The invariant at the start, and steps outside the task.                 *)

LEMMA Bounds ==
    /\ MaxTime \in Nat /\ MaxSource \in Nat /\ MaxMine \in Nat /\ MaxWaiting \in Nat
    /\ MaxRequests \in Nat /\ MaxTicks \in Nat /\ MaxFaults \in Nat
    /\ 0..MaxSource \subseteq Nat
BY MiningAssumption

\* What the types give the steps below.
LEMMA Typed ==
    ASSUME IInv
    PROVE  /\ state \in Seq(Effects) /\ blocks \in Seq(Block) /\ Len(blocks) \in Nat \ {0}
           /\ queue \in Seq(Txs) /\ txs \subseteq Txs /\ mode \in Nat /\ source \in Nat /\ offset \in Nat
           /\ head \in Block /\ head.ts \in 0..MaxTime /\ head.ts \in Nat
           /\ op \in Task /\ op.req \in Requests \cup Ticks /\ op.at \in Places /\ op.left \in Nat
           /\ op.clock \in Nat /\ op.root \in Seq(Effects)
<1>1. Len(blocks) \in Nat \ {0}
  BY EmptySeq DEF IInv, Types, TypeOK
<1>2. head \in Block
  BY <1>1, ElementOfSeq DEF IInv, Types, TypeOK, head
<1>3. mode \in Nat /\ source \in Nat
  BY MiningAssumption DEF IInv, Types, TypeOK
<1>4. head.ts \in 0..MaxTime /\ head.ts \in Nat
  BY <1>2, MiningAssumption DEF Block
<1> QED
  BY <1>1, <1>2, <1>3, <1>4, MiningAssumption DEF IInv, Types, TypeOK, Task

\* The committed blocks, with or without one in the store that may still go.
LEMMA CommittedHead ==
    ASSUME IInv
    PROVE  /\ Committed \in Seq(Block) /\ Len(Committed) \in Nat \ {0}
           /\ Committed[Len(Committed)] \in Block
           /\ Committed[Len(Committed)].ts \in Nat
           /\ ~Sealed => Committed = blocks /\ Committed[Len(Committed)] = head
           /\ Sealed => /\ Len(Committed) = Len(blocks) - 1
                        /\ \A i \in 1..(Len(blocks) - 1) : Committed[i] = blocks[i]
<1>1. CASE ~Sealed
  BY <1>1, Typed DEF Committed, head
<1>2. CASE Sealed
  <2>1. Len(blocks) > 1 /\ Len(blocks) \in Nat
    BY <1>2, Typed DEF IInv, Working, Sealed
  <2>2. \A i \in 1..(Len(blocks) - 1) : blocks[i] \in Block
    BY <2>1, Typed, ElementOfSeq
  <2>3. /\ Committed \in Seq(Block) /\ Len(Committed) = Len(blocks) - 1
        /\ \A i \in 1..(Len(blocks) - 1) : Committed[i] = blocks[i]
    BY <1>2, <2>1, <2>2, SubSeqProperties DEF Committed
  <2>4. Committed[Len(Committed)] \in Block
    BY <2>1, <2>2, <2>3
  <2>5. Committed[Len(Committed)].ts \in Nat
    BY <2>4, MiningAssumption DEF Block
  <2> QED
    BY <1>2, <2>1, <2>3, <2>4, <2>5
<1> QED
  BY <1>1, <1>2

LEMMA Counters ==
    ASSUME IInv
    PROVE  /\ spent.requests + 1 \in Nat /\ spent.ticks + 1 \in Nat
           /\ spent.faults + 1 \in Nat /\ spent.timers + 1 \in Timers
           /\ \A k \in Nat :
                 /\ [spent EXCEPT !.requests = k] \in [requests : Nat, ticks : Nat, faults : Nat, timers : Nat]
                 /\ [spent EXCEPT !.ticks = k] \in [requests : Nat, ticks : Nat, faults : Nat, timers : Nat]
                 /\ [spent EXCEPT !.faults = k] \in [requests : Nat, ticks : Nat, faults : Nat, timers : Nat]
                 /\ [spent EXCEPT !.timers = k] \in [requests : Nat, ticks : Nat, faults : Nat, timers : Nat]
<1>1. spent \in [requests : Nat, ticks : Nat, faults : Nat, timers : Nat]
  BY DEF IInv, Types
<1>2. \A k \in Nat : k + 1 \in Nat /\ k + 1 \in Timers
  BY DEF Timers
<1> QED
  BY <1>1, <1>2

LEMMA OutsideStep ==
    ASSUME IInv, waiting' \in Seq(Requests \cup Ticks), source' \in 0..MaxSource, source <= source',
           spent' \in [requests : Nat, ticks : Nat, faults : Nat, timers : Nat],
           UNCHANGED <<chain, miner, pending, offset, op, bp, base>>
    PROVE  IInv'
<1> USE DEF chain, miner
<1>1. Types'
  BY DEF IInv, Types, TypeOK
<1>2. (Placed /\ Once /\ Working /\ PendingOfRoot /\ Timed /\ Based /\ Lagging)'
  <2>1. Sealed' = Sealed /\ Committed' = Committed /\ CheatMines' = CheatMines
        /\ RestoredState' = RestoredState /\ RestoredOffset' = RestoredOffset /\ head' = head
    BY DEF Sealed, Committed, CheatMines, RestoredState, RestoredOffset, head
  <2>2. Placed' /\ Timed' /\ Lagging'
    BY DEF IInv, Placed, Timed, Lagging
  <2>3. Once' /\ Working'
    BY <2>1 DEF IInv, Once, Working
  <2>4. PendingOfRoot' /\ Based'
    BY <2>1 DEF IInv, PendingOfRoot, Based
  <2> QED
    BY <2>2, <2>3, <2>4
<1>3. Clocked'
  <2>1. Committed' = Committed /\ RestoredOffset' = RestoredOffset
    BY DEF Sealed, Committed, RestoredOffset
  <2>2. Committed[Len(Committed)].ts \in Nat
    BY CommittedHead
  <2>3. source \in Nat /\ source' \in Nat /\ RestoredOffset \in Nat
    BY Typed, Bounds DEF RestoredOffset
  <2>4. Clocked
    BY DEF IInv
  <2>5. Committed[Len(Committed)].ts <= source' + RestoredOffset
    <3>1. Committed[Len(Committed)].ts <= source + RestoredOffset
      BY <2>4 DEF Clocked
    <3>2. ASSUME NEW t \in Nat, NEW x \in Nat, NEW y \in Nat, NEW z \in Nat, t <= x + z, x <= y
          PROVE  t <= y + z
      BY <3>2
    <3> QED
      BY <2>2, <2>3, <3>1, <3>2
  <2>6. /\ \A n \in 2..Len(blocks) : blocks[n - 1].ts <= blocks[n].ts
        /\ bp # None => Committed[Len(Committed)].ts <= bp.ts
    BY <2>4 DEF Clocked
  <2> QED
    BY <2>1, <2>5, <2>6 DEF Clocked
<1> QED
  BY <1>1, <1>2, <1>3 DEF IInv

LEMMA ArriveStep == ASSUME IInv, NEW r \in Requests, Arrive(r) PROVE IInv'
<1>1. waiting' \in Seq(Requests \cup Ticks)
  BY AppendProperties DEF Arrive, IInv, Types, TypeOK
<1>2. spent' \in [requests : Nat, ticks : Nat, faults : Nat, timers : Nat]
  BY Counters DEF Arrive
<1>3. source' = source /\ source \in 0..MaxSource /\ source <= source
  BY Typed DEF Arrive, IInv, Types, TypeOK
<1> QED
  BY <1>1, <1>2, <1>3, OutsideStep DEF Arrive

LEMMA FireStep == ASSUME IInv, Fire PROVE IInv'
<1>1. [kind |-> "tick", arg |-> timer] \in Ticks
  BY DEF Fire, Ticks, IInv, Types, TypeOK
<1>2. waiting' \in Seq(Requests \cup Ticks)
  BY <1>1, AppendProperties DEF Fire, IInv, Types, TypeOK
<1>3. spent' \in [requests : Nat, ticks : Nat, faults : Nat, timers : Nat]
  <2> DEFINE k == IF spent.ticks < MaxTicks THEN spent.ticks + 1 ELSE spent.ticks
  <2>1. k \in Nat
    BY DEF IInv, Types
  <2>2. spent' = [spent EXCEPT !.ticks = k]
    BY DEF Fire
  <2> HIDE DEF k
  <2> QED
    BY <2>1, <2>2 DEF IInv, Types
<1>4. source' = source /\ source \in 0..MaxSource /\ source <= source
  BY Typed DEF Fire, IInv, Types, TypeOK
<1> QED
  BY <1>2, <1>3, <1>4, OutsideStep DEF Fire

LEMMA PassTimeStep == ASSUME IInv, PassTime PROVE IInv'
<1>1. source' \in 0..MaxSource /\ source <= source'
  BY Bounds DEF PassTime, IInv, Types, TypeOK
<1> QED
  BY <1>1, OutsideStep DEF PassTime, IInv, Types, TypeOK

\* The lock is taken: the ghost is what clients see.
LEMMA AcquireStep == ASSUME IInv, Acquire PROVE IInv'
<1> USE DEF Acquire, chain, miner
<1>1. /\ op.at \in Free /\ bp = None /\ bp' = None /\ ~Sealed
      /\ op'.at = "start" /\ op'.root = state /\ op'.clock = offset /\ op' \in Task
      /\ op'.req \in Requests \cup Ticks
      /\ waiting' \in Seq(Requests \cup Ticks)
  <2>1. Head(waiting) \in Requests \cup Ticks /\ Tail(waiting) \in Seq(Requests \cup Ticks)
    BY HeadTailProperties DEF IInv, Types, TypeOK
  <2>2. state \in Seq(Effects) /\ offset \in Nat
    BY Typed
  <2> QED
    BY <2>1, <2>2 DEF IInv, Placed, Sealed, Task, Places
<1>2. Committed' = blocks /\ Committed = blocks /\ ~Sealed' /\ ~CheatMines' /\ head' = head
      /\ RestoredState' = state /\ RestoredOffset' = offset
  BY <1>1 DEF Sealed, Committed, CheatMines, RestoredState, RestoredOffset, head
<1>3. RestoredState = state /\ RestoredOffset = offset /\ ~CheatMines
  BY <1>1 DEF Free, CheatMines, RestoredState, RestoredOffset
<1>4. base' = [state |-> state, blocks |-> blocks, txs |-> txs, queue |-> queue,
               mode |-> mode, timer |-> timer, offset |-> offset]
  BY DEF Chain
<1>5. Types'
  BY <1>1, <1>4 DEF IInv, Types, TypeOK
<1>6. Placed' /\ Timed'
  BY <1>1 DEF IInv, Placed, Timed, Free
<1>7. Once' /\ Working'
  BY <1>1, <1>2 DEF IInv, Once, Working, Free
<1>8. PendingOfRoot' /\ Clocked'
  BY <1>1, <1>2, <1>3 DEF IInv, PendingOfRoot, Clocked
<1>9. Based' /\ Lagging'
  BY <1>1, <1>2, <1>4 DEF IInv, Based, Lagging, Once, Free
<1> QED
  BY <1>5, <1>6, <1>7, <1>8, <1>9 DEF IInv
-----------------------------------------------------------------------------
(* Steps that only move the task.                                          *)

LEMMA TaskMoves ==
    ASSUME IInv, op.at \notin Free, bp = None, OnlyTask,
           NEW o \in Task, op' = o, o.req = op.req, o.root = op.root, o.clock = op.clock,
           o.req.kind \notin {"cheat", "increaseTime"}, o.at # "start",
           o.at = "mining" => /\ o.req.kind \in {"mine", "tick"}
                              /\ o.req.kind = "tick" => o.req.arg = timer /\ o.left \in {0, 1},
           o.at \in {"drain", "ready"} => o.req.kind \in {"submit", "setBlockTime"},
           o.at \in {"drain", "ready"} /\ o.req.kind = "submit" => o.req.arg \notin ToSet(queue) \cup txs,
           o.at = "ready" /\ o.req.kind = "setBlockTime" /\ o.req.arg = 0 => queue = << >>
    PROVE  IInv' /\ Chain' = base
<1> USE DEF OnlyTask, chain, miner, env
<1>1. /\ ~Sealed /\ ~Sealed' /\ Committed = blocks /\ Committed' = blocks /\ head' = head
      /\ ~CheatMines /\ ~CheatMines' /\ RestoredState = state /\ RestoredState' = state
      /\ RestoredOffset = offset /\ RestoredOffset' = offset
  BY DEF Sealed, Committed, CheatMines, RestoredState, RestoredOffset, head
<1>2. base = [state |-> state, blocks |-> blocks, txs |-> txs, queue |-> queue,
              mode |-> mode, timer |-> timer, offset |-> offset]
  <2>1. /\ base.queue = queue /\ base.mode = mode /\ base.timer = timer
        /\ base.blocks = blocks /\ base.txs = txs /\ base.state = state /\ base.offset = offset
    BY <1>1 DEF IInv, Based, Once
  <2> QED
    BY <2>1 DEF IInv, Types
<1>3. Types'
  BY DEF IInv, Types, TypeOK
<1>4. Placed' /\ Timed'
  BY DEF IInv, Placed, Timed, Free
<1>5. Once' /\ Working'
  BY <1>1 DEF IInv, Once, Working
<1>6. PendingOfRoot' /\ Clocked'
  BY <1>1 DEF IInv, PendingOfRoot, Clocked
<1>7. Based' /\ Lagging'
  BY <1>1, <1>2 DEF IInv, Based, Lagging, Once
<1> QED
  BY <1>2, <1>3, <1>4, <1>5, <1>6, <1>7 DEF IInv, Chain

\* A request refused before anything was done; the start of a task that changes
\* nothing by itself.
LEMMA SubmitDuplicateStep == ASSUME IInv, SubmitDuplicate PROVE IInv' /\ Chain' = base
<1> DEFINE o == [op EXCEPT !.at = "failed"]
<1>1. /\ op.at \notin Free /\ bp = None /\ OnlyTask /\ op' = o
      /\ op.req.kind = "submit" /\ op \in Task
  BY Typed DEF SubmitDuplicate, At, Settle, Free
<1>2. /\ o \in Task /\ o.req = op.req /\ o.root = op.root /\ o.clock = op.clock /\ o.at = "failed"
  BY <1>1 DEF Task, Places, Free
<1> HIDE DEF o
<1> QED
  BY <1>1, <1>2, TaskMoves

LEMMA SubmitInstantStep == ASSUME IInv, SubmitInstant PROVE IInv' /\ Chain' = base
<1> DEFINE o == [op EXCEPT !.at = "drain"]
<1>1. /\ op.at \notin Free /\ bp = None /\ OnlyTask /\ op' = o
      /\ op.req.kind = "submit" /\ op \in Task /\ op.req.arg \notin txs
      /\ \A i \in 1..Len(queue) : queue[i] # op.req.arg
  BY Typed DEF SubmitInstant, At, Settle, Free, known
<1>2. /\ o \in Task /\ o.req = op.req /\ o.root = op.root /\ o.clock = op.clock /\ o.at = "drain"
  BY <1>1 DEF Task, Places, Free
<1>3. op.req.arg \notin ToSet(queue)
  BY <1>1, Typed, LenProperties DEF ToSet
<1> HIDE DEF o
<1> QED
  BY <1>1, <1>2, <1>3, TaskMoves

LEMMA PreviewRejectedStep == ASSUME IInv, PreviewRejected PROVE IInv' /\ Chain' = base
<1> DEFINE o == [op EXCEPT !.at = "failed"]
<1>1. /\ op.at \notin Free /\ bp = None /\ OnlyTask /\ op' = o
      /\ op.req.kind = "submit" /\ op \in Task
  BY Typed DEF PreviewRejected, At, Settle, Free
<1>2. /\ o \in Task /\ o.req = op.req /\ o.root = op.root /\ o.clock = op.clock /\ o.at = "failed"
  BY <1>1 DEF Task, Places, Free
<1> HIDE DEF o
<1> QED
  BY <1>1, <1>2, TaskMoves

LEMMA StartMineStep == ASSUME IInv, StartMine PROVE IInv' /\ Chain' = base
<1> DEFINE o == [op EXCEPT !.at = "mining", !.left = op.req.arg]
<1>1. /\ op.at \notin Free /\ bp = None /\ OnlyTask /\ op' = o
      /\ op.req.kind = "mine" /\ op \in Task /\ op.req \in Requests \cup Ticks
  BY Typed DEF StartMine, At, Free
<1>2. op.req.arg \in Nat
  BY <1>1, Bounds DEF Requests, Ticks
<1>3. /\ o \in Task /\ o.req = op.req /\ o.root = op.root /\ o.clock = op.clock /\ o.at = "mining"
  BY <1>1, <1>2 DEF Task, Places, Free
<1> HIDE DEF o
<1> QED
  BY <1>1, <1>3, TaskMoves

LEMMA StartTickStep == ASSUME IInv, StartTick PROVE IInv' /\ Chain' = base
<1>1. op.at \notin Free /\ bp = None /\ OnlyTask /\ op.req.kind = "tick" /\ op \in Task
  BY Typed DEF StartTick, At, Free
<1>2. CASE TickCurrent(op.req.arg)
  <2> DEFINE o == [op EXCEPT !.at = "mining", !.left = 1]
  <2>1. op' = o
    BY <1>2 DEF StartTick
  <2>2. /\ o \in Task /\ o.req = op.req /\ o.root = op.root /\ o.clock = op.clock
        /\ o.at = "mining" /\ o.left = 1
    BY <1>1 DEF Task, Places, Free
  <2> HIDE DEF o
  <2> QED
    BY <1>1, <1>2, <2>1, <2>2, TaskMoves DEF TickCurrent
<1>3. CASE ~TickCurrent(op.req.arg)
  <2> DEFINE o == [op EXCEPT !.at = "done"]
  <2>1. op' = o
    BY <1>3 DEF StartTick, Settle
  <2>2. /\ o \in Task /\ o.req = op.req /\ o.root = op.root /\ o.clock = op.clock /\ o.at = "done"
    BY <1>1 DEF Task, Places, Free
  <2> HIDE DEF o
  <2> QED
    BY <1>1, <2>1, <2>2, TaskMoves
<1> QED
  BY <1>2, <1>3

LEMMA StartSetBlockTimeStep == ASSUME IInv, StartSetBlockTime PROVE IInv' /\ Chain' = base
<1> DEFINE o == [op EXCEPT !.at = FirstStage]
<1>1. /\ op.at \notin Free /\ bp = None /\ OnlyTask /\ op' = o
      /\ op.req.kind = "setBlockTime" /\ op \in Task
  BY Typed DEF StartSetBlockTime, At, Settle, Free
<1>2. FirstStage \in {"drain", "ready"} /\ (FirstStage = "ready" => op.req.arg # 0)
  BY DEF FirstStage
<1>3. /\ o \in Task /\ o.req = op.req /\ o.root = op.root /\ o.clock = op.clock
      /\ o.at = FirstStage
  BY <1>1, <1>2 DEF Task, Places, Free
<1> HIDE DEF o
<1> QED
  BY <1>1, <1>2, <1>3, TaskMoves

LEMMA DrainOverStep == ASSUME IInv, DrainOver PROVE IInv' /\ Chain' = base
<1> DEFINE o == [op EXCEPT !.at = "ready"]
<1>1. /\ op.at = "drain" /\ op.at \notin Free /\ bp = None /\ OnlyTask /\ op' = o
      /\ op \in Task /\ queue = << >>
  BY Typed DEF DrainOver, Settle, Free
<1>2. /\ op.req.kind \in {"submit", "setBlockTime"}
      /\ op.req.kind = "submit" => op.req.arg \notin ToSet(queue) \cup txs
  BY <1>1 DEF IInv, Placed, Working, Once, Sealed, Committed
<1>3. /\ o \in Task /\ o.req = op.req /\ o.root = op.root /\ o.clock = op.clock /\ o.at = "ready"
  BY <1>1 DEF Task, Places, Free
<1> HIDE DEF o
<1> QED
  BY <1>1, <1>2, <1>3, TaskMoves
-----------------------------------------------------------------------------
(* Steps that fail the task.                                               *)

LEMMA TaskFails ==
    ASSUME IInv, op.at \notin Free, CheatMines => op.left # 0,
           NEW o \in Task, op' = o, o.req = op.req, o.at = "failed", bp' = None,
           state' = base.state, blocks' = base.blocks, txs' = base.txs, offset' = base.offset,
           UNCHANGED <<miner, base, waiting, source>>,
           spent' \in [requests : Nat, ticks : Nat, faults : Nat, timers : Nat],
           \/ pending' = pending
           \/ ~Sealed /\ pending' = Replay(head.ts, RestoredState, queue)
    PROVE  IInv' /\ Chain' = base
<1> USE DEF miner
<1>1. /\ base.queue = queue /\ base.mode = mode /\ base.timer = timer
      /\ base.blocks = Committed /\ base.txs = MinedIn(Committed)
      /\ base.state = RestoredState /\ base.offset = RestoredOffset
  BY DEF IInv, Based
<1>2. base = [state |-> state', blocks |-> blocks', txs |-> txs', queue |-> queue',
              mode |-> mode', timer |-> timer', offset |-> offset']
  BY <1>1 DEF IInv, Types
<1>3. /\ ~Sealed' /\ Committed' = Committed /\ ~CheatMines' /\ RestoredState' = RestoredState
      /\ RestoredOffset' = RestoredOffset /\ head' = Committed[Len(Committed)]
  BY <1>1 DEF Sealed, Committed, CheatMines, RestoredState, RestoredOffset, head
<1>4. Types'
  <2>1. /\ state' \in Seq(Effects) /\ blocks' \in Seq(Block) /\ txs' \subseteq Txs /\ offset' \in Nat
        /\ blocks' # << >>
    BY <1>1, CommittedHead, EmptySeq DEF IInv, Types
  <2>2. pending' \in Seq(Effects) \cup {None}
    <3>1. Replay(head.ts, RestoredState, queue) \in Seq(Effects)
      BY <1>1, Typed, ReplayType DEF IInv, Types
    <3> QED
      BY <3>1 DEF IInv, Types, TypeOK
  <2> QED
    BY <2>1, <2>2 DEF IInv, Types, TypeOK
<1>5. Placed' /\ Timed'
  BY DEF IInv, Placed, Timed, Free
<1>6. Once'
  <2>1. /\ \A n \in 1..Len(Committed) : IsInjective(Committed[n].txs)
        /\ \A m, n \in 1..Len(Committed) : m # n =>
              ToSet(Committed[m].txs) \cap ToSet(Committed[n].txs) = {}
    <3>1. Len(blocks) \in Nat
      BY Typed
    <3>2. Len(Committed) <= Len(blocks) /\ \A n \in 1..Len(Committed) : Committed[n] = blocks[n]
      BY <3>1, CommittedHead
    <3>3. \A n \in 1..Len(Committed) : n \in 1..Len(blocks)
      BY <3>1, <3>2, CommittedHead
    <3>4. Once
      BY DEF IInv
    <3> QED
      BY <3>2, <3>3, <3>4 DEF Once
  <2>2. IsInjective(queue) /\ ToSet(queue) \cap MinedIn(Committed) = {}
    BY DEF IInv, Once
  <2> QED
    BY <1>1, <1>3, <2>1, <2>2 DEF Once
<1>7. Working'
  BY <1>3 DEF Working
<1>8. PendingOfRoot'
  <2>1. CASE Sealed
    BY <1>3, <2>1 DEF IInv, PendingOfRoot
  <2>2. CASE ~Sealed
    BY <1>3, <2>2, CommittedHead DEF IInv, PendingOfRoot
  <2> QED
    BY <2>1, <2>2
<1>9. Clocked'
  <2>1. \A n \in 2..Len(Committed) : Committed[n - 1].ts <= Committed[n].ts
    <3>1. Len(blocks) \in Nat
      BY Typed
    <3>2. /\ Len(Committed) \in Nat /\ Len(Committed) <= Len(blocks)
          /\ \A n \in 1..Len(Committed) : Committed[n] = blocks[n]
      BY <3>1, CommittedHead
    <3>3. \A n \in 2..Len(Committed) : n \in 2..Len(blocks) /\ n \in 1..Len(Committed)
                                      /\ n - 1 \in 1..Len(Committed)
      BY <3>1, <3>2
    <3> QED
      BY <3>2, <3>3 DEF IInv, Clocked
  <2> QED
    BY <1>1, <1>3, <2>1 DEF IInv, Clocked
<1>10. Based' /\ Lagging'
  BY <1>1, <1>3 DEF Based, Lagging, Free
<1> QED
  BY <1>2, <1>4, <1>5, <1>6, <1>7, <1>8, <1>9, <1>10 DEF IInv, Chain

\* Interval mode: an accepted transaction is queued behind those the pending
\* state has executed; a refused one leaves the pending state that was built.
LEMMA PendingIs ==
    ASSUME IInv, bp = None, ~CheatMines
    PROVE  /\ getPendingState = Replay(head.ts, state, queue)
           /\ RestoredState = state /\ ~Sealed
BY DEF IInv, PendingOfRoot, RestoredState, getPendingState, Sealed

LEMMA SubmitPendingStep ==
    ASSUME IInv, SubmitPending
    PROVE  IInv' /\ (op'.at = "failed" => Chain' = base)
<1> DEFINE t == op.req.arg
<1>1. /\ op.at = "start" /\ op.at \notin Free /\ bp = None /\ op.req.kind = "submit"
      /\ op \in Task /\ mode > 0 /\ ~CheatMines /\ t \notin txs
      /\ \A i \in 1..Len(queue) : queue[i] # t
  BY Typed DEF SubmitPending, At, Free, CheatMines, known
<1>2. t \in Txs
  BY <1>1, Typed DEF Requests, Ticks
<1>3. getPendingState = Replay(head.ts, state, queue) /\ RestoredState = state /\ ~Sealed
  BY <1>1, PendingIs
<1>4. /\ base.queue = queue /\ base.mode = mode /\ base.timer = timer
      /\ base.blocks = blocks /\ base.txs = txs
      /\ base.state = state /\ base.offset = offset
  BY <1>1, <1>3 DEF IInv, Based, Once, Committed, CheatMines, RestoredOffset
<1>5. UNCHANGED <<waiting, source, spent, state, blocks, txs, mode, timer, offset, bp, base>>
  BY DEF SubmitPending, chain, env
<1>6. CASE Rejects(head.ts, getPendingState, t)
  <2> DEFINE o == [op EXCEPT !.at = "failed"]
  <2>1. op' = o /\ queue' = queue /\ pending' = Replay(head.ts, RestoredState, queue)
    BY <1>3, <1>6 DEF SubmitPending, Settle
  <2>2. o \in Task /\ o.req = op.req /\ o.at = "failed"
    BY <1>1 DEF Task, Places, Free
  <2>3. spent' \in [requests : Nat, ticks : Nat, faults : Nat, timers : Nat]
    BY <1>5 DEF IInv, Types
  <2> HIDE DEF o
  <2> QED
    BY <1>1, <1>3, <1>4, <1>5, <2>1, <2>2, <2>3, TaskFails DEF miner
<1>7. CASE ~Rejects(head.ts, getPendingState, t)
  <2>1. /\ op' = [op EXCEPT !.at = "done"] /\ queue' = Append(queue, t)
        /\ pending' = Append(getPendingState, t)
    BY <1>7 DEF SubmitPending, Settle
  <2>2. op' \in Task /\ op'.req = op.req /\ op'.at = "done"
    BY <1>1, <2>1 DEF Task, Places, Free
  <2>3. /\ queue' \in Seq(Txs) /\ Len(queue') = Len(queue) + 1 /\ Len(queue) \in Nat
        /\ \A i \in 1..Len(queue) : queue'[i] = queue[i]
        /\ queue'[Len(queue) + 1] = t
        /\ DOMAIN queue = 1..Len(queue) /\ DOMAIN queue' = 1..(Len(queue) + 1)
    BY <1>2, <2>1, Typed, AppendProperties, LenProperties
  <2>4. ToSet(queue') = ToSet(queue) \cup {t} /\ t \notin ToSet(queue)
    BY <1>1, <2>3 DEF ToSet
  <2>5. IsInjective(queue')
    <3>1. IsInjective(queue)
      BY DEF IInv, Once
    <3> QED
      BY <1>1, <2>3, <3>1 DEF IsInjective
  <2>6. pending' = Replay(head.ts, state, queue')
    <3>1. Replay(head.ts, state, queue') = Execute(head.ts, getPendingState, t)
      BY <1>2, <1>3, <2>1, Typed, ReplayAppend
    <3> QED
      BY <1>7, <2>1, <3>1 DEF Execute
  <2>7. /\ ~Sealed' /\ Committed' = blocks /\ Committed = blocks /\ ~CheatMines' /\ head' = head
        /\ RestoredState' = state /\ RestoredOffset' = offset /\ RestoredOffset = offset
    BY <1>1, <1>3, <1>5, <2>2 DEF Sealed, Committed, CheatMines, RestoredState, RestoredOffset, head
  <2>8. Types'
    <3>1. pending' \in Seq(Effects)
      BY <2>3, <2>6, Typed, ReplayType
    <3> QED
      BY <1>5, <2>2, <2>3, <3>1 DEF IInv, Types, TypeOK
  <2>9. Placed' /\ Timed'
    BY <1>1, <1>5, <2>2 DEF IInv, Placed, Timed, Free
  <2>10. Once' /\ Working'
    BY <1>1, <1>5, <2>2, <2>4, <2>5, <2>7 DEF IInv, Once, Working, Sealed
  <2>11. PendingOfRoot' /\ Clocked'
    BY <1>5, <2>6, <2>7 DEF IInv, PendingOfRoot, Clocked
  <2>12. Based' /\ Lagging'
    BY <1>1, <1>4, <1>5, <2>2, <2>4 DEF Based, Lagging, Free
  <2> QED
    BY <2>2, <2>8, <2>9, <2>10, <2>11, <2>12 DEF IInv
<1> QED
  BY <1>6, <1>7

LEMMA AdmissionFaultStep == ASSUME IInv, AdmissionFault PROVE IInv' /\ Chain' = base
<1> DEFINE o == [op EXCEPT !.at = "failed"]
<1>1. /\ op.at \notin Free /\ bp = None /\ op.req.kind = "submit" /\ op \in Task /\ ~CheatMines
      /\ op' = o /\ op.at \in {"start", "ready"}
      /\ UNCHANGED <<chain, miner, source, offset, waiting, bp, base>>
      /\ pending' \in {pending, getPendingState}
      /\ spent' = [spent EXCEPT !.faults = @ + 1]
  BY Typed DEF AdmissionFault, At, Free, Settle, CheatMines
<1>2. getPendingState = Replay(head.ts, state, queue) /\ RestoredState = state /\ ~Sealed
  BY <1>1, PendingIs
<1>3. /\ base.blocks = blocks /\ base.txs = txs
      /\ base.state = state /\ base.offset = offset
  BY <1>1, <1>2 DEF IInv, Based, Once, Committed, CheatMines, RestoredOffset
<1>4. o \in Task /\ o.req = op.req /\ o.at = "failed"
  BY <1>1 DEF Task, Places, Free
<1>5. spent' \in [requests : Nat, ticks : Nat, faults : Nat, timers : Nat]
  BY <1>1, Counters
<1> HIDE DEF o
<1> QED
  BY <1>1, <1>2, <1>3, <1>4, <1>5, TaskFails DEF chain
-----------------------------------------------------------------------------
(* Tasks that change something before their block.                         *)

LEMMA StartIncreaseTimeStep ==
    ASSUME IInv, StartIncreaseTime
    PROVE  IInv' /\ (op'.at = "failed" => Chain' = base)
<1>1. /\ op.at = "start" /\ op.at \notin Free /\ bp = None /\ op.req.kind = "increaseTime"
      /\ op \in Task /\ ~CheatMines /\ op.req.arg \in Nat /\ op.clock = offset
  BY Typed, MiningAssumption DEF StartIncreaseTime, At, Free, CheatMines, Requests, Ticks, IInv, Placed
<1>2. RestoredState = state /\ ~Sealed /\ RestoredOffset = offset /\ Committed = blocks
  BY <1>1 DEF RestoredState, Sealed, RestoredOffset, Committed
<1>3. /\ base.queue = queue /\ base.mode = mode /\ base.timer = timer
      /\ base.blocks = blocks /\ base.txs = txs
      /\ base.state = state /\ base.offset = offset
  BY <1>1, <1>2 DEF IInv, Based, Once
<1>4. UNCHANGED <<waiting, source, spent, state, blocks, txs, queue, mode, timer, pending, bp, base>>
  BY DEF StartIncreaseTime, chain, env, miner
<1>5. CASE nowMs + op.req.arg <= MaxTime
  <2>1. /\ op' = [op EXCEPT !.at = "mining", !.left = 1]
        /\ offset' = offset + op.req.arg
    BY <1>5 DEF StartIncreaseTime
  <2>2. /\ op' \in Task /\ op'.req = op.req /\ op'.at = "mining" /\ op'.left = 1
        /\ op'.clock = offset
    BY <1>1, <2>1 DEF Task, Places, Free
  <2>3. /\ ~Sealed' /\ Committed' = blocks /\ ~CheatMines' /\ head' = head
        /\ RestoredState' = state /\ RestoredOffset' = offset
    BY <1>1, <1>2, <1>4, <2>2 DEF Sealed, Committed, CheatMines, RestoredState, RestoredOffset, head
  <2>4. Types'
    <3>1. offset' \in Nat
      BY <1>1, <2>1, Typed
    <3> QED
      BY <1>4, <2>2, <3>1 DEF IInv, Types, TypeOK
  <2>5. Placed' /\ Timed'
    BY <1>1, <1>4, <2>2 DEF IInv, Placed, Timed, Free
  <2>6. Once' /\ Working'
    BY <1>1, <1>2, <1>4, <2>2, <2>3 DEF IInv, Once, Working
  <2>7. PendingOfRoot' /\ Clocked'
    BY <1>1, <1>2, <1>4, <2>3 DEF IInv, PendingOfRoot, Clocked
  <2>8. Based' /\ Lagging'
    BY <1>1, <1>2, <1>3, <1>4, <2>2, <2>3 DEF IInv, Once, Based, Lagging, Free
  <2> QED
    BY <2>2, <2>4, <2>5, <2>6, <2>7, <2>8 DEF IInv
<1>6. CASE ~(nowMs + op.req.arg <= MaxTime)
  <2> DEFINE o == [op EXCEPT !.at = "failed"]
  <2>1. op' = o /\ offset' = offset
    BY <1>6 DEF StartIncreaseTime, Settle
  <2>2. o \in Task /\ o.req = op.req /\ o.at = "failed"
    BY <1>1 DEF Task, Places, Free
  <2>3. spent' \in [requests : Nat, ticks : Nat, faults : Nat, timers : Nat]
    BY <1>4 DEF IInv, Types
  <2> HIDE DEF o
  <2> QED
    BY <1>1, <1>3, <1>4, <2>1, <2>2, <2>3, TaskFails DEF miner
<1> QED
  BY <1>5, <1>6

LEMMA StartCheatStep == ASSUME IInv, StartCheat PROVE IInv' /\ op'.at # "failed"
<1>1. /\ op.at = "start" /\ op.at \notin Free /\ bp = None /\ op.req.kind = "cheat"
      /\ op \in Task /\ ~CheatMines /\ op.req.arg \in Cheats /\ op.root = state
  BY Typed DEF StartCheat, At, Free, CheatMines, Requests, Ticks, IInv, Placed
<1>2. RestoredState = state /\ ~Sealed /\ RestoredOffset = offset /\ Committed = blocks
  BY <1>1 DEF RestoredState, Sealed, RestoredOffset, Committed
<1>3. /\ base.queue = queue /\ base.mode = mode /\ base.timer = timer
      /\ base.blocks = blocks /\ base.txs = txs
      /\ base.state = state /\ base.offset = offset
  BY <1>1, <1>2 DEF IInv, Based, Once
<1>4. UNCHANGED <<waiting, source, spent, blocks, txs, queue, mode, timer, pending, offset, bp, base>>
  BY DEF StartCheat, env, miner
<1>5. /\ op' = [op EXCEPT !.at = "mining", !.left = 1]
      /\ state' = Append(state, op.req.arg)
  BY DEF StartCheat
<1>6. /\ op' \in Task /\ op'.req = op.req /\ op'.at = "mining" /\ op'.left = 1
      /\ op'.root = state
  BY <1>1, <1>5 DEF Task, Places, Free
<1>7. /\ ~Sealed' /\ Committed' = blocks /\ CheatMines' /\ head' = head
      /\ RestoredState' = state /\ RestoredOffset' = offset
  BY <1>1, <1>2, <1>4, <1>6 DEF Sealed, Committed, CheatMines, RestoredState, RestoredOffset, head
<1>8. Types'
  <2>1. state' \in Seq(Effects)
    BY <1>1, <1>5, Typed, AppendProperties DEF Effects
  <2> QED
    BY <1>4, <1>6, <2>1 DEF IInv, Types, TypeOK
<1>9. Placed' /\ Timed'
  BY <1>1, <1>4, <1>6 DEF IInv, Placed, Timed, Free
<1>10. Once' /\ Working'
  BY <1>1, <1>2, <1>4, <1>6, <1>7 DEF IInv, Once, Working
<1>11. PendingOfRoot' /\ Clocked'
  BY <1>1, <1>2, <1>4, <1>7 DEF IInv, PendingOfRoot, Clocked
<1>12. Based' /\ Lagging'
  BY <1>1, <1>2, <1>3, <1>4, <1>6, <1>7 DEF IInv, Once, Based, Lagging, Free
<1> QED
  BY <1>6, <1>8, <1>9, <1>10, <1>11, <1>12 DEF IInv

\* The mode changes once the drain has left nothing that only a timer would mine.
LEMMA SwitchModeStep == ASSUME IInv, SwitchMode PROVE IInv' /\ op'.at # "failed"
<1>1. /\ op.at = "ready" /\ op.at \notin Free /\ bp = None /\ op.req.kind = "setBlockTime"
      /\ op \in Task /\ ~CheatMines /\ op.req.arg \in Intervals \cup {0}
  BY Typed DEF SwitchMode, At, Free, CheatMines, Requests, Ticks
<1>2. RestoredState = state /\ ~Sealed /\ RestoredOffset = offset /\ Committed = blocks
  BY <1>1 DEF RestoredState, Sealed, RestoredOffset, Committed
<1>3. base.queue = queue /\ base.txs = txs
  BY <1>1, <1>2 DEF IInv, Based, Once
<1>4. /\ UNCHANGED <<waiting, source, state, blocks, txs, queue, pending, offset, bp, base>>
      /\ op' = [op EXCEPT !.at = "done"] /\ mode' = op.req.arg /\ timer' = NextTimer
  BY DEF SwitchMode, chain, Settle
<1>5. op' \in Task /\ op'.req = op.req /\ op'.at = "done"
  BY <1>1, <1>4 DEF Task, Places, Free
<1>6. /\ ~Sealed' /\ Committed' = blocks /\ ~CheatMines' /\ head' = head
      /\ RestoredState' = state /\ RestoredOffset' = offset
  BY <1>1, <1>2, <1>4, <1>5 DEF Sealed, Committed, CheatMines, RestoredState, RestoredOffset, head
<1>7. timer' \in Timers \cup {None} /\ (timer' = None <=> mode' = 0)
  <2>1. spent.timers + 1 \in Timers /\ None \notin Timers
    BY Counters, NoneAssumption DEF Timers
  <2> QED
    BY <1>4, <2>1 DEF NextTimer
<1>8. Types'
  <2>1. spent' \in [requests : Nat, ticks : Nat, faults : Nat, timers : Nat]
    <3>1. CASE op.req.arg = 0
      <4>1. spent.timers \in Nat /\ spent' = [spent EXCEPT !.timers = spent.timers]
        BY <3>1 DEF SwitchMode, IInv, Types
      <4> QED
        BY <4>1, Counters
    <3>2. CASE op.req.arg # 0
      <4>1. spent.timers + 1 \in Nat /\ spent' = [spent EXCEPT !.timers = spent.timers + 1]
        BY <3>2, Counters DEF SwitchMode, Timers
      <4> QED
        BY <4>1, Counters
    <3> QED
      BY <3>1, <3>2
  <2> QED
    BY <1>1, <1>4, <1>5, <1>7, <2>1 DEF IInv, Types, TypeOK
<1>9. Placed' /\ Timed'
  <2>1. op.req.arg = 0 => queue = << >>
    BY <1>1 DEF IInv, Timed
  <2> QED
    BY <1>1, <1>4, <1>5, <1>7, <2>1 DEF IInv, Placed, Timed, Free
<1>10. Once' /\ Working'
  BY <1>1, <1>2, <1>4, <1>5, <1>6 DEF IInv, Once, Working
<1>11. PendingOfRoot' /\ Clocked'
  BY <1>1, <1>2, <1>4, <1>6 DEF IInv, PendingOfRoot, Clocked
<1>12. Based' /\ Lagging'
  BY <1>1, <1>2, <1>3, <1>4, <1>5 DEF Based, Lagging, Free
<1> QED
  BY <1>5, <1>8, <1>9, <1>10, <1>11, <1>12 DEF IInv

\* All blocks are mined; after a development write nothing is cached.
LEMMA FinishMiningStep == ASSUME IInv, FinishMining PROVE IInv' /\ op'.at # "failed"
<1>1. /\ op.at = "mining" /\ op.at \notin Free /\ bp = None /\ op.left = 0 /\ op \in Task
  BY Typed DEF FinishMining, Free
<1>2. ~Sealed /\ RestoredOffset = offset /\ Committed = blocks
  BY <1>1 DEF Sealed, RestoredOffset, Committed
<1>3. base.queue = queue /\ base.txs = txs
  BY <1>1, <1>2 DEF IInv, Based, Once
<1>4. /\ UNCHANGED <<waiting, source, spent, state, blocks, txs, queue, mode, timer, offset, bp, base>>
      /\ op' = [op EXCEPT !.at = "done"]
      /\ pending' = IF op.req.kind = "cheat" THEN None ELSE pending
  BY DEF FinishMining, Settle, chain, miner, env
<1>5. op' \in Task /\ op'.req = op.req /\ op'.at = "done"
  BY <1>1, <1>4 DEF Task, Places, Free
<1>6. /\ ~Sealed' /\ Committed' = blocks /\ ~CheatMines' /\ head' = head
      /\ RestoredState' = state /\ RestoredOffset' = offset
      /\ op.req.kind # "cheat" => RestoredState = state
  BY <1>1, <1>2, <1>4, <1>5 DEF Sealed, Committed, CheatMines, RestoredState, RestoredOffset, head
<1>7. Types'
  BY <1>4, <1>5 DEF IInv, Types, TypeOK
<1>8. Placed' /\ Timed'
  BY <1>1, <1>4, <1>5 DEF IInv, Placed, Timed, Free
<1>9. Once' /\ Working'
  BY <1>1, <1>2, <1>4, <1>5, <1>6 DEF IInv, Once, Working
<1>10. PendingOfRoot' /\ Clocked'
  BY <1>1, <1>2, <1>4, <1>6 DEF IInv, PendingOfRoot, Clocked
<1>11. Based' /\ Lagging'
  BY <1>1, <1>2, <1>3, <1>4, <1>5 DEF Based, Lagging, Free
<1> QED
  BY <1>5, <1>7, <1>8, <1>9, <1>10, <1>11 DEF IInv
-----------------------------------------------------------------------------
(* The block in production.                                                *)

LEMMA TailFacts ==
    ASSUME NEW s \in Seq(Txs), s # << >>, IsInjective(s)
    PROVE  /\ Head(s) \in Txs /\ Tail(s) \in Seq(Txs)
           /\ ToSet(s) = {Head(s)} \cup ToSet(Tail(s))
           /\ Head(s) \notin ToSet(Tail(s)) /\ IsInjective(Tail(s))
<1>1. Len(s) \in Nat \ {0} /\ DOMAIN s = 1..Len(s)
  BY EmptySeq, LenProperties
<1>2. /\ Head(s) \in Txs /\ Tail(s) \in Seq(Txs) /\ Len(Tail(s)) = Len(s) - 1 /\ Head(s) = s[1]
      /\ \A i \in 1..(Len(s) - 1) : Tail(s)[i] = s[i + 1]
      /\ DOMAIN Tail(s) = 1..(Len(s) - 1)
  BY <1>1, HeadTailProperties, LenProperties
<1>3. \A i \in 1..(Len(s) - 1) : i + 1 \in 1..Len(s) /\ i + 1 # 1
  BY <1>1
<1>4. \A j \in 1..Len(s) : j = 1 \/ (j - 1 \in 1..(Len(s) - 1) /\ j = j - 1 + 1)
  BY <1>1
<1>5. ToSet(s) = {Head(s)} \cup ToSet(Tail(s))
  <2>1. ASSUME NEW x \in ToSet(s) PROVE x \in {Head(s)} \cup ToSet(Tail(s))
    <3>1. PICK j \in 1..Len(s) : x = s[j]
      BY <1>1, <2>1 DEF ToSet
    <3>2. CASE j = 1
      BY <1>2, <3>1, <3>2
    <3>3. CASE j # 1
      <4>1. j - 1 \in 1..(Len(s) - 1) /\ Tail(s)[j - 1] = s[j]
        BY <1>2, <1>4, <3>3
      <4> QED
        BY <1>2, <3>1, <4>1 DEF ToSet
    <3> QED
      BY <3>2, <3>3
  <2>2. ASSUME NEW x \in ToSet(Tail(s)) PROVE x \in ToSet(s)
    <3>1. PICK i \in 1..(Len(s) - 1) : x = Tail(s)[i]
      BY <1>2, <2>2 DEF ToSet
    <3> QED
      BY <1>1, <1>2, <1>3, <3>1 DEF ToSet
  <2>3. Head(s) \in ToSet(s)
    <3>1. 1 \in 1..Len(s)
      BY <1>1
    <3> QED
      BY <1>1, <1>2, <3>1 DEF ToSet
  <2> QED
    BY <2>1, <2>2, <2>3
<1>6. Head(s) \notin ToSet(Tail(s))
  <2>1. SUFFICES ASSUME NEW i \in 1..(Len(s) - 1), Tail(s)[i] = Head(s) PROVE FALSE
    BY <1>2 DEF ToSet
  <2>2. 1 \in 1..Len(s)
    BY <1>1
  <2> QED
    BY <1>1, <1>2, <1>3, <2>1, <2>2 DEF IsInjective
<1>7. IsInjective(Tail(s))
  BY <1>1, <1>2, <1>3 DEF IsInjective
<1> QED
  BY <1>2, <1>5, <1>6, <1>7

LEMMA LastFacts ==
    ASSUME NEW s \in Seq(Txs), IsInjective(s), NEW t \in Txs, t \notin ToSet(s)
    PROVE  /\ Append(s, t) \in Seq(Txs) /\ Append(s, t) # << >>
           /\ ToSet(Append(s, t)) = ToSet(s) \cup {t} /\ IsInjective(Append(s, t))
<1>1. /\ Append(s, t) \in Seq(Txs) /\ Append(s, t) # << >> /\ Len(Append(s, t)) = Len(s) + 1
      /\ \A i \in 1..Len(s) : Append(s, t)[i] = s[i]
      /\ Append(s, t)[Len(s) + 1] = t
      /\ Len(s) \in Nat /\ DOMAIN s = 1..Len(s)
      /\ DOMAIN Append(s, t) = 1..(Len(s) + 1)
  BY AppendProperties, LenProperties
<1>2. ToSet(Append(s, t)) = ToSet(s) \cup {t}
  BY <1>1 DEF ToSet
<1>3. IsInjective(Append(s, t))
  BY <1>1 DEF IsInjective, ToSet
<1> QED
  BY <1>1, <1>2, <1>3

\* The candidates of a block are in no committed one.
LEMMA InProduction ==
    ASSUME IInv, bp # None
    PROVE  /\ bp \in Production
           /\ bp.cand \in Seq(Txs) /\ bp.done \in Seq(Txs) /\ bp.rejected \subseteq Txs
           /\ bp.root \in Seq(Effects) /\ bp.ts \in 0..MaxTime /\ bp.ts \in Nat /\ bp.indexed \in Nat
           /\ op.at \in {"mining", "drain", "ready"} /\ op.at \notin Free
           /\ (ToSet(bp.cand) \cup ToSet(bp.done)) \cap MinedIn(Committed) = {}
           /\ op.at = "mining" => op.left > 0
           /\ op.req.kind = "increaseTime" => op.at = "mining" /\ op.left = 1
           /\ op.req.kind = "cheat" => op.at = "mining" /\ op.left = 1
<1>1. bp \in Production
  BY DEF IInv, Types, TypeOK
<1>2. /\ op.at \in {"mining", "drain", "ready"} /\ op.at \notin Free
      /\ op.at = "mining" => op.left > 0
      /\ op.req.kind = "increaseTime" => op.at = "mining" /\ op.left = 1
      /\ op.req.kind = "cheat" => op.at = "mining" /\ op.left = 1
  BY Typed DEF IInv, Placed, Free, Places
<1>3. (ToSet(bp.cand) \cup ToSet(bp.done)) \cap MinedIn(Committed) = {}
  <2>1. CASE op.at = "ready"
    <3>1. op.req.kind = "submit"
      BY <2>1 DEF IInv, Placed
    <3> QED
      BY <2>1, <3>1 DEF IInv, Working
  <2>2. CASE op.at # "ready"
    BY <2>2 DEF IInv, Working, Once
  <2> QED
    BY <2>1, <2>2
<1>4. bp.ts \in Nat
  BY <1>1, Bounds DEF Production
<1> QED
  BY <1>1, <1>2, <1>3, <1>4 DEF Production

\* A block is started, or its time cannot be stated.
LEMMA ProduceStarts ==
    ASSUME IInv, bp = None, op.at \in {"mining", "drain", "ready"}, UNCHANGED env,
           op.at = "mining" => op.left > 0, op.at = "ready" => op.req.kind = "submit",
           NEW cand \in Seq(Txs), NEW skip \in BOOLEAN, NEW allow \in BOOLEAN, NEW interval \in Nat,
           (op.at = "ready") <=> ~skip, (op.at = "drain") <=> ~allow,
           IsInjective(cand), op.at = "ready" => ToSet(cand) = {op.req.arg},
           op.at # "ready" => ToSet(cand) \subseteq ToSet(queue),
           Produce(cand, skip, allow, interval)
    PROVE  IInv' /\ (op'.at = "failed" => Chain' = base)
<1>1. /\ ~Sealed /\ Committed = blocks /\ op \in Task /\ op.at \notin Free
      /\ op.req.kind = "increaseTime" => op.at = "mining" /\ op.left = 1
      /\ op.req.kind = "cheat" => op.at = "mining" /\ op.left = 1
  BY Typed DEF Sealed, Committed, Free, IInv, Placed
<1>2. /\ base.queue = queue /\ base.mode = mode /\ base.timer = timer
      /\ base.blocks = blocks /\ base.txs = txs
      /\ base.state = RestoredState /\ base.offset = RestoredOffset
  <2>1. ~(CheatMines /\ op.left = 0)
    BY <1>1 DEF CheatMines
  <2>2. /\ base.queue = queue /\ base.mode = mode /\ base.timer = timer
        /\ base.blocks = blocks /\ base.txs = MinedIn(blocks)
        /\ base.state = RestoredState /\ base.offset = RestoredOffset
    BY <1>1, <2>1 DEF IInv, Based
  <2>3. txs = MinedIn(blocks)
    BY <1>1 DEF IInv, Once
  <2> QED
    BY <2>2, <2>3
<1>3. UNCHANGED <<waiting, source, spent>>
  BY DEF env
<1>4. CASE Overflows(interval)
  <2> DEFINE o == [op EXCEPT !.at = "failed"]
  <2>1. /\ op' = o /\ bp' = None /\ UNCHANGED <<miner, base, blocks, txs, pending>>
        /\ state' = (IF op.req.kind = "cheat" THEN op.root ELSE state)
        /\ offset' = (IF op.req.kind = "increaseTime" THEN op.clock ELSE offset)
    BY <1>4 DEF Produce, UnwindTo, Settle
  <2>2. o \in Task /\ o.req = op.req /\ o.at = "failed"
    BY <1>1 DEF Task, Places, Free
  <2>3. state' = base.state /\ offset' = base.offset /\ (CheatMines => op.left # 0)
    BY <1>1, <1>2, <2>1 DEF RestoredState, RestoredOffset, CheatMines
  <2>4. spent' \in [requests : Nat, ticks : Nat, faults : Nat, timers : Nat]
    BY <1>3 DEF IInv, Types
  <2> HIDE DEF o
  <2> QED
    BY <1>1, <1>2, <1>3, <2>1, <2>2, <2>3, <2>4, TaskFails
<1>5. CASE ~Overflows(interval)
  <2>1. /\ bp' = [cand |-> cand, done |-> << >>, rejected |-> {},
                  skipRejected |-> skip, allowEmpty |-> allow,
                  ts |-> Stamp(interval), root |-> state, sealed |-> FALSE, indexed |-> 0]
        /\ UNCHANGED <<state, blocks, txs, queue, mode, timer, pending, offset, op, base>>
    BY <1>5 DEF Produce, chain, miner
  <2>2. Stamp(interval) \in 0..MaxTime /\ head.ts <= Stamp(interval)
    <3>1. nowMs \in Nat /\ head.ts + interval \in Nat /\ head.ts <= head.ts + interval
      <4>1. head.ts \in Nat /\ source \in Nat /\ offset \in Nat
        BY Typed
      <4> QED
        BY <4>1 DEF nowMs
    <3>2. Stamp(interval) \in Nat /\ head.ts <= Stamp(interval)
      BY <3>1, Typed DEF Stamp
    <3> QED
      BY <1>5, <3>1, <3>2, Bounds DEF Overflows
  <2>3. << >> \in Seq(Txs) /\ Len(<< >>) = 0 /\ IsInjective(<< >>) /\ ToSet(<< >>) = {}
    BY EmptySeq DEF IsInjective, ToSet
  <2>4. bp' \in Production
    BY <2>1, <2>2, <2>3, Typed DEF Production
  <2>5. bp' # None
    BY <2>4, NoneAssumption
  <2>6. /\ bp'.cand = cand /\ bp'.done = << >> /\ bp'.rejected = {} /\ ~bp'.sealed
        /\ bp'.indexed = 0 /\ bp'.ts = Stamp(interval) /\ bp'.root = state
        /\ (bp'.skipRejected <=> skip) /\ (bp'.allowEmpty <=> allow)
    BY <2>1
  <2>7. /\ ~Sealed' /\ Committed' = blocks /\ head' = head /\ (CheatMines' <=> CheatMines)
        /\ RestoredState' = RestoredState /\ RestoredOffset' = RestoredOffset
    BY <1>1, <2>1, <2>5, <2>6 DEF Sealed, Committed, head, CheatMines, RestoredState, RestoredOffset
  <2>8. Types'
    BY <1>3, <2>1, <2>4 DEF IInv, Types, TypeOK
  <2>9. Placed'
    BY <1>1, <2>1, <2>5, <2>6 DEF IInv, Placed, Free
  <2>10. Timed' /\ Lagging'
    BY <1>1, <2>1 DEF IInv, Timed, Lagging
  <2>11. Once'
    BY <1>1, <2>1, <2>7 DEF IInv, Once
  <2>12. Working'
    BY <1>1, <2>1, <2>3, <2>6, <2>7 DEF IInv, Working
  <2>13. PendingOfRoot' /\ Clocked'
    BY <1>1, <1>3, <2>1, <2>2, <2>6, <2>7, Typed DEF IInv, PendingOfRoot, Clocked, head
  <2>14. Based'
    BY <1>1, <1>2, <2>1, <2>7 DEF IInv, Based, Once
  <2> QED
    BY <1>1, <2>1, <2>8, <2>9, <2>10, <2>11, <2>12, <2>13, <2>14 DEF IInv, Free
<1> QED
  BY <1>4, <1>5

\* The blocks that mine, drain and submitTransaction start.
LEMMA MineBlockStep == ASSUME IInv, MineBlock PROVE IInv' /\ (op'.at = "failed" => Chain' = base)
<1> DEFINE cand == IF mode = 0 THEN SubSeq(queue, 1, IF queue = << >> THEN 0 ELSE 1) ELSE queue
<1>1. /\ op.at = "mining" /\ bp = None /\ op.left > 0 /\ UNCHANGED env
      /\ Produce(cand, TRUE, TRUE, mode)
  BY DEF MineBlock
<1>2. cand = queue
  <2>1. CASE mode = 0
    <3>1. queue = << >>
      BY <2>1 DEF IInv, Timed
    <3>2. SubSeq(queue, 1, 0) = << >>
      BY <3>1
    <3> QED
      BY <2>1, <3>1, <3>2
  <2>2. CASE mode # 0
    BY <2>2
  <2> QED
    BY <2>1, <2>2
<1>3. IsInjective(queue) /\ queue \in Seq(Txs) /\ mode \in Nat
  BY Typed DEF IInv, Once
<1> HIDE DEF cand
<1> QED
  BY <1>1, <1>2, <1>3, ProduceStarts

LEMMA SingleFacts ==
    ASSUME NEW t \in Txs
    PROVE  <<t>> \in Seq(Txs) /\ IsInjective(<<t>>) /\ ToSet(<<t>>) = {t}
BY DEF IsInjective, ToSet

LEMMA DrainBlockStep == ASSUME IInv, DrainBlock PROVE IInv' /\ (op'.at = "failed" => Chain' = base)
<1> DEFINE t == Head(queue)
<1>1. /\ op.at = "drain" /\ bp = None /\ UNCHANGED env /\ queue # << >>
      /\ Produce(<<t>>, TRUE, FALSE, 0)
  BY DEF DrainBlock
<1>2. t \in Txs /\ t \in ToSet(queue)
  <2>1. IsInjective(queue) /\ queue \in Seq(Txs)
    BY Typed DEF IInv, Once
  <2> QED
    BY <1>1, <2>1, TailFacts
<1> HIDE DEF t
<1>3. <<t>> \in Seq(Txs) /\ IsInjective(<<t>>) /\ ToSet(<<t>>) = {t}
  BY <1>2, SingleFacts
<1>4. 0 \in Nat
  OBVIOUS
<1> QED
  BY <1>1, <1>2, <1>3, <1>4, ProduceStarts

LEMMA SubmitBlockStep == ASSUME IInv, SubmitBlock PROVE IInv' /\ (op'.at = "failed" => Chain' = base)
<1> DEFINE t == op.req.arg
<1>1. /\ op.at = "ready" /\ bp = None /\ UNCHANGED env /\ op.req.kind = "submit"
      /\ Produce(<<t>>, FALSE, TRUE, mode)
  BY DEF SubmitBlock, At
<1>2. t \in Txs /\ mode \in Nat
  BY <1>1, Typed DEF Requests, Ticks
<1>3. <<t>> \in Seq(Txs) /\ IsInjective(<<t>>) /\ ToSet(<<t>>) = {t}
  BY <1>2, SingleFacts
<1> QED
  BY <1>1, <1>2, <1>3, ProduceStarts

\* Unwinding a block drops it from the store and from the index.
LEMMA UnwindFails ==
    ASSUME IInv, bp # None, Unwind, UNCHANGED <<waiting, source>>,
           spent' \in [requests : Nat, ticks : Nat, faults : Nat, timers : Nat]
    PROVE  IInv' /\ Chain' = base
<1> DEFINE o == [op EXCEPT !.at = "failed"]
<1>1. /\ op' = o /\ bp' = None /\ UNCHANGED <<miner, base>> /\ pending' = pending
      /\ state' = (IF op.req.kind = "cheat" THEN op.root ELSE bp.root)
      /\ offset' = (IF op.req.kind = "increaseTime" THEN op.clock ELSE offset)
      /\ blocks' = DropBlock /\ txs' = UnindexAll
  BY DEF Unwind, UnwindTo, Settle
<1>2. o \in Task /\ o.req = op.req /\ o.at = "failed"
  BY Typed DEF Task, Places, Free
<1>3. ~(CheatMines /\ op.left = 0) /\ op.at \notin Free
  BY InProduction DEF CheatMines
<1>4. /\ base.blocks = Committed /\ base.txs = MinedIn(Committed)
      /\ base.state = RestoredState /\ base.offset = RestoredOffset
  BY <1>3 DEF IInv, Based
<1>5. state' = base.state /\ offset' = base.offset
  BY <1>1, <1>4, InProduction DEF RestoredState, RestoredOffset, CheatMines
<1>6. blocks' = base.blocks
  BY <1>1, <1>4 DEF DropBlock, Committed, Sealed
<1>7. txs' = base.txs
  <2>1. Len(bp.done) \in Nat /\ bp.indexed \in Nat /\ DOMAIN bp.done = 1..Len(bp.done)
    BY InProduction, LenProperties
  <2>2. bp.indexed <= Len(bp.done) /\ (~bp.sealed => bp.indexed = 0)
    BY DEF IInv, Working
  <2>3. {bp.done[i] : i \in 1..bp.indexed} \subseteq ToSet(bp.done)
    BY <2>1, <2>2 DEF ToSet
  <2>4. txs = IF Sealed THEN MinedIn(Committed) \cup {bp.done[i] : i \in 1..bp.indexed}
              ELSE MinedIn(blocks)
    BY DEF IInv, Once
  <2>5. CASE Sealed
    <3>1. ToSet(bp.done) \cap MinedIn(Committed) = {}
      BY InProduction
    <3> QED
      BY <1>1, <1>4, <2>3, <2>4, <2>5, <3>1 DEF UnindexAll
  <2>6. CASE ~Sealed
    <3>1. {bp.done[i] : i \in 1..bp.indexed} = {}
      BY <2>2, <2>6 DEF Sealed
    <3>2. Committed = blocks
      BY <2>6 DEF Committed
    <3> QED
      BY <1>1, <1>4, <2>4, <2>6, <3>1, <3>2 DEF UnindexAll
  <2> QED
    BY <2>5, <2>6
<1> HIDE DEF o
<1> QED
  BY <1>1, <1>2, <1>3, <1>5, <1>6, <1>7, TaskFails

LEMMA BlockFaultStep == ASSUME IInv, BlockFault PROVE IInv' /\ Chain' = base
<1>1. spent' \in [requests : Nat, ticks : Nat, faults : Nat, timers : Nat]
  BY Counters DEF BlockFault
<1> QED
  BY <1>1, UnwindFails DEF BlockFault

LEMMA BlockThrowsStep == ASSUME IInv, BlockThrows PROVE IInv' /\ Chain' = base
<1>1. UNCHANGED <<waiting, source, spent>>
  BY DEF BlockThrows, env
<1>2. spent' \in [requests : Nat, ticks : Nat, faults : Nat, timers : Nat]
  BY <1>1 DEF IInv, Types
<1> QED
  BY <1>1, <1>2, UnwindFails DEF BlockThrows

\* The block in production moves on and nothing but the state follows.
LEMMA BlockMoves ==
    ASSUME IInv, bp # None, NEW p \in Production, bp' = p,
           p.skipRejected <=> bp.skipRejected, p.allowEmpty <=> bp.allowEmpty, p.ts = bp.ts,
           p.root = bp.root, ~bp.sealed, ~p.sealed, p.indexed = bp.indexed,
           IsInjective(p.cand), IsInjective(p.done), Len(p.done) \in Nat,
           ToSet(p.cand) \cap (ToSet(p.done) \cup p.rejected) = {},
           ToSet(p.done) \cap p.rejected = {},
           ToSet(p.cand) \cup ToSet(p.done) \cup p.rejected
               = ToSet(bp.cand) \cup ToSet(bp.done) \cup bp.rejected,
           op.at = "ready" => p.rejected = {},
           state' \in Seq(Effects),
           UNCHANGED <<env, blocks, txs, miner, pending, offset, op, base>>
    PROVE  IInv'
<1> USE DEF env, miner
<1>1. p # None
  BY NoneAssumption
<1>2. /\ ~Sealed /\ ~Sealed' /\ Committed = blocks /\ Committed' = blocks /\ head' = head
      /\ (CheatMines' <=> CheatMines)
      /\ RestoredState' = RestoredState /\ RestoredOffset' = RestoredOffset
  BY <1>1 DEF Sealed, Committed, head, CheatMines, RestoredState, RestoredOffset
<1>3. op.at \in {"mining", "drain", "ready"} /\ op.at \notin Free
  BY InProduction
<1>4. Types'
  BY DEF IInv, Types, TypeOK
<1>5. Placed'
  BY <1>1, <1>3 DEF IInv, Placed, Free
<1>6. Timed' /\ Lagging'
  BY DEF IInv, Timed, Lagging
<1>7. Once'
  BY <1>2 DEF IInv, Once
<1>8. Working'
  <2>1. bp.indexed = 0
    BY DEF IInv, Working
  <2>2. op.req.kind = "submit" /\ op.at \in {"drain", "ready"} =>
           op.req.arg \notin ToSet(queue) \cup MinedIn(Committed)
    BY DEF IInv, Working
  <2>3. IF op.at = "ready"
        THEN ToSet(bp.cand) \cup ToSet(bp.done) = {op.req.arg} /\ bp.rejected = {}
        ELSE ToSet(bp.cand) \cup ToSet(bp.done) \cup bp.rejected \subseteq ToSet(queue)
    BY DEF IInv, Working
  <2>4. IF op.at = "ready"
        THEN ToSet(p.cand) \cup ToSet(p.done) = {op.req.arg} /\ p.rejected = {}
        ELSE ToSet(p.cand) \cup ToSet(p.done) \cup p.rejected \subseteq ToSet(queue)
    BY <2>3
  <2>5. p.indexed <= Len(p.done) /\ p.indexed = 0
    BY <2>1
  <2> QED
    BY <1>2, <2>2, <2>4, <2>5 DEF Working
<1>9. PendingOfRoot' /\ Clocked'
  BY <1>1, <1>2 DEF IInv, PendingOfRoot, Clocked
<1>10. Based'
  BY <1>2 DEF IInv, Based
<1> QED
  BY <1>4, <1>5, <1>6, <1>7, <1>8, <1>9, <1>10 DEF IInv

\* A candidate is accepted, or rejected and undone.
LEMMA ExecuteCandidateStep == ASSUME IInv, ExecuteCandidate PROVE IInv' /\ op' = op
<1> DEFINE t == Head(bp.cand)
           refused == Rejects(head.ts, state, t)
           c == Tail(bp.cand)
           d == IF refused THEN bp.done ELSE Append(bp.done, t)
           r == IF refused THEN bp.rejected \cup {t} ELSE bp.rejected
           p == [bp EXCEPT !.cand = c, !.done = d, !.rejected = r]
<1>1. /\ bp # None /\ bp.cand # << >> /\ ~bp.sealed /\ bp' = p
      /\ bp.skipRejected \/ ~refused
      /\ state' = Execute(head.ts, state, t)
      /\ UNCHANGED <<env, blocks, txs, miner, pending, offset, op, base>>
  BY DEF ExecuteCandidate
<1>2. /\ bp \in Production /\ bp.cand \in Seq(Txs) /\ bp.done \in Seq(Txs) /\ bp.rejected \subseteq Txs
  BY <1>1, InProduction
<1>3. /\ IsInjective(bp.cand) /\ IsInjective(bp.done)
      /\ ToSet(bp.cand) \cap (ToSet(bp.done) \cup bp.rejected) = {}
      /\ ToSet(bp.done) \cap bp.rejected = {}
      /\ op.at = "ready" => bp.rejected = {}
      /\ op.at = "ready" => ~bp.skipRejected
  BY <1>1 DEF IInv, Working, Placed
<1>4. /\ t \in Txs /\ c \in Seq(Txs) /\ ToSet(bp.cand) = {t} \cup ToSet(c)
      /\ t \notin ToSet(c) /\ IsInjective(c)
  BY <1>1, <1>2, <1>3, TailFacts
<1>5. state' \in Seq(Effects)
  BY <1>1, <1>4, Typed, ExecuteType
<1>6. /\ d \in Seq(Txs) /\ IsInjective(d) /\ r \subseteq Txs
      /\ ToSet(d) \cup r = ToSet(bp.done) \cup bp.rejected \cup {t}
      /\ ToSet(d) \cap r = {}
      /\ op.at = "ready" => r = {}
  <2> HIDE DEF refused, t, c
  <2>1. CASE refused
    BY <1>1, <1>2, <1>3, <1>4, <2>1
  <2>2. CASE ~refused
    <3>1. /\ Append(bp.done, t) \in Seq(Txs) /\ IsInjective(Append(bp.done, t))
          /\ ToSet(Append(bp.done, t)) = ToSet(bp.done) \cup {t}
      BY <1>2, <1>3, <1>4, LastFacts
    <3> QED
      BY <1>2, <1>3, <1>4, <2>2, <3>1
  <2> QED
    BY <2>1, <2>2
<1> HIDE DEF c, d, r, t, refused
<1>7. /\ p \in Production /\ p.cand = c /\ p.done = d /\ p.rejected = r
      /\ (p.skipRejected <=> bp.skipRejected) /\ (p.allowEmpty <=> bp.allowEmpty) /\ p.ts = bp.ts
      /\ p.root = bp.root /\ ~p.sealed /\ p.indexed = bp.indexed
  BY <1>1, <1>2, <1>4, <1>6 DEF Production
<1>8. Len(d) \in Nat
  BY <1>6, LenProperties
<1>9. /\ ToSet(c) \cap (ToSet(d) \cup r) = {}
      /\ ToSet(c) \cup ToSet(d) \cup r = ToSet(bp.cand) \cup ToSet(bp.done) \cup bp.rejected
  BY <1>3, <1>4, <1>6
<1> HIDE DEF p
<1>10. IInv'
  BY <1>1, <1>4, <1>5, <1>6, <1>7, <1>8, <1>9, BlockMoves
<1> QED
  BY <1>1, <1>10

\* The block is in the store, and nothing is cached.
LEMMA SealBlockStep == ASSUME IInv, SealBlock PROVE IInv' /\ op' = op
<1> DEFINE b == [ts |-> bp.ts, txs |-> bp.done]
           p == [bp EXCEPT !.sealed = TRUE]
<1>1. /\ bp # None /\ bp.cand = << >> /\ ~bp.sealed /\ bp' = p
      /\ blocks' = Append(blocks, b) /\ pending' = None
      /\ UNCHANGED <<env, state, txs, miner, offset, op, base>>
  BY DEF SealBlock, PendingAfterSeal
<1>2. /\ bp \in Production /\ bp.done \in Seq(Txs) /\ bp.ts \in 0..MaxTime
      /\ op.at \in {"mining", "drain", "ready"} /\ op.at \notin Free
      /\ ToSet(bp.done) \cap MinedIn(Committed) = {}
  BY <1>1, InProduction
<1>3. /\ p \in Production /\ p.cand = bp.cand /\ p.done = bp.done /\ p.rejected = bp.rejected
      /\ (p.skipRejected <=> bp.skipRejected) /\ (p.allowEmpty <=> bp.allowEmpty)
      /\ p.ts = bp.ts /\ p.root = bp.root /\ p.sealed /\ p.indexed = bp.indexed
  BY <1>2 DEF Production
<1>4. p # None
  BY <1>3, NoneAssumption
<1>5. b \in Block /\ b.ts = bp.ts /\ b.txs = bp.done
  BY <1>2 DEF Block
<1> HIDE DEF p, b
<1>6. /\ blocks' \in Seq(Block) /\ Len(blocks') = Len(blocks) + 1 /\ blocks' # << >>
      /\ \A i \in 1..Len(blocks) : blocks'[i] = blocks[i]
      /\ blocks'[Len(blocks) + 1] = b
      /\ Len(blocks) \in Nat \ {0}
  BY <1>1, <1>5, Typed, AppendProperties
<1>7. ~Sealed /\ Sealed' /\ Committed = blocks
  BY <1>1, <1>3, <1>4 DEF Sealed, Committed
<1>8. Committed' = blocks
  <2>1. Len(blocks') - 1 = Len(blocks)
    BY <1>6
  <2>2. SubSeq(blocks', 1, Len(blocks)) = blocks
    <3>1. \A i \in 1..Len(blocks) : blocks'[i] \in Block
      BY <1>6, Typed, ElementOfSeq
    <3>2. /\ SubSeq(blocks', 1, Len(blocks)) \in Seq(Block)
          /\ Len(SubSeq(blocks', 1, Len(blocks))) = Len(blocks)
          /\ \A i \in 1..Len(blocks) : SubSeq(blocks', 1, Len(blocks))[i] = blocks'[i]
      <4>1. \A n \in Nat : n - 1 + 1 = n
        OBVIOUS
      <4> QED
        BY <1>6, <3>1, SubSeqProperties
    <3> QED
      BY <1>6, <3>2, Typed, SeqEqual
  <2> QED
    BY <1>7, <2>1, <2>2 DEF Committed
<1>9. /\ head' = b /\ (CheatMines' <=> CheatMines)
      /\ RestoredState' = RestoredState /\ RestoredOffset' = RestoredOffset
  BY <1>1, <1>3, <1>4, <1>6 DEF head, CheatMines, RestoredState, RestoredOffset
<1>10. Types'
  BY <1>1, <1>3, <1>6 DEF IInv, Types, TypeOK, env, miner
<1>11. Placed'
  BY <1>1, <1>2, <1>3 DEF IInv, Placed, Free
<1>12. Timed' /\ Lagging'
  BY <1>1 DEF IInv, Timed, Lagging, miner
<1>13. bp.indexed = 0 /\ IsInjective(bp.done) /\ (\A i \in 1..Len(blocks) : ToSet(blocks[i].txs) \subseteq MinedIn(blocks))
  BY <1>1 DEF IInv, Working, MinedIn
<1>14. Once'
  <2>1. \A n \in 1..Len(blocks') : n \in 1..Len(blocks) \/ n = Len(blocks) + 1
    BY <1>6
  <2>2. \A n \in 1..Len(blocks') : IsInjective(blocks'[n].txs)
    BY <1>5, <1>6, <1>13, <2>1 DEF IInv, Once
  <2>3. ASSUME NEW m \in 1..Len(blocks'), NEW n \in 1..Len(blocks'), m # n
        PROVE  ToSet(blocks'[m].txs) \cap ToSet(blocks'[n].txs) = {}
    <3>1. ASSUME NEW i \in 1..Len(blocks) PROVE ToSet(blocks[i].txs) \cap ToSet(b.txs) = {}
      BY <1>2, <1>5, <1>7, <1>13
    <3> QED
      BY <1>6, <2>1, <2>3, <3>1 DEF IInv, Once
  <2>4. txs' = MinedIn(blocks) \cup {p.done[i] : i \in 1..p.indexed}
    <3>1. {p.done[i] : i \in 1..p.indexed} = {}
      BY <1>3, <1>13
    <3>2. txs = MinedIn(blocks)
      BY <1>7 DEF IInv, Once
    <3> QED
      BY <1>1, <3>1, <3>2
  <2>5. IsInjective(queue) /\ ToSet(queue) \cap MinedIn(blocks) = {}
    BY <1>7 DEF IInv, Once
  <2> QED
    BY <1>1, <1>7, <1>8, <2>2, <2>3, <2>4, <2>5 DEF Once, miner
<1>15. Working'
  <2>1. Len(blocks') > 1
    BY <1>6
  <2>2. head' = [ts |-> bp.ts, txs |-> bp.done]
    BY <1>9 DEF b
  <2> QED
    BY <1>1, <1>3, <1>7, <1>8, <2>1, <2>2 DEF IInv, Working, miner
<1>16. PendingOfRoot'
  BY <1>1 DEF PendingOfRoot
<1>17. Clocked'
  <2>1. /\ blocks[Len(blocks)].ts <= bp.ts
        /\ blocks[Len(blocks)].ts <= source + RestoredOffset
        /\ \A n \in 2..Len(blocks) : blocks[n - 1].ts <= blocks[n].ts
    BY <1>1, <1>7 DEF IInv, Clocked
  <2>2. ASSUME NEW n \in 2..Len(blocks') PROVE blocks'[n - 1].ts <= blocks'[n].ts
    <3>1. CASE n = Len(blocks) + 1
      <4>1. n - 1 = Len(blocks) /\ Len(blocks) \in 1..Len(blocks)
        BY <1>6, <3>1
      <4> QED
        BY <1>5, <1>6, <2>1, <3>1, <4>1
    <3>2. CASE n # Len(blocks) + 1
      <4>1. n \in 2..Len(blocks) /\ n \in 1..Len(blocks) /\ n - 1 \in 1..Len(blocks)
        BY <1>6, <3>2
      <4> QED
        BY <1>6, <2>1, <4>1
    <3> QED
      BY <3>1, <3>2
  <2> QED
    BY <1>1, <1>3, <1>8, <1>9, <2>1, <2>2 DEF Clocked, env
<1>18. Based'
  <2>1. Based /\ op.at \notin Free
    BY <1>2 DEF IInv
  <2> QED
    BY <1>1, <1>7, <1>8, <1>9, <2>1 DEF Based, miner
<1> QED
  BY <1>1, <1>10, <1>11, <1>12, <1>14, <1>15, <1>16, <1>17, <1>18 DEF IInv

\* Another transaction of the block is in the index.
LEMMA IndexTransactionStep == ASSUME IInv, IndexTransaction PROVE IInv' /\ op' = op
<1> DEFINE p == [bp EXCEPT !.indexed = @ + 1]
<1>1. /\ bp # None /\ bp.sealed /\ bp.indexed < Len(bp.done) /\ bp' = p
      /\ txs' = txs \cup {bp.done[bp.indexed + 1]}
      /\ UNCHANGED <<env, state, blocks, miner, pending, offset, op, base>>
  BY DEF IndexTransaction
<1>2. /\ bp \in Production /\ bp.done \in Seq(Txs) /\ bp.indexed \in Nat
      /\ op.at \in {"mining", "drain", "ready"} /\ op.at \notin Free
  BY <1>1, InProduction
<1>3. /\ p \in Production /\ p.cand = bp.cand /\ p.done = bp.done /\ p.rejected = bp.rejected
      /\ (p.skipRejected <=> bp.skipRejected) /\ (p.allowEmpty <=> bp.allowEmpty)
      /\ p.ts = bp.ts /\ p.root = bp.root /\ (p.sealed <=> bp.sealed) /\ p.indexed = bp.indexed + 1
  BY <1>2 DEF Production
<1>4. p # None
  BY <1>3, NoneAssumption
<1> HIDE DEF p
<1>5. Len(bp.done) \in Nat /\ bp.done[bp.indexed + 1] \in Txs
  BY <1>1, <1>2, LenProperties, ElementOfSeq
<1>6. /\ Sealed /\ Sealed' /\ Committed' = Committed /\ head' = head
      /\ (CheatMines' <=> CheatMines)
      /\ RestoredState' = RestoredState /\ RestoredOffset' = RestoredOffset
  BY <1>1, <1>3, <1>4 DEF Sealed, Committed, head, CheatMines, RestoredState, RestoredOffset
<1>7. Types'
  BY <1>1, <1>3, <1>5 DEF IInv, Types, TypeOK, env, miner
<1>8. Placed'
  BY <1>1, <1>2, <1>3 DEF IInv, Placed, Free
<1>9. Timed' /\ Lagging'
  BY <1>1, <1>2 DEF IInv, Timed, Lagging, miner
<1>10. Once'
  <2>1. {p.done[i] : i \in 1..p.indexed}
            = {bp.done[i] : i \in 1..bp.indexed} \cup {bp.done[bp.indexed + 1]}
    <3>1. 1..(bp.indexed + 1) = 1..bp.indexed \cup {bp.indexed + 1}
      BY <1>2
    <3> QED
      BY <1>3, <3>1
  <2>2. txs = MinedIn(Committed) \cup {bp.done[i] : i \in 1..bp.indexed}
    BY <1>6 DEF IInv, Once
  <2>3. txs' = MinedIn(Committed) \cup {p.done[i] : i \in 1..p.indexed}
    BY <1>1, <2>1, <2>2
  <2>4. /\ \A n \in 1..Len(blocks) : IsInjective(blocks[n].txs)
        /\ \A m, n \in 1..Len(blocks) : m # n => ToSet(blocks[m].txs) \cap ToSet(blocks[n].txs) = {}
        /\ IsInjective(queue)
        /\ ToSet(queue) \cap MinedIn(Committed) = {}
    BY DEF IInv, Once
  <2> QED
    BY <1>1, <1>6, <2>3, <2>4 DEF Once, miner
<1>11. Working'
  <2>1. p.indexed <= Len(p.done)
    BY <1>1, <1>2, <1>3, <1>5
  <2> QED
    BY <1>1, <1>3, <1>6, <2>1 DEF IInv, Working, miner
<1>12. PendingOfRoot' /\ Clocked'
  BY <1>1, <1>3, <1>6 DEF IInv, PendingOfRoot, Clocked, env, miner
<1>13. Based'
  BY <1>1, <1>6 DEF IInv, Based, miner
<1> QED
  BY <1>1, <1>7, <1>8, <1>9, <1>10, <1>11, <1>12, <1>13 DEF IInv

\* The task goes on after a block, or after none for a rejected entry.
LEMMA TaskResumes ==
    ASSUME IInv, bp # None, bp' = None, op' = Resume, UNCHANGED <<waiting, source, spent>>,
           UNCHANGED <<state, blocks, txs, mode, timer>>, pending' = None,
           txs = MinedIn(blocks), NEW gone, queue' = Without(queue, gone),
           ToSet(queue') \cap MinedIn(blocks) = {},
           op.req.kind = "submit" /\ op.at = "drain" => op.req.arg \notin MinedIn(blocks),
           offset' \in Nat, head.ts <= source + offset',
           base' = [state |-> state, blocks |-> blocks, txs |-> txs, queue |-> queue',
                    mode |-> mode, timer |-> timer, offset |-> offset']
    PROVE  IInv' /\ op'.at # "failed"
<1>1. /\ op.at \in {"mining", "drain", "ready"} /\ op \in Task
      /\ op.at = "mining" => op.left > 0
      /\ op.req.kind = "increaseTime" => op.at = "mining" /\ op.left = 1
      /\ op.req.kind = "cheat" => op.at = "mining" /\ op.left = 1
      /\ op.at = "ready" => op.req.kind = "submit"
      /\ op.left \in Nat
  BY InProduction, Typed DEF IInv, Placed
<1>2. /\ op'.req = op.req /\ op' \in Task /\ op'.at \in {"mining", "drain", "done"}
      /\ op'.at = "mining" => op.at = "mining" /\ op'.left = op.left - 1
      /\ op'.at = "drain" => op.at = "drain"
  <2> DEFINE a == IF op.req.kind = "submit" /\ op.at = "ready" THEN "done" ELSE op.at
             l == IF op.at = "mining" THEN op.left - 1 ELSE op.left
  <2>1. op' = [op EXCEPT !.at = a, !.left = l]
    BY DEF Resume
  <2>2. /\ l \in Nat /\ a \in {"mining", "drain", "done"}
        /\ a = "mining" => op.at = "mining" /\ l = op.left - 1
        /\ a = "drain" => op.at = "drain"
    BY <1>1
  <2> HIDE DEF a, l
  <2> QED
    BY <1>1, <2>1, <2>2 DEF Task, Places, Free
<1>3. /\ queue' \in Seq(Txs) /\ ToSet(queue') \subseteq ToSet(queue) /\ IsInjective(queue')
      /\ queue = << >> => queue' = << >>
  <2>1. queue \in Seq(Txs) /\ IsInjective(queue)
    BY Typed DEF IInv, Once
  <2>2. queue' \in Seq(Txs) /\ ToSet(queue') = ToSet(queue) \ gone /\ IsInjective(queue')
    BY <2>1, WithoutFacts
  <2>3. ASSUME queue = << >> PROVE queue' = << >>
    <3>1. ToSet(queue') = {}
      BY <2>2, <2>3 DEF ToSet
    <3>2. DOMAIN queue' = {}
      BY <3>1 DEF ToSet
    <3> QED
      BY <2>2, <3>2, LenProperties, EmptySeq
  <2> QED
    BY <2>2, <2>3
<1>4. /\ ~Sealed' /\ Committed' = blocks /\ head' = head
      /\ (CheatMines' => op'.left = 0)
      /\ ~CheatMines' => RestoredState' = state
      /\ RestoredOffset' = offset'
  <2>1. op'.req.kind \in {"cheat", "increaseTime"} /\ op'.at = "mining" => op'.left = 0
    BY <1>1, <1>2
  <2> QED
    BY <2>1 DEF Sealed, Committed, head, CheatMines, RestoredState, RestoredOffset
<1>5. Types'
  BY <1>2, <1>3, Typed DEF IInv, Types, TypeOK
<1>6. Placed'
  <2>1. op'.at = "mining" /\ op'.req.kind # "mine" => op'.left \in {0, 1}
    BY <1>1, <1>2 DEF IInv, Placed
  <2> QED
    BY <1>2, <2>1 DEF IInv, Placed, Free
<1>7. Timed'
  BY <1>2, <1>3 DEF IInv, Timed
<1>8. Once'
  BY <1>3, <1>4 DEF IInv, Once
<1>9. Working'
  BY <1>2, <1>3, <1>4 DEF IInv, Working
<1>10. PendingOfRoot'
  BY <1>4 DEF PendingOfRoot
<1>11. Clocked'
  BY <1>4 DEF IInv, Clocked, head
<1>12. Based' /\ Lagging'
  BY <1>4 DEF Based, Lagging
<1> QED
  BY <1>2, <1>5, <1>6, <1>7, <1>8, <1>9, <1>10, <1>11, <1>12 DEF IInv

\* What the block in the store adds to the committed ones.
LEMMA MinedWithHead ==
    ASSUME IInv, Sealed
    PROVE  MinedIn(blocks) = MinedIn(Committed) \cup ToSet(bp.done)
<1>1. /\ Len(Committed) = Len(blocks) - 1 /\ Len(blocks) \in Nat \ {0} /\ Len(blocks) > 1
      /\ \A i \in 1..(Len(blocks) - 1) : Committed[i] = blocks[i]
      /\ blocks[Len(blocks)].txs = bp.done
  BY CommittedHead, Typed DEF IInv, Working, Sealed, head
<1>2. 1..Len(blocks) = 1..(Len(blocks) - 1) \cup {Len(blocks)}
  BY <1>1
<1> QED
  BY <1>1, <1>2 DEF MinedIn

LEMMA CommitBlockStep == ASSUME IInv, CommitBlock PROVE IInv' /\ op'.at # "failed"
<1> DEFINE gone == ToSet(bp.done) \cup bp.rejected
<1>1. /\ bp # None /\ bp.sealed /\ bp.indexed = Len(bp.done) /\ nowMs <= MaxTime
      /\ offset' = CatchUp /\ queue' = Without(queue, gone) /\ bp' = None /\ op' = Resume
      /\ UNCHANGED <<waiting, source, spent, state, blocks, txs, pending, mode, timer>>
      /\ base' = [state |-> state, blocks |-> blocks, txs |-> txs, queue |-> queue',
                  mode |-> mode, timer |-> timer, offset |-> offset']
  BY DEF CommitBlock, Dequeue, Chain, chain, env
<1>2. Sealed /\ pending' = None
  BY <1>1 DEF Sealed, IInv, PendingOfRoot
<1>3. bp.done \in Seq(Txs) /\ DOMAIN bp.done = 1..Len(bp.done) /\ bp.ts \in Nat
  BY <1>1, InProduction, LenProperties
<1>4. MinedIn(blocks) = MinedIn(Committed) \cup ToSet(bp.done)
  BY <1>2, MinedWithHead
<1>5. txs = MinedIn(blocks)
  <2>1. {bp.done[i] : i \in 1..bp.indexed} = ToSet(bp.done)
    BY <1>1, <1>3 DEF ToSet
  <2> QED
    BY <1>2, <1>4, <2>1 DEF IInv, Once
<1>6. ToSet(queue') = ToSet(queue) \ gone
  BY <1>1, Typed, WithoutFacts
<1>7. ToSet(queue') \cap MinedIn(blocks) = {}
  <2>1. ToSet(queue) \cap MinedIn(Committed) = {}
    BY DEF IInv, Once
  <2> QED
    BY <1>4, <1>6, <2>1
<1>8. ASSUME op.req.kind = "submit", op.at = "drain" PROVE op.req.arg \notin MinedIn(blocks)
  <2>1. op.req.arg \notin ToSet(queue) \cup MinedIn(Committed) /\ ToSet(bp.done) \subseteq ToSet(queue)
    BY <1>1, <1>8 DEF IInv, Working
  <2> QED
    BY <1>4, <2>1
<1>9. offset' \in Nat /\ head.ts <= source + offset'
  <2>1. source \in Nat /\ offset \in Nat
    BY Typed
  <2>2. head.ts = bp.ts
    BY <1>1 DEF IInv, Working
  <2> QED
    BY <1>1, <1>3, <2>1, <2>2 DEF CatchUp, nowMs
<1> HIDE DEF gone
<1> QED
  BY <1>1, <1>2, <1>5, <1>7, <1>8, <1>9, TaskResumes

LEMMA CommitNothingStep == ASSUME IInv, CommitNothing PROVE IInv' /\ op'.at # "failed"
<1> DEFINE gone == ToSet(bp.done) \cup bp.rejected
<1>1. /\ bp # None /\ ~bp.sealed /\ ~bp.allowEmpty
      /\ queue' = Without(queue, gone) /\ bp' = None /\ op' = Resume /\ pending' = None
      /\ UNCHANGED <<waiting, source, spent, state, blocks, txs, mode, timer, offset>>
      /\ base' = [state |-> state, blocks |-> blocks, txs |-> txs, queue |-> queue',
                  mode |-> mode, timer |-> timer, offset |-> offset']
  BY DEF CommitNothing, Dequeue, Chain, chain, env
<1>2. /\ op.at = "drain" /\ ~Sealed /\ Committed = blocks /\ RestoredOffset = offset
  BY <1>1 DEF Sealed, Committed, RestoredOffset, IInv, Placed
<1>3. txs = MinedIn(blocks) /\ ToSet(queue) \cap MinedIn(blocks) = {}
  BY <1>2 DEF IInv, Once
<1>4. ToSet(queue') = ToSet(queue) \ gone
  BY <1>1, Typed, WithoutFacts
<1>5. op.req.kind = "submit" => op.req.arg \notin MinedIn(blocks)
  BY <1>2 DEF IInv, Working
<1>6. offset' \in Nat /\ head.ts <= source + offset'
  BY <1>1, <1>2, Typed DEF IInv, Clocked, head
<1> HIDE DEF gone
<1>7. ToSet(queue') \cap MinedIn(blocks) = {}
  BY <1>3, <1>4
<1> QED
  BY <1>1, <1>2, <1>3, <1>5, <1>6, <1>7, TaskResumes
-----------------------------------------------------------------------------
(* The invariant.                                                          *)

LEMMA InitIInv == ASSUME Init PROVE IInv
<1> DEFINE b == [ts |-> 0, txs |-> << >>]
<1>1. /\ state = << >> /\ blocks = <<b>> /\ txs = {} /\ queue = << >> /\ pending = None
      /\ mode = 0 /\ timer = None /\ source = 0 /\ offset = 0 /\ waiting = << >>
      /\ op = [req |-> [kind |-> "mine", arg |-> 1], at |-> "done", left |-> 0,
               root |-> << >>, clock |-> 0]
      /\ bp = None /\ base = Chain
      /\ spent = [requests |-> 0, ticks |-> 0, faults |-> 0, timers |-> 0]
  BY DEF Init
<1>2. b \in Block /\ b.ts = 0 /\ b.txs = << >>
  BY EmptySeq, Bounds DEF Block
<1>3. ToSet(<< >>) = {} /\ IsInjective(<< >>)
  BY DEF ToSet, IsInjective
<1> HIDE DEF b
<1>4. blocks \in Seq(Block) /\ Len(blocks) = 1 /\ blocks[1] = b /\ blocks # << >>
  BY <1>1, <1>2
<1>5. ~Sealed /\ Committed = blocks /\ head = b /\ ~CheatMines /\ RestoredState = state
      /\ RestoredOffset = offset
  BY <1>1, <1>4 DEF Sealed, Committed, head, CheatMines, RestoredState, RestoredOffset
<1>6. MinedIn(blocks) = {}
  BY <1>2, <1>3, <1>4 DEF MinedIn
<1>7. Types
  <2>1. TypeOK
    <3>1. op \in Task
      <4>1. op.req \in Requests \cup Ticks
        <5>1. 1 \in 1..MaxMine
          BY MiningAssumption
        <5> QED
          BY <1>1, <5>1 DEF Requests
      <4> QED
        BY <1>1, <4>1, EmptySeq DEF Task, Places, Free
    <3>2. /\ state \in Seq(Effects) /\ queue \in Seq(Txs) /\ waiting \in Seq(Requests \cup Ticks)
      BY <1>1, EmptySeq
    <3>3. source \in 0..MaxSource
      BY <1>1, Bounds
    <3> QED
      BY <1>1, <1>4, <3>1, <3>2, <3>3 DEF TypeOK
  <2> QED
    BY <1>1, <1>4, <2>1, EmptySeq DEF Types, Chain
<1>8. Placed /\ Timed
  BY <1>1, NoneAssumption DEF Placed, Timed, Free
<1>9. Once
  <2>1. \A n \in 1..Len(blocks) : n = 1
    BY <1>4
  <2> QED
    BY <1>1, <1>2, <1>3, <1>4, <1>5, <1>6, <2>1 DEF Once
<1>10. Working /\ PendingOfRoot
  BY <1>1, <1>5 DEF Working, PendingOfRoot
<1>11. Clocked
  <2>1. \A n \in 2..Len(blocks) : FALSE
    BY <1>4
  <2> QED
    BY <1>1, <1>2, <1>4, <1>5, <2>1 DEF Clocked
<1>12. Based /\ Lagging
  BY <1>1 DEF Based, Lagging, Chain, Free
<1> QED
  BY <1>7, <1>8, <1>9, <1>10, <1>11, <1>12 DEF IInv

\* Every step keeps the invariant, and a task that throws leaves what the ghost has.
Fails == op.at \notin Free /\ op'.at = "failed"

LEMMA NextIInv == ASSUME IInv, [Next]_vars PROVE IInv' /\ (Fails => Chain' = base)
<1>1. ASSUME NEW r \in Requests, Arrive(r) PROVE IInv' /\ ~Fails
  BY <1>1, ArriveStep DEF Arrive, Fails, Free
<1>2. CASE Fire
  BY <1>2, FireStep DEF Fire, Fails, Free
<1>3. CASE PassTime
  BY <1>3, PassTimeStep DEF PassTime, Fails, Free
<1>4. CASE Acquire
  BY <1>4, AcquireStep DEF Acquire, Fails
<1>5. CASE Submit
  BY <1>5, SubmitDuplicateStep, SubmitPendingStep, SubmitInstantStep, PreviewRejectedStep
     DEF Submit, Fails
<1>6. CASE Start
  BY <1>6, StartMineStep, StartTickStep, StartIncreaseTimeStep, StartCheatStep, StartSetBlockTimeStep
     DEF Start, Fails
<1>7. CASE Finish
  BY <1>7, SwitchModeStep, FinishMiningStep, DrainOverStep DEF Finish, Fails
<1>8. CASE Blocks
  <2>1. ASSUME op' = op PROVE ~Fails
    BY <2>1 DEF Fails, Free
  <2> QED
    BY <1>8, <2>1, MineBlockStep, DrainBlockStep, SubmitBlockStep, ExecuteCandidateStep, SealBlockStep,
       IndexTransactionStep, CommitBlockStep, CommitNothingStep, BlockThrowsStep
       DEF Blocks, Fails
<1>9. CASE BlockFault
  BY <1>9, BlockFaultStep
<1>10. CASE AdmissionFault
  BY <1>10, AdmissionFaultStep
<1>11. CASE UNCHANGED vars
  <2>1. /\ UNCHANGED <<chain, miner, pending, offset, op, bp, base, waiting, source, spent>>
    BY <1>11 DEF vars, env
  <2>2. waiting' \in Seq(Requests \cup Ticks) /\ source' \in 0..MaxSource /\ source <= source'
        /\ spent' \in [requests : Nat, ticks : Nat, faults : Nat, timers : Nat]
    BY <2>1, Typed DEF IInv, Types, TypeOK
  <2> QED
    BY <2>1, <2>2, OutsideStep DEF Fails, Free
<1> QED
  BY <1>1, <1>2, <1>3, <1>4, <1>5, <1>6, <1>7, <1>8, <1>9, <1>10, <1>11 DEF Next, Step

\* What is promised of a free lock.
LEMMA Promised == ASSUME IInv PROVE QueueSound
<1>1. TypeOK
  BY DEF IInv, Types
<1>2. ASSUME LockFree
      PROVE  ~Sealed /\ Committed = blocks /\ RestoredState = state /\ RestoredOffset = offset
             /\ txs = MinedIn(blocks)
  <2>1. bp = None /\ op.at \notin {"mining"}
    BY <1>2 DEF IInv, Placed, LockFree, Free
  <2>2. ~Sealed /\ Committed = blocks /\ RestoredState = state /\ RestoredOffset = offset
    BY <2>1 DEF Sealed, Committed, CheatMines, RestoredState, RestoredOffset
  <2> QED
    BY <2>2 DEF IInv, Once
<1>3. MinedOnce
  <2>1. Once
    BY DEF IInv
  <2> QED
    BY <1>2, <2>1 DEF MinedOnce, Once, MinedIn
<1>4. PendingExact
  BY <1>2 DEF IInv, PendingOfRoot, PendingExact
<1>5. InstantQueueEmpty
  BY DEF IInv, Timed, InstantQueueEmpty
<1>6. ClockCoversHead
  BY <1>2 DEF IInv, Clocked, ClockCoversHead, head, nowMs
<1> QED
  BY <1>1, <1>3, <1>4, <1>5, <1>6 DEF QueueSound

LEMMA SpecIInv == Spec => []IInv
<1>1. Init => IInv
  BY InitIInv
<1>2. IInv /\ [Next]_vars => IInv'
  BY NextIInv
<1> QED
  BY <1>1, <1>2, PTL DEF Spec

\* Whatever is asked of the node and wherever it fails, each transaction is mined
\* once, the cached pending state is what the queue would do, nothing is queued in
\* instant mode, and no block is later than the clock (sendTransaction,
\* produceBlock, getPendingState, setBlockTime, increaseTime).
THEOREM QueueSafe == Spec => []QueueSound
<1>1. IInv => QueueSound
  BY Promised
<1> QED
  BY <1>1, SpecIInv, PTL
-----------------------------------------------------------------------------
(* What no step does.                                                      *)

\* The queue changes by an admission or by a block, the store by a block.
LEMMA WhoChanges ==
    ASSUME [Next]_vars
    PROVE  /\ queue' # queue => SubmitPending \/ CommitBlock \/ CommitNothing
           /\ blocks' # blocks => bp # None
           /\ base' # base => Acquire \/ CommitBlock \/ CommitNothing
<1> USE DEF vars, chain, miner, env, OnlyTask
<1>1. ASSUME NEW r \in Requests, Arrive(r) PROVE UNCHANGED <<queue, blocks, base>>
  BY <1>1 DEF Arrive
<1>2. Fire \/ PassTime \/ UNCHANGED vars => UNCHANGED <<queue, blocks, base>>
  BY DEF Fire, PassTime
<1>3. Acquire => UNCHANGED <<queue, blocks>>
  BY DEF Acquire
<1>4. SubmitDuplicate \/ SubmitInstant \/ PreviewRejected => UNCHANGED <<queue, blocks, base>>
  BY DEF SubmitDuplicate, SubmitInstant, PreviewRejected
<1>5. SubmitPending => UNCHANGED <<blocks, base>>
  BY DEF SubmitPending
<1>6. Start => UNCHANGED <<queue, blocks, base>>
  BY DEF Start, StartMine, StartTick, StartIncreaseTime, StartCheat, StartSetBlockTime
<1>7. Finish => UNCHANGED <<queue, blocks, base>>
  BY DEF Finish, SwitchMode, FinishMining, DrainOver
<1>8. ASSUME NEW cand, NEW skip, NEW allow, NEW interval, Produce(cand, skip, allow, interval)
      PROVE  UNCHANGED <<queue, blocks, base>>
  BY <1>8 DEF Produce, UnwindTo
<1>9. MineBlock \/ DrainBlock \/ SubmitBlock => UNCHANGED <<queue, blocks, base>>
  BY <1>8 DEF MineBlock, DrainBlock, SubmitBlock
<1>10. ExecuteCandidate \/ IndexTransaction => UNCHANGED <<queue, blocks, base>>
  BY DEF ExecuteCandidate, IndexTransaction
<1>11. SealBlock \/ BlockThrows \/ BlockFault => bp # None /\ UNCHANGED <<queue, base>>
  BY DEF SealBlock, BlockThrows, BlockFault, Unwind, UnwindTo
<1>12. CommitBlock \/ CommitNothing => bp # None
  BY DEF CommitBlock, CommitNothing
<1>13. AdmissionFault => UNCHANGED <<queue, blocks, base>>
  BY DEF AdmissionFault
<1> QED
  BY <1>1, <1>2, <1>3, <1>4, <1>5, <1>6, <1>7, <1>9, <1>10, <1>11, <1>12, <1>13
     DEF Next, Step, Submit, Blocks

LEMMA DropsNothing ==
    ASSUME IInv, [Next]_vars, NEW t \in ToSet(queue) \ ToSet(queue')
    PROVE  t \in txs' \/ (bp # None /\ t \in bp.rejected)
<1>1. SubmitPending \/ CommitBlock \/ CommitNothing
  BY WhoChanges
<1>2. CASE SubmitPending
  <2>1. queue' = queue \/ queue' = Append(queue, op.req.arg)
    BY <1>2 DEF SubmitPending
  <2>2. queue' = Append(queue, op.req.arg)
    BY <2>1
  <2>3. op.req.arg \in Txs /\ queue \in Seq(Txs)
    BY <1>2, Typed DEF SubmitPending, At, Requests, Ticks
  <2>4. /\ DOMAIN queue = 1..Len(queue) /\ DOMAIN queue' = 1..(Len(queue) + 1) /\ Len(queue) \in Nat
        /\ \A i \in 1..Len(queue) : queue'[i] = queue[i]
    BY <2>2, <2>3, AppendProperties, LenProperties
  <2>5. ToSet(queue) \subseteq ToSet(queue')
    BY <2>4 DEF ToSet
  <2> QED
    BY <2>5
<1>3. CASE CommitBlock \/ CommitNothing
  <2> DEFINE gone == ToSet(bp.done) \cup bp.rejected
  <2>1. queue' = Without(queue, gone) /\ bp # None
    BY <1>3 DEF CommitBlock, CommitNothing, Dequeue
  <2>2. ToSet(queue') = ToSet(queue) \ gone
    BY <2>1, Typed, WithoutFacts
  <2>3. t \in ToSet(bp.done) \/ t \in bp.rejected
    BY <2>2
  <2>4. CASE CommitBlock
    <3>1. Sealed /\ txs' = txs /\ bp.indexed = Len(bp.done)
      BY <2>4 DEF CommitBlock, Sealed, chain
    <3>2. DOMAIN bp.done = 1..Len(bp.done)
      BY <2>1, InProduction, LenProperties
    <3>3. ToSet(bp.done) \subseteq txs
      BY <3>1, <3>2 DEF IInv, Once, ToSet
    <3> QED
      BY <2>1, <2>3, <3>1, <3>3
  <2>5. CASE CommitNothing
    <3>1. ToSet(bp.done) = {}
      BY <2>5 DEF CommitNothing, ToSet
    <3> QED
      BY <2>1, <2>3, <3>1
  <2> QED
    BY <1>3, <2>4, <2>5
<1> QED
  BY <1>1, <1>2, <1>3

LEMMA LiveTimerMines ==
    ASSUME IInv, [Next]_vars, op.req.kind = "tick", blocks' # blocks
    PROVE  mode > 0 /\ op.req.arg = timer
<1>1. bp # None
  BY WhoChanges
<1>2. op.at = "mining"
  BY <1>1, InProduction DEF IInv, Placed
<1>3. op.req.arg = timer
  BY <1>2 DEF IInv, Timed
<1>4. op.req.arg # None
  BY Typed, NoneAssumption DEF Requests, Ticks, Timers
<1>5. mode # 0 /\ mode \in Nat
  BY <1>3, <1>4, Typed DEF IInv, Timed
<1> QED
  BY <1>3, <1>5

\* A task that throws leaves what its last block left, a transaction leaves the queue
\* only mined or rejected, and a cancelled interval mines nothing (transact,
\* produceBlock, setBlockTime).
THEOREM StepsHold == Spec => StepsHonest
<1> DEFINE A == op.at \notin Free /\ op'.at = "failed" => Chain' = base
           D == \A t \in ToSet(queue) \ ToSet(queue') :
                   t \in txs' \/ (bp # None /\ t \in bp.rejected)
           T == op.req.kind = "tick" /\ blocks' # blocks => mode > 0 /\ op.req.arg = timer
<1>1. IInv /\ [Next]_vars => A /\ D /\ T
  <2>1. SUFFICES ASSUME IInv, [Next]_vars PROVE A /\ D /\ T
    OBVIOUS
  <2>2. A
    BY <2>1, NextIInv DEF Fails
  <2>3. D
    BY <2>1, DropsNothing
  <2>4. T
    BY <2>1, LiveTimerMines
  <2> QED
    BY <2>2, <2>3, <2>4
<1>2. StepsHonest <=> [][A]_vars /\ [][D]_vars /\ [][T]_vars
  BY DEF StepsHonest, AllOrNothing, NoSilentDrop, StaleTickMinesNothing
<1> HIDE DEF A, D, T
<1>3. Spec => [][A]_vars /\ [][D]_vars /\ [][T]_vars
  BY <1>1, SpecIInv, PTL DEF Spec
<1> QED
  BY <1>2, <1>3
-----------------------------------------------------------------------------
(* The life of a transaction.                                              *)

\* A task that takes the lock shows what the task before it admitted.
LEMMA AdmissionShows == ASSUME IInv, Acquire PROVE L!Next \/ TxStatus' = TxStatus
<1>1. base'.queue = queue /\ base'.txs = txs
  BY DEF Acquire, Chain
<1>2. base.txs = txs
  BY DEF IInv, Lagging, Acquire
<1>3. CASE ToSet(base.queue) = ToSet(queue)
  BY <1>1, <1>2, <1>3 DEF TxStatus
<1>4. CASE /\ op.req.kind = "submit"
           /\ op.req.arg \notin ToSet(base.queue) \cup txs
           /\ ToSet(queue) = ToSet(base.queue) \cup {op.req.arg}
  <2> DEFINE t == op.req.arg
  <2>1. t \in Txs
    BY <1>4, Typed DEF Requests, Ticks
  <2>2. TxStatus[t] = "unknown"
    BY <1>2, <1>4, <2>1 DEF TxStatus
  <2>3. TxStatus' = [TxStatus EXCEPT ![t] = "queued"]
    BY <1>1, <1>2, <1>4, <2>1 DEF TxStatus
  <2>4. L!Admit(t)
    BY <2>2, <2>3 DEF L!Admit
  <2> QED
    BY <2>1, <2>4 DEF L!Next
<1> QED
  BY <1>3, <1>4 DEF IInv, Lagging, Acquire

\* Transactions that leave the queue for the index, or for good.
LEMMA BlockShows ==
    ASSUME NEW mined \in SUBSET L!In("queued"), NEW dropped \in SUBSET L!In("queued"),
           mined \cap dropped = {}, dropped \cap base'.txs = {},
           ToSet(base'.queue) = ToSet(base.queue) \ (mined \cup dropped),
           base'.txs = base.txs \cup mined
    PROVE  L!Next
<1>1. TxStatus' = [t \in Txs |-> IF t \in mined THEN "mined"
                                 ELSE IF t \in dropped THEN "unknown" ELSE TxStatus[t]]
  BY DEF TxStatus
<1>2. L!Block(mined, dropped)
  BY <1>1 DEF L!Block
<1> QED
  BY <1>2 DEF L!Next

LEMMA CommitShows == ASSUME IInv, CommitBlock PROVE L!Next
<1> DEFINE gone == ToSet(bp.done) \cup bp.rejected
<1>1. /\ bp # None /\ Sealed /\ bp.indexed = Len(bp.done) /\ bp.cand = << >>
      /\ base'.queue = queue' /\ base'.txs = txs /\ queue' = Without(queue, gone)
  BY DEF CommitBlock, Dequeue, Chain, Sealed, IInv, Working, Types
<1>2. /\ op.at \notin Free /\ op.at \in {"mining", "drain", "ready"}
      /\ bp.done \in Seq(Txs) /\ bp.rejected \subseteq Txs
      /\ ToSet(bp.done) \cap MinedIn(Committed) = {}
  BY <1>1, InProduction
<1>3. base.queue = queue /\ base.txs = MinedIn(Committed)
  BY <1>2 DEF IInv, Based
<1>4. txs = base.txs \cup ToSet(bp.done)
  <2>1. DOMAIN bp.done = 1..Len(bp.done)
    BY <1>2, LenProperties
  <2>2. {bp.done[i] : i \in 1..bp.indexed} = ToSet(bp.done)
    BY <1>1, <2>1 DEF ToSet
  <2> QED
    BY <1>1, <1>3, <2>2 DEF IInv, Once
<1>5. ToSet(queue') = ToSet(queue) \ gone
  BY <1>1, Typed, WithoutFacts
<1>6. /\ ToSet(bp.done) \cap bp.rejected = {} /\ ToSet(bp.cand) = {}
      /\ ToSet(queue) \cap MinedIn(Committed) = {}
  BY <1>1 DEF IInv, Working, Once, ToSet
<1>7. CASE op.at = "ready"
  <2> DEFINE t == op.req.arg
  <2>1. ToSet(bp.done) = {t} /\ bp.rejected = {} /\ t \notin ToSet(queue) \cup MinedIn(Committed)
    <3>1. op.req.kind = "submit"
      BY <1>1, <1>7 DEF IInv, Placed
    <3>2. ToSet(bp.cand) \cup ToSet(bp.done) = {t} /\ bp.rejected = {}
          /\ t \notin ToSet(queue) \cup MinedIn(Committed)
      BY <1>1, <1>7, <3>1 DEF IInv, Working
    <3> QED
      BY <1>6, <3>2
  <2>2. t \in Txs
    <3>1. op.req.kind = "submit"
      BY <1>1, <1>7 DEF IInv, Placed
    <3> QED
      BY <3>1, Typed DEF Requests, Ticks
  <2>3. ToSet(queue') = ToSet(queue)
    BY <1>5, <2>1
  <2>4. TxStatus[t] = "unknown"
    BY <1>3, <2>1, <2>2 DEF TxStatus
  <2>5. TxStatus' = [TxStatus EXCEPT ![t] = "mined"]
    BY <1>1, <1>3, <1>4, <2>1, <2>2, <2>3 DEF TxStatus
  <2>6. L!MineDirect(t)
    BY <2>4, <2>5 DEF L!MineDirect
  <2> QED
    BY <2>2, <2>6 DEF L!Next
<1>8. CASE op.at # "ready"
  <2>1. ToSet(bp.done) \cup bp.rejected \subseteq ToSet(queue)
    BY <1>1, <1>8 DEF IInv, Working
  <2>2. ToSet(bp.done) \subseteq L!In("queued") /\ bp.rejected \subseteq L!In("queued")
    <3>1. ToSet(bp.done) \subseteq Txs
      BY <1>2, LenProperties, ElementOfSeq DEF ToSet
    <3> QED
      BY <1>2, <1>3, <2>1, <3>1 DEF L!In, TxStatus
  <2>3. bp.rejected \cap base'.txs = {}
    BY <1>1, <1>3, <1>4, <1>6, <2>1
  <2> HIDE DEF L!Next
  <2> QED
    BY <1>1, <1>3, <1>4, <1>5, <1>6, <2>2, <2>3, BlockShows
<1> QED
  BY <1>7, <1>8

LEMMA NothingShows == ASSUME IInv, CommitNothing PROVE L!Next
<1> DEFINE gone == ToSet(bp.done) \cup bp.rejected
<1>1. /\ bp # None /\ ~Sealed /\ bp.done = << >> /\ Committed = blocks /\ op.at = "drain"
      /\ base'.queue = queue' /\ base'.txs = txs /\ queue' = Without(queue, gone)
  BY DEF CommitNothing, Dequeue, Chain, Sealed, Committed, IInv, Placed, Types
<1>2. op.at \notin Free /\ bp.rejected \subseteq Txs
  BY <1>1, InProduction
<1>3. base.queue = queue /\ base.txs = MinedIn(blocks) /\ txs = MinedIn(blocks)
      /\ ToSet(queue) \cap MinedIn(blocks) = {}
  BY <1>1, <1>2 DEF IInv, Based, Once
<1>4. ToSet(queue') = ToSet(queue) \ bp.rejected
  <2>1. ToSet(bp.done) = {}
    BY <1>1 DEF ToSet
  <2> QED
    BY <1>1, <2>1, Typed, WithoutFacts
<1>5. bp.rejected \subseteq ToSet(queue)
  BY <1>1 DEF IInv, Working
<1>6. bp.rejected \subseteq L!In("queued") /\ {} \subseteq L!In("queued")
  BY <1>2, <1>3, <1>5 DEF L!In, TxStatus
<1> HIDE DEF gone
<1>7. /\ {} \cap bp.rejected = {} /\ bp.rejected \cap base'.txs = {}
      /\ ToSet(base'.queue) = ToSet(base.queue) \ ({} \cup bp.rejected)
      /\ base'.txs = base.txs \cup {}
  BY <1>1, <1>3, <1>4, <1>5
<1> QED
  BY <1>6, <1>7, BlockShows

\* Block production implements the life cycle of TxLifecycle, for any number of
\* transactions, clients and blocks: what is mined is never queued, mined or
\* forgotten again (sendTransaction, produceBlock, setBlockTime).
THEOREM LifecycleHolds == Spec => Lifecycle
<1>1. Init => L!Init
  <2>1. SUFFICES ASSUME Init PROVE TxStatus = [t \in Txs |-> "unknown"]
    BY DEF L!Init
  <2>2. base.queue = << >> /\ base.txs = {} /\ ToSet(base.queue) = {}
    BY <2>1 DEF Init, Chain, ToSet
  <2> QED
    BY <2>2 DEF TxStatus
<1>2. IInv /\ [Next]_vars => L!Next \/ TxStatus' = TxStatus
  <2>1. SUFFICES ASSUME IInv, [Next]_vars PROVE L!Next \/ TxStatus' = TxStatus
    OBVIOUS
  <2>2. CASE base' = base
    BY <2>2 DEF TxStatus
  <2>3. CASE base' # base
    BY <2>1, <2>3, WhoChanges, AdmissionShows, CommitShows, NothingShows
  <2> QED
    BY <2>2, <2>3
<1>3. IInv /\ [Next]_vars => [L!Next]_TxStatus
  BY <1>2
<1> HIDE DEF L!Next
<1> QED
  BY <1>1, <1>3, SpecIInv, PTL DEF Spec, Lifecycle, L!Spec
=============================================================================
