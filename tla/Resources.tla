----------------------------- MODULE Resources -----------------------------
(***************************************************************************)
(* Stake, delegation and the quotas they buy: the ledgers that the node    *)
(* keeps beside the state trie (client/src/core/node.ts) and the rules the *)
(* transactions that move them are judged by (wallet/stake.ts).            *)
(*                                                                         *)
(* A transaction runs in a candidate block: stake and locks are judged by  *)
(* the time of the head, usage by the time of the candidate.  Each action  *)
(* is one accepted transaction, its rules as guards; a refused one changes *)
(* nothing.  Quotients are exact where the code divides doubles.           *)
(***************************************************************************)
EXTENDS Ledgers

CONSTANTS
    Owners,      \* accounts that sign
    Deployable,  \* accounts without a key: an address a contract may take
    Quotas,      \* the resources that can be delegated
    Funds,       \* sun each owner starts with
    Amounts,     \* amounts that transactions state, in sun
    Units,       \* bytes or energy that one transaction uses
    Periods,     \* lock periods that transactions state
    Trx,         \* sun per TRX
    Limit,       \* totalNetLimit, totalEnergyCurrentLimit
    Window,      \* slots over which usage recovers
    Precision,   \* scale of the average usage
    DefaultLock, \* lock period of a transaction that states none
    Frozen,      \* how long a Stake 1.0 freeze lasts
    MaxPending,  \* pending unstakes of one account
    Params,      \* chain parameters the node may be configured with
    MaxTxs,      \* bound: transactions in one behaviour
    MaxTime      \* bound: the last time a block has

ASSUME ResourcesAssumption ==
    /\ Trx \in Nat \ {0} /\ Limit \in Nat \ {0} /\ Window \in Nat \ {0}
    /\ Precision \in Nat /\ Precision >= Window
    /\ Amounts \subseteq Nat \ {0} /\ Units \subseteq Nat
    /\ Periods \subseteq Nat /\ DefaultLock \in Nat \ {0}
    /\ Funds \in Nat /\ Frozen \in Nat /\ MaxTime \in Nat /\ MaxTxs \in Nat /\ MaxPending \in Nat \ {0}
    /\ Owners \cap Deployable = {} /\ IsFiniteSet(Owners) /\ IsFiniteSet(Deployable)
    /\ Quotas \subseteq {"BANDWIDTH", "ENERGY"}
    /\ Params \subseteq [unfreezeDelay : Nat, maxLock : Nat, newResourceModel : BOOLEAN, multiSign : BOOLEAN,
                        delegateResource : BOOLEAN, cancelAllUnfreeze : BOOLEAN]

Accounts == Owners \cup Deployable
Stakes == Quotas \cup {"TRON_POWER"}
Pairs == {p \in Owners \X Accounts : p[1] # p[2]}

VARIABLES
    params,       \* chain parameters, fixed when the node starts
    kind,         \* what there is at an address
    balance,      \* what each owner can spend
    record,       \* the record beside the trie, per account
    delegations,  \* Stake 2.0: <<from, to, locked>> to what is delegated
    legacy,       \* Stake 1.0: <<from, to>> to what is delegated
    pairs,        \* the account index of Stake 2.0
    legacyPairs,  \* the account index of Stake 1.0
    weight,       \* chain-wide weight in TRX, per resource
    head,         \* time of the head block
    clock,        \* time of the candidate block
    lost,         \* history: receivers that lost their record or became contracts
    txs           \* transactions so far

books == <<delegations, legacy, pairs, legacyPairs>>
time == <<head, clock>>
addresses == <<kind, lost>>
vars == <<params, addresses, balance, record, books, weight, time, txs>>

Zero(S) == [s \in S |-> 0]
Held == [amount |-> 0, expire |-> 0]
Ledger == [used |-> 0, last |-> 0]

Blank == [frozenV2 |-> Zero(Stakes), delegatedOut |-> Zero(Quotas),
          acquired |-> Zero(Quotas), unfrozenV2 |-> << >>,
          frozenLegacy |-> [r \in Stakes |-> Held], delegatedLegacyOut |-> Zero(Quotas),
          acquiredLegacy |-> Zero(Quotas), oldTronPower |-> 0,
          usage |-> [q \in Quotas |-> Ledger]]

NoEntry == [amount |-> Zero(Quotas), expire |-> Zero(Quotas)]

Init ==
    /\ params \in Params
    /\ kind = [a \in Accounts |-> "plain"] /\ lost = {}
    /\ balance = [a \in Owners |-> Funds]
    /\ record = [a \in Accounts |-> Blank]
    /\ delegations = << >> /\ legacy = << >> /\ pairs = {} /\ legacyPairs = {}
    /\ weight = Zero(Stakes)
    /\ head = 0 /\ clock = 0 /\ txs = 0
-----------------------------------------------------------------------------
(* Usage ledgers *)

Slots(last, now) == now - last
CeilDiv(a, b) == (a + b - 1) \div b
Round(a, b) == (2 * a + b) \div (2 * b)

\* A usage read or charged at time now, kept as an average per slot.
WindowedUsage(held, last, now, units) ==
    LET average == CeilDiv(held * Precision, Window)
        delta == Slots(last, now)
        decayed == IF delta <= 0 THEN average
                   ELSE IF delta < Window THEN Round(average * (Window - delta), Window)
                   ELSE 0
    IN ((decayed + CeilDiv(units * Precision, Window)) * Window) \div Precision

UsageAt(rec, q) == WindowedUsage(rec[q].used, rec[q].last, clock, 0)
Used(a, q) == UsageAt(record[a].usage, q)

\* What the account's weight of one resource buys, its own and acquired.
StakedLimit(a, q) ==
    LET r == record[a]
        sun == r.frozenV2[q] + r.acquired[q] + r.frozenLegacy[q].amount + r.acquiredLegacy[q]
    IN IF weight[q] <= 0 THEN 0 ELSE (sun * Limit) \div (Trx * weight[q])

\* Bandwidth is refused when the quota does not cover it; energy is charged up
\* to what the execution found left.
Consume(a, q, units) ==
    /\ units > 0
    /\ Used(a, q) + units <= StakedLimit(a, q)
    /\ record' = [record EXCEPT ![a].usage[q] =
                     [used |-> WindowedUsage(@.used, @.last, clock, units), last |-> clock]]
    /\ UNCHANGED <<params, addresses, balance, books, weight, time>>
-----------------------------------------------------------------------------
(* Voting power and weight *)

\* The stake that counted as voting power before the new resource model.
QuotaTronPower(r) ==
    Total([q \in Quotas |-> r.frozenV2[q] + r.delegatedOut[q]
                               + r.frozenLegacy[q].amount + r.delegatedLegacyOut[q]])

\* -1 stands for "nothing to carry over".
Migrated(r) ==
    IF params.newResourceModel /\ r.oldTronPower = 0
    THEN [r EXCEPT !.oldTronPower = IF QuotaTronPower(r) = 0 THEN -1 ELSE QuotaTronPower(r)]
    ELSE r

Unstaked(r) == IF params.newResourceModel THEN [r EXCEPT !.oldTronPower = -1] ELSE r

TronPower(a) ==
    LET r == record[a]
        explicit == r.frozenV2["TRON_POWER"] + r.frozenLegacy["TRON_POWER"].amount
    IN explicit + CASE r.oldTronPower = -1 -> 0
                    [] r.oldTronPower = 0 -> QuotaTronPower(r)
                    [] OTHER -> r.oldTronPower

WeightWithDelegated(r, s) == r.frozenV2[s] + IF s \in Quotas THEN r.delegatedOut[s] ELSE 0

Floor(sun) == sun \div Trx

\* Faulty variant: the difference is rounded, not the weights.
ShiftWeightBy(s, before, after) == weight' = [weight EXCEPT ![s] = @ + Floor(after - before)]

ShiftWeight(s, before, after) ==
    weight' = [weight EXCEPT ![s] = @ + Floor(after) - Floor(before)]
-----------------------------------------------------------------------------
(* Stake 2.0 *)

StakeV2 == params.unfreezeDelay > 0

\* A resource that a stake may name.
Allowed(s) == s = "TRON_POWER" => params.newResourceModel

CanFreezeV2(a, x, s) == StakeV2 /\ Allowed(s) /\ Trx <= x /\ x <= balance[a]

FreezeBalanceV2(a, x, s) ==
    /\ CanFreezeV2(a, x, s)
    /\ balance' = [balance EXCEPT ![a] = @ - x]
    /\ LET r == Migrated(record[a])
           before == WeightWithDelegated(r, s)
       IN /\ record' = [record EXCEPT ![a] = [r EXCEPT !.frozenV2[s] = @ + x]]
          /\ ShiftWeight(s, before, before + x)
    /\ UNCHANGED <<params, addresses, books, time>>

Matured(r) == Within(r.unfrozenV2, {e \in Range(r.unfrozenV2) : e.expire <= head})
Open(r) == Within(r.unfrozenV2, {e \in Range(r.unfrozenV2) : e.expire > head})

\* Matured unstakes go back to the balance on the way.
Claimed(r) == [r EXCEPT !.unfrozenV2 = Open(r)]
Credit(a, x) == balance' = [balance EXCEPT ![a] = @ + x]

SlotFree(r) == Len(Open(r)) < MaxPending

CanUnfreezeV2(a, x, s) ==
    StakeV2 /\ Allowed(s) /\ 0 < x /\ x <= record[a].frozenV2[s] /\ SlotFree(record[a])

UnfreezeBalanceV2(a, x, s) ==
    /\ CanUnfreezeV2(a, x, s)
    /\ Credit(a, Sum(Matured(record[a])))
    /\ LET r == Migrated(Claimed(record[a]))
           before == WeightWithDelegated(r, s)
       IN /\ record' = [record EXCEPT ![a] = Unstaked([r EXCEPT !.frozenV2[s] = @ - x,
                 !.unfrozenV2 = Append(@, [type |-> s, amount |-> x,
                                           expire |-> head + params.unfreezeDelay])])]
          /\ ShiftWeight(s, before, before - x)
    /\ UNCHANGED <<params, addresses, books, time>>

CanWithdraw(a) == StakeV2 /\ Sum(Matured(record[a])) > 0

WithdrawExpireUnfreeze(a) ==
    /\ CanWithdraw(a)
    /\ Credit(a, Sum(Matured(record[a])))
    /\ record' = [record EXCEPT ![a] = Claimed(@)]
    /\ UNCHANGED <<params, addresses, books, weight, time>>

CanCancel(a) == StakeV2 /\ params.cancelAllUnfreeze /\ record[a].unfrozenV2 # << >>

\* What is still pending returns to the freezes, and its weight with it.
CancelAllUnfreezeV2(a) ==
    /\ CanCancel(a)
    /\ Credit(a, Sum(Matured(record[a])))
    /\ LET r == record[a]
           back == [s \in Stakes |-> Sum(Within(Open(r), {e \in Range(Open(r)) : e.type = s}))]
           before == [s \in Stakes |-> WeightWithDelegated(r, s)]
       IN /\ record' = [record EXCEPT ![a] = [r EXCEPT !.unfrozenV2 = << >>,
                 !.frozenV2 = [s \in Stakes |-> @[s] + back[s]]]]
          /\ weight' = [s \in Stakes |->
                 weight[s] + Floor(before[s] + back[s]) - Floor(before[s])]
    /\ UNCHANGED <<params, addresses, books, time>>
-----------------------------------------------------------------------------
(* Delegation of Stake 2.0 *)

Get(table, key) == IF key \in DOMAIN table THEN table[key] ELSE NoEntry
Empty(e) == e.amount = Zero(Quotas)

Without(table, key) == [k \in DOMAIN table \ {key} |-> table[k]]
With(table, key, e) == [k \in DOMAIN table \cup {key} |-> IF k = key THEN e ELSE table[k]]
Put(table, key, e) == IF Empty(e) THEN Without(table, key) ELSE With(table, key, e)

\* The expired part of a locked entry.
Expired(e) == [q \in Quotas |-> IF e.expire[q] <= head THEN e.amount[q] ELSE 0]

\* It joins the unlocked entry of the pair.
Unlocked(p) ==
    LET locked == Get(delegations, <<p[1], p[2], TRUE>>)
        free == Get(delegations, <<p[1], p[2], FALSE>>)
        moved == Expired(locked)
        rest == [amount |-> [q \in Quotas |-> locked.amount[q] - moved[q]],
                 expire |-> [q \in Quotas |-> IF moved[q] > 0 THEN 0 ELSE locked.expire[q]]]
    IN IF moved = Zero(Quotas) THEN delegations
       ELSE Put(Put(delegations, <<p[1], p[2], TRUE>>, rest), <<p[1], p[2], FALSE>>,
                [free EXCEPT !.amount = [q \in Quotas |-> @[q] + moved[q]]])

\* Sun that the usage of a resource keeps occupied.
UsageAsSun(usage, q) ==
    IF weight[q] = 0 \/ usage <= 0 THEN 0 ELSE (usage * Trx * weight[q]) \div Limit

DelegatableSun(a, q) ==
    LET occupied == UsageAsSun(Used(a, q), q) - record[a].acquired[q]
    IN record[a].frozenV2[q] - IF occupied > 0 THEN occupied ELSE 0

\* Periods count only while the configured maximum exceeds the default.
LongLocks == params.maxLock > DefaultLock /\ StakeV2
LockPeriod(period) == IF LongLocks /\ period > 0 THEN period ELSE DefaultLock

\* A lock may not end before the one it joins.
LockAllowed(p, q, period) ==
    LongLocks =>
        /\ period <= params.maxLock
        /\ <<p[1], p[2], TRUE>> \in DOMAIN delegations =>
               period >= delegations[<<p[1], p[2], TRUE>>].expire[q] - head

CanDelegate(p, x, q, lock, stated) ==
    /\ StakeV2 /\ params.delegateResource
    /\ x >= Trx /\ x <= DelegatableSun(p[1], q)
    /\ kind[p[2]] = "plain"
    /\ lock => LockAllowed(p, q, LockPeriod(stated))

DelegateResource(p, x, q, lock, stated) ==
    LET a == p[1]
        b == p[2]
        key == <<a, b, lock>>
        period == LockPeriod(stated)
        held == Get(Unlocked(p), key)
    IN /\ CanDelegate(p, x, q, lock, stated)
       /\ delegations' = With(Unlocked(p), key,
                              [held EXCEPT !.amount[q] = @ + x,
                                           !.expire[q] = IF lock THEN head + period ELSE @])
       /\ pairs' = pairs \cup {p}
       /\ record' = [record EXCEPT ![a].frozenV2[q] = @ - x, ![a].delegatedOut[q] = @ + x,
                                   ![b].acquired[q] = @ + x]
       /\ UNCHANGED <<params, addresses, balance, legacy, legacyPairs, weight, time>>

\* What can be taken back: the unlocked entry and locks that have run out.
Available(p, q) ==
    LET locked == Get(delegations, <<p[1], p[2], TRUE>>)
    IN Get(delegations, <<p[1], p[2], FALSE>>).amount[q]
           + IF locked.expire[q] < head THEN locked.amount[q] ELSE 0

\* The receiver's usage that leaves with x sun, no more than x sun could carry.
TransferUsage(b, x, q) ==
    LET max == IF weight[q] = 0 THEN 0 ELSE (x * Limit) \div (Trx * weight[q])
        all == record[b].frozenV2[q] + record[b].acquired[q]
        share == IF all = 0 THEN 0 ELSE (Used(b, q) * x) \div all
    IN IF record[b].acquired[q] < x THEN 0 ELSE Min({max, share})

Stamped(n) == [used |-> n, last |-> clock]

\* Faulty variant: the receiver starts afresh.
LeftBehindNothing(b, x, q) == 0

LeftBehind(b, x, q) == Max({0, Used(b, q) - TransferUsage(b, x, q)})

CanUnDelegate(p, x, q) ==
    StakeV2 /\ params.delegateResource /\ 0 < x /\ x <= Available(p, q)

UnDelegateResource(p, x, q) ==
    LET a == p[1]
        b == p[2]
        moved == TransferUsage(b, x, q)
        free == Get(Unlocked(p), <<a, b, FALSE>>)
        after == Put(Unlocked(p), <<a, b, FALSE>>, [free EXCEPT !.amount[q] = @ - x])
    IN /\ CanUnDelegate(p, x, q)
       /\ delegations' = after
       /\ pairs' = IF {<<a, b, FALSE>>, <<a, b, TRUE>>} \cap DOMAIN after = {}
                   THEN pairs \ {p} ELSE pairs
       /\ record' = [record EXCEPT
              ![b].acquired[q] = IF @ < x THEN 0 ELSE @ - x,
              ![b].usage[q] = Stamped(LeftBehind(b, x, q)),
              ![a].frozenV2[q] = @ + x, ![a].delegatedOut[q] = @ - x,
              ![a].usage[q] = IF moved > 0 THEN Stamped(Used(a, q) + moved) ELSE @]
       /\ UNCHANGED <<params, addresses, balance, legacy, legacyPairs, weight, time>>
-----------------------------------------------------------------------------
(* Stake 1.0 *)

CanFreeze(a, x, s) == ~StakeV2 /\ Allowed(s) /\ Trx <= x /\ x <= balance[a]

\* A freeze for the owner itself.
FreezeBalance(a, x, s) ==
    /\ CanFreeze(a, x, s)
    /\ balance' = [balance EXCEPT ![a] = @ - x]
    /\ LET r == Migrated(record[a])
           before == r.frozenLegacy[s].amount
       IN /\ record' = [record EXCEPT ![a] = [r EXCEPT !.frozenLegacy[s] =
                           [amount |-> before + x, expire |-> head + Frozen]]]
          /\ ShiftWeight(s, before, before + x)
    /\ UNCHANGED <<params, addresses, books, time>>

\* A freeze whose resource another account gets.
FreezeFor(p, x, q) ==
    LET a == p[1]
        b == p[2]
        held == Get(legacy, p)
        before == record[b].acquiredLegacy[q]
    IN /\ CanFreeze(a, x, q) /\ params.delegateResource /\ kind[b] = "plain"
       /\ balance' = [balance EXCEPT ![a] = @ - x]
       /\ legacy' = With(legacy, p, [held EXCEPT !.amount[q] = @ + x, !.expire[q] = head + Frozen])
       /\ legacyPairs' = legacyPairs \cup {p}
       /\ record' = [record EXCEPT
              ![a] = [Migrated(record[a]) EXCEPT !.delegatedLegacyOut[q] = @ + x],
              ![b].acquiredLegacy[q] = @ + x]
       /\ ShiftWeight(q, before, before + x)
       /\ UNCHANGED <<params, addresses, delegations, pairs, time>>

\* The owner's freeze has come to its end.
UnfreezeTime(r, s) == r.frozenLegacy[s].expire <= head

UnfreezeBalance(a, s) ==
    LET r == Migrated(record[a])
        x == r.frozenLegacy[s].amount
    IN /\ Allowed(s)
       /\ x > 0 /\ UnfreezeTime(r, s)
       /\ Credit(a, x)
       /\ record' = [record EXCEPT ![a] = Unstaked([r EXCEPT !.frozenLegacy[s] = Held])]
       /\ ShiftWeight(s, x, 0)
       /\ UNCHANGED <<params, addresses, books, time>>

\* Before multi-signatures energy was judged by the bandwidth's time.
LegacyExpiry(p, q) ==
    IF q = "ENERGY" /\ ~params.multiSign /\ "BANDWIDTH" \in Quotas
    THEN legacy[p].expire["BANDWIDTH"] ELSE legacy[p].expire[q]

\* The weight a release starts from: the receiver may have lost its record or
\* have become a contract since.
WeightReleased(b, x, q) ==
    IF kind[b] = "plain" /\ record[b].acquiredLegacy[q] >= x THEN record[b].acquiredLegacy[q] ELSE x

UnfreezeFrom(p, q) ==
    LET a == p[1]
        b == p[2]
        x == legacy[p].amount[q]
        before == WeightReleased(b, x, q)
        left == Put(legacy, p, [legacy[p] EXCEPT !.amount[q] = 0, !.expire[q] = 0])
    IN /\ params.delegateResource
       /\ p \in DOMAIN legacy
       /\ x > 0 /\ LegacyExpiry(p, q) <= head
       /\ Credit(a, x)
       /\ legacy' = left
       /\ legacyPairs' = IF p \in DOMAIN left THEN legacyPairs ELSE legacyPairs \ {p}
       /\ record' = [record EXCEPT
              ![a] = Unstaked([Migrated(record[a]) EXCEPT !.delegatedLegacyOut[q] = @ - x]),
              ![b].acquiredLegacy[q] = IF kind[b] = "plain" THEN before - x ELSE @]
       /\ ShiftWeight(q, before, before - x)
       /\ UNCHANGED <<params, addresses, delegations, pairs, time>>
-----------------------------------------------------------------------------
(* Addresses without a key, and time *)

\* A contract takes the address.
Deploy(c) ==
    /\ kind[c] = "plain"
    /\ kind' = [kind EXCEPT ![c] = "contract"] /\ lost' = lost \cup {c}
    /\ UNCHANGED <<params, balance, record, books, weight, time>>

\* A contract is created there and destroyed in the same transaction: the
\* account goes and its record with it.
Destroy(c) ==
    /\ kind[c] = "plain"
    /\ kind' = [kind EXCEPT ![c] = "none"] /\ lost' = lost \cup {c}
    /\ record' = [record EXCEPT ![c] = Blank]
    /\ UNCHANGED <<params, balance, books, weight, time>>

\* A transfer creates the account again.
Revive(c) ==
    /\ kind[c] = "none"
    /\ kind' = [kind EXCEPT ![c] = "plain"]
    /\ UNCHANGED <<params, lost, balance, record, books, weight, time>>

Tick == /\ clock < MaxTime
        /\ clock' = clock + 1
        /\ UNCHANGED <<params, addresses, balance, record, books, weight, head>>

Seal == /\ head < clock
        /\ head' = clock
        /\ UNCHANGED <<params, addresses, balance, record, books, weight, clock>>

Transaction ==
    \/ \E a \in Owners, x \in Amounts, s \in Stakes :
          \/ FreezeBalanceV2(a, x, s) \/ UnfreezeBalanceV2(a, x, s) \/ FreezeBalance(a, x, s)
    \/ \E a \in Owners : WithdrawExpireUnfreeze(a) \/ CancelAllUnfreezeV2(a)
    \/ \E p \in Pairs, x \in Amounts, q \in Quotas :
          \/ \E lock \in BOOLEAN, period \in Periods : DelegateResource(p, x, q, lock, period)
          \/ UnDelegateResource(p, x, q) \/ FreezeFor(p, x, q)
    \/ \E a \in Owners, s \in Stakes : UnfreezeBalance(a, s)
    \/ \E p \in Pairs, q \in Quotas : UnfreezeFrom(p, q)
    \/ \E a \in Owners, q \in Quotas, u \in Units : Consume(a, q, u)
    \/ \E c \in Deployable : Deploy(c) \/ Destroy(c) \/ Revive(c)

Next ==
    \/ Transaction /\ txs < MaxTxs /\ txs' = txs + 1
    \/ (Tick \/ Seal) /\ UNCHANGED txs

Spec == Init /\ [][Next]_vars
-----------------------------------------------------------------------------
Entry == [amount : [Quotas -> Nat], expire : [Quotas -> Nat]]

\* Every ledger keeps its type; in particular no amount is negative.
TypeOK ==
    /\ params \in Params /\ lost \subseteq Deployable
    /\ kind \in [Accounts -> {"plain", "contract", "none"}]
    /\ balance \in [Owners -> Nat]
    /\ \A a \in Accounts :
          LET r == record[a]
          IN /\ r.frozenV2 \in [Stakes -> Nat]
             /\ {r.delegatedOut, r.acquired, r.delegatedLegacyOut, r.acquiredLegacy}
                    \subseteq [Quotas -> Nat]
             /\ r.unfrozenV2 \in Seq([type : Stakes, amount : Nat \ {0}, expire : Nat])
             /\ r.frozenLegacy \in [Stakes -> [amount : Nat, expire : Nat]]
             /\ r.oldTronPower \in Nat \cup {-1}
             /\ r.usage \in [Quotas -> [used : Nat, last : Nat]]
    /\ \A k \in DOMAIN delegations : delegations[k] \in Entry
    /\ \A p \in DOMAIN legacy : legacy[p] \in Entry
    /\ pairs \subseteq Pairs /\ legacyPairs \subseteq Pairs
    /\ weight \in [Stakes -> Int] /\ head \in 0..clock /\ clock \in 0..MaxTime /\ txs \in 0..MaxTxs

StakeOf(a) ==
    LET r == record[a]
    IN QuotaTronPower(r) + r.frozenV2["TRON_POWER"] + r.frozenLegacy["TRON_POWER"].amount

\* No sun is made or lost: what an owner can spend, has staked or delegated and
\* waits for is what it had, through every order of freezing, delegating,
\* unfreezing, claiming and cancelling.
SunConserved ==
    \A a \in Owners : balance[a] + StakeOf(a) + Sum(record[a].unfrozenV2) = Funds

\* The chain-wide weights that quotas are shares of are the sums of what the
\* accounts' stakes weigh, although every operation moves them by a difference
\* of its own.  Stake 1.0 alone can drift, once a receiver is lost.
WeightsExact ==
    (StakeV2 \/ lost = {}) =>
        \A s \in Stakes :
            weight[s] = Total([a \in Accounts |->
                Floor(WeightWithDelegated(record[a], s)) + Floor(record[a].frozenLegacy[s].amount)
                    + IF s \in Quotas THEN Floor(record[a].acquiredLegacy[s]) ELSE 0])

From(a, q) == Total([k \in {k \in DOMAIN delegations : k[1] = a} |-> delegations[k].amount[q]])
To(b, q) == Total([k \in {k \in DOMAIN delegations : k[2] = b} |-> delegations[k].amount[q]])
LegacyFrom(a, q) == Total([p \in {p \in DOMAIN legacy : p[1] = a} |-> legacy[p].amount[q]])
LegacyTo(b, q) == Total([p \in {p \in DOMAIN legacy : p[2] = b} |-> legacy[p].amount[q]])

\* The four books of a delegation agree: what an owner has delegated is the sum
\* of its entries, what a receiver has acquired the sum of those that name it
\* (no more, once it was lost, while it is no contract), and the index lists
\* exactly the pairs that have an entry.
BooksAgree ==
    /\ \A a \in Owners, q \in Quotas :
          record[a].delegatedOut[q] = From(a, q) /\ record[a].delegatedLegacyOut[q] = LegacyFrom(a, q)
    /\ \A b \in Accounts \ lost, q \in Quotas :
          record[b].acquired[q] = To(b, q) /\ record[b].acquiredLegacy[q] = LegacyTo(b, q)
    /\ \A b \in lost, q \in Quotas :
          kind[b] # "contract" => /\ record[b].acquired[q] <= To(b, q)
                                  /\ record[b].acquiredLegacy[q] <= LegacyTo(b, q)
    /\ pairs = {<<k[1], k[2]>> : k \in DOMAIN delegations}
    /\ legacyPairs = DOMAIN legacy

\* Voting power is backed by stake: a sun that was delegated is voted by its
\* owner alone, and one that was unfrozen by nobody.
PowerBacked == \A a \in Owners : TronPower(a) <= StakeOf(a)

\* Claiming on the way keeps the list within its slots, matured entries
\* included, although the rule counts only the open ones.
PendingBounded == \A a \in Owners : Len(record[a].unfrozenV2) <= MaxPending

\* A lock is honoured: what is locked stays locked until its time, and joining
\* it never brings that time forward.
LockHonoured ==
    [][\A p \in Pairs, q \in Quotas :
          LET before == Get(delegations, <<p[1], p[2], TRUE>>)
              after == Get(delegations', <<p[1], p[2], TRUE>>)
          IN (before.amount[q] > 0 /\ before.expire[q] > head) =>
                 after.amount[q] >= before.amount[q] /\ after.expire[q] >= before.expire[q]]_vars

\* Usage is not shed by moving stake about: within one block time the usage of
\* all accounts together never falls, however delegations are taken back.
UsageNotShed ==
    [][(clock' = clock /\ kind' = kind) =>
          \A q \in Quotas :
              Total([a \in Accounts |-> UsageAt(record'[a].usage, q)])
                  >= Total([a \in Accounts |-> UsageAt(record[a].usage, q)])]_vars

\* Sun becomes spendable only by waiting: a step that pays an owner pays what
\* had matured at the head.
PaidWhenMatured ==
    [][\A a \in Owners :
          LET r == record[a]
              paid == balance'[a] - balance[a]
          IN paid > 0 =>
                 \/ paid = Sum(Matured(r))
                 \/ \E s \in Stakes : paid = r.frozenLegacy[s].amount /\ r.frozenLegacy[s].expire <= head
                 \/ \E p \in DOMAIN legacy, q \in Quotas :
                       p[1] = a /\ paid = legacy[p].amount[q] /\ LegacyExpiry(p, q) <= head]_vars

\* The ledgers of stakes, delegations, votes and weights say the same.
BooksSound == TypeOK /\ SunConserved /\ WeightsExact /\ BooksAgree /\ PowerBacked /\ PendingBounded

\* Delegating again ends no lock early, moving stake sheds no usage, and what an
\* unstaking pays out was staked and has matured.
DelegationHonest == LockHonoured /\ UsageNotShed /\ PaidWhenMatured
=============================================================================
