------------------------------- MODULE Wallet -------------------------------
(***************************************************************************)
(* One transaction after the other against the native ledgers of the       *)
(* client: signatures and permissions (dialect/tron/permission.ts), the    *)
(* order in which a transaction is billed (wallet/broadcast.ts), the rules *)
(* and effects of every contract type that needs no VM frame, and the      *)
(* energy budget and settlement of those that do                           *)
(* (wallet/contractAdapter.ts, core/node.ts).                              *)
(*                                                                         *)
(* Each action is one accepted transaction.  A refused one is unwound, as  *)
(* Transact shows, so refusal at any stage is an action that is not        *)
(* enabled.  Time is counted in days: usage recovers within one day, and a *)
(* candidate block has the day of the head.                                *)
(***************************************************************************)
EXTENDS Ledgers

CONSTANTS
    Holders,     \* accounts of the genesis allocation
    Fresh,       \* addresses without an account
    Contracts,   \* addresses that deployments take
    Staked,      \* holders whose stake buys bandwidth and energy
    Funds,       \* sun of each holder at genesis
    IntMax,      \* INT64_MAX
    Amounts,     \* amounts that transactions state
    Envelopes,   \* signatures, permission id and memo that transactions carry
    Issues,      \* issuances that transactions state
    Names,       \* account names, as stored
    Ids,         \* account ids, in any case
    PermissionSets, \* owner and active permission that updates state
    Limits,      \* limits that updates of an asset or a contract state
    Percents,    \* consume_user_resource_percent of a contract
    FreeNet,     \* transactions that the free allowance covers in a day
    StakedNet,   \* transactions that a stake covers in a day
    StakedEnergy,\* energy that a stake buys in a day
    OriginLimit, \* originEnergyLimit of a contract
    Uses,        \* energy that executions use
    FeeLimit,    \* energy that the fee limit of a transaction pays for
    Fees,        \* fees in sun, by name
    TotalSignNum,\* keys in a permission, signatures on a transaction
    Params,      \* chain parameters the node may be configured with
    MaxTxs,      \* bound: transactions in one behaviour
    MaxDay       \* bound: last day

Accounts == Holders \cup Fresh \cup Contracts

ASSUME WalletAssumption ==
    /\ Funds \in Nat /\ IntMax \in Nat /\ Funds <= IntMax /\ Amounts \subseteq 1..IntMax
    /\ IsFiniteSet(Holders) /\ IsFiniteSet(Fresh) /\ IsFiniteSet(Contracts)
    /\ Holders \cap Fresh = {} /\ (Holders \cup Fresh) \cap Contracts = {}
    /\ Staked \subseteq Holders
    /\ FreeNet \in Nat /\ StakedNet \in Nat /\ StakedEnergy \in Nat
    /\ FeeLimit \in Nat /\ Uses \subseteq Nat /\ Limits \subseteq Nat /\ OriginLimit \in Nat \ {0} /\ Percents \subseteq 0..100
    /\ TotalSignNum \in Nat \ {0} /\ MaxTxs \in Nat /\ MaxDay \in Nat
    /\ Fees \in [{"bandwidth", "create", "newAccount", "multiSign", "memo", "issue",
                  "permission", "energy"} -> Nat]
    /\ Fees["energy"] > 0
    /\ \A i \in Issues :
          /\ i.supply \in 0..IntMax /\ i.frozen \in Seq([amount : Nat, days : Nat])
          /\ i.num \in Nat /\ i.trxNum \in Nat \ {0} /\ {i.start, i.end, i.freeLimit, i.publicLimit} \subseteq Nat
    /\ \A ps \in PermissionSets : \A id \in DOMAIN ps :
          ps[id].threshold \in Int /\ ps[id].keys \in Seq([address : Holders \cup Fresh, weight : Int])

VARIABLES
    params,  \* chain parameters, fixed when the node starts
    world,   \* every ledger a transaction may move
    head,    \* day of the head block
    txs      \* transactions so far

vars == <<params, world, head, txs>>

Unused == [used |-> 0, at |-> 0]
TokenIds == 1..Cardinality(Holders \cup Fresh)

\* The permissions an account has until it states its own.
Key(a, weight) == [address |-> a, weight |-> weight]
AnyContract == {"transfer", "asset", "account", "trigger"}
DefaultPermissions(a) ==
    [id \in {0, 2} |-> [threshold |-> 1, keys |-> <<Key(a, 1)>>,
                        operations |-> IF id = 0 THEN {} ELSE AnyContract]]

Genesis ==
    [exists |-> Holders,
     balance |-> [a \in Accounts |-> IF a \in Holders THEN Funds ELSE 0],
     burned |-> 0,
     net |-> [a \in Accounts |-> Unused],
     stakedNet |-> [a \in Accounts |-> Unused],
     energy |-> [a \in Accounts |-> Unused],
     assets |-> << >>,
     holding |-> [a \in Accounts |-> [i \in TokenIds |-> 0]],
     assetNet |-> [a \in Accounts |-> [i \in TokenIds |-> Unused]],
     frozen |-> [a \in Accounts |-> << >>],
     permissions |-> [a \in Accounts |-> << >>],
     name |-> [a \in Accounts |-> ""],
     names |-> << >>,
     ids |-> << >>,
     contracts |-> << >>]

Init == params \in Params /\ world = Genesis /\ head = 0 /\ txs = 0
-----------------------------------------------------------------------------
(* Permissions and signatures *)

PermissionsOf(w, a) ==
    IF w.permissions[a] = << >> THEN DefaultPermissions(a) ELSE w.permissions[a]

WeightOf(permission, signer) ==
    LET mine == {i \in DOMAIN permission.keys : permission.keys[i].address = signer}
    IN IF mine = {} THEN 0 ELSE permission.keys[Min(mine)].weight

\* The weight of the signatures, 0 when one of them is refused.
SignatureWeight(permission, signers) ==
    IF \/ Len(signers) > Len(permission.keys)
       \/ \E i \in DOMAIN signers : WeightOf(permission, signers[i]) = 0
       \/ ~IsInjective(signers)
    THEN 0
    ELSE Total([i \in DOMAIN signers |-> WeightOf(permission, signers[i])])

\* Only the owner permission signs for every contract type.  Accounts that the
\* development interface unlocked need no signature.
Signed(w, a, type, e) ==
    \/ a \in params.unlocked
    \/ /\ e.signers # << >> /\ Len(e.signers) <= TotalSignNum
       /\ e.permission \in DOMAIN PermissionsOf(w, a)
       /\ LET p == PermissionsOf(w, a)[e.permission]
          IN /\ e.permission # 0 => type \in p.operations
             /\ SignatureWeight(p, e.signers) >= p.threshold

WeightSum(p) == Total([i \in DOMAIN p.keys |-> p.keys[i].weight])

\* Faulty variant: the number of keys is not limited.
PermissionOkAnyKeys(p) ==
    /\ p.threshold > 0 /\ WeightSum(p) >= p.threshold
    /\ \A i \in DOMAIN p.keys : p.keys[i].weight > 0

\* What a stated permission must satisfy.
PermissionOk(p) ==
    /\ Len(p.keys) \in 1..TotalSignNum
    /\ p.threshold > 0
    /\ Cardinality({p.keys[i].address : i \in DOMAIN p.keys}) = Len(p.keys)
    /\ \A i \in DOMAIN p.keys : p.keys[i].weight > 0
    /\ p.threshold <= WeightSum(p) /\ WeightSum(p) <= IntMax
-----------------------------------------------------------------------------
(* Billing: a refused charge leaves no world to go on from *)

Burn(w, a, sun) ==
    IF a \in w.exists /\ w.balance[a] >= sun
    THEN {[w EXCEPT !.balance[a] = @ - sun, !.burned = @ + sun]} ELSE {}

Now(ledger) == IF ledger.at = head THEN ledger.used ELSE 0
Charged(ledger, units) == [used |-> Now(ledger) + units, at |-> head]

NetLimit(a) == IF a \in Staked THEN StakedNet ELSE 0
EnergyLeft(w, a) == Max({0, (IF a \in Staked THEN StakedEnergy ELSE 0) - Now(w.energy[a])})

ConsumeStakedNet(w, a) ==
    IF Now(w.stakedNet[a]) + 1 <= NetLimit(a)
    THEN {[w EXCEPT !.stakedNet[a] = Charged(@, 1)]} ELSE {}

\* The staked quota, the free allowance, then sun, each for the whole.
ConsumeBandwidth(w, a) ==
    IF ConsumeStakedNet(w, a) # {} THEN ConsumeStakedNet(w, a)
    ELSE IF Now(w.net[a]) + 1 <= FreeNet THEN {[w EXCEPT !.net[a] = Charged(@, 1)]}
    ELSE Burn(w, a, Fees["bandwidth"])

\* Faulty variant: the issuer is not charged.
ConsumeAssetNetFree(w, a, id) ==
    IF /\ Now(w.assets[id].pool) + 1 <= w.assets[id].publicLimit
       /\ Now(w.assetNet[a][id]) + 1 <= w.assets[id].freeLimit
    THEN {[w EXCEPT !.assets[id].pool = Charged(@, 1), !.assetNet[a][id] = Charged(@, 1)]}
    ELSE {}

\* The issuance's pool, the holder's share of it and the issuer's stake must
\* all cover the transfer, and all are charged.
ConsumeAssetNet(w, a, id) ==
    LET meta == w.assets[id]
    IN IF /\ Now(meta.pool) + 1 <= meta.publicLimit
          /\ Now(w.assetNet[a][id]) + 1 <= meta.freeLimit
       THEN {[v EXCEPT !.assets[id].pool = Charged(@, 1), !.assetNet[a][id] = Charged(@, 1)] :
                v \in ConsumeStakedNet(w, meta.owner)}
       ELSE {}

\* A transaction that creates an account has no free allowance.
Bandwidth(w, a, creates, id) ==
    IF creates
    THEN IF ConsumeStakedNet(w, a) # {} THEN ConsumeStakedNet(w, a)
         ELSE Burn(w, a, Fees["create"])
    ELSE IF id # 0 /\ w.assets[id].owner # a /\ ConsumeAssetNet(w, a, id) # {}
    THEN ConsumeAssetNet(w, a, id)
    ELSE ConsumeBandwidth(w, a)

Then(worlds, Charge(_)) == UNION {Charge(w) : w \in worlds}

\* What the actuator of a's transaction finds once everything is paid.
Billed(a, type, e, creates, id) ==
    IF a \notin world.exists \/ ~Signed(world, a, type, e) THEN {}
    ELSE Then(Then(Bandwidth(world, a, creates, id),
                   LAMBDA w : Burn(w, a, IF Len(e.signers) > 1 THEN Fees["multiSign"] ELSE 0)),
              LAMBDA w : Burn(w, a, IF e.memo THEN Fees["memo"] ELSE 0))

\* The fee for the recipient's account, after the transfer has gone through.
ExtraFee(w, a, creates) ==
    IF creates /\ Burn(w, a, Fees["newAccount"]) # {}
    THEN CHOOSE v \in Burn(w, a, Fees["newAccount"]) : TRUE ELSE w

Accepted(w) == world' = w /\ UNCHANGED <<params, head>>

\* An index with one more entry, or another one in its place.
With(index, k, v) == [i \in DOMAIN index \cup {k} |-> IF i = k THEN v ELSE index[i]]
-----------------------------------------------------------------------------
(* Transfers and accounts *)

IsContract(w, a) == a \in DOMAIN w.contracts

\* Faulty variant: the fee for the account is not part of what must be there.
TransferOkNoFee(w, a, b, x) ==
    /\ a # b
    /\ w.balance[a] >= x
    /\ b \in w.exists => w.balance[b] + x <= IntMax

TransferOk(w, a, b, x) ==
    LET fee == IF b \in w.exists THEN 0 ELSE Fees["newAccount"]
    IN /\ a # b
       /\ ~(params.forbidTransferToContract /\ IsContract(w, b))
       /\ x + fee <= IntMax /\ w.balance[a] >= x + fee
       /\ b \in w.exists => w.balance[b] + x <= IntMax

MoveBalance(w, a, b, x) ==
    [w EXCEPT !.balance[a] = @ - x, !.balance[b] = @ + x, !.exists = @ \cup {b}]

TransferContract(a, b, x, e) ==
    LET creates == b \notin world.exists
    IN \E w \in Billed(a, "transfer", e, creates, 0) :
          /\ TransferOk(w, a, b, x)
          /\ Accepted(ExtraFee(MoveBalance(w, a, b, x), a, creates))

AccountCreateContract(a, b, e) ==
    \E w \in Billed(a, "account", e, b \notin world.exists, 0) :
       /\ b \notin w.exists
       /\ \E v \in Burn(w, a, Fees["newAccount"]) : Accepted([v EXCEPT !.exists = @ \cup {b}])

\* Renaming, and names that another account has, wait for a proposal.
NameFree(w, a, n) ==
    params.updateAccountName \/ (w.name[a] = "" /\ n \notin DOMAIN w.names)

AccountUpdateContract(a, n, e) ==
    \E w \in Billed(a, "account", e, FALSE, 0) :
       /\ NameFree(w, a, n)
       /\ Accepted([w EXCEPT !.name[a] = n, !.names = With(@, n, a)])

\* Ids are compared without regard to case and never change.
IdKey(id) == id[1]
SetAccountIdContract(a, id, e) ==
    \E w \in Billed(a, "account", e, FALSE, 0) :
       /\ \A i \in DOMAIN w.ids : w.ids[i] # a /\ IdKey(i) # IdKey(id)
       /\ Accepted([w EXCEPT !.ids = With(@, id, a)])

AccountPermissionUpdateContract(a, ps, e) ==
    /\ params.multiSign
    /\ \E w \in Billed(a, "permission", e, FALSE, 0) :
          /\ \A id \in DOMAIN ps : PermissionOk(ps[id])
          /\ \E v \in Burn(w, a, Fees["permission"]) : Accepted([v EXCEPT !.permissions[a] = ps])
-----------------------------------------------------------------------------
(* TRC-10 assets *)

IssuedBy(w, a) == {id \in DOMAIN w.assets : w.assets[id].owner = a}
Named(w, n) == {id \in DOMAIN w.assets : w.assets[id].name = n}

\* The asset a request names: by id, or by a name that one asset has.
AssetNamed(w, id) ==
    id \in DOMAIN w.assets /\ (params.sameTokenName \/ Named(w, w.assets[id].name) = {id})

IssueOk(w, a, i) ==
    /\ i.start > head /\ i.end > i.start
    /\ params.sameTokenName \/ Named(w, i.name) = {}
    /\ i.supply > 0 /\ Sum(i.frozen) <= i.supply
    /\ IssuedBy(w, a) = {}

UnfrozenSupply(i) == i.supply - Sum(i.frozen)

Tranches(i) == [t \in DOMAIN i.frozen |->
                   [amount |-> i.frozen[t].amount, expire |-> i.start + i.frozen[t].days]]

AssetIssueContract(a, i, e) ==
    \E w \in Billed(a, "asset", e, FALSE, 0) :
       /\ IssueOk(w, a, i)
       /\ \E v \in Burn(w, a, Fees["issue"]) :
             LET id == Len(v.assets) + 1
             IN Accepted([v EXCEPT
                   !.assets = Append(@, [owner |-> a, name |-> i.name, supply |-> i.supply,
                                         num |-> i.num, trxNum |-> i.trxNum, start |-> i.start,
                                         end |-> i.end, freeLimit |-> i.freeLimit,
                                         publicLimit |-> i.publicLimit, pool |-> Unused]),
                   !.holding[a][id] = UnfrozenSupply(i),
                   !.frozen[a] = Tranches(i)])

MaturedT(tranches) == Within(tranches, {t \in Range(tranches) : t.expire <= head})
Remaining(tranches) == Within(tranches, {t \in Range(tranches) : t.expire > head})

UnfreezeAssetContract(a, e) ==
    \E w \in Billed(a, "asset", e, FALSE, 0) : \E id \in IssuedBy(w, a) :
       /\ MaturedT(w.frozen[a]) # << >>
       /\ w.holding[a][id] + Sum(MaturedT(w.frozen[a])) <= IntMax
       /\ Accepted([w EXCEPT !.holding[a][id] = @ + Sum(MaturedT(w.frozen[a])),
                             !.frozen[a] = Remaining(@)])

UpdateAssetContract(a, limit, e) ==
    \E w \in Billed(a, "asset", e, FALSE, 0) : \E id \in IssuedBy(w, a) :
       Accepted([w EXCEPT !.assets[id].freeLimit = limit, !.assets[id].publicLimit = limit])

TransferAsset(w, a, b, id, x) ==
    [w EXCEPT !.holding[a][id] = @ - x, !.holding[b][id] = @ + x, !.exists = @ \cup {b}]

TransferAssetOk(w, a, b, id, x, creates) ==
    /\ a # b /\ AssetNamed(w, id)
    /\ x <= w.holding[a][id]
    /\ ~(params.forbidTransferToContract /\ IsContract(w, b))
    /\ IF creates THEN w.balance[a] >= Fees["newAccount"] ELSE w.holding[b][id] + x <= IntMax

TransferAssetContract(a, b, id, x, e) ==
    LET creates == b \notin world.exists
    IN /\ creates \/ AssetNamed(world, id)
       /\ \E w \in Billed(a, "asset", e, creates, IF creates THEN 0 ELSE id) :
             /\ TransferAssetOk(w, a, b, id, x, creates)
             /\ Accepted(ExtraFee(TransferAsset(w, a, b, id, x), a, creates))

Bought(meta, sun) == (sun * meta.num) \div meta.trxNum

\* A purchase within the sale's window, the product before the quotient.
ParticipateAssetIssueContract(a, id, sun, e) ==
    \E w \in Billed(a, "asset", e, FALSE, 0) :
       /\ AssetNamed(w, id)
       /\ LET meta == w.assets[id]
              tokens == Bought(meta, sun)
          IN /\ meta.owner # a /\ w.balance[a] >= sun
             /\ meta.start <= head /\ head < meta.end
             /\ sun * meta.num <= IntMax /\ tokens > 0
             /\ w.holding[meta.owner][id] >= tokens
             /\ w.balance[meta.owner] + sun <= IntMax
             /\ Accepted(TransferAsset(MoveBalance(w, a, meta.owner, sun), meta.owner, a, id, tokens))
-----------------------------------------------------------------------------
(* Contracts: what an execution may use, and who pays for it *)

\* The sender's stake and what the balance left after the value buys, up to
\* the fee limit.
CallerLimit(w, a, value) ==
    Min({FeeLimit, EnergyLeft(w, a) + (Max({0, w.balance[a] - value}) \div Fees["energy"])})

OriginBound(w, meta) == Min({EnergyLeft(w, meta.origin), meta.limit})

\* The origin adds its part while it has stake.
CreatorLimit(w, a, meta, limit) ==
    IF meta.origin = a \/ meta.percent = 100 THEN 0
    ELSE IF meta.percent = 0 THEN OriginBound(w, meta)
    ELSE Min({OriginBound(w, meta), (limit * (100 - meta.percent)) \div meta.percent})

\* The origin's part of what was used.
OriginUsage(w, a, meta, used) ==
    IF meta.origin = a THEN 0
    ELSE Min({OriginBound(w, meta), (used * (100 - meta.percent)) \div 100})

ChargeEnergy(w, a, units) == [w EXCEPT !.energy[a] = Charged(@, units)]

\* Stake pays before sun does; left is the caller's stake before execution.
Settled(w, a, meta, used, left) ==
    LET byOrigin == OriginUsage(w, a, meta, used)
        mine == used - byOrigin
        fromStake == Min({mine, left})
        charged == IF used = 0 THEN w
                   ELSE ChargeEnergy(IF meta.origin = a THEN w ELSE ChargeEnergy(w, meta.origin, byOrigin),
                                     a, fromStake)
        sun == (mine - fromStake) * Fees["energy"]
    IN [charged EXCEPT !.balance[a] = @ - sun, !.burned = @ + sun]

Endowed(w, a, c, value) == IF value = 0 THEN w ELSE MoveBalance(w, a, c, value)

\* The execution uses some energy and ends well or not; a failed one moves
\* nothing but is paid for.
TriggerSmartContract(a, c, value, used, ok, e) ==
    /\ IsContract(world, c)
    /\ \E w \in Billed(a, "trigger", e, FALSE, 0) :
          LET meta == w.contracts[c]
              limit == CallerLimit(w, a, value)
          IN /\ w.balance[a] >= value
             /\ used <= limit + CreatorLimit(w, a, meta, limit)
             /\ Accepted(Settled(IF ok THEN Endowed(w, a, c, value) ELSE w,
                                 a, meta, used, EnergyLeft(w, a)))

CreateSmartContract(a, c, percent, used, ok, e) ==
    /\ c \notin world.exists
    /\ \E w \in Billed(a, "trigger", e, FALSE, 0) :
          LET meta == [origin |-> a, percent |-> percent, limit |-> OriginLimit]
              paid == Settled(w, a, meta, used, EnergyLeft(w, a))
          IN /\ used <= CallerLimit(w, a, 0)
             /\ Accepted(IF ok THEN [paid EXCEPT !.exists = @ \cup {c}, !.contracts = With(@, c, meta)]
                         ELSE paid)

\* UpdateSetting, UpdateEnergyLimit and ClearABI are for the origin only.
UpdateSettingContract(a, c, percent, e) ==
    \E w \in Billed(a, "trigger", e, FALSE, 0) :
       /\ IsContract(w, c) /\ w.contracts[c].origin = a
       /\ Accepted([w EXCEPT !.contracts[c].percent = percent])

UpdateEnergyLimitContract(a, c, limit, e) ==
    \E w \in Billed(a, "trigger", e, FALSE, 0) :
       /\ IsContract(w, c) /\ w.contracts[c].origin = a /\ limit > 0
       /\ Accepted([w EXCEPT !.contracts[c].limit = limit])
-----------------------------------------------------------------------------
NextDay == head < MaxDay /\ head' = head + 1 /\ UNCHANGED <<params, world, txs>>

AccountTx(a, e) ==
    \/ \E b \in Accounts, x \in Amounts : TransferContract(a, b, x, e)
    \/ \E b \in Fresh : AccountCreateContract(a, b, e)
    \/ \E n \in Names : AccountUpdateContract(a, n, e)
    \/ \E id \in Ids : SetAccountIdContract(a, id, e)
    \/ \E ps \in PermissionSets : AccountPermissionUpdateContract(a, ps, e)

AssetTx(a, e) ==
    \/ \E i \in Issues : AssetIssueContract(a, i, e)
    \/ UnfreezeAssetContract(a, e)
    \/ \E limit \in Limits : UpdateAssetContract(a, limit, e)
    \/ \E id \in TokenIds, x \in Amounts :
          \/ \E b \in Holders \cup Fresh : TransferAssetContract(a, b, id, x, e)
          \/ ParticipateAssetIssueContract(a, id, x, e)

ContractTx(a, e) ==
    \E c \in Contracts :
       \/ \E used \in Uses, ok \in BOOLEAN :
             \/ \E value \in Amounts \cup {0} : TriggerSmartContract(a, c, value, used, ok, e)
             \/ \E p \in Percents : CreateSmartContract(a, c, p, used, ok, e)
       \/ \E p \in Percents : UpdateSettingContract(a, c, p, e)
       \/ \E limit \in Limits : UpdateEnergyLimitContract(a, c, limit, e)

Next ==
    \/ /\ txs < MaxTxs /\ txs' = txs + 1
       /\ \E a \in Holders \cup Fresh, e \in Envelopes : AccountTx(a, e) \/ AssetTx(a, e) \/ ContractTx(a, e)
    \/ NextDay

Spec == Init /\ [][Next]_vars
-----------------------------------------------------------------------------
Amount == 0..IntMax

\* Every ledger holds what its encoding can: no balance, holding or usage below
\* zero or past a signed 64-bit integer, whatever order transactions move them in.
TypeOK ==
    /\ params \in Params /\ head \in 0..MaxDay /\ txs \in 0..MaxTxs
    /\ world.exists \subseteq Accounts
    /\ \A a \in Accounts :
          /\ world.balance[a] \in IF a \in Contracts THEN Nat ELSE Amount
          /\ \A id \in TokenIds : world.holding[a][id] \in Amount
          /\ Now(world.net[a]) <= FreeNet /\ Now(world.stakedNet[a]) <= NetLimit(a)
          /\ Now(world.energy[a]) \in 0..StakedEnergy
    /\ world.burned \in Nat

\* Sun only moves or burns: balances and the total that deductBalance and the
\* energy fee count as burned always add up to the genesis allocation.
TrxConserved == Total(world.balance) + world.burned = Cardinality(Holders) * Funds

\* A TRC-10 supply is at every time what the accounts hold and what the issuer's
\* tranches still lock.
SupplyConserved ==
    \A id \in DOMAIN world.assets :
       Total([a \in Accounts |-> world.holding[a][id]]) + Sum(world.frozen[world.assets[id].owner])
           = world.assets[id].supply

\* An owner issues once; asset names while they are store keys, account names
\* while they cannot be changed, and account ids in any case name one holder.
Unique ==
    /\ \A i, j \in DOMAIN world.assets :
          i # j => /\ world.assets[i].owner # world.assets[j].owner
                   /\ params.sameTokenName \/ world.assets[i].name # world.assets[j].name
    /\ \A a, b \in Accounts : a # b /\ world.name[a] # "" /\ ~params.updateAccountName
          => world.name[a] # world.name[b]
    /\ \A i, j \in DOMAIN world.ids : i # j => world.ids[i] # world.ids[j] /\ IdKey(i) # IdKey(j)

\* No permission update locks an account out: each of its permissions can still
\* be met by signatures that the chain-wide cap and the permission itself admit.
NeverLockedOut ==
    \A a \in world.exists : \A id \in DOMAIN PermissionsOf(world, a) :
       LET p == PermissionsOf(world, a)[id]
       IN \E S \in SUBSET {p.keys[i].address : i \in DOMAIN p.keys} :
             /\ Cardinality(S) <= TotalSignNum
             /\ SignatureWeight(p, SetToSeq(S)) >= p.threshold

\* What holders draw from an issuance's free bandwidth was charged to the stake
\* of its issuer: the pool never gives what nobody paid for.
PoolBacked ==
    \A id \in DOMAIN world.assets :
       Now(world.assets[id].pool) <= Now(world.stakedNet[world.assets[id].owner])

\* Whatever an execution uses of the budget it was given, the caller's part stays
\* within the caller's limit and its fee within the balance the value leaves:
\* the rounding of budget and settlement agree.
WithinBudget ==
    \A c \in DOMAIN world.contracts, a \in world.exists \ Contracts, value \in Amounts \cup {0} :
       LET meta == world.contracts[c]
           limit == CallerLimit(world, a, value)
       IN \A used \in 0..(limit + CreatorLimit(world, a, meta, limit)) :
             LET mine == used - OriginUsage(world, a, meta, used)
             IN /\ mine <= limit
                /\ (mine - Min({mine, EnergyLeft(world, a)})) * Fees["energy"]
                       <= Max({0, world.balance[a] - value})

\* An account that a native transaction opens has been paid for: the fee is
\* judged with the transfer and collected after it, and is never let off.
CreationPaid ==
    [][(world'.exists \ Contracts) # (world.exists \ Contracts)
          => world'.burned >= world.burned + Fees["newAccount"]]_vars

\* Sun and tokens are conserved through every fee, sale and tranche, quotas are
\* backed, and nobody pays for more than was used.
LedgerSound == TypeOK /\ TrxConserved /\ SupplyConserved /\ PoolBacked /\ WithinBudget

\* Names stay unique and nobody is locked out of an account.
AccountsSound == Unique /\ NeverLockedOut
=============================================================================
