-------------------------- MODULE ResourcesProofs --------------------------
(***************************************************************************)
(* The ledgers of stakes, delegations, votes and weights say the same      *)
(* after every order of transactions, for any accounts, amounts, locks and *)
(* chain parameters.                                                       *)
(***************************************************************************)
EXTENDS Resources, LedgersProofs

\* The entries of some types, added up type by type.
LEMMA WithinTypes ==
    ASSUME NEW E, Amounted(E), NEW s \in Seq(E), NEW T, IsFiniteSet(T),
           \A i \in DOMAIN s : s[i].type \in T
    PROVE  /\ LedgerOf([t \in T |-> Sum(Within(s, {e \in Range(s) : e.type = t}))])
           /\ Total([t \in T |-> Sum(Within(s, {e \in Range(s) : e.type = t}))]) = Sum(s)
<1> DEFINE w(t) == Sum(Within(s, {e \in Range(s) : e.type = t}))
           f(U) == [t \in U |-> w(t)]
           h(U) == [i \in DOMAIN s |-> IF s[i].type \in U THEN s[i].amount ELSE 0]
           Bad == {U \in SUBSET T : Total(f(U)) # Total(h(U))}
<1>1. \A i \in DOMAIN s : s[i].amount \in Nat /\ s[i] \in Range(s)
  BY DEF Amounted, Range
<1>2. IsFiniteSet(DOMAIN s)
  BY FS_Interval
<1>3. ASSUME NEW U
      PROVE  DOMAIN h(U) = DOMAIN s /\ LedgerOf(h(U)) /\ \A i \in DOMAIN s : h(U)[i] \in Nat
  <2>1. DOMAIN h(U) = DOMAIN s /\ \A i \in DOMAIN s : h(U)[i] \in Nat
    BY <1>1
  <2> HIDE DEF h
  <2> QED
    BY <1>2, <2>1 DEF LedgerOf
<1>4. ASSUME NEW t \in T
      PROVE  w(t) = Total(h({t})) /\ w(t) \in Nat
  <2> DEFINE g == [i \in DOMAIN s |-> IF s[i] \in {e \in Range(s) : e.type = t} THEN s[i].amount ELSE 0]
  <2>1. w(t) = Total(g)
    BY WithinKeeps
  <2>2. g = h({t})
    BY <1>1
  <2>3. Total(h({t})) \in Nat
    <3> HIDE DEF h
    <3> QED
      BY <1>3, TotalNat
  <2> HIDE DEF w, g, h
  <2> QED
    BY <2>1, <2>2, <2>3
<1> HIDE DEF w
<1>5. ASSUME NEW U \in SUBSET T
      PROVE  DOMAIN f(U) = U /\ LedgerOf(f(U))
  <2>1. DOMAIN f(U) = U /\ \A t \in U : f(U)[t] \in Int
    <3>1. ASSUME NEW t \in U PROVE w(t) \in Int
      <4>1. t \in T
        OBVIOUS
      <4>2. w(t) \in Nat
        BY <1>4, <4>1
      <4> QED
        BY <4>2
    <3> QED
      BY <3>1
  <2>2. IsFiniteSet(U)
    BY FS_Subset
  <2> HIDE DEF f
  <2> QED
    BY <2>1, <2>2 DEF LedgerOf
<1>6. Bad = {}
  <2> SUFFICES ASSUME Bad # {} PROVE FALSE
    OBVIOUS
  <2>1. Bad \in SUBSET SUBSET T
    OBVIOUS
  <2>2. PICK U \in Bad : \A x \in U : U \ {x} \notin Bad
    <3> HIDE DEF Bad
    <3> QED
      BY <2>1, Smallest
  <2>3. U \in SUBSET T /\ Total(f(U)) # Total(h(U))
    OBVIOUS
  <2>4. CASE U = {}
    <3>1. DOMAIN f(U) = {} /\ LedgerOf(f(U)) /\ LedgerOf(h(U)) /\ DOMAIN h(U) = DOMAIN s
      <4>1. DOMAIN f(U) = U /\ LedgerOf(f(U))
        BY <1>5, <2>3
      <4>2. LedgerOf(h(U)) /\ DOMAIN h(U) = DOMAIN s
        BY <1>3
      <4> HIDE DEF f, h, Bad
      <4> QED
        BY <4>1, <4>2, <2>4
    <3>2. \A i \in DOMAIN s : h(U)[i] = 0
      BY <2>4
    <3> HIDE DEF f, h
    <3>3. Total(f(U)) = 0 /\ Total(h(U)) = 0
      BY <3>1, <3>2, TotalInt, TotalZero
    <3> QED
      BY <2>3, <3>3
  <2>5. CASE U # {}
    <3>1. PICK t \in U : TRUE
      BY <2>5
    <3> DEFINE R == U \ {t}
               fU == f(U)
               fR == f(R)
               hU == h(U)
               hR == h(R)
               ht == h({t})
    <3>2. R \in SUBSET T /\ R \notin Bad /\ t \in T
      BY <2>2, <2>3
    <3>3. Total(fR) = Total(hR)
      BY <3>2
    <3>4. LedgerOf(fU) /\ LedgerOf(fR) /\ DOMAIN fU = U /\ DOMAIN fR = DOMAIN fU \ {t}
      BY <1>5, <2>3, <3>2
    <3>5. fU[t] = w(t) /\ \A x \in DOMAIN fR : fR[x] = fU[x]
      OBVIOUS
    <3>6. /\ LedgerOf(hU) /\ LedgerOf(hR) /\ LedgerOf(ht)
          /\ DOMAIN hU = DOMAIN s /\ DOMAIN hR = DOMAIN s /\ DOMAIN ht = DOMAIN s
      BY <1>3
    <3>7. \A i \in DOMAIN s : hU[i] = hR[i] + ht[i]
      BY <1>1
    <3>8. w(t) = Total(ht) /\ Total(fU) # Total(hU)
      BY <1>4, <2>3, <3>2
    <3> HIDE DEF fU, fR, hU, hR, ht
    <3>9. Total(fU) = fU[t] + Total(fR)
      <4>1. t \in DOMAIN fU
        BY <3>1, <3>4
      <4> HIDE DEF f, h, Bad, R
      <4> QED
        BY <4>1, <3>4, <3>5, TotalOut
    <3>10. Total(hU) = Total(hR) + Total(ht)
      BY <3>6, <3>7, TotalAdds
    <3>11. Total(hR) \in Int /\ Total(ht) \in Int
      BY <3>6, TotalInt
    <3> QED
      BY <3>3, <3>5, <3>8, <3>9, <3>10, <3>11
  <2> QED
    BY <2>4, <2>5
<1>7. Total(f(T)) = Total(h(T)) /\ LedgerOf(f(T))
  BY <1>5, <1>6
<1>8. h(T) = [i \in DOMAIN s |-> s[i].amount]
  OBVIOUS
<1>9. Total(h(T)) = Sum(s)
  BY <1>8 DEF Sum
<1> QED
  BY <1>7, <1>9 DEF w
(***************************************************************************)
(* Records.                                                                *)
(***************************************************************************)

Pending == [type : Stakes, amount : Nat \ {0}, expire : Nat]

Rec == [frozenV2 : [Stakes -> Nat], delegatedOut : [Quotas -> Nat],
        acquired : [Quotas -> Nat], unfrozenV2 : Seq(Pending),
        frozenLegacy : [Stakes -> [amount : Nat, expire : Nat]], delegatedLegacyOut : [Quotas -> Nat],
        acquiredLegacy : [Quotas -> Nat], oldTronPower : Nat \cup {-1},
        usage : [Quotas -> [used : Nat, last : Nat]]]

\* What a record has staked in one resource, for itself and for others.
Own(r, s) ==
    r.frozenV2[s] + r.frozenLegacy[s].amount
        + IF s \in Quotas THEN r.delegatedOut[s] + r.delegatedLegacyOut[s] ELSE 0

Staked(r) == QuotaTronPower(r) + r.frozenV2["TRON_POWER"] + r.frozenLegacy["TRON_POWER"].amount

\* There are finitely many accounts and resources, and votes are no quota.
LEMMA Finite ==
    /\ IsFiniteSet(Quotas) /\ IsFiniteSet(Stakes) /\ IsFiniteSet(Accounts)
    /\ "TRON_POWER" \in Stakes /\ "TRON_POWER" \notin Quotas /\ Quotas \subseteq Stakes
    /\ Stakes \ {"TRON_POWER"} = Quotas
    /\ Owners \subseteq Accounts /\ Deployable \subseteq Accounts
<1>1. IsFiniteSet({"BANDWIDTH", "ENERGY"}) /\ IsFiniteSet({"TRON_POWER"})
  <2>1. \A x : IsFiniteSet({x})
    BY FS_Singleton
  <2>2. {"BANDWIDTH", "ENERGY"} = {"BANDWIDTH"} \cup {"ENERGY"}
    OBVIOUS
  <2>3. IsFiniteSet({"BANDWIDTH"} \cup {"ENERGY"})
    BY <2>1, FS_Union
  <2> QED
    BY <2>1, <2>2, <2>3
<1>2. IsFiniteSet(Quotas)
  BY <1>1, ResourcesAssumption, FS_Subset
<1>3. IsFiniteSet(Stakes)
  BY <1>1, <1>2, FS_Union DEF Stakes
<1>4. IsFiniteSet(Accounts)
  BY ResourcesAssumption, FS_Union DEF Accounts
<1>5. "TRON_POWER" \notin Quotas
  BY ResourcesAssumption
<1> QED
  BY <1>2, <1>3, <1>4, <1>5 DEF Stakes, Accounts

\* What a record has staked is the total over its resources.
LEMMA StakedIs ==
    ASSUME NEW r \in Rec
    PROVE  /\ \A s \in Stakes : Own(r, s) \in Nat
           /\ LedgerOf([s \in Stakes |-> Own(r, s)])
           /\ QuotaTronPower(r) \in Nat
           /\ Staked(r) = QuotaTronPower(r) + Own(r, "TRON_POWER")
           /\ Staked(r) = Total([s \in Stakes |-> Own(r, s)])
<1> DEFINE f == [s \in Stakes |-> Own(r, s)]
           h == [q \in Quotas |-> r.frozenV2[q] + r.delegatedOut[q]
                               + r.frozenLegacy[q].amount + r.delegatedLegacyOut[q]]
           z == "TRON_POWER"
<1>1. z \in Stakes /\ z \notin Quotas /\ Quotas \subseteq Stakes /\ Stakes \ {z} = Quotas
      /\ IsFiniteSet(Quotas) /\ IsFiniteSet(Stakes)
  BY Finite
<1>2. /\ \A s \in Stakes : r.frozenV2[s] \in Nat /\ r.frozenLegacy[s].amount \in Nat
      /\ \A q \in Quotas : r.delegatedOut[q] \in Nat /\ r.delegatedLegacyOut[q] \in Nat
  BY DEF Rec
<1>3. \A s \in Stakes : Own(r, s) \in Nat
  BY <1>2 DEF Own
<1>4. \A q \in Quotas : h[q] = Own(r, q) /\ h[q] \in Nat
  BY <1>1, <1>2 DEF Own
<1>5. Own(r, z) = r.frozenV2[z] + r.frozenLegacy[z].amount
  BY <1>1, <1>2 DEF Own
<1>6. DOMAIN f = Stakes /\ DOMAIN h = Quotas /\ \A s \in Stakes : f[s] = Own(r, s)
  OBVIOUS
<1>7. QuotaTronPower(r) = Total(h)
  BY DEF QuotaTronPower
<1> HIDE DEF f, h
<1>8. LedgerOf(f)
  BY <1>1, <1>3, <1>6, LedgerOver
<1>9. LedgerOf(h)
  BY <1>1, <1>4, <1>6, LedgerOver
<1>10. Total(h) \in Nat
  BY <1>4, <1>6, <1>9, TotalNat
<1>11. Total(f) = f[z] + Total(h)
  <2>1. z \in DOMAIN f /\ DOMAIN h = DOMAIN f \ {z} /\ \A x \in DOMAIN h : h[x] = f[x]
    BY <1>1, <1>4, <1>6
  <2> HIDE DEF z
  <2> QED
    BY <1>8, <1>9, <2>1, TotalOut
<1>12. Staked(r) = Total(h) + Own(r, z)
  BY <1>1, <1>2, <1>5, <1>7, <1>10 DEF Staked
<1>13. Staked(r) = Total(f)
  BY <1>1, <1>3, <1>6, <1>10, <1>11, <1>12
<1> QED
  BY <1>3, <1>7, <1>8, <1>10, <1>12, <1>13 DEF f

\* Stake moves with the one resource that changes.
LEMMA StakedMoves ==
    ASSUME NEW r \in Rec, NEW r2 \in Rec, NEW s \in Stakes,
           \A t \in Stakes \ {s} : Own(r2, t) = Own(r, t)
    PROVE  /\ Staked(r2) = Staked(r) - Own(r, s) + Own(r2, s)
           /\ Own(r2, s) >= Own(r, s) => QuotaTronPower(r2) >= QuotaTronPower(r)
<1> DEFINE f == [t \in Stakes |-> Own(r, t)]
           h == [t \in Stakes |-> Own(r2, t)]
<1>1. LedgerOf(f) /\ LedgerOf(h)
  BY StakedIs
<1>2. DOMAIN f = Stakes /\ DOMAIN h = Stakes /\ f[s] = Own(r, s) /\ h[s] = Own(r2, s)
      /\ \A t \in Stakes \ {s} : h[t] = f[t]
  OBVIOUS
<1>3. Staked(r) = Total(f) /\ Staked(r2) = Total(h)
  BY StakedIs
<1> HIDE DEF f, h
<1>4. Total(h) = Total(f) - f[s] + h[s]
  BY <1>1, <1>2, TotalMoves
<1>5. Staked(r2) = Staked(r) - Own(r, s) + Own(r2, s)
  BY <1>2, <1>3, <1>4
<1>6. ASSUME Own(r2, s) >= Own(r, s) PROVE QuotaTronPower(r2) >= QuotaTronPower(r)
  <2> DEFINE z == "TRON_POWER"
  <2>1. /\ QuotaTronPower(r) \in Nat /\ QuotaTronPower(r2) \in Nat
        /\ Own(r, s) \in Nat /\ Own(r2, s) \in Nat /\ Own(r, z) \in Nat /\ Own(r2, z) \in Nat
        /\ Staked(r) = QuotaTronPower(r) + Own(r, z) /\ Staked(r2) = QuotaTronPower(r2) + Own(r2, z)
    BY StakedIs, Finite
  <2>2. s # z => Own(r2, z) = Own(r, z)
    BY Finite
  <2> HIDE DEF z
  <2> QED
    BY <1>5, <1>6, <2>1, <2>2
<1> QED
  BY <1>5, <1>6

\* Two records that have staked the same.
LEMMA StakedSame ==
    ASSUME NEW r \in Rec, NEW r2 \in Rec, \A s \in Stakes : Own(r2, s) = Own(r, s)
    PROVE  Staked(r2) = Staked(r) /\ QuotaTronPower(r2) = QuotaTronPower(r)
<1> DEFINE z == "TRON_POWER"
<1>1. z \in Stakes
  BY Finite
<1>2. Staked(r2) = Staked(r) - Own(r, z) + Own(r2, z)
  BY <1>1, StakedMoves
<1>3. /\ QuotaTronPower(r) \in Nat /\ QuotaTronPower(r2) \in Nat /\ Own(r, z) \in Nat
      /\ Staked(r) = QuotaTronPower(r) + Own(r, z) /\ Staked(r2) = QuotaTronPower(r2) + Own(r2, z)
      /\ Own(r2, z) = Own(r, z)
  BY <1>1, StakedIs
<1> HIDE DEF z
<1> QED
  BY <1>2, <1>3
\* The power that is carried over is backed, and there is none in the old model.
Carry(r) ==
    /\ r.oldTronPower > 0 => r.oldTronPower <= QuotaTronPower(r)
    /\ ~params.newResourceModel => r.oldTronPower = 0

\* The record of an account that cannot sign.
Idle(r) ==
    /\ \A s \in Stakes : r.frozenV2[s] = 0 /\ r.frozenLegacy[s].amount = 0
    /\ \A q \in Quotas : r.delegatedOut[q] = 0

\* Records that have staked, given and been given the same.
Alike(r, r2) ==
    /\ r2.frozenV2 = r.frozenV2 /\ r2.delegatedOut = r.delegatedOut /\ r2.acquired = r.acquired
    /\ r2.frozenLegacy = r.frozenLegacy
    /\ r2.delegatedLegacyOut = r.delegatedLegacyOut /\ r2.acquiredLegacy = r.acquiredLegacy

\* Quotients of integers by what Trx may be.
LEMMA Floors ==
    ASSUME NEW x \in Int
    PROVE  Floor(x) \in Int /\ Floor(0) = 0
BY ResourcesAssumption DEF Floor

\* What has been staked by records that are alike is the same.
LEMMA AlikeStaked ==
    ASSUME NEW r \in Rec, NEW r2 \in Rec, Alike(r, r2)
    PROVE  /\ \A s \in Stakes : Own(r2, s) = Own(r, s)
           /\ QuotaTronPower(r2) = QuotaTronPower(r) /\ Staked(r2) = Staked(r)
<1>1. \A s \in Stakes : Own(r2, s) = Own(r, s)
  BY DEF Alike, Own
<1> QED
  BY <1>1, StakedSame

\* The record once the new model has carried its power over.
LEMMA MigratedIs ==
    ASSUME NEW r \in Rec, Carry(r)
    PROVE  /\ Migrated(r) \in Rec /\ Alike(r, Migrated(r)) /\ Carry(Migrated(r))
           /\ Migrated(r).unfrozenV2 = r.unfrozenV2 /\ Migrated(r).usage = r.usage
<1> DEFINE p == QuotaTronPower(r)
           c == IF p = 0 THEN -1 ELSE p
<1>1. CASE params.newResourceModel /\ r.oldTronPower = 0
  <2>1. p \in Nat
    BY StakedIs
  <2>2. Migrated(r) = [r EXCEPT !.oldTronPower = c]
    BY <1>1 DEF Migrated
  <2>3. c \in Nat \cup {-1} /\ (c > 0 => c = p)
    BY <2>1
  <2> HIDE DEF c, p
  <2>4. /\ Migrated(r) \in Rec /\ Alike(r, Migrated(r)) /\ Migrated(r).oldTronPower = c
        /\ Migrated(r).unfrozenV2 = r.unfrozenV2 /\ Migrated(r).usage = r.usage
    BY <2>2, <2>3 DEF Rec, Alike
  <2>5. QuotaTronPower(Migrated(r)) = p
    BY <2>4, AlikeStaked DEF p
  <2> QED
    BY <1>1, <2>1, <2>3, <2>4, <2>5 DEF Carry
<1>2. CASE ~(params.newResourceModel /\ r.oldTronPower = 0)
  <2>1. Migrated(r) = r
    BY <1>2 DEF Migrated
  <2> QED
    BY <2>1 DEF Alike
<1> QED
  BY <1>1, <1>2

\* The record once stake was given up.
LEMMA UnstakedIs ==
    ASSUME NEW r \in Rec, ~params.newResourceModel => r.oldTronPower = 0
    PROVE  /\ Unstaked(r) \in Rec /\ Alike(r, Unstaked(r)) /\ Carry(Unstaked(r))
           /\ Unstaked(r).unfrozenV2 = r.unfrozenV2 /\ Unstaked(r).usage = r.usage
<1>1. CASE params.newResourceModel
  <2>1. Unstaked(r) = [r EXCEPT !.oldTronPower = -1]
    BY <1>1 DEF Unstaked
  <2>2. /\ Unstaked(r) \in Rec /\ Alike(r, Unstaked(r)) /\ Unstaked(r).oldTronPower = -1
        /\ Unstaked(r).unfrozenV2 = r.unfrozenV2 /\ Unstaked(r).usage = r.usage
    BY <2>1 DEF Rec, Alike
  <2> QED
    BY <1>1, <2>2 DEF Carry
<1>2. CASE ~params.newResourceModel
  <2>1. Unstaked(r) = r /\ r.oldTronPower = 0
    BY <1>2 DEF Unstaked
  <2> QED
    BY <1>2, <2>1 DEF Alike, Carry
<1> QED
  BY <1>1, <1>2

\* Carrying over survives more stake.
LEMMA CarryKept ==
    ASSUME NEW r \in Rec, Carry(r), NEW r2 \in Rec, r2.oldTronPower = r.oldTronPower,
           QuotaTronPower(r2) >= QuotaTronPower(r)
    PROVE  Carry(r2)
<1>1. QuotaTronPower(r) \in Nat /\ QuotaTronPower(r2) \in Nat
  BY StakedIs
<1>2. r.oldTronPower \in Nat \cup {-1}
  BY DEF Rec
<1> QED
  BY <1>1, <1>2 DEF Carry

\* The account c, with x to spend, has what it started with.
Solvent(c, r, x) ==
    /\ Carry(r)
    /\ c \notin Owners => Idle(r)
    /\ c \in Owners => /\ x + Staked(r) + Sum(r.unfrozenV2) = Funds
                       /\ Len(r.unfrozenV2) <= MaxPending

\* Pending unstakes have an amount, and lists of them a sum.
LEMMA PendingSum ==
    ASSUME NEW r \in Rec
    PROVE  /\ Amounted(Pending) /\ r.unfrozenV2 \in Seq(Pending) /\ Sum(r.unfrozenV2) \in Nat
           /\ Len(r.unfrozenV2) \in Nat /\ Staked(r) \in Nat
<1>1. Amounted(Pending) /\ r.unfrozenV2 \in Seq(Pending)
  BY DEF Amounted, Pending, Rec
<1>2. Sum(r.unfrozenV2) \in Nat
  BY <1>1, SumNat
<1>3. Staked(r) \in Nat
  <2> DEFINE z == "TRON_POWER"
  <2>1. z \in Stakes
    BY Finite
  <2>2. QuotaTronPower(r) \in Nat /\ Own(r, z) \in Nat /\ Staked(r) = QuotaTronPower(r) + Own(r, z)
    BY <2>1, StakedIs
  <2> HIDE DEF z
  <2> QED
    BY <2>2
<1> QED
  BY <1>1, <1>2, <1>3

\* An owner's sun moves between its balance, one resource and what is pending.
LEMMA SolventMoves ==
    ASSUME NEW c \in Owners, NEW r \in Rec, NEW r2 \in Rec, NEW x \in Nat, NEW x2 \in Nat, Solvent(c, r, x),
           NEW s \in Stakes, \A t \in Stakes \ {s} : Own(r2, t) = Own(r, t),
           x2 + Own(r2, s) + Sum(r2.unfrozenV2) = x + Own(r, s) + Sum(r.unfrozenV2),
           Len(r2.unfrozenV2) <= MaxPending, Carry(r2)
    PROVE  Solvent(c, r2, x2)
<1>1. Staked(r2) = Staked(r) - Own(r, s) + Own(r2, s)
  BY StakedMoves
<1>2. /\ Own(r, s) \in Nat /\ Own(r2, s) \in Nat
      /\ Staked(r) \in Nat /\ Sum(r.unfrozenV2) \in Nat /\ Sum(r2.unfrozenV2) \in Nat /\ Funds \in Nat
  BY StakedIs, PendingSum, ResourcesAssumption
<1>3. x + Staked(r) + Sum(r.unfrozenV2) = Funds
  BY DEF Solvent
<1>4. x2 + Staked(r2) + Sum(r2.unfrozenV2) = Funds
  <2> DEFINE o == Own(r, s)
             o2 == Own(r2, s)
             k == Staked(r)
             k2 == Staked(r2)
             w == Sum(r.unfrozenV2)
             w2 == Sum(r2.unfrozenV2)
  <2>1. o \in Int /\ o2 \in Int /\ k \in Int /\ w \in Int /\ w2 \in Int /\ Funds \in Int
    BY <1>2
  <2>2. k2 = k - o + o2 /\ x + k + w = Funds /\ x2 + o2 + w2 = x + o + w
    BY <1>1, <1>3
  <2> HIDE DEF o, o2, k, k2, w, w2
  <2>3. x2 + k2 + w2 = Funds
    BY <2>1, <2>2
  <2> QED
    BY <2>3 DEF k2, w2
<1> QED
  BY <1>4 DEF Solvent

\* What a record weighs in one resource.
Weighs(r, s) ==
    Floor(WeightWithDelegated(r, s)) + Floor(r.frozenLegacy[s].amount)
        + IF s \in Quotas THEN Floor(r.acquiredLegacy[s]) ELSE 0

Weigh(rec, s) == Total([a \in Accounts |-> Weighs(rec[a], s)])

\* Weights are integers.
LEMMA WeighsInt ==
    ASSUME NEW r \in Rec, NEW s \in Stakes
    PROVE  /\ Weighs(r, s) \in Int /\ WeightWithDelegated(r, s) \in Nat
           /\ r.frozenLegacy[s].amount \in Nat
<1>1. /\ r.frozenV2[s] \in Nat /\ r.frozenLegacy[s].amount \in Nat
      /\ s \in Quotas => r.delegatedOut[s] \in Nat /\ r.acquiredLegacy[s] \in Nat
  BY DEF Rec
<1>2. WeightWithDelegated(r, s) \in Nat
  BY <1>1 DEF WeightWithDelegated
<1>3. /\ Floor(WeightWithDelegated(r, s)) \in Int /\ Floor(r.frozenLegacy[s].amount) \in Int
      /\ s \in Quotas => Floor(r.acquiredLegacy[s]) \in Int
  BY <1>1, <1>2, Floors
<1> QED
  BY <1>1, <1>2, <1>3 DEF Weighs

\* The chain-wide weight moves with the one account whose weight does.
LEMMA WeighMoves ==
    ASSUME NEW rec \in [Accounts -> Rec], NEW rec2 \in [Accounts -> Rec], NEW s \in Stakes, NEW a \in Accounts,
           \A b \in Accounts \ {a} : Weighs(rec2[b], s) = Weighs(rec[b], s)
    PROVE  /\ Weigh(rec2, s) = Weigh(rec, s) - Weighs(rec[a], s) + Weighs(rec2[a], s)
           /\ Weigh(rec, s) \in Int /\ Weighs(rec[a], s) \in Int /\ Weighs(rec2[a], s) \in Int
<1> DEFINE f == [b \in Accounts |-> Weighs(rec[b], s)]
           h == [b \in Accounts |-> Weighs(rec2[b], s)]
<1>1. \A b \in Accounts : Weighs(rec[b], s) \in Int /\ Weighs(rec2[b], s) \in Int
  <2>1. \A b \in Accounts : rec[b] \in Rec /\ rec2[b] \in Rec
    OBVIOUS
  <2> QED
    BY <2>1, WeighsInt
<1>2. /\ DOMAIN f = Accounts /\ DOMAIN h = Accounts
      /\ \A b \in Accounts : f[b] = Weighs(rec[b], s) /\ h[b] = Weighs(rec2[b], s)
      /\ \A b \in Accounts \ {a} : h[b] = f[b]
  OBVIOUS
<1>3. Weigh(rec, s) = Total(f) /\ Weigh(rec2, s) = Total(h)
  BY DEF Weigh
<1> HIDE DEF f, h
<1>4. LedgerOf(f) /\ LedgerOf(h)
  BY <1>1, <1>2, Finite, LedgerOver
<1>5. Total(h) = Total(f) - f[a] + h[a] /\ Total(f) \in Int
  BY <1>2, <1>4, TotalMoves, TotalInt
<1> QED
  BY <1>1, <1>2, <1>3, <1>5

\* Where no account's weight moves, none does.
LEMMA WeighSame ==
    ASSUME NEW rec, NEW rec2, NEW s, \A b \in Accounts : Weighs(rec2[b], s) = Weighs(rec[b], s)
    PROVE  Weigh(rec2, s) = Weigh(rec, s)
<1>1. [b \in Accounts |-> Weighs(rec2[b], s)] = [b \in Accounts |-> Weighs(rec[b], s)]
  OBVIOUS
<1> QED
  BY <1>1 DEF Weigh
(***************************************************************************)
(* Usage.                                                                  *)
(***************************************************************************)

\* A ledger's windowed usage is a natural, and what is charged never lowers it.
LEMMA WindowedNat ==
    ASSUME NEW held \in Nat, NEW last \in Nat, NEW now \in Nat, NEW units \in Nat
    PROVE  /\ WindowedUsage(held, last, now, units) \in Nat
           /\ WindowedUsage(held, last, now, 0) \in Nat
           /\ WindowedUsage(held, last, now, 0) <= WindowedUsage(held, last, now, units)
<1> DEFINE average == CeilDiv(held * Precision, Window)
           delta == Slots(last, now)
           decayed == IF delta <= 0 THEN average
                      ELSE IF delta < Window THEN Round(average * (Window - delta), Window) ELSE 0
           more == CeilDiv(units * Precision, Window)
<1>1. Window \in Nat \ {0} /\ Precision \in Nat \ {0}
  BY ResourcesAssumption
<1>2. ASSUME NEW n \in Nat PROVE CeilDiv(n, Window) \in Nat
  <2>1. n + Window - 1 \in Nat
    BY <1>1
  <2> QED
    BY <1>1, <2>1, Divides DEF CeilDiv
<1>3. average \in Nat /\ more \in Nat
  <2>1. held * Precision \in Nat /\ units * Precision \in Nat
    BY <1>1, Product
  <2> QED
    BY <1>2, <2>1
<1>4. CeilDiv(0 * Precision, Window) = 0
  <2>1. 0 * Precision = 0
    BY <1>1
  <2>2. (0 + Window - 1) \div Window = 0
    <3>1. 0 + Window - 1 \in Nat /\ 0 * Window <= 0 + Window - 1 /\ 0 + Window - 1 < 0 * Window + Window
      BY <1>1
    <3> QED
      BY <1>1, <3>1, DivIs
  <2> QED
    BY <2>1, <2>2 DEF CeilDiv
<1>5. delta \in Int
  BY DEF Slots
<1> HIDE DEF average, delta
<1>6. decayed \in Nat
  <2>1. CASE delta > 0 /\ delta < Window
    <3>1. average * (Window - delta) \in Nat
      <4>1. Window - delta \in Nat
        BY <1>1, <1>5, <2>1
      <4> QED
        BY <1>3, <4>1, Product
    <3>2. 2 * (average * (Window - delta)) + Window \in Nat /\ 2 * Window \in Nat \ {0}
      BY <1>1, <3>1
    <3>3. Round(average * (Window - delta), Window) \in Nat
      BY <3>2, Divides DEF Round
    <3>4. ~(delta <= 0)
      BY <1>5, <2>1
    <3> QED
      BY <2>1, <3>3, <3>4
  <2>2. CASE ~(delta > 0 /\ delta < Window)
    BY <1>1, <1>3, <1>5, <2>2
  <2> QED
    BY <2>1, <2>2
<1>7. /\ WindowedUsage(held, last, now, units) = ((decayed + more) * Window) \div Precision
      /\ WindowedUsage(held, last, now, 0) = ((decayed + CeilDiv(0 * Precision, Window)) * Window) \div Precision
  BY DEF WindowedUsage, average, delta
<1> HIDE DEF decayed, more
<1>8. /\ (decayed + more) * Window \in Nat /\ decayed * Window \in Nat
      /\ decayed * Window <= (decayed + more) * Window
  <2>1. decayed * Window \in Nat /\ more * Window \in Nat
    BY <1>1, <1>3, <1>6, Product
  <2>2. (decayed + more) * Window = decayed * Window + more * Window
    BY <1>1, <1>3, <1>6
  <2> QED
    BY <2>1, <2>2
<1>9. WindowedUsage(held, last, now, 0) = (decayed * Window) \div Precision
  <2>1. decayed + CeilDiv(0 * Precision, Window) = decayed
    BY <1>4, <1>6
  <2> QED
    BY <1>7, <2>1
<1>10. /\ ((decayed + more) * Window) \div Precision \in Nat /\ (decayed * Window) \div Precision \in Nat
       /\ (decayed * Window) \div Precision <= ((decayed + more) * Window) \div Precision
  BY <1>1, <1>8, Divides, DivRises
<1> QED
  BY <1>7, <1>9, <1>10

\* A ledger that was just written reads as what was written: the scale of the
\* average loses nothing.
LEMMA StampedReads ==
    ASSUME NEW n \in Nat, NEW now \in Nat
    PROVE  WindowedUsage(n, now, now, 0) = n
<1> DEFINE x == n * Precision
           average == CeilDiv(x, Window)
<1>1. Window \in Nat \ {0} /\ Precision \in Nat \ {0} /\ Window <= Precision
  BY ResourcesAssumption
<1>2. x \in Nat
  BY <1>1, Product
<1>3. CeilDiv(0 * Precision, Window) = 0
  <2>1. 0 * Precision = 0
    BY <1>1
  <2>2. (0 + Window - 1) \div Window = 0
    <3>1. 0 + Window - 1 \in Nat /\ 0 * Window <= 0 + Window - 1 /\ 0 + Window - 1 < 0 * Window + Window
      BY <1>1
    <3> QED
      BY <1>1, <3>1, DivIs
  <2> QED
    BY <2>1, <2>2 DEF CeilDiv
<1>4. average \in Nat /\ x <= average * Window /\ average * Window < x + Window
  <2> HIDE DEF x
  <2> DEFINE y == x + Window - 1
  <2>1. y \in Nat
    BY <1>1, <1>2
  <2>2. average = y \div Window
    BY DEF CeilDiv
  <2> HIDE DEF y
  <2>3. y \div Window \in Nat /\ Window * (y \div Window) <= y /\ y < Window * (y \div Window) + Window
    BY <1>1, <2>1, Divides
  <2> HIDE DEF average
  <2>4. average \in Nat /\ Window * average = average * Window /\ average * Window \in Nat
    BY <1>1, <2>2, <2>3, Product
  <2>5. average * Window <= y /\ y < average * Window + Window
    BY <2>2, <2>3, <2>4
  <2> QED
    BY <1>1, <1>2, <2>4, <2>5 DEF y
<1>5. WindowedUsage(n, now, now, 0) = ((average + CeilDiv(0 * Precision, Window)) * Window) \div Precision
  BY DEF WindowedUsage, Slots
<1>6. average * Window \in Nat /\ n * Precision <= average * Window /\ average * Window < n * Precision + Precision
  <2>1. average * Window \in Nat
    <3> HIDE DEF average
    <3> QED
      BY <1>1, <1>4, Product
  <2> HIDE DEF average
  <2> QED
    BY <1>1, <1>2, <1>4, <2>1
<1> HIDE DEF average
<1>7. (average * Window) \div Precision = n
  BY <1>1, <1>6, DivIs
<1>8. average + 0 = average
  BY <1>4
<1> QED
  BY <1>3, <1>5, <1>7, <1>8
(***************************************************************************)
(* Books of delegations.                                                   *)
(***************************************************************************)

Keys == {<<p[1], p[2], l>> : p \in Pairs, l \in BOOLEAN}

Table(tab) == IsFiniteSet(DOMAIN tab) /\ \A k \in DOMAIN tab : tab[k] \in Entry

\* What the entries of a table with keys in S add up to.
Pile(tab, S, q) == Total([k \in DOMAIN tab \cap S |-> tab[k].amount[q]])

\* Two tables agree but for one key.
But(tab, tab2, z) ==
    /\ \A k : k # z => (k \in DOMAIN tab2 <=> k \in DOMAIN tab)
    /\ \A k \in DOMAIN tab : k # z => tab2[k] = tab[k]

\* There are finitely many pairs and keys.
LEMMA KeysFinite ==
    /\ IsFiniteSet(Pairs) /\ IsFiniteSet(Keys)
    /\ \A p \in Pairs : /\ p[1] \in Owners /\ p[2] \in Accounts /\ p[1] \in Accounts /\ p[1] # p[2]
                        /\ p = <<p[1], p[2]>>
                        /\ <<p[1], p[2], TRUE>> \in Keys /\ <<p[1], p[2], FALSE>> \in Keys
    /\ \A k \in Keys : k[1] \in Owners /\ k[2] \in Accounts /\ <<k[1], k[2]>> \in Pairs /\ k = <<k[1], k[2], k[3]>>
                       /\ k[3] \in BOOLEAN
<1>1. IsFiniteSet(Owners \X Accounts) /\ IsFiniteSet(BOOLEAN)
  <2>1. BOOLEAN = {TRUE} \cup {FALSE}
    OBVIOUS
  <2>2. IsFiniteSet({TRUE} \cup {FALSE})
    BY FS_Singleton, FS_Union
  <2>3. IsFiniteSet(Owners \X Accounts)
    BY ResourcesAssumption, Finite, FS_Product
  <2> QED
    BY <2>1, <2>2, <2>3
<1>2. IsFiniteSet(Pairs)
  <2>1. Pairs \in SUBSET (Owners \X Accounts)
    BY DEF Pairs
  <2> QED
    BY <1>1, <2>1, FS_Subset
<1>3. IsFiniteSet(Keys)
  <2> DEFINE S == Pairs \X BOOLEAN
             Key(x) == <<x[1][1], x[1][2], x[2]>>
             T == {Key(x) : x \in S}
             f == [x \in S |-> Key(x)]
  <2>1. IsFiniteSet(S)
    BY <1>1, <1>2, FS_Product
  <2>2. IsFiniteSet(T)
    <3> HIDE DEF S, Key
    <3>1. f \in Surjection(S, T)
      BY DEF Surjection
    <3> HIDE DEF T
    <3> QED
      BY <2>1, <3>1, FS_Surjection
  <2>3. Keys \in SUBSET T
    <3>1. ASSUME NEW p \in Pairs, NEW l \in BOOLEAN
          PROVE  <<p[1], p[2], l>> \in T
      <4>1. <<p, l>> \in S /\ <<p, l>>[1] = p /\ <<p, l>>[2] = l
        OBVIOUS
      <4> QED
        BY <4>1
    <3> HIDE DEF T
    <3> QED
      BY <3>1 DEF Keys
  <2> HIDE DEF T
  <2> QED
    BY <2>2, <2>3, FS_Subset
<1>4. \A p \in Pairs : /\ p[1] \in Owners /\ p[2] \in Accounts /\ p[1] # p[2] /\ p = <<p[1], p[2]>>
  BY DEF Pairs
<1>5. ASSUME NEW k \in Keys
      PROVE  k[1] \in Owners /\ k[2] \in Accounts /\ <<k[1], k[2]>> \in Pairs /\ k = <<k[1], k[2], k[3]>>
             /\ k[3] \in BOOLEAN
  <2>1. PICK p \in Pairs, l \in BOOLEAN : k = <<p[1], p[2], l>>
    BY DEF Keys
  <2>2. k[1] = p[1] /\ k[2] = p[2] /\ k[3] = l
    BY <2>1
  <2> QED
    BY <1>4, <2>1, <2>2
<1>6. \A p \in Pairs : <<p[1], p[2], TRUE>> \in Keys /\ <<p[1], p[2], FALSE>> \in Keys
  <2>1. ASSUME NEW p \in Pairs, NEW l \in BOOLEAN PROVE <<p[1], p[2], l>> \in Keys
    BY DEF Keys
  <2> QED
    BY <2>1
<1> QED
  BY <1>2, <1>3, <1>4, <1>5, <1>6, Finite

\* The entry of a key, which may be missing.
LEMMA GetEntry ==
    ASSUME NEW tab, Table(tab), NEW z
    PROVE  /\ Get(tab, z) \in Entry /\ NoEntry \in Entry
           /\ \A q \in Quotas : /\ Get(tab, z).amount[q] \in Nat /\ Get(tab, z).expire[q] \in Nat
                                /\ NoEntry.amount[q] = 0 /\ NoEntry.expire[q] = 0
<1>1. NoEntry \in Entry
  BY DEF NoEntry, Entry, Zero
<1>2. Get(tab, z) \in Entry
  BY <1>1 DEF Get, Table
<1>3. \A q \in Quotas : NoEntry.amount[q] = 0 /\ NoEntry.expire[q] = 0
  BY DEF NoEntry, Zero
<1> QED
  BY <1>1, <1>2, <1>3 DEF Entry

\* An entry that is set.
LEMMA SetIs ==
    ASSUME NEW tab, Table(tab), NEW z, NEW e \in Entry
    PROVE  /\ Table(With(tab, z, e)) /\ But(tab, With(tab, z, e), z)
           /\ z \in DOMAIN With(tab, z, e) /\ Get(With(tab, z, e), z) = e
           /\ DOMAIN With(tab, z, e) = DOMAIN tab \cup {z}
<1> DEFINE t == With(tab, z, e)
<1>1. DOMAIN t = DOMAIN tab \cup {z}
  BY DEF With
<1>2. t[z] = e /\ \A k \in DOMAIN tab : k # z => t[k] = tab[k]
  BY DEF With
<1> HIDE DEF t
<1>3. IsFiniteSet(DOMAIN t)
  BY <1>1, FS_AddElement DEF Table
<1>4. Table(t)
  BY <1>1, <1>2, <1>3 DEF Table
<1>5. But(tab, t, z) /\ Get(t, z) = e
  BY <1>1, <1>2 DEF But, Get
<1> QED
  BY <1>1, <1>4, <1>5 DEF t

\* An entry that is put, or dropped where it is empty.
LEMMA PutIs ==
    ASSUME NEW tab, Table(tab), NEW z, NEW e \in Entry
    PROVE  /\ Table(Put(tab, z, e)) /\ But(tab, Put(tab, z, e), z)
           /\ DOMAIN Put(tab, z, e) \subseteq DOMAIN tab \cup {z}
           /\ z \in DOMAIN Put(tab, z, e) <=> e.amount # Zero(Quotas)
           /\ Get(Put(tab, z, e), z).amount = e.amount
           /\ e.amount # Zero(Quotas) => Get(Put(tab, z, e), z) = e
<1> DEFINE t == Without(tab, z)
<1>1. CASE Empty(e)
  <2>1. Put(tab, z, e) = t
    BY <1>1 DEF Put
  <2>2. DOMAIN t = DOMAIN tab \ {z} /\ \A k \in DOMAIN t : t[k] = tab[k]
    BY DEF Without
  <2> HIDE DEF t
  <2>3. IsFiniteSet(DOMAIN t)
    BY <2>2, FS_Subset DEF Table
  <2>4. Table(t) /\ But(tab, t, z) /\ Get(t, z) = NoEntry
    BY <2>2, <2>3 DEF Table, But, Get
  <2>5. e.amount = Zero(Quotas) /\ NoEntry.amount = Zero(Quotas)
    BY <1>1 DEF Empty, NoEntry
  <2> QED
    BY <2>1, <2>2, <2>4, <2>5
<1>2. CASE ~Empty(e)
  <2>1. Put(tab, z, e) = With(tab, z, e)
    BY <1>2 DEF Put
  <2>2. e.amount # Zero(Quotas)
    BY <1>2 DEF Empty
  <2> DEFINE w == With(tab, z, e)
  <2>3. Table(w) /\ But(tab, w, z) /\ z \in DOMAIN w /\ Get(w, z) = e /\ DOMAIN w = DOMAIN tab \cup {z}
    BY SetIs
  <2> HIDE DEF w
  <2>4. Put(tab, z, e) = w
    BY <2>1 DEF w
  <2> QED
    BY <2>2, <2>3, <2>4
<1> QED
  BY <1>1, <1>2

\* A pile is an amount.
LEMMA PileNat ==
    ASSUME NEW tab, Table(tab), NEW S, NEW q \in Quotas
    PROVE  /\ Pile(tab, S, q) \in Nat
           /\ LedgerOf([k \in DOMAIN tab \cap S |-> tab[k].amount[q]])
           /\ \A z \in S : Get(tab, z).amount[q] <= Pile(tab, S, q)
<1> DEFINE f == [k \in DOMAIN tab \cap S |-> tab[k].amount[q]]
<1>1. DOMAIN f = DOMAIN tab \cap S /\ \A k \in DOMAIN f : f[k] = tab[k].amount[q] /\ f[k] \in Nat
  BY DEF Table, Entry
<1>2. Pile(tab, S, q) = Total(f)
  BY DEF Pile
<1> HIDE DEF f
<1>3. IsFiniteSet(DOMAIN f)
  BY <1>1, FS_Subset DEF Table
<1>4. LedgerOf(f)
  BY <1>1, <1>3 DEF LedgerOf
<1>5. Total(f) \in Nat /\ \A x \in DOMAIN f : f[x] <= Total(f)
  BY <1>1, <1>4, TotalNat
<1>6. ASSUME NEW z \in S PROVE Get(tab, z).amount[q] <= Total(f)
  <2>1. CASE z \in DOMAIN tab
    <3>1. Get(tab, z).amount[q] = f[z] /\ z \in DOMAIN f
      BY <1>1, <2>1 DEF Get
    <3> QED
      BY <1>5, <3>1
  <2>2. CASE z \notin DOMAIN tab
    <3>1. Get(tab, z).amount[q] = 0
      BY <2>2, GetEntry DEF Get
    <3> QED
      BY <1>5, <3>1
  <2> QED
    BY <2>1, <2>2
<1> QED
  BY <1>2, <1>4, <1>5, <1>6 DEF f

\* A pile without one key.
LEMMA PileOut ==
    ASSUME NEW tab, Table(tab), NEW S, NEW q \in Quotas, NEW z \in S
    PROVE  Pile(tab, S, q) = Get(tab, z).amount[q] + Pile(tab, S \ {z}, q)
<1> DEFINE f == [k \in DOMAIN tab \cap S |-> tab[k].amount[q]]
           h == [k \in DOMAIN tab \cap (S \ {z}) |-> tab[k].amount[q]]
<1>1. DOMAIN f = DOMAIN tab \cap S /\ DOMAIN h = DOMAIN f \ {z} /\ \A k \in DOMAIN h : h[k] = f[k]
  OBVIOUS
<1>2. Pile(tab, S, q) = Total(f) /\ Pile(tab, S \ {z}, q) = Total(h)
  BY DEF Pile
<1>3. LedgerOf(f) /\ LedgerOf(h)
  BY PileNat
<1>4. CASE z \in DOMAIN tab
  <2>1. Get(tab, z).amount[q] = f[z] /\ z \in DOMAIN f
    BY <1>4 DEF Get
  <2> HIDE DEF f, h
  <2>2. Total(f) = f[z] + Total(h)
    BY <1>1, <1>3, <2>1, TotalOut
  <2> QED
    BY <1>2, <2>1, <2>2
<1>5. CASE z \notin DOMAIN tab
  <2>1. Get(tab, z).amount[q] = 0
    BY <1>5, GetEntry DEF Get
  <2>2. DOMAIN tab \cap S = DOMAIN tab \cap (S \ {z})
    BY <1>5
  <2>3. f = h
    BY <2>2
  <2>4. Total(h) \in Int
    BY <1>3, TotalInt
  <2> HIDE DEF f, h
  <2> QED
    BY <1>2, <2>1, <2>3, <2>4
<1> QED
  BY <1>4, <1>5

\* A pile moves with the one entry that changes, if it is one of its own.
LEMMA PileMoves ==
    ASSUME NEW tab, Table(tab), NEW tab2, Table(tab2), NEW z, But(tab, tab2, z), NEW S, NEW q \in Quotas
    PROVE  Pile(tab2, S, q) =
               Pile(tab, S, q) + IF z \in S THEN Get(tab2, z).amount[q] - Get(tab, z).amount[q] ELSE 0
<1> DEFINE R == S \ {z}
           f == [k \in DOMAIN tab \cap R |-> tab[k].amount[q]]
           h == [k \in DOMAIN tab2 \cap R |-> tab2[k].amount[q]]
<1>1. DOMAIN tab2 \cap R = DOMAIN tab \cap R
  BY DEF But
<1>2. \A k \in DOMAIN tab \cap R : tab2[k] = tab[k]
  BY DEF But
<1>3. h = f
  BY <1>1, <1>2
<1>4. Pile(tab2, R, q) = Pile(tab, R, q)
  BY <1>3 DEF Pile
<1>5. Pile(tab, R, q) \in Nat /\ Get(tab, z).amount[q] \in Nat /\ Get(tab2, z).amount[q] \in Nat
  BY PileNat, GetEntry
<1>6. CASE z \in S
  <2>1. Pile(tab, S, q) = Get(tab, z).amount[q] + Pile(tab, R, q)
    BY <1>6, PileOut
  <2>2. Pile(tab2, S, q) = Get(tab2, z).amount[q] + Pile(tab2, R, q)
    BY <1>6, PileOut
  <2> HIDE DEF R
  <2> QED
    BY <1>4, <1>5, <1>6, <2>1, <2>2
<1>7. CASE z \notin S
  <2>1. R = S
    BY <1>7
  <2> HIDE DEF R
  <2> QED
    BY <1>4, <1>5, <1>7, <2>1
<1> QED
  BY <1>6, <1>7

\* The table U once expired locks of a pair have joined its unlocked entry:
\* no amount has moved between pairs, and what is still locked is as it was.
Joined(U, L, F) ==
    /\ Table(U) /\ DOMAIN U \subseteq Keys
    /\ \A k : (k # L /\ k # F) => (k \in DOMAIN U <=> k \in DOMAIN delegations)
    /\ \A k \in DOMAIN delegations : (k # L /\ k # F) => U[k] = delegations[k]
    /\ \A q \in Quotas :
          /\ Get(U, L).amount[q] = IF Get(delegations, L).expire[q] <= head THEN 0
                                   ELSE Get(delegations, L).amount[q]
          /\ Get(U, F).amount[q] = Get(delegations, F).amount[q]
                                   + (Get(delegations, L).amount[q] - Get(U, L).amount[q])
          /\ Get(U, L).amount[q] > 0 => Get(U, L).expire[q] = Get(delegations, L).expire[q]
    /\ L \in DOMAIN U => /\ L \in DOMAIN delegations
                         /\ \A q \in Quotas : U[L].expire[q] <= delegations[L].expire[q]
    /\ L \in DOMAIN delegations \/ F \in DOMAIN delegations <=> L \in DOMAIN U \/ F \in DOMAIN U
    /\ \A S, q : (q \in Quotas /\ (L \in S <=> F \in S)) => Pile(U, S, q) = Pile(delegations, S, q)

\* Joining expired locks to the unlocked entry of their pair moves no amount
\* between pairs, and leaves what is still locked as it was.
LEMMA UnlockedIs ==
    ASSUME Table(delegations), DOMAIN delegations \subseteq Keys, head \in Nat, NEW p \in Pairs,
           NEW U, U = Unlocked(p), NEW L, L = <<p[1], p[2], TRUE>>, NEW F, F = <<p[1], p[2], FALSE>>
    PROVE  Joined(U, L, F)
<1> SUFFICES /\ Table(U) /\ DOMAIN U \subseteq Keys
             /\ \A k : (k # L /\ k # F) => (k \in DOMAIN U <=> k \in DOMAIN delegations)
             /\ \A k \in DOMAIN delegations : (k # L /\ k # F) => U[k] = delegations[k]
             /\ \A q \in Quotas :
                   /\ Get(U, L).amount[q] = IF Get(delegations, L).expire[q] <= head THEN 0
                                            ELSE Get(delegations, L).amount[q]
                   /\ Get(U, F).amount[q] = Get(delegations, F).amount[q]
                                            + (Get(delegations, L).amount[q] - Get(U, L).amount[q])
                   /\ Get(U, L).amount[q] > 0 => Get(U, L).expire[q] = Get(delegations, L).expire[q]
             /\ L \in DOMAIN U => /\ L \in DOMAIN delegations
                                  /\ \A q \in Quotas : U[L].expire[q] <= delegations[L].expire[q]
             /\ L \in DOMAIN delegations \/ F \in DOMAIN delegations <=> L \in DOMAIN U \/ F \in DOMAIN U
             /\ \A S, q : (q \in Quotas /\ (L \in S <=> F \in S)) => Pile(U, S, q) = Pile(delegations, S, q)
  BY Zenon DEF Joined
<1> DEFINE d == delegations
           locked == Get(d, L)
           free == Get(d, F)
           moved == Expired(locked)
           rest == [amount |-> [q \in Quotas |-> locked.amount[q] - moved[q]],
                    expire |-> [q \in Quotas |-> IF moved[q] > 0 THEN 0 ELSE locked.expire[q]]]
           more == [free EXCEPT !.amount = [q \in Quotas |-> @[q] + moved[q]]]
           V == Put(d, L, rest)
           X == Put(V, F, more)
<1>1. L # F /\ L \in Keys /\ F \in Keys
  BY KeysFinite
<1>2. U = IF moved = Zero(Quotas) THEN d ELSE X
  BY DEF Unlocked
<1>3. /\ locked \in Entry /\ free \in Entry
      /\ \A q \in Quotas : /\ locked.amount[q] \in Nat /\ locked.expire[q] \in Nat /\ free.amount[q] \in Nat
  BY GetEntry
<1>4. /\ moved \in [Quotas -> Nat]
      /\ \A q \in Quotas : moved[q] = IF locked.expire[q] <= head THEN locked.amount[q] ELSE 0
  BY <1>3 DEF Expired
<1>5. L \notin DOMAIN d => \A q \in Quotas : locked.amount[q] = 0 /\ moved[q] = 0
  <2>1. L \notin DOMAIN d => locked = NoEntry
    BY DEF Get
  <2> HIDE DEF locked, moved
  <2> QED
    BY <1>4, <2>1, GetEntry
<1>6. L \in DOMAIN d => locked = d[L]
  BY DEF Get
<1> HIDE DEF locked, free, moved
<1>7. CASE moved = Zero(Quotas)
  <2>1. U = d
    BY <1>2, <1>7
  <2>2. \A q \in Quotas : moved[q] = 0
    BY <1>7 DEF Zero
  <2>3. \A q \in Quotas :
           /\ locked.amount[q] = IF locked.expire[q] <= head THEN 0 ELSE locked.amount[q]
           /\ free.amount[q] = free.amount[q] + (locked.amount[q] - locked.amount[q])
    BY <1>3, <1>4, <2>2
  <2>4. L \in DOMAIN d => \A q \in Quotas : d[L].expire[q] <= d[L].expire[q]
    <3>1. \A q \in Quotas : locked.expire[q] <= locked.expire[q]
      BY <1>3
    <3> QED
      BY <1>6, <3>1
  <2> QED
    BY <2>1, <2>3, <2>4 DEF locked, free
<1>8. CASE moved # Zero(Quotas)
  <2>1. U = X
    BY <1>2, <1>8
  <2>2. rest \in Entry /\ more \in Entry
    <3>1. \A q \in Quotas : locked.amount[q] - moved[q] \in Nat /\ free.amount[q] + moved[q] \in Nat
      BY <1>3, <1>4
    <3>2. free = [amount |-> free.amount, expire |-> free.expire] /\ free.expire \in [Quotas -> Nat]
      BY <1>3 DEF Entry
    <3>3. more = [amount |-> [q \in Quotas |-> free.amount[q] + moved[q]], expire |-> free.expire]
      BY <3>2
    <3> QED
      BY <1>3, <3>1, <3>2, <3>3 DEF Entry
  <2>3. /\ rest.amount = [q \in Quotas |-> locked.amount[q] - moved[q]]
        /\ rest.expire = [q \in Quotas |-> IF moved[q] > 0 THEN 0 ELSE locked.expire[q]]
        /\ more.amount = [q \in Quotas |-> free.amount[q] + moved[q]]
    BY <1>3 DEF Entry
  <2> HIDE DEF rest, more
  <2>4. /\ Table(V) /\ But(d, V, L)
        /\ DOMAIN V \subseteq DOMAIN d \cup {L}
        /\ L \in DOMAIN V <=> rest.amount # Zero(Quotas)
        /\ Get(V, L).amount = rest.amount
        /\ rest.amount # Zero(Quotas) => Get(V, L) = rest
    <3>1. Table(d) /\ rest \in Entry
      BY <2>2
    <3>2. Table(V) /\ But(d, V, L) /\ DOMAIN V \subseteq DOMAIN d \cup {L}
      BY <3>1, PutIs
    <3>3. L \in DOMAIN V <=> rest.amount # Zero(Quotas)
      BY <3>1, PutIs
    <3>4. Get(V, L).amount = rest.amount
      BY <3>1, PutIs
    <3>5. rest.amount # Zero(Quotas) => Get(V, L) = rest
      BY <3>1, PutIs
    <3> QED
      BY <3>2, <3>3, <3>4, <3>5
  <2> HIDE DEF V
  <2>5. /\ Table(X) /\ But(V, X, F)
        /\ DOMAIN X \subseteq DOMAIN V \cup {F}
        /\ F \in DOMAIN X <=> more.amount # Zero(Quotas)
        /\ Get(X, F).amount = more.amount
    <3>1. Table(V) /\ more \in Entry
      BY <2>2, <2>4
    <3>2. Table(X) /\ But(V, X, F) /\ DOMAIN X \subseteq DOMAIN V \cup {F}
      BY <3>1, PutIs
    <3>3. F \in DOMAIN X <=> more.amount # Zero(Quotas)
      BY <3>1, PutIs
    <3>4. Get(X, F).amount = more.amount
      BY <3>1, PutIs
    <3> QED
      BY <3>2, <3>3, <3>4
  <2> HIDE DEF X
  <2>6. L \in DOMAIN d
    <3>1. SUFFICES ASSUME L \notin DOMAIN d PROVE FALSE
      OBVIOUS
    <3>2. moved = Zero(Quotas)
      BY <1>4, <1>5, <3>1 DEF Zero
    <3> QED
      BY <1>8, <3>2
  <2>7. F \in DOMAIN X
    <3>1. PICK q \in Quotas : moved[q] # 0
      BY <1>4, <1>8 DEF Zero
    <3>2. more.amount[q] # 0
      BY <1>3, <1>4, <2>3, <3>1
    <3>3. Zero(Quotas)[q] = 0
      BY <3>1 DEF Zero
    <3> QED
      BY <2>5, <3>2, <3>3
  <2>8. Get(V, F) = free /\ Get(X, L) = Get(V, L)
    BY <1>1, <2>4, <2>5 DEF Get, But, free
  <2>9. DOMAIN X \subseteq Keys
    BY <1>1, <2>4, <2>5
  <2>10. /\ \A k : (k # L /\ k # F) => (k \in DOMAIN X <=> k \in DOMAIN d)
         /\ \A k \in DOMAIN d : (k # L /\ k # F) => X[k] = d[k]
    BY <2>4, <2>5 DEF But
  <2>11. ASSUME NEW q \in Quotas
         PROVE  /\ Get(X, L).amount[q] = IF locked.expire[q] <= head THEN 0 ELSE locked.amount[q]
                /\ Get(X, F).amount[q] = free.amount[q] + (locked.amount[q] - Get(X, L).amount[q])
                /\ Get(X, L).amount[q] > 0 => Get(X, L).expire[q] = locked.expire[q]
    <3>1. /\ Get(X, L).amount[q] = locked.amount[q] - moved[q]
          /\ Get(X, F).amount[q] = free.amount[q] + moved[q]
      BY <2>3, <2>4, <2>5, <2>8
    <3>2. /\ moved[q] = IF locked.expire[q] <= head THEN locked.amount[q] ELSE 0
          /\ locked.amount[q] \in Nat /\ free.amount[q] \in Nat /\ moved[q] \in Nat
      BY <1>3, <1>4
    <3>3. Get(X, L).amount[q] = IF locked.expire[q] <= head THEN 0 ELSE locked.amount[q]
      BY <3>1, <3>2
    <3>4. Get(X, F).amount[q] = free.amount[q] + (locked.amount[q] - Get(X, L).amount[q])
      BY <3>1, <3>2
    <3>5. ASSUME Get(X, L).amount[q] > 0 PROVE Get(X, L).expire[q] = locked.expire[q]
      <4>1. rest.amount[q] > 0 /\ Zero(Quotas)[q] = 0
        BY <2>4, <2>8, <3>5 DEF Zero
      <4>2. Get(X, L) = rest
        BY <2>4, <2>8, <4>1
      <4>3. moved[q] = 0
        BY <3>2, <3>3, <3>5
      <4> QED
        BY <2>3, <4>2, <4>3
    <3> QED
      BY <3>3, <3>4, <3>5
  <2>12. L \in DOMAIN X => \A q \in Quotas : X[L].expire[q] <= d[L].expire[q]
    <3>1. SUFFICES ASSUME L \in DOMAIN X, NEW q \in Quotas PROVE X[L].expire[q] <= d[L].expire[q]
      OBVIOUS
    <3>2. X[L] = Get(V, L) /\ L \in DOMAIN V
      BY <1>1, <2>5, <2>8, <3>1 DEF Get, But
    <3>3. X[L].expire[q] = IF moved[q] > 0 THEN 0 ELSE locked.expire[q]
      BY <2>3, <2>4, <3>2
    <3>4. locked.expire[q] \in Nat /\ locked = d[L]
      BY <1>3, <1>6, <2>6
    <3> QED
      BY <3>3, <3>4
  <2>13. ASSUME NEW S, NEW q \in Quotas, L \in S <=> F \in S PROVE Pile(X, S, q) = Pile(d, S, q)
    <3>1. Pile(V, S, q) = Pile(d, S, q) + IF L \in S THEN Get(V, L).amount[q] - locked.amount[q] ELSE 0
      BY <2>4, PileMoves DEF locked
    <3>2. Pile(X, S, q) = Pile(V, S, q) + IF F \in S THEN Get(X, F).amount[q] - Get(V, F).amount[q] ELSE 0
      BY <2>4, <2>5, PileMoves
    <3>3. /\ Get(X, F).amount[q] = free.amount[q] + (locked.amount[q] - Get(X, L).amount[q])
          /\ Get(V, F).amount[q] = free.amount[q] /\ Get(X, L).amount[q] = Get(V, L).amount[q]
      BY <2>8, <2>11
    <3>4. /\ Pile(d, S, q) \in Nat /\ Pile(V, S, q) \in Nat /\ Get(V, L).amount[q] \in Nat
          /\ locked.amount[q] \in Nat /\ free.amount[q] \in Nat
      BY <1>3, <2>4, PileNat, GetEntry
    <3> HIDE DEF d
    <3> QED
      BY <2>13, <3>1, <3>2, <3>3, <3>4
  <2>14. \A q \in Quotas :
            /\ Get(X, L).amount[q] = IF Get(d, L).expire[q] <= head THEN 0 ELSE Get(d, L).amount[q]
            /\ Get(X, F).amount[q] = Get(d, F).amount[q] + (Get(d, L).amount[q] - Get(X, L).amount[q])
            /\ Get(X, L).amount[q] > 0 => Get(X, L).expire[q] = Get(d, L).expire[q]
    BY <2>11 DEF locked, free
  <2>15. L \in DOMAIN d \/ F \in DOMAIN d <=> L \in DOMAIN X \/ F \in DOMAIN X
    BY <2>6, <2>7
  <2>16. \A S, q : (q \in Quotas /\ (L \in S <=> F \in S)) => Pile(X, S, q) = Pile(d, S, q)
    BY <2>13
  <2>17. L \in DOMAIN X => L \in DOMAIN d /\ \A q \in Quotas : X[L].expire[q] <= d[L].expire[q]
    BY <2>6, <2>12
  <2>18. Table(X)
    BY <2>5
  <2> QED
    BY <2>1, <2>9, <2>10, <2>14, <2>15, <2>16, <2>17, <2>18, Zenon
<1> QED
  BY <1>7, <1>8
(***************************************************************************)
(* The invariant.                                                          *)
(***************************************************************************)

Typed ==
    /\ params \in Params /\ lost \subseteq Deployable
    /\ kind \in [Accounts -> {"plain", "contract", "none"}]
    /\ balance \in [Owners -> Nat] /\ record \in [Accounts -> Rec]
    /\ Table(delegations) /\ DOMAIN delegations \subseteq Keys
    /\ Table(legacy) /\ DOMAIN legacy \subseteq Pairs
    /\ pairs \subseteq Pairs /\ legacyPairs \subseteq Pairs
    /\ weight \in [Stakes -> Int] /\ head \in 0..clock /\ clock \in 0..MaxTime /\ txs \in 0..MaxTxs

Purse(a) == IF a \in Owners THEN balance[a] ELSE 0

\* Every account has what it started with; those that cannot sign have no stake.
Backed == \A a \in Accounts : Solvent(a, record[a], Purse(a))

Weighed == (StakeV2 \/ lost = {}) => \A s \in Stakes : weight[s] = Weigh(record, s)

\* The keys of S with a in one place.
Of(S, i, a) == {k \in S : k[i] = a}

\* What the account b has been given, and what the table says.
Owed(b, given, due) ==
    /\ b \notin lost => given = due
    /\ kind[b] # "contract" => given <= due

BookV2 ==
    /\ \A a \in Owners, q \in Quotas : record[a].delegatedOut[q] = Pile(delegations, Of(Keys, 1, a), q)
    /\ \A b \in Accounts, q \in Quotas : Owed(b, record[b].acquired[q], Pile(delegations, Of(Keys, 2, b), q))
    /\ pairs = {<<k[1], k[2]>> : k \in DOMAIN delegations}

BookV1 ==
    /\ \A a \in Owners, q \in Quotas : record[a].delegatedLegacyOut[q] = Pile(legacy, Of(Pairs, 1, a), q)
    /\ \A b \in Accounts, q \in Quotas : Owed(b, record[b].acquiredLegacy[q], Pile(legacy, Of(Pairs, 2, b), q))
    /\ legacyPairs = DOMAIN legacy

\* An account that is not as it was is known, and one that is gone owns nothing.
Kinds ==
    \A a \in Accounts :
       /\ kind[a] # "plain" => a \in lost
       /\ kind[a] = "none" => \A q \in Quotas : record[a].acquired[q] = 0 /\ record[a].acquiredLegacy[q] = 0

\* A chain with Stake 2.0 never had Stake 1.0.
NoLegacy ==
    StakeV2 => /\ DOMAIN legacy = {}
               /\ \A a \in Accounts : /\ \A q \in Quotas : record[a].acquiredLegacy[q] = 0
                                      /\ \A s \in Stakes : record[a].frozenLegacy[s].amount = 0

\* Locks of the default period end within it.
Locks ==
    ~LongLocks => \A k \in DOMAIN delegations, q \in Quotas :
                     k[3] => delegations[k].expire[q] <= head + DefaultLock

IInv == Typed /\ Backed /\ Weighed /\ BookV2 /\ BookV1 /\ Kinds /\ NoLegacy /\ Locks

\* What Typed says of one account and of time.
LEMMA Types ==
    ASSUME Typed
    PROVE  /\ \A a \in Accounts : record[a] \in Rec
           /\ \A a \in Owners : balance[a] \in Nat /\ a \in Accounts
           /\ \A s \in Stakes : weight[s] \in Int
           /\ head \in Nat /\ clock \in Nat /\ head <= clock
           /\ params.unfreezeDelay \in Nat /\ params.maxLock \in Nat
           /\ IsFiniteSet(DOMAIN delegations) /\ IsFiniteSet(DOMAIN legacy)
<1>1. params.unfreezeDelay \in Nat /\ params.maxLock \in Nat
  BY ResourcesAssumption DEF Typed
<1>2. head \in Nat /\ clock \in Nat /\ head <= clock
  BY ResourcesAssumption DEF Typed
<1>3. \A a \in Accounts : record[a] \in Rec
  BY DEF Typed
<1>4. \A a \in Owners : balance[a] \in Nat /\ a \in Accounts
  BY DEF Typed, Accounts
<1>5. \A s \in Stakes : weight[s] \in Int
  BY DEF Typed
<1> QED
  BY <1>1, <1>2, <1>3, <1>4, <1>5 DEF Typed, Table

\* The piles are the sums that the model's properties name.
LEMMA PilesAre ==
    ASSUME NEW tab, NEW S, DOMAIN tab \subseteq S, NEW i, NEW a, NEW q
    PROVE  Pile(tab, Of(S, i, a), q) = Total([k \in {k \in DOMAIN tab : k[i] = a} |-> tab[k].amount[q]])
<1>1. DOMAIN tab \cap Of(S, i, a) = {k \in DOMAIN tab : k[i] = a}
  BY DEF Of
<1> QED
  BY <1>1 DEF Pile

\* The invariant says what the ledgers say.
LEMMA InvSound ==
    ASSUME IInv
    PROVE  BooksSound
<1>1. TypeOK
  <2>1. \A a \in Accounts :
          LET r == record[a]
          IN /\ r.frozenV2 \in [Stakes -> Nat]
             /\ {r.delegatedOut, r.acquired, r.delegatedLegacyOut, r.acquiredLegacy}
                    \subseteq [Quotas -> Nat]
             /\ r.unfrozenV2 \in Seq([type : Stakes, amount : Nat \ {0}, expire : Nat])
             /\ r.frozenLegacy \in [Stakes -> [amount : Nat, expire : Nat]]
             /\ r.oldTronPower \in Nat \cup {-1}
             /\ r.usage \in [Quotas -> [used : Nat, last : Nat]]
    <3> SUFFICES ASSUME NEW a \in Accounts, NEW r, r = record[a]
                 PROVE  /\ r.frozenV2 \in [Stakes -> Nat]
                        /\ {r.delegatedOut, r.acquired, r.delegatedLegacyOut, r.acquiredLegacy}
                               \subseteq [Quotas -> Nat]
                        /\ r.unfrozenV2 \in Seq([type : Stakes, amount : Nat \ {0}, expire : Nat])
                        /\ r.frozenLegacy \in [Stakes -> [amount : Nat, expire : Nat]]
                        /\ r.oldTronPower \in Nat \cup {-1}
                        /\ r.usage \in [Quotas -> [used : Nat, last : Nat]]
      BY Zenon
    <3>1. r \in Rec
      BY DEF IInv, Typed
    <3>2. r.unfrozenV2 \in Seq([type : Stakes, amount : Nat \ {0}, expire : Nat])
      BY <3>1 DEF Rec, Pending
    <3> QED
      BY <3>1, <3>2 DEF Rec
  <2>2. /\ \A k \in DOMAIN delegations : delegations[k] \in Entry
        /\ \A p \in DOMAIN legacy : legacy[p] \in Entry
    BY DEF IInv, Typed, Table
  <2> QED
    BY <2>1, <2>2 DEF IInv, Typed, TypeOK
<1>2. \A a \in Owners : /\ record[a] \in Rec /\ Solvent(a, record[a], balance[a])
                        /\ StakeOf(a) = Staked(record[a]) /\ a \in Accounts
  <2>1. \A a \in Owners : a \in Accounts /\ Purse(a) = balance[a]
    BY DEF Accounts, Purse
  <2>2. \A a \in Owners : StakeOf(a) = Staked(record[a])
    BY DEF StakeOf, Staked
  <2> QED
    BY <2>1, <2>2, Types DEF IInv, Backed
<1>3. SunConserved
  BY <1>2 DEF Solvent, SunConserved
<1>4. PendingBounded
  BY <1>2 DEF Solvent, PendingBounded
<1>5. PowerBacked
  <2> SUFFICES ASSUME NEW a \in Owners PROVE TronPower(a) <= StakeOf(a)
    BY DEF PowerBacked
  <2> DEFINE r == record[a]
             z == "TRON_POWER"
             carried == CASE r.oldTronPower = -1 -> 0
                          [] r.oldTronPower = 0 -> QuotaTronPower(r)
                          [] OTHER -> r.oldTronPower
             quota == QuotaTronPower(r)
             own == r.frozenV2[z] + r.frozenLegacy[z].amount
  <2>1. r \in Rec /\ Carry(r) /\ StakeOf(a) = quota + r.frozenV2[z] + r.frozenLegacy[z].amount
    BY <1>2 DEF Solvent, Staked
  <2>2. TronPower(a) = own + carried
    BY DEF TronPower
  <2>3. quota \in Nat /\ r.oldTronPower \in Nat \cup {-1} /\ r.frozenV2[z] \in Nat /\ r.frozenLegacy[z].amount \in Nat
    <3>1. z \in Stakes
      BY Finite
    <3> HIDE DEF r, z
    <3> QED
      BY <2>1, <3>1, StakedIs DEF Rec
  <2>4. r.oldTronPower > 0 => r.oldTronPower <= quota
    BY <2>1 DEF Carry
  <2> HIDE DEF r, z, quota
  <2>5. carried \in Nat /\ carried <= quota
    BY <2>3, <2>4 DEF quota
  <2> HIDE DEF carried
  <2> QED
    BY <2>1, <2>2, <2>3, <2>5
<1>6. WeightsExact
  <2> SUFFICES ASSUME StakeV2 \/ lost = {}, NEW s \in Stakes
               PROVE  weight[s] = Total([a \in Accounts |->
                          Floor(WeightWithDelegated(record[a], s)) + Floor(record[a].frozenLegacy[s].amount)
                              + IF s \in Quotas THEN Floor(record[a].acquiredLegacy[s]) ELSE 0])
    BY DEF WeightsExact
  <2>1. weight[s] = Weigh(record, s)
    BY DEF IInv, Weighed
  <2> QED
    BY <2>1 DEF Weigh, Weighs
<1>7. BooksAgree
  <2>1. DOMAIN delegations \subseteq Keys /\ DOMAIN legacy \subseteq Pairs
    BY DEF IInv, Typed
  <2>2. \A a, q : /\ From(a, q) = Pile(delegations, Of(Keys, 1, a), q)
                  /\ To(a, q) = Pile(delegations, Of(Keys, 2, a), q)
    BY <2>1, PilesAre DEF From, To
  <2>3. \A a, q : /\ LegacyFrom(a, q) = Pile(legacy, Of(Pairs, 1, a), q)
                  /\ LegacyTo(a, q) = Pile(legacy, Of(Pairs, 2, a), q)
    BY <2>1, PilesAre DEF LegacyFrom, LegacyTo
  <2>4. lost \subseteq Accounts
    BY Finite DEF IInv, Typed
  <2> QED
    BY <2>2, <2>3, <2>4 DEF IInv, BookV2, BookV1, Owed, BooksAgree
<1> QED
  BY <1>1, <1>3, <1>4, <1>5, <1>6, <1>7 DEF BooksSound
\* A blank record has nothing, weighs nothing and owes nothing.
LEMMA BlankIs ==
    /\ Blank \in Rec /\ Carry(Blank) /\ Idle(Blank) /\ Staked(Blank) = 0
    /\ Blank.unfrozenV2 = << >> /\ Sum(Blank.unfrozenV2) = 0
    /\ \A q \in Quotas : /\ Blank.acquired[q] = 0 /\ Blank.acquiredLegacy[q] = 0
                         /\ Blank.delegatedOut[q] = 0 /\ Blank.delegatedLegacyOut[q] = 0
    /\ \A s \in Stakes : Blank.frozenV2[s] = 0 /\ Blank.frozenLegacy[s].amount = 0 /\ Weighs(Blank, s) = 0
<1>1. Blank \in Rec
  <2>1. Blank.unfrozenV2 = << >> /\ << >> \in Seq(Pending)
    BY DEF Blank
  <2>2. /\ Zero(Stakes) \in [Stakes -> Nat] /\ Zero(Quotas) \in [Quotas -> Nat]
        /\ Held \in [amount : Nat, expire : Nat] /\ Ledger \in [used : Nat, last : Nat]
    BY DEF Zero, Held, Ledger
  <2> QED
    BY <2>1, <2>2 DEF Blank, Rec
<1>2. /\ \A q \in Quotas : /\ Blank.acquired[q] = 0 /\ Blank.acquiredLegacy[q] = 0
                           /\ Blank.delegatedOut[q] = 0 /\ Blank.delegatedLegacyOut[q] = 0
      /\ \A s \in Stakes : Blank.frozenV2[s] = 0 /\ Blank.frozenLegacy[s].amount = 0
      /\ Blank.oldTronPower = 0 /\ Blank.unfrozenV2 = << >>
  BY DEF Blank, Zero, Held
<1>3. Idle(Blank) /\ Carry(Blank)
  BY <1>2 DEF Idle, Carry
<1>4. Sum(Blank.unfrozenV2) = 0
  <2>1. Amounted(Pending) /\ << >> \in Seq(Pending)
    BY DEF Amounted, Pending
  <2> QED
    BY <1>2, <2>1, SumNat
<1>5. Staked(Blank) = 0
  <2> DEFINE f == [s \in Stakes |-> Own(Blank, s)]
  <2>1. \A s \in Stakes : f[s] = 0
    BY <1>2 DEF Own
  <2>2. Staked(Blank) = Total(f) /\ LedgerOf(f)
    BY <1>1, StakedIs
  <2>3. DOMAIN f = Stakes
    OBVIOUS
  <2> HIDE DEF f
  <2> QED
    BY <2>1, <2>2, <2>3, TotalZero
<1>6. ASSUME NEW s \in Stakes PROVE Weighs(Blank, s) = 0
  <2>1. Floor(0) = 0
    BY Floors
  <2>2. WeightWithDelegated(Blank, s) = 0
    BY <1>2 DEF WeightWithDelegated
  <2>3. s \in Quotas => Floor(Blank.acquiredLegacy[s]) = 0
    BY <1>2, <2>1
  <2> QED
    BY <1>2, <2>1, <2>2, <2>3 DEF Weighs
<1> QED
  BY <1>1, <1>2, <1>3, <1>4, <1>5, <1>6

\* An empty table is no pile.
LEMMA EmptyPile ==
    ASSUME NEW tab, DOMAIN tab = {}, NEW S, NEW q \in Quotas
    PROVE  Table(tab) /\ Pile(tab, S, q) = 0
<1> DEFINE f == [k \in DOMAIN tab \cap S |-> tab[k].amount[q]]
<1>1. Table(tab)
  BY FS_EmptySet DEF Table
<1>2. DOMAIN f = {} /\ LedgerOf(f)
  BY <1>1, PileNat
<1> HIDE DEF f
<1>3. Total(f) = 0
  BY <1>2, TotalInt
<1> QED
  BY <1>1, <1>3 DEF Pile, f

\* The invariant holds at first.
LEMMA InitInv ==
    ASSUME Init
    PROVE  IInv
<1>1. \A a \in Accounts : record[a] = Blank /\ kind[a] = "plain"
  BY DEF Init
<1>2. DOMAIN delegations = {} /\ DOMAIN legacy = {}
  BY DEF Init
<1>3. Table(delegations) /\ Table(legacy)
  BY <1>2, FS_EmptySet DEF Table
<1>4. Typed
  <2>1. record \in [Accounts -> Rec]
    BY <1>1, BlankIs DEF Init
  <2>2. balance \in [Owners -> Nat] /\ weight \in [Stakes -> Int]
    BY ResourcesAssumption DEF Init, Zero
  <2>3. head \in 0..clock /\ clock \in 0..MaxTime /\ txs \in 0..MaxTxs
    BY ResourcesAssumption DEF Init
  <2> QED
    BY <1>2, <1>3, <2>1, <2>2, <2>3 DEF Init, Typed
<1>5. Backed
  <2> SUFFICES ASSUME NEW a \in Accounts PROVE Solvent(a, Blank, Purse(a))
    BY <1>1 DEF Backed
  <2>1. a \in Owners => Purse(a) = Funds
    BY DEF Init, Purse
  <2>2. Funds \in Nat /\ 0 <= MaxPending /\ Len(<< >>) = 0
    BY ResourcesAssumption
  <2> QED
    BY <2>1, <2>2, BlankIs DEF Solvent
<1>6. Weighed
  <2> SUFFICES ASSUME NEW s \in Stakes PROVE weight[s] = Weigh(record, s)
    BY DEF Weighed
  <2> DEFINE f == [a \in Accounts |-> Weighs(record[a], s)]
  <2>1. DOMAIN f = Accounts /\ \A a \in Accounts : f[a] = 0
    BY <1>1, BlankIs
  <2> HIDE DEF f
  <2>2. LedgerOf(f)
    BY <2>1, Finite, LedgerOver
  <2>3. Total(f) = 0
    BY <2>1, <2>2, TotalZero
  <2> QED
    BY <2>3 DEF Weigh, f, Init, Zero
<1>7. BookV2 /\ BookV1
  <2>1. \A S, q : q \in Quotas => Pile(delegations, S, q) = 0 /\ Pile(legacy, S, q) = 0
    BY <1>2, EmptyPile
  <2>2. \A a \in Owners : a \in Accounts
    BY Finite
  <2>3. pairs = {<<k[1], k[2]>> : k \in DOMAIN delegations} /\ legacyPairs = DOMAIN legacy
    BY <1>2 DEF Init
  <2> QED
    BY <1>1, <2>1, <2>2, <2>3, BlankIs DEF BookV2, BookV1, Owed
<1>8. Kinds /\ NoLegacy /\ Locks
  BY <1>1, <1>2, BlankIs DEF Kinds, NoLegacy, Locks
<1> QED
  BY <1>4, <1>5, <1>6, <1>7, <1>8 DEF IInv

\* What is to be shown of a record that takes the place of the account's own
\* in a step that leaves the books alone.
Keeps(r, r2) ==
    /\ r2.delegatedOut = r.delegatedOut /\ r2.acquired = r.acquired
    /\ r2.delegatedLegacyOut = r.delegatedLegacyOut /\ r2.acquiredLegacy = r.acquiredLegacy

\* Books that no step touches still agree.
LEMMA BooksKept ==
    ASSUME BookV2, BookV1, \A b \in Accounts : Keeps(record[b], record'[b]), UNCHANGED <<addresses, books>>
    PROVE  BookV2' /\ BookV1'
<1> USE DEF addresses, books
<1>1. \A b \in Owners : b \in Accounts
  BY Finite
<1>2. ASSUME NEW a \in Owners, NEW q \in Quotas
      PROVE  /\ record'[a].delegatedOut[q] = Pile(delegations', Of(Keys, 1, a), q)
             /\ record'[a].delegatedLegacyOut[q] = Pile(legacy', Of(Pairs, 1, a), q)
  BY <1>1 DEF BookV2, BookV1, Keeps
<1>3. ASSUME NEW b \in Accounts, NEW q \in Quotas
      PROVE  /\ Owed(b, record[b].acquired[q], Pile(delegations, Of(Keys, 2, b), q))'
             /\ Owed(b, record[b].acquiredLegacy[q], Pile(legacy, Of(Pairs, 2, b), q))'
  BY DEF BookV2, BookV1, Keeps, Owed
<1> QED
  BY <1>2, <1>3 DEF BookV2, BookV1

\* A step that changes one owner's stake and the weights with it.
LEMMA StakeStep ==
    ASSUME IInv, NEW a \in Owners, NEW r2 \in Rec, NEW x2 \in Nat,
           record' = [record EXCEPT ![a] = r2], balance' = [balance EXCEPT ![a] = x2],
           Keeps(record[a], r2), Solvent(a, r2, x2),
           StakeV2 => \A s \in Stakes : r2.frozenLegacy[s].amount = record[a].frozenLegacy[s].amount,
           DOMAIN weight' = Stakes, weight' = [s \in Stakes |-> weight'[s]],
           \A s \in Stakes : weight'[s] = weight[s] - Weighs(record[a], s) + Weighs(r2, s),
           UNCHANGED <<params, addresses, books, time>>, txs' \in 0..MaxTxs
    PROVE  IInv'
<1> USE DEF addresses, books, time
<1>1. a \in Accounts /\ record[a] \in Rec
  BY Types, Finite DEF IInv
<1>2. record' \in [Accounts -> Rec] /\ record'[a] = r2 /\ \A b \in Accounts \ {a} : record'[b] = record[b]
  BY <1>1 DEF IInv, Typed
<1>3. balance' \in [Owners -> Nat] /\ balance'[a] = x2 /\ \A b \in Owners \ {a} : balance'[b] = balance[b]
  BY DEF IInv, Typed
<1>4. \A s \in Stakes : weight[s] \in Int /\ Weighs(record[a], s) \in Int /\ Weighs(r2, s) \in Int
  BY <1>1, Types, WeighsInt DEF IInv
<1>5. Typed'
  <2>1. weight' \in [Stakes -> Int]
    BY <1>4
  <2>2. Table(delegations)' /\ Table(legacy)'
    BY DEF IInv, Typed, Table
  <2> QED
    BY <1>2, <1>3, <2>1, <2>2 DEF IInv, Typed
<1>6. Backed'
  <2> SUFFICES ASSUME NEW b \in Accounts PROVE Solvent(b, record[b], Purse(b))'
    BY DEF Backed
  <2>1. CASE b = a
    <3>1. record'[b] = r2 /\ Purse(b)' = x2
      BY <1>2, <1>3, <2>1 DEF Purse
    <3> QED
      BY <2>1, <3>1 DEF Solvent, Carry, Idle
  <2>2. CASE b # a
    <3>1. record'[b] = record[b] /\ Purse(b)' = Purse(b)
      BY <1>2, <1>3, <2>2 DEF Purse
    <3>2. Solvent(b, record[b], Purse(b))
      BY DEF IInv, Backed
    <3> QED
      BY <3>1, <3>2 DEF Solvent, Carry, Idle
  <2> QED
    BY <2>1, <2>2
<1>7. Weighed'
  <2> SUFFICES ASSUME (StakeV2 \/ lost = {})', NEW s \in Stakes PROVE weight'[s] = Weigh(record', s)
    BY DEF Weighed, Weigh
  <2>1. weight[s] = Weigh(record, s)
    BY DEF IInv, Weighed, StakeV2
  <2>2. record \in [Accounts -> Rec] /\ \A b \in Accounts \ {a} : Weighs(record'[b], s) = Weighs(record[b], s)
    BY <1>2 DEF IInv, Typed
  <2> DEFINE R == record
             R2 == record'
  <2>4. R \in [Accounts -> Rec] /\ R2 \in [Accounts -> Rec]
        /\ \A b \in Accounts \ {a} : Weighs(R2[b], s) = Weighs(R[b], s)
    BY <1>2, <2>2
  <2> HIDE DEF R, R2
  <2>5. Weigh(R2, s) = Weigh(R, s) - Weighs(R[a], s) + Weighs(R2[a], s)
    BY <1>1, <2>4, WeighMoves
  <2>3. Weigh(record', s) = Weigh(record, s) - Weighs(record[a], s) + Weighs(record'[a], s)
    BY <2>5 DEF R, R2
  <2> QED
    BY <1>2, <1>4, <2>1, <2>3
<1>8. \A b \in Accounts : Keeps(record[b], record'[b])
  BY <1>1, <1>2 DEF Keeps
<1>9. BookV2' /\ BookV1'
  BY <1>8, BooksKept DEF IInv
<1>10. Kinds'
  BY <1>8 DEF IInv, Kinds, Keeps
<1>11. NoLegacy'
  BY <1>1, <1>2, <1>8 DEF IInv, NoLegacy, StakeV2, Keeps
<1>12. Locks'
  BY DEF IInv, Locks, LongLocks, StakeV2
<1> QED
  BY <1>5, <1>6, <1>7, <1>9, <1>10, <1>11, <1>12 DEF IInv
(***************************************************************************)
(* Stake of an owner.                                                      *)
(***************************************************************************)

\* Alike records weigh the same.
LEMMA AlikeWeighs ==
    ASSUME NEW r, NEW r2, Alike(r, r2)
    PROVE  /\ \A s : Weighs(r2, s) = Weighs(r, s) /\ WeightWithDelegated(r2, s) = WeightWithDelegated(r, s)
           /\ Keeps(r, r2)
BY DEF Alike, Weighs, WeightWithDelegated, Keeps

\* The weight of one resource is shifted by what the record's weight is.
LEMMA Shifted ==
    ASSUME Typed, NEW s \in Stakes, NEW before, NEW after, ShiftWeight(s, before, after),
           NEW r, NEW r2, \A t \in Stakes \ {s} : Weighs(r2, t) = Weighs(r, t) /\ Weighs(r, t) \in Int,
           Weighs(r, s) \in Int, Floor(before) \in Int, Floor(after) \in Int,
           Weighs(r2, s) = Weighs(r, s) + Floor(after) - Floor(before)
    PROVE  /\ DOMAIN weight' = Stakes /\ weight' = [t \in Stakes |-> weight'[t]]
           /\ \A t \in Stakes : weight'[t] = weight[t] - Weighs(r, t) + Weighs(r2, t)
<1>1. weight \in [Stakes -> Int] /\ weight' = [weight EXCEPT ![s] = @ + Floor(after) - Floor(before)]
  BY DEF Typed, ShiftWeight
<1>2. /\ DOMAIN weight' = Stakes /\ weight' = [t \in Stakes |-> weight'[t]]
      /\ weight'[s] = weight[s] + Floor(after) - Floor(before)
      /\ \A t \in Stakes \ {s} : weight'[t] = weight[t]
  BY <1>1
<1>3. weight'[s] = weight[s] - Weighs(r, s) + Weighs(r2, s)
  <2> DEFINE k == weight[s]
             k2 == weight'[s]
             w == Weighs(r, s)
             w2 == Weighs(r2, s)
             f == Floor(after)
             g == Floor(before)
  <2>1. k \in Int /\ w \in Int /\ f \in Int /\ g \in Int
    BY <1>1
  <2>2. k2 = k + f - g /\ w2 = w + f - g
    BY <1>2
  <2> HIDE DEF k, k2, w, w2, f, g
  <2>3. k2 = k - w + w2
    BY <2>1, <2>2
  <2> QED
    BY <2>3 DEF k, k2, w, w2
<1>4. ASSUME NEW t \in Stakes \ {s} PROVE weight'[t] = weight[t] - Weighs(r, t) + Weighs(r2, t)
  <2>1. weight[t] \in Int /\ Weighs(r, t) \in Int /\ weight'[t] = weight[t] /\ Weighs(r2, t) = Weighs(r, t)
    BY <1>1, <1>2
  <2> QED
    BY <2>1
<1> QED
  BY <1>2, <1>3, <1>4

\* The record once what has matured was claimed.
LEMMA ClaimedIs ==
    ASSUME NEW r \in Rec, Carry(r), head \in Nat
    PROVE  /\ Claimed(r) \in Rec /\ Alike(r, Claimed(r)) /\ Carry(Claimed(r))
           /\ Claimed(r).unfrozenV2 = Open(r) /\ Open(r) \in Seq(Pending) /\ Claimed(r).usage = r.usage
           /\ Len(Open(r)) \in Nat /\ Len(Open(r)) <= Len(r.unfrozenV2)
           /\ Sum(Matured(r)) \in Nat /\ Sum(Open(r)) \in Nat
           /\ Sum(Matured(r)) + Sum(Open(r)) = Sum(r.unfrozenV2)
<1> DEFINE s == r.unfrozenV2
           A == {e \in Range(s) : e.expire <= head}
           B == {e \in Range(s) : e.expire > head}
<1>1. Amounted(Pending) /\ s \in Seq(Pending)
  BY PendingSum
<1>2. Open(r) = Within(s, B) /\ Matured(r) = Within(s, A)
  BY DEF Open, Matured
<1>3. \A i \in DOMAIN s : s[i] \in A <=> s[i] \notin B
  <2>1. \A i \in DOMAIN s : s[i] \in Range(s) /\ s[i] \in Pending
    BY <1>1 DEF Range
  <2>2. \A e \in Pending : e.expire \in Nat
    BY DEF Pending
  <2> QED
    BY <2>1, <2>2
<1> HIDE DEF s, A, B
<1>4. Sum(Within(s, A)) + Sum(Within(s, B)) = Sum(s)
  BY <1>1, <1>3, WithinSplits
<1>5. /\ Within(s, B) \in Seq(Pending) /\ Within(s, A) \in Seq(Pending)
      /\ Len(Within(s, B)) <= Len(s)
  BY <1>1, WithinKeeps
<1>6. /\ Sum(Within(s, A)) \in Nat /\ Sum(Within(s, B)) \in Nat /\ Len(Within(s, B)) \in Nat
  <2>1. Sum(Within(s, A)) \in Nat
    BY <1>1, <1>5, SumNat
  <2>2. Sum(Within(s, B)) \in Nat
    BY <1>1, <1>5, SumNat
  <2>3. Len(Within(s, B)) \in Nat
    BY <1>5
  <2> QED
    BY <2>1, <2>2, <2>3
<1>7. /\ Claimed(r) = [r EXCEPT !.unfrozenV2 = Open(r)] /\ Open(r) \in Seq(Pending)
  BY <1>2, <1>5 DEF Claimed
<1>8. /\ Claimed(r) \in Rec /\ Claimed(r).unfrozenV2 = Open(r) /\ Claimed(r).usage = r.usage
      /\ Alike(r, Claimed(r)) /\ Claimed(r).oldTronPower = r.oldTronPower
  BY <1>7 DEF Rec, Alike
<1>9. Carry(Claimed(r))
  BY <1>8, AlikeStaked DEF Carry
<1> QED
  BY <1>2, <1>4, <1>5, <1>6, <1>7, <1>8, <1>9 DEF s

\* Before any step: what an owner's record is.
LEMMA OwnerIs ==
    ASSUME IInv, NEW a \in Owners
    PROVE  /\ a \in Accounts /\ record[a] \in Rec /\ balance[a] \in Nat /\ head \in Nat
           /\ Carry(record[a]) /\ Solvent(a, record[a], balance[a])
           /\ Len(record[a].unfrozenV2) <= MaxPending
<1>1. a \in Accounts /\ record[a] \in Rec /\ balance[a] \in Nat /\ head \in Nat
  BY Types DEF IInv
<1>2. Purse(a) = balance[a]
  BY DEF Purse
<1>3. Solvent(a, record[a], balance[a])
  BY <1>1, <1>2 DEF IInv, Backed
<1> QED
  BY <1>1, <1>3 DEF Solvent

\* What a record has given counts the same in both.
LEMMA OwnParts ==
    ASSUME NEW r \in Rec, NEW r2 \in Rec, NEW s \in Stakes, Keeps(r, r2),
           NEW x \in Nat, NEW x2 \in Nat, NEW y \in Nat, NEW y2 \in Nat,
           x2 + (r2.frozenV2[s] + r2.frozenLegacy[s].amount) + y2 =
               x + (r.frozenV2[s] + r.frozenLegacy[s].amount) + y
    PROVE  x2 + Own(r2, s) + y2 = x + Own(r, s) + y
<1>1. /\ r.frozenV2[s] \in Nat /\ r2.frozenV2[s] \in Nat
      /\ r.frozenLegacy[s].amount \in Nat /\ r2.frozenLegacy[s].amount \in Nat
      /\ s \in Quotas => r.delegatedOut[s] \in Nat /\ r.delegatedLegacyOut[s] \in Nat
  BY DEF Rec
<1> DEFINE d == IF s \in Quotas THEN r.delegatedOut[s] + r.delegatedLegacyOut[s] ELSE 0
<1>2. d \in Nat
  BY <1>1
<1>3. Own(r, s) = r.frozenV2[s] + r.frozenLegacy[s].amount + d
  BY DEF Own
<1>4. Own(r2, s) = r2.frozenV2[s] + r2.frozenLegacy[s].amount + d
  BY DEF Own, Keeps
<1> DEFINE f == r.frozenV2[s]
           f2 == r2.frozenV2[s]
           l == r.frozenLegacy[s].amount
           l2 == r2.frozenLegacy[s].amount
           o == Own(r, s)
           o2 == Own(r2, s)
<1>5. f \in Nat /\ f2 \in Nat /\ l \in Nat /\ l2 \in Nat
  BY <1>1
<1>6. o = f + l + d
  BY <1>3
<1>7. o2 = f2 + l2 + d
  BY <1>4
<1>8. x2 + (f2 + l2) + y2 = x + (f + l) + y
  OBVIOUS
<1> HIDE DEF d, f, f2, l, l2, o, o2
<1>9. x2 + o2 + y2 = x + o + y
  BY <1>2, <1>5, <1>6, <1>7, <1>8
<1> QED
  BY <1>9 DEF o, o2

\* What a record has been given weighs the same in both.
LEMMA WeighsParts ==
    ASSUME NEW r \in Rec, NEW r2 \in Rec, NEW s \in Stakes, Keeps(r, r2), NEW f \in Int, NEW g \in Int,
           Floor(WeightWithDelegated(r2, s)) + Floor(r2.frozenLegacy[s].amount) =
               Floor(WeightWithDelegated(r, s)) + Floor(r.frozenLegacy[s].amount) + g - f
    PROVE  Weighs(r2, s) = Weighs(r, s) + g - f
<1> DEFINE w == Floor(WeightWithDelegated(r, s))
           w2 == Floor(WeightWithDelegated(r2, s))
           l == Floor(r.frozenLegacy[s].amount)
           l2 == Floor(r2.frozenLegacy[s].amount)
           c == IF s \in Quotas THEN Floor(r.acquiredLegacy[s]) ELSE 0
<1>1. w \in Int /\ w2 \in Int /\ l \in Int /\ l2 \in Int
  <2>1. /\ WeightWithDelegated(r, s) \in Int /\ WeightWithDelegated(r2, s) \in Int
        /\ r.frozenLegacy[s].amount \in Int /\ r2.frozenLegacy[s].amount \in Int
    BY WeighsInt
  <2> QED
    BY <2>1, Floors
<1>2. c \in Int
  <2>1. s \in Quotas => r.acquiredLegacy[s] \in Int
    BY DEF Rec
  <2>2. s \in Quotas => Floor(r.acquiredLegacy[s]) \in Int
    BY <2>1, Floors
  <2> QED
    BY <2>2
<1>3. Weighs(r, s) = w + l + c
  BY DEF Weighs
<1>4. Weighs(r2, s) = w2 + l2 + c
  BY DEF Weighs, Keeps
<1> HIDE DEF w, w2, l, l2, c
<1>5. w2 + l2 = w + l + g - f
  BY DEF w, w2, l, l2
<1> QED
  BY <1>1, <1>2, <1>3, <1>4, <1>5

\* A step that moves an owner's sun between its balance, its own stake in one
\* resource and what is pending.
LEMMA OwnStep ==
    ASSUME IInv, NEW a \in Owners, NEW r2 \in Rec, NEW x2 \in Nat, NEW s \in Stakes,
           record' = [record EXCEPT ![a] = r2], balance' = [balance EXCEPT ![a] = x2],
           Keeps(record[a], r2), Carry(r2), Len(r2.unfrozenV2) <= MaxPending,
           \A t \in Stakes \ {s} : /\ r2.frozenV2[t] = record[a].frozenV2[t]
                                   /\ r2.frozenLegacy[t].amount = record[a].frozenLegacy[t].amount,
           x2 + (r2.frozenV2[s] + r2.frozenLegacy[s].amount) + Sum(r2.unfrozenV2) =
               balance[a] + (record[a].frozenV2[s] + record[a].frozenLegacy[s].amount)
                   + Sum(record[a].unfrozenV2),
           StakeV2 => r2.frozenLegacy[s].amount = record[a].frozenLegacy[s].amount,
           NEW before \in Nat, NEW after \in Nat, ShiftWeight(s, before, after),
           Floor(WeightWithDelegated(r2, s)) + Floor(r2.frozenLegacy[s].amount) =
               Floor(WeightWithDelegated(record[a], s)) + Floor(record[a].frozenLegacy[s].amount)
                   + Floor(after) - Floor(before),
           UNCHANGED <<params, addresses, books, time>>, txs' \in 0..MaxTxs
    PROVE  IInv'
<1> DEFINE r == record[a]
<1>1. r \in Rec /\ a \in Accounts /\ balance[a] \in Nat /\ Solvent(a, r, balance[a])
  BY OwnerIs
<1>2. /\ Keeps(r, r2)
      /\ \A t \in Stakes \ {s} : r2.frozenV2[t] = r.frozenV2[t] /\ r2.frozenLegacy[t].amount = r.frozenLegacy[t].amount
      /\ x2 + (r2.frozenV2[s] + r2.frozenLegacy[s].amount) + Sum(r2.unfrozenV2) =
             balance[a] + (r.frozenV2[s] + r.frozenLegacy[s].amount) + Sum(r.unfrozenV2)
      /\ Floor(WeightWithDelegated(r2, s)) + Floor(r2.frozenLegacy[s].amount) =
             Floor(WeightWithDelegated(r, s)) + Floor(r.frozenLegacy[s].amount) + Floor(after) - Floor(before)
      /\ StakeV2 => r2.frozenLegacy[s].amount = r.frozenLegacy[s].amount
  OBVIOUS
<1> HIDE DEF r
<1>3. \A t \in Stakes \ {s} : Own(r2, t) = Own(r, t) /\ Weighs(r2, t) = Weighs(r, t)
  BY <1>2 DEF Own, Weighs, WeightWithDelegated, Keeps
<1>4. /\ Sum(r.unfrozenV2) \in Nat /\ Sum(r2.unfrozenV2) \in Nat
      /\ r.frozenV2[s] \in Nat /\ r2.frozenV2[s] \in Nat
      /\ r.frozenLegacy[s].amount \in Nat /\ r2.frozenLegacy[s].amount \in Nat
  BY <1>1, PendingSum DEF Rec
<1>5. Solvent(a, r2, x2)
  <2>4. x2 + Own(r2, s) + Sum(r2.unfrozenV2) = balance[a] + Own(r, s) + Sum(r.unfrozenV2)
    BY <1>1, <1>2, <1>4, OwnParts
  <2> QED
    BY <1>1, <1>3, <2>4, SolventMoves
<1>6. Floor(before) \in Int /\ Floor(after) \in Int
  BY Floors
<1>7. /\ \A t \in Stakes : Weighs(r, t) \in Int
      /\ WeightWithDelegated(r, s) \in Nat /\ WeightWithDelegated(r2, s) \in Nat
  BY <1>1, WeighsInt
<1>8. Weighs(r2, s) = Weighs(r, s) + Floor(after) - Floor(before)
  BY <1>1, <1>2, <1>6, WeighsParts
<1>9. /\ DOMAIN weight' = Stakes /\ weight' = [t \in Stakes |-> weight'[t]]
      /\ \A t \in Stakes : weight'[t] = weight[t] - Weighs(r, t) + Weighs(r2, t)
  <2>1. \A t \in Stakes \ {s} : Weighs(r2, t) = Weighs(r, t) /\ Weighs(r, t) \in Int
    BY <1>3, <1>7
  <2>2. Weighs(r, s) \in Int /\ Typed
    BY <1>7 DEF IInv
  <2> QED
    BY <1>6, <1>8, <2>1, <2>2, Shifted
<1>10. StakeV2 => \A t \in Stakes : r2.frozenLegacy[t].amount = r.frozenLegacy[t].amount
  BY <1>2
<1> QED
  BY <1>5, <1>9, <1>10, StakeStep DEF r

\* A freeze of Stake 2.0.
LEMMA FreezeV2Step ==
    ASSUME IInv, NEW a \in Owners, NEW x \in Amounts, NEW s \in Stakes, FreezeBalanceV2(a, x, s),
           txs' \in 0..MaxTxs
    PROVE  IInv'
<1> DEFINE r == record[a]
           m == Migrated(r)
           F == [m.frozenV2 EXCEPT ![s] = @ + x]
           r2 == [m EXCEPT !.frozenV2 = F]
           before == WeightWithDelegated(m, s)
<1>1. r \in Rec /\ Carry(r) /\ a \in Accounts /\ balance[a] \in Nat /\ Len(r.unfrozenV2) <= MaxPending
  BY OwnerIs
<1>2. x \in Nat /\ x <= balance[a]
  BY ResourcesAssumption DEF FreezeBalanceV2, CanFreezeV2
<1>3. m \in Rec /\ Alike(r, m) /\ Carry(m) /\ m.unfrozenV2 = r.unfrozenV2
  BY <1>1, MigratedIs
<1>4. /\ balance' = [balance EXCEPT ![a] = balance[a] - x] /\ record' = [record EXCEPT ![a] = r2]
      /\ ShiftWeight(s, before, before + x) /\ UNCHANGED <<params, addresses, books, time>>
  BY DEF FreezeBalanceV2
<1> HIDE DEF r, m
<1>5. F \in [Stakes -> Nat] /\ F[s] = m.frozenV2[s] + x /\ \A t \in Stakes \ {s} : F[t] = m.frozenV2[t]
  BY <1>2, <1>3 DEF Rec
<1> HIDE DEF F
<1>6. /\ r2 \in Rec /\ r2.frozenV2 = F /\ r2.unfrozenV2 = m.unfrozenV2 /\ r2.oldTronPower = m.oldTronPower
      /\ r2.frozenLegacy = m.frozenLegacy /\ r2.delegatedOut = m.delegatedOut
      /\ r2.delegatedLegacyOut = m.delegatedLegacyOut
      /\ r2.acquired = m.acquired /\ r2.acquiredLegacy = m.acquiredLegacy
  BY <1>3, <1>5 DEF Rec
<1> HIDE DEF r2
<1>7. /\ m.frozenV2 = r.frozenV2 /\ m.frozenLegacy = r.frozenLegacy
      /\ m.delegatedOut = r.delegatedOut /\ m.delegatedLegacyOut = r.delegatedLegacyOut
      /\ m.acquired = r.acquired /\ m.acquiredLegacy = r.acquiredLegacy
  BY <1>3 DEF Alike
<1>8. Keeps(r, r2) /\ Keeps(m, r2)
  BY <1>6, <1>7 DEF Keeps
<1>9. before \in Nat /\ before + x \in Nat
  BY <1>2, <1>3, WeighsInt
<1>10. WeightWithDelegated(r2, s) = before + x /\ WeightWithDelegated(r, s) = before
  <2>1. m.frozenV2[s] \in Nat /\ (s \in Quotas => m.delegatedOut[s] \in Nat)
    BY <1>3 DEF Rec
  <2> QED
    BY <1>2, <1>5, <1>6, <1>7, <2>1 DEF WeightWithDelegated
<1> HIDE DEF before
<1>11. Carry(r2)
  <2>1. \A t \in Stakes \ {s} : Own(r2, t) = Own(m, t)
    BY <1>5, <1>6 DEF Own
  <2>2. 0 + Own(r2, s) + 0 = x + Own(m, s) + 0
    <3>1. m.frozenV2[s] \in Nat /\ m.frozenLegacy[s].amount \in Nat
      BY <1>3 DEF Rec
    <3>2. 0 + (r2.frozenV2[s] + r2.frozenLegacy[s].amount) + 0
              = x + (m.frozenV2[s] + m.frozenLegacy[s].amount) + 0
      BY <1>2, <1>5, <1>6, <3>1
    <3> QED
      BY <1>2, <1>3, <1>6, <1>8, <3>2, OwnParts
  <2>3. Own(r2, s) \in Nat /\ Own(m, s) \in Nat
    BY <1>3, <1>6, StakedIs
  <2>4. Own(r2, s) >= Own(m, s)
    BY <1>2, <2>2, <2>3
  <2>5. QuotaTronPower(r2) >= QuotaTronPower(m)
    BY <1>3, <1>6, <2>1, <2>4, StakedMoves
  <2> QED
    BY <1>3, <1>6, <2>5, CarryKept
<1>12. /\ balance[a] - x \in Nat /\ Len(r2.unfrozenV2) <= MaxPending
       /\ \A t \in Stakes \ {s} : /\ r2.frozenV2[t] = r.frozenV2[t]
                                  /\ r2.frozenLegacy[t].amount = r.frozenLegacy[t].amount
  BY <1>1, <1>2, <1>3, <1>5, <1>6, <1>7
<1>13. (balance[a] - x) + (r2.frozenV2[s] + r2.frozenLegacy[s].amount) + Sum(r2.unfrozenV2)
           = balance[a] + (r.frozenV2[s] + r.frozenLegacy[s].amount) + Sum(r.unfrozenV2)
  <2> DEFINE f == r.frozenV2[s]
             l == r.frozenLegacy[s].amount
             y == Sum(r.unfrozenV2)
             b == balance[a]
  <2>1. f \in Nat /\ l \in Nat /\ y \in Nat /\ b \in Nat
    BY <1>1, PendingSum DEF Rec
  <2>2. r2.frozenV2[s] = f + x /\ r2.frozenLegacy[s].amount = l /\ Sum(r2.unfrozenV2) = y
    BY <1>3, <1>5, <1>6, <1>7
  <2> HIDE DEF f, l, y, b
  <2>3. (b - x) + ((f + x) + l) + y = b + (f + l) + y
    BY <1>2, <2>1
  <2> QED
    BY <2>2, <2>3 DEF f, l, y, b
<1>14. Floor(WeightWithDelegated(r2, s)) + Floor(r2.frozenLegacy[s].amount)
           = Floor(WeightWithDelegated(r, s)) + Floor(r.frozenLegacy[s].amount) + Floor(before + x) - Floor(before)
  <2> DEFINE g == Floor(before + x)
             f == Floor(before)
             l == Floor(r.frozenLegacy[s].amount)
  <2>1. r.frozenLegacy[s].amount \in Int
    BY <1>1 DEF Rec
  <2>2. g \in Int /\ f \in Int /\ l \in Int
    BY <1>9, <2>1, Floors
  <2>3. Floor(WeightWithDelegated(r2, s)) = g /\ Floor(WeightWithDelegated(r, s)) = f
        /\ Floor(r2.frozenLegacy[s].amount) = l
    BY <1>6, <1>7, <1>10
  <2> HIDE DEF f, g, l
  <2>4. g + l = f + l + g - f
    BY <2>2
  <2> QED
    BY <2>3, <2>4 DEF f, g, l
<1>15. StakeV2 => r2.frozenLegacy[s].amount = r.frozenLegacy[s].amount
  BY <1>6, <1>7
<1> QED
  BY <1>4, <1>6, <1>8, <1>9, <1>11, <1>12, <1>13, <1>14, <1>15, OwnStep DEF r

\* An unfreeze of Stake 2.0, which claims what has matured on the way.
LEMMA UnfreezeV2Step ==
    ASSUME IInv, NEW a \in Owners, NEW x \in Amounts, NEW s \in Stakes, UnfreezeBalanceV2(a, x, s),
           txs' \in 0..MaxTxs
    PROVE  IInv'
<1> DEFINE r == record[a]
           c == Claimed(r)
           m == Migrated(c)
           F == [m.frozenV2 EXCEPT ![s] = @ - x]
           e == [type |-> s, amount |-> x, expire |-> head + params.unfreezeDelay]
           U == Append(m.unfrozenV2, e)
           k == [m EXCEPT !.frozenV2 = F, !.unfrozenV2 = U]
           r2 == Unstaked(k)
           before == WeightWithDelegated(m, s)
           y == Sum(Matured(r))
<1>1. r \in Rec /\ Carry(r) /\ a \in Accounts /\ balance[a] \in Nat /\ head \in Nat
  BY OwnerIs
<1>2. x \in Nat /\ x # 0 /\ x <= r.frozenV2[s] /\ Len(Open(r)) < MaxPending /\ MaxPending \in Nat
  BY ResourcesAssumption DEF UnfreezeBalanceV2, CanUnfreezeV2, SlotFree
<1>3. /\ c \in Rec /\ Alike(r, c) /\ Carry(c) /\ c.unfrozenV2 = Open(r)
      /\ Open(r) \in Seq(Pending) /\ Len(Open(r)) \in Nat
      /\ y \in Nat /\ Sum(Open(r)) \in Nat /\ y + Sum(Open(r)) = Sum(r.unfrozenV2)
  BY <1>1, ClaimedIs
<1>4. /\ balance' = [balance EXCEPT ![a] = balance[a] + y] /\ record' = [record EXCEPT ![a] = r2]
      /\ ShiftWeight(s, before, before - x) /\ UNCHANGED <<params, addresses, books, time>>
  BY DEF UnfreezeBalanceV2, Credit
<1>5. e \in Pending /\ e.amount = x
  <2>1. params.unfreezeDelay \in Nat
    BY Types DEF IInv
  <2>2. head + params.unfreezeDelay \in Nat
    BY <1>1, <2>1
  <2> QED
    BY <1>2, <2>2 DEF Pending
<1> HIDE DEF r, c, e, y
<1>6. m \in Rec /\ Alike(c, m) /\ Carry(m) /\ m.unfrozenV2 = c.unfrozenV2
  BY <1>3, MigratedIs
<1> HIDE DEF m
<1>7. /\ m.frozenV2 = r.frozenV2 /\ m.frozenLegacy = r.frozenLegacy
      /\ m.delegatedOut = r.delegatedOut /\ m.delegatedLegacyOut = r.delegatedLegacyOut
      /\ m.acquired = r.acquired /\ m.acquiredLegacy = r.acquiredLegacy /\ m.unfrozenV2 = Open(r)
  BY <1>3, <1>6 DEF Alike
<1>8. /\ F \in [Stakes -> Nat] /\ F[s] = m.frozenV2[s] - x /\ F[s] \in Nat
      /\ \A t \in Stakes \ {s} : F[t] = m.frozenV2[t]
  <2>1. m.frozenV2[s] \in Nat /\ m.frozenV2[s] - x \in Nat /\ m.frozenV2 \in [Stakes -> Nat]
    BY <1>2, <1>6, <1>7 DEF Rec
  <2> QED
    BY <2>1
<1>9. U \in Seq(Pending) /\ Sum(U) = Sum(Open(r)) + x /\ Len(U) <= MaxPending
  <2>1. U \in Seq(Pending) /\ Len(U) = Len(Open(r)) + 1
    BY <1>3, <1>5, <1>7
  <2>2. Sum(Append(Open(r), e)) = Sum(Open(r)) + e.amount
    BY <1>1, <1>3, <1>5, PendingSum, SumAppend
  <2> QED
    BY <1>2, <1>3, <1>5, <1>7, <2>1, <2>2
<1> HIDE DEF F, U
<1>10. /\ k \in Rec /\ k.frozenV2 = F /\ k.unfrozenV2 = U /\ k.oldTronPower = m.oldTronPower
       /\ k.frozenLegacy = m.frozenLegacy /\ k.delegatedOut = m.delegatedOut
       /\ k.delegatedLegacyOut = m.delegatedLegacyOut
       /\ k.acquired = m.acquired /\ k.acquiredLegacy = m.acquiredLegacy
  BY <1>6, <1>8, <1>9 DEF Rec
<1> HIDE DEF k
<1>11. /\ r2 \in Rec /\ Alike(k, r2) /\ Carry(r2) /\ r2.unfrozenV2 = k.unfrozenV2
  <2>1. ~params.newResourceModel => k.oldTronPower = 0
    BY <1>6, <1>10 DEF Carry
  <2> QED
    BY <1>10, <2>1, UnstakedIs
<1> HIDE DEF r2
<1>12. /\ r2.frozenV2 = F /\ r2.unfrozenV2 = U /\ r2.frozenLegacy = r.frozenLegacy
       /\ r2.delegatedOut = r.delegatedOut /\ r2.delegatedLegacyOut = r.delegatedLegacyOut
       /\ r2.acquired = r.acquired /\ r2.acquiredLegacy = r.acquiredLegacy
  BY <1>7, <1>10, <1>11 DEF Alike
<1>13. Keeps(r, r2)
  BY <1>12 DEF Keeps
<1>14. /\ WeightWithDelegated(r2, s) = before - x /\ WeightWithDelegated(r, s) = before
       /\ before \in Nat /\ before - x \in Nat
  <2>1. m.frozenV2[s] \in Nat /\ (s \in Quotas => m.delegatedOut[s] \in Nat)
    BY <1>6 DEF Rec
  <2>2. before \in Nat
    BY <1>6, WeighsInt
  <2>3. WeightWithDelegated(r2, s) = before - x /\ WeightWithDelegated(r, s) = before
    BY <1>2, <1>7, <1>8, <1>12, <2>1 DEF WeightWithDelegated
  <2>4. WeightWithDelegated(r2, s) \in Nat
    BY <1>11, WeighsInt
  <2> QED
    BY <2>2, <2>3, <2>4
<1> HIDE DEF before
<1>15. /\ balance[a] + y \in Nat /\ Len(r2.unfrozenV2) <= MaxPending
       /\ \A t \in Stakes \ {s} : /\ r2.frozenV2[t] = r.frozenV2[t]
                                  /\ r2.frozenLegacy[t].amount = r.frozenLegacy[t].amount
  BY <1>1, <1>3, <1>7, <1>8, <1>9, <1>12
<1>16. (balance[a] + y) + (r2.frozenV2[s] + r2.frozenLegacy[s].amount) + Sum(r2.unfrozenV2)
           = balance[a] + (r.frozenV2[s] + r.frozenLegacy[s].amount) + Sum(r.unfrozenV2)
  <2> DEFINE f == r.frozenV2[s]
             l == r.frozenLegacy[s].amount
             o == Sum(Open(r))
             b == balance[a]
  <2>1. f \in Nat /\ l \in Nat /\ o \in Nat /\ b \in Nat
    BY <1>1, <1>3 DEF Rec
  <2>2. r2.frozenV2[s] = f - x /\ r2.frozenLegacy[s].amount = l /\ Sum(r2.unfrozenV2) = o + x
        /\ Sum(r.unfrozenV2) = y + o
    BY <1>3, <1>7, <1>8, <1>9, <1>12
  <2> HIDE DEF f, l, o, b
  <2>3. (b + y) + ((f - x) + l) + (o + x) = b + (f + l) + (y + o)
    BY <1>2, <1>3, <2>1
  <2> QED
    BY <2>2, <2>3 DEF f, l, b
<1>17. Floor(WeightWithDelegated(r2, s)) + Floor(r2.frozenLegacy[s].amount)
           = Floor(WeightWithDelegated(r, s)) + Floor(r.frozenLegacy[s].amount) + Floor(before - x) - Floor(before)
  <2> DEFINE g == Floor(before - x)
             f == Floor(before)
             l == Floor(r.frozenLegacy[s].amount)
  <2>1. r.frozenLegacy[s].amount \in Int
    BY <1>1 DEF Rec
  <2>2. g \in Int /\ f \in Int /\ l \in Int
    BY <1>14, <2>1, Floors
  <2>3. Floor(WeightWithDelegated(r2, s)) = g /\ Floor(WeightWithDelegated(r, s)) = f
        /\ Floor(r2.frozenLegacy[s].amount) = l
    BY <1>12, <1>14
  <2> HIDE DEF f, g, l
  <2>4. g + l = f + l + g - f
    BY <2>2
  <2> QED
    BY <2>3, <2>4 DEF f, g, l
<1>18. StakeV2 => r2.frozenLegacy[s].amount = r.frozenLegacy[s].amount
  BY <1>12
<1> QED
  BY <1>4, <1>11, <1>13, <1>14, <1>15, <1>16, <1>17, <1>18, OwnStep DEF r

\* A freeze of Stake 1.0 for the owner itself.
LEMMA FreezeStep ==
    ASSUME IInv, NEW a \in Owners, NEW x \in Amounts, NEW s \in Stakes, FreezeBalance(a, x, s),
           txs' \in 0..MaxTxs
    PROVE  IInv'
<1> DEFINE r == record[a]
           m == Migrated(r)
           before == m.frozenLegacy[s].amount
           h == [amount |-> before + x, expire |-> head + Frozen]
           F == [m.frozenLegacy EXCEPT ![s] = h]
           r2 == [m EXCEPT !.frozenLegacy = F]
<1>1. r \in Rec /\ Carry(r) /\ a \in Accounts /\ balance[a] \in Nat /\ Len(r.unfrozenV2) <= MaxPending
      /\ head \in Nat
  BY OwnerIs
<1>2. x \in Nat /\ x <= balance[a] /\ ~StakeV2 /\ Frozen \in Nat
  BY ResourcesAssumption DEF FreezeBalance, CanFreeze
<1>3. m \in Rec /\ Alike(r, m) /\ Carry(m) /\ m.unfrozenV2 = r.unfrozenV2
  BY <1>1, MigratedIs
<1>4. /\ balance' = [balance EXCEPT ![a] = balance[a] - x] /\ record' = [record EXCEPT ![a] = r2]
      /\ ShiftWeight(s, before, before + x) /\ UNCHANGED <<params, addresses, books, time>>
  BY DEF FreezeBalance
<1> HIDE DEF r, m
<1>5. before \in Nat /\ before + x \in Nat /\ h \in [amount : Nat, expire : Nat] /\ h.amount = before + x
  <2>1. before \in Nat
    BY <1>3 DEF Rec
  <2> HIDE DEF before
  <2>2. before + x \in Nat /\ head + Frozen \in Nat
    BY <1>1, <1>2, <2>1
  <2> QED
    BY <2>1, <2>2
<1> HIDE DEF h
<1>6. F \in [Stakes -> [amount : Nat, expire : Nat]] /\ F[s] = h /\ \A t \in Stakes \ {s} : F[t] = m.frozenLegacy[t]
  <2>1. m.frozenLegacy \in [Stakes -> [amount : Nat, expire : Nat]]
    BY <1>3 DEF Rec
  <2> QED
    BY <1>5, <2>1
<1> HIDE DEF F
<1>7. /\ r2 \in Rec /\ r2.frozenV2 = m.frozenV2 /\ r2.unfrozenV2 = m.unfrozenV2 /\ r2.oldTronPower = m.oldTronPower
      /\ r2.frozenLegacy = F /\ r2.delegatedOut = m.delegatedOut
      /\ r2.delegatedLegacyOut = m.delegatedLegacyOut
      /\ r2.acquired = m.acquired /\ r2.acquiredLegacy = m.acquiredLegacy
  BY <1>3, <1>6 DEF Rec
<1> HIDE DEF r2
<1>8. /\ m.frozenV2 = r.frozenV2 /\ m.frozenLegacy = r.frozenLegacy
      /\ m.delegatedOut = r.delegatedOut /\ m.delegatedLegacyOut = r.delegatedLegacyOut
      /\ m.acquired = r.acquired /\ m.acquiredLegacy = r.acquiredLegacy
  BY <1>3 DEF Alike
<1>9. Keeps(r, r2) /\ Keeps(m, r2)
  BY <1>7, <1>8 DEF Keeps
<1>10. /\ r2.frozenLegacy[s].amount = before + x /\ r.frozenLegacy[s].amount = before
       /\ r2.frozenV2[s] = r.frozenV2[s] /\ r.frozenV2[s] \in Nat /\ m.frozenV2[s] = r.frozenV2[s]
       /\ m.frozenLegacy[s].amount = before
       /\ WeightWithDelegated(r2, s) = WeightWithDelegated(r, s)
  <2>1. r.frozenV2[s] \in Nat
    BY <1>1 DEF Rec
  <2>2. WeightWithDelegated(r2, s) = WeightWithDelegated(r, s)
    BY <1>7, <1>8 DEF WeightWithDelegated
  <2> QED
    BY <1>5, <1>6, <1>7, <1>8, <2>1, <2>2
<1> HIDE DEF before
<1>11. Carry(r2)
  <2>1. \A t \in Stakes \ {s} : Own(r2, t) = Own(m, t)
    BY <1>6, <1>7 DEF Own
  <2>2. 0 + Own(r2, s) + 0 = x + Own(m, s) + 0
    <3>1. 0 + (r2.frozenV2[s] + r2.frozenLegacy[s].amount) + 0
              = x + (m.frozenV2[s] + m.frozenLegacy[s].amount) + 0
      BY <1>2, <1>5, <1>10
    <3> QED
      BY <1>2, <1>3, <1>7, <1>9, <3>1, OwnParts
  <2>3. Own(r2, s) \in Nat /\ Own(m, s) \in Nat
    BY <1>3, <1>7, StakedIs
  <2>4. Own(r2, s) >= Own(m, s)
    BY <1>2, <2>2, <2>3
  <2>5. QuotaTronPower(r2) >= QuotaTronPower(m)
    BY <1>3, <1>7, <2>1, <2>4, StakedMoves
  <2> QED
    BY <1>3, <1>7, <2>5, CarryKept
<1>12. /\ balance[a] - x \in Nat /\ Len(r2.unfrozenV2) <= MaxPending
       /\ \A t \in Stakes \ {s} : /\ r2.frozenV2[t] = r.frozenV2[t]
                                  /\ r2.frozenLegacy[t].amount = r.frozenLegacy[t].amount
  BY <1>1, <1>2, <1>3, <1>6, <1>7, <1>8
<1>13. (balance[a] - x) + (r2.frozenV2[s] + r2.frozenLegacy[s].amount) + Sum(r2.unfrozenV2)
           = balance[a] + (r.frozenV2[s] + r.frozenLegacy[s].amount) + Sum(r.unfrozenV2)
  <2> DEFINE f == r.frozenV2[s]
             y == Sum(r.unfrozenV2)
             b == balance[a]
  <2>1. f \in Nat /\ y \in Nat /\ b \in Nat
    BY <1>1, <1>10, PendingSum
  <2>2. r2.frozenV2[s] = f /\ r2.frozenLegacy[s].amount = before + x /\ Sum(r2.unfrozenV2) = y
        /\ r.frozenLegacy[s].amount = before
    BY <1>3, <1>7, <1>10
  <2> HIDE DEF f, y, b
  <2>3. (b - x) + (f + (before + x)) + y = b + (f + before) + y
    BY <1>2, <1>5, <2>1
  <2> QED
    BY <2>2, <2>3 DEF f, y, b
<1>14. Floor(WeightWithDelegated(r2, s)) + Floor(r2.frozenLegacy[s].amount)
           = Floor(WeightWithDelegated(r, s)) + Floor(r.frozenLegacy[s].amount) + Floor(before + x) - Floor(before)
  <2> DEFINE g == Floor(before + x)
             f == Floor(before)
             w == Floor(WeightWithDelegated(r, s))
  <2>1. WeightWithDelegated(r, s) \in Int
    BY <1>1, WeighsInt
  <2>2. g \in Int /\ f \in Int /\ w \in Int
    BY <1>5, <2>1, Floors
  <2>3. Floor(WeightWithDelegated(r2, s)) = w /\ Floor(r2.frozenLegacy[s].amount) = g
        /\ Floor(r.frozenLegacy[s].amount) = f
    BY <1>10
  <2> HIDE DEF f, g, w
  <2>4. w + g = w + f + g - f
    BY <2>2
  <2> QED
    BY <2>3, <2>4 DEF f, g, w
<1> QED
  BY <1>2, <1>4, <1>5, <1>7, <1>9, <1>11, <1>12, <1>13, <1>14, OwnStep DEF r
\* The owner's own freeze of Stake 1.0 comes back.
LEMMA UnfreezeStep ==
    ASSUME IInv, NEW a \in Owners, NEW s \in Stakes, UnfreezeBalance(a, s), txs' \in 0..MaxTxs
    PROVE  IInv'
<1> DEFINE r == record[a]
           m == Migrated(r)
           x == m.frozenLegacy[s].amount
           F == [m.frozenLegacy EXCEPT ![s] = Held]
           k == [m EXCEPT !.frozenLegacy = F]
           r2 == Unstaked(k)
<1>1. r \in Rec /\ Carry(r) /\ a \in Accounts /\ balance[a] \in Nat /\ Len(r.unfrozenV2) <= MaxPending
      /\ head \in Nat
  BY OwnerIs
<1>2. x > 0
  BY DEF UnfreezeBalance
<1>3. m \in Rec /\ Alike(r, m) /\ Carry(m) /\ m.unfrozenV2 = r.unfrozenV2
  BY <1>1, MigratedIs
<1>4. /\ balance' = [balance EXCEPT ![a] = balance[a] + x] /\ record' = [record EXCEPT ![a] = r2]
      /\ ShiftWeight(s, x, 0) /\ UNCHANGED <<params, addresses, books, time>>
  BY DEF UnfreezeBalance, Credit
<1>5. StakeV2 => r.frozenLegacy[s].amount = 0
  BY <1>1 DEF IInv, NoLegacy
<1> HIDE DEF r, m
<1>6. /\ F \in [Stakes -> [amount : Nat, expire : Nat]] /\ F[s].amount = 0
      /\ \A t \in Stakes \ {s} : F[t] = m.frozenLegacy[t]
  <2>1. m.frozenLegacy \in [Stakes -> [amount : Nat, expire : Nat]]
    BY <1>3 DEF Rec
  <2>2. Held \in [amount : Nat, expire : Nat] /\ Held.amount = 0
    BY DEF Held
  <2> QED
    BY <2>1, <2>2
<1> HIDE DEF F
<1>7. /\ k \in Rec /\ k.frozenV2 = m.frozenV2 /\ k.unfrozenV2 = m.unfrozenV2 /\ k.oldTronPower = m.oldTronPower
      /\ k.frozenLegacy = F /\ k.delegatedOut = m.delegatedOut
      /\ k.delegatedLegacyOut = m.delegatedLegacyOut
      /\ k.acquired = m.acquired /\ k.acquiredLegacy = m.acquiredLegacy
  BY <1>3, <1>6 DEF Rec
<1> HIDE DEF k
<1>8. /\ r2 \in Rec /\ Alike(k, r2) /\ Carry(r2) /\ r2.unfrozenV2 = k.unfrozenV2
  <2>1. ~params.newResourceModel => k.oldTronPower = 0
    BY <1>3, <1>7 DEF Carry
  <2> QED
    BY <1>7, <2>1, UnstakedIs
<1> HIDE DEF r2
<1>9. /\ r2.frozenV2 = r.frozenV2 /\ r2.unfrozenV2 = r.unfrozenV2 /\ r2.frozenLegacy = F
      /\ r2.delegatedOut = r.delegatedOut /\ r2.delegatedLegacyOut = r.delegatedLegacyOut
      /\ r2.acquired = r.acquired /\ r2.acquiredLegacy = r.acquiredLegacy /\ m.frozenLegacy = r.frozenLegacy
  BY <1>3, <1>7, <1>8 DEF Alike
<1>10. Keeps(r, r2)
  BY <1>9 DEF Keeps
<1>11. /\ r2.frozenLegacy[s].amount = 0 /\ r.frozenLegacy[s].amount = x /\ x \in Nat
       /\ r2.frozenV2[s] = r.frozenV2[s] /\ r.frozenV2[s] \in Nat
       /\ WeightWithDelegated(r2, s) = WeightWithDelegated(r, s)
  <2>1. r.frozenV2[s] \in Nat /\ r.frozenLegacy[s].amount \in Nat
    BY <1>1 DEF Rec
  <2>2. WeightWithDelegated(r2, s) = WeightWithDelegated(r, s)
    BY <1>9 DEF WeightWithDelegated
  <2> QED
    BY <1>6, <1>9, <2>1, <2>2
<1> HIDE DEF x
<1>12. /\ balance[a] + x \in Nat /\ Len(r2.unfrozenV2) <= MaxPending
       /\ \A t \in Stakes \ {s} : /\ r2.frozenV2[t] = r.frozenV2[t]
                                  /\ r2.frozenLegacy[t].amount = r.frozenLegacy[t].amount
  BY <1>1, <1>6, <1>9, <1>11
<1>13. (balance[a] + x) + (r2.frozenV2[s] + r2.frozenLegacy[s].amount) + Sum(r2.unfrozenV2)
           = balance[a] + (r.frozenV2[s] + r.frozenLegacy[s].amount) + Sum(r.unfrozenV2)
  <2> DEFINE f == r.frozenV2[s]
             y == Sum(r.unfrozenV2)
             b == balance[a]
  <2>1. f \in Nat /\ y \in Nat /\ b \in Nat
    BY <1>1, <1>11, PendingSum
  <2>2. r2.frozenV2[s] = f /\ r2.frozenLegacy[s].amount = 0 /\ Sum(r2.unfrozenV2) = y
        /\ r.frozenLegacy[s].amount = x
    BY <1>9, <1>11
  <2> HIDE DEF f, y, b
  <2>3. (b + x) + (f + 0) + y = b + (f + x) + y
    BY <1>11, <2>1
  <2> QED
    BY <2>2, <2>3 DEF f, y, b
<1>14. Floor(WeightWithDelegated(r2, s)) + Floor(r2.frozenLegacy[s].amount)
           = Floor(WeightWithDelegated(r, s)) + Floor(r.frozenLegacy[s].amount) + Floor(0) - Floor(x)
  <2> DEFINE g == Floor(0)
             f == Floor(x)
             w == Floor(WeightWithDelegated(r, s))
  <2>1. WeightWithDelegated(r, s) \in Int
    BY <1>1, WeighsInt
  <2>2. g \in Int /\ f \in Int /\ w \in Int
    BY <1>11, <2>1, Floors
  <2>3. Floor(WeightWithDelegated(r2, s)) = w /\ Floor(r2.frozenLegacy[s].amount) = g
        /\ Floor(r.frozenLegacy[s].amount) = f
    BY <1>11
  <2> HIDE DEF f, g, w
  <2>4. w + g = w + f + g - f
    BY <2>2
  <2> QED
    BY <2>3, <2>4 DEF f, g, w
<1>15. StakeV2 => r2.frozenLegacy[s].amount = r.frozenLegacy[s].amount
  BY <1>5, <1>11
<1> DEFINE n == 0
<1>16. /\ n \in Nat /\ ShiftWeight(s, x, n)
       /\ Floor(WeightWithDelegated(r2, s)) + Floor(r2.frozenLegacy[s].amount)
           = Floor(WeightWithDelegated(r, s)) + Floor(r.frozenLegacy[s].amount) + Floor(n) - Floor(x)
  BY <1>4, <1>14
<1> HIDE DEF n
<1> QED
  BY <1>4, <1>8, <1>10, <1>11, <1>12, <1>13, <1>15, <1>16, OwnStep DEF r

\* Weights that stay, of a record that weighs the same.
LEMMA WeightStays ==
    ASSUME Typed, UNCHANGED weight, NEW r \in Rec, NEW r2, \A s \in Stakes : Weighs(r2, s) = Weighs(r, s)
    PROVE  /\ DOMAIN weight' = Stakes /\ weight' = [t \in Stakes |-> weight'[t]]
           /\ \A t \in Stakes : weight'[t] = weight[t] - Weighs(r, t) + Weighs(r2, t)
<1>1. weight \in [Stakes -> Int] /\ \A t \in Stakes : Weighs(r, t) \in Int
  BY WeighsInt DEF Typed
<1>2. DOMAIN weight' = Stakes /\ weight' = [t \in Stakes |-> weight'[t]]
  BY <1>1
<1>3. ASSUME NEW t \in Stakes PROVE weight'[t] = weight[t] - Weighs(r, t) + Weighs(r2, t)
  <2>1. weight'[t] = weight[t] /\ weight[t] \in Int /\ Weighs(r, t) \in Int /\ Weighs(r2, t) = Weighs(r, t)
    BY <1>1
  <2> QED
    BY <2>1
<1> QED
  BY <1>2, <1>3

\* A claim of what has matured.
LEMMA WithdrawStep ==
    ASSUME IInv, NEW a \in Owners, WithdrawExpireUnfreeze(a), txs' \in 0..MaxTxs
    PROVE  IInv'
<1> DEFINE r == record[a]
           r2 == Claimed(r)
           y == Sum(Matured(r))
           z == "TRON_POWER"
<1>1. r \in Rec /\ Carry(r) /\ a \in Accounts /\ balance[a] \in Nat /\ head \in Nat
      /\ Solvent(a, r, balance[a]) /\ Len(r.unfrozenV2) <= MaxPending
  BY OwnerIs
<1>2. /\ r2 \in Rec /\ Alike(r, r2) /\ Carry(r2) /\ r2.unfrozenV2 = Open(r)
      /\ Len(Open(r)) \in Nat /\ Len(Open(r)) <= Len(r.unfrozenV2)
      /\ y \in Nat /\ Sum(Open(r)) \in Nat /\ y + Sum(Open(r)) = Sum(r.unfrozenV2)
  BY <1>1, ClaimedIs
<1>3. /\ balance' = [balance EXCEPT ![a] = balance[a] + y] /\ record' = [record EXCEPT ![a] = r2]
      /\ UNCHANGED weight /\ UNCHANGED <<params, addresses, books, time>>
  BY DEF WithdrawExpireUnfreeze, Credit
<1> HIDE DEF r, r2, y, z
<1>4. /\ \A s \in Stakes : Own(r2, s) = Own(r, s) /\ Own(r, s) \in Nat
      /\ \A s \in Stakes : Weighs(r2, s) = Weighs(r, s)
      /\ Keeps(r, r2)
  BY <1>1, <1>2, AlikeStaked, AlikeWeighs, StakedIs
<1>5. balance[a] + y \in Nat /\ Len(r2.unfrozenV2) <= MaxPending
  <2>1. Len(r.unfrozenV2) \in Nat /\ MaxPending \in Nat
    BY <1>1, PendingSum, ResourcesAssumption
  <2> QED
    BY <1>1, <1>2, <2>1
<1>6. Solvent(a, r2, balance[a] + y)
  <2>1. z \in Stakes
    BY Finite DEF z
  <2>2. Own(r2, z) = Own(r, z) /\ Own(r, z) \in Nat
    BY <1>4, <2>1
  <2>3. (balance[a] + y) + Own(r2, z) + Sum(r2.unfrozenV2) = balance[a] + Own(r, z) + Sum(r.unfrozenV2)
    BY <1>1, <1>2, <2>2
  <2> QED
    BY <1>1, <1>2, <1>4, <1>5, <2>1, <2>3, SolventMoves
<1>7. /\ DOMAIN weight' = Stakes /\ weight' = [t \in Stakes |-> weight'[t]]
      /\ \A t \in Stakes : weight'[t] = weight[t] - Weighs(r, t) + Weighs(r2, t)
  BY <1>1, <1>3, <1>4, WeightStays DEF IInv
<1>8. \A t \in Stakes : r2.frozenLegacy[t].amount = r.frozenLegacy[t].amount
  BY <1>2 DEF Alike
<1> QED
  BY <1>2, <1>3, <1>4, <1>5, <1>6, <1>7, <1>8, StakeStep DEF r

\* Usage that is charged.
LEMMA ConsumeStep ==
    ASSUME IInv, NEW a \in Owners, NEW q \in Quotas, NEW u \in Units, Consume(a, q, u), txs' \in 0..MaxTxs
    PROVE  IInv'
<1> DEFINE r == record[a]
           n == WindowedUsage(r.usage[q].used, r.usage[q].last, clock, u)
           G == [r.usage EXCEPT ![q] = [used |-> n, last |-> clock]]
           r2 == [r EXCEPT !.usage = G]
           z == "TRON_POWER"
<1>1. r \in Rec /\ Carry(r) /\ a \in Accounts /\ balance[a] \in Nat /\ head \in Nat
      /\ Solvent(a, r, balance[a]) /\ Len(r.unfrozenV2) <= MaxPending
  BY OwnerIs
<1>2. clock \in Nat /\ u \in Nat
  BY ResourcesAssumption, Types DEF IInv
<1>3. record' = [record EXCEPT ![a] = r2]
  BY DEF Consume
<1>4. balance' = [balance EXCEPT ![a] = balance[a]]
  BY DEF Consume, IInv, Typed
<1>5. UNCHANGED weight /\ UNCHANGED <<params, addresses, books, time>>
  BY DEF Consume
<1> HIDE DEF r
<1>6. n \in Nat
  <2>1. r.usage[q].used \in Nat /\ r.usage[q].last \in Nat
    BY <1>1 DEF Rec
  <2> QED
    BY <1>2, <2>1, WindowedNat
<1> HIDE DEF n
<1>7. G \in [Quotas -> [used : Nat, last : Nat]]
  BY <1>1, <1>2, <1>6 DEF Rec
<1> HIDE DEF G
<1>8. r2 \in Rec /\ Alike(r, r2) /\ r2.unfrozenV2 = r.unfrozenV2 /\ r2.oldTronPower = r.oldTronPower
  BY <1>1, <1>7 DEF Rec, Alike
<1> HIDE DEF r2, z
<1>9. /\ \A s \in Stakes : Own(r2, s) = Own(r, s)
      /\ \A s \in Stakes : Weighs(r2, s) = Weighs(r, s)
      /\ Keeps(r, r2) /\ QuotaTronPower(r2) = QuotaTronPower(r)
  BY <1>1, <1>8, AlikeStaked, AlikeWeighs
<1>10. Carry(r2)
  BY <1>1, <1>8, <1>9 DEF Carry
<1>11. Solvent(a, r2, balance[a])
  <2>1. z \in Stakes
    BY Finite DEF z
  <2>2. balance[a] + Own(r2, z) + Sum(r2.unfrozenV2) = balance[a] + Own(r, z) + Sum(r.unfrozenV2)
    BY <1>8, <1>9, <2>1
  <2> QED
    BY <1>1, <1>8, <1>9, <1>10, <2>1, <2>2, SolventMoves
<1>12. /\ DOMAIN weight' = Stakes /\ weight' = [t \in Stakes |-> weight'[t]]
       /\ \A t \in Stakes : weight'[t] = weight[t] - Weighs(r, t) + Weighs(r2, t)
  BY <1>1, <1>5, <1>9, WeightStays DEF IInv
<1>13. \A t \in Stakes : r2.frozenLegacy[t].amount = r.frozenLegacy[t].amount
  BY <1>8 DEF Alike
<1> QED
  BY <1>1, <1>3, <1>4, <1>5, <1>8, <1>9, <1>11, <1>12, <1>13, StakeStep DEF r
\* What is pending returns to the freezes.
LEMMA CancelStep ==
    ASSUME IInv, NEW a \in Owners, CancelAllUnfreezeV2(a), txs' \in 0..MaxTxs
    PROVE  IInv'
<1> DEFINE r == record[a]
           o == Open(r)
           y == Sum(Matured(r))
           back == [s \in Stakes |-> Sum(Within(o, {e \in Range(o) : e.type = s}))]
           F == [s \in Stakes |-> r.frozenV2[s] + back[s]]
           r2 == [r EXCEPT !.unfrozenV2 = << >>, !.frozenV2 = F]
           z == "TRON_POWER"
<1>1. r \in Rec /\ Carry(r) /\ a \in Accounts /\ balance[a] \in Nat /\ head \in Nat
      /\ Solvent(a, r, balance[a])
  BY OwnerIs
<1>2. /\ o \in Seq(Pending) /\ y \in Nat /\ Sum(o) \in Nat /\ y + Sum(o) = Sum(r.unfrozenV2)
  BY <1>1, ClaimedIs
<1>3. /\ balance' = [balance EXCEPT ![a] = balance[a] + y] /\ record' = [record EXCEPT ![a] = r2]
      /\ weight' = [s \in Stakes |-> weight[s] + Floor(WeightWithDelegated(r, s) + back[s])
                                         - Floor(WeightWithDelegated(r, s))]
      /\ UNCHANGED <<params, addresses, books, time>>
  BY DEF CancelAllUnfreezeV2, Credit
<1> HIDE DEF r, o, y, z
<1>4. Amounted(Pending)
  BY <1>1, PendingSum
<1>5. LedgerOf(back) /\ Total(back) = Sum(o)
  <2>1. \A i \in DOMAIN o : o[i].type \in Stakes
    <3>1. \A i \in DOMAIN o : o[i] \in Pending
      BY <1>2
    <3>2. \A e \in Pending : e.type \in Stakes
      BY DEF Pending
    <3> QED
      BY <3>1, <3>2
  <2>2. IsFiniteSet(Stakes)
    BY Finite
  <2> QED
    BY <1>2, <1>4, <2>1, <2>2, WithinTypes
<1>6. DOMAIN back = Stakes /\ \A s \in Stakes : back[s] \in Nat
  <2> SUFFICES ASSUME NEW s \in Stakes PROVE Sum(Within(o, {e \in Range(o) : e.type = s})) \in Nat
    OBVIOUS
  <2> DEFINE S == {e \in Range(o) : e.type = s}
  <2> HIDE DEF S
  <2>1. Within(o, S) \in Seq(Pending)
    BY <1>2, <1>4, WithinKeeps
  <2>2. Sum(Within(o, S)) \in Nat
    BY <1>4, <2>1, SumNat
  <2> QED
    BY <2>2 DEF S
<1> HIDE DEF back
<1>7. Total(back) \in Nat /\ back[z] <= Total(back) /\ z \in Stakes
  <2>1. z \in Stakes
    BY Finite DEF z
  <2> QED
    BY <1>5, <1>6, <2>1, TotalNat
<1>8. F \in [Stakes -> Nat] /\ \A s \in Stakes : F[s] = r.frozenV2[s] + back[s] /\ r.frozenV2[s] \in Nat
  <2>1. \A s \in Stakes : r.frozenV2[s] \in Nat
    BY <1>1 DEF Rec
  <2> QED
    BY <1>6, <2>1
<1> HIDE DEF F
<1>9. << >> \in Seq(Pending) /\ Sum(<< >>) = 0 /\ Len(<< >>) = 0
  <2> DEFINE n == << >>
  <2>1. n \in Seq(Pending) /\ Len(n) = 0
    OBVIOUS
  <2>2. n = << >> => Sum(n) = 0
    <3> HIDE DEF n
    <3> QED
      BY <1>4, <2>1, SumNat
  <2> QED
    BY <2>1, <2>2
<1>10. /\ r2 \in Rec /\ r2.frozenV2 = F /\ r2.unfrozenV2 = << >> /\ r2.oldTronPower = r.oldTronPower
       /\ r2.frozenLegacy = r.frozenLegacy /\ r2.delegatedOut = r.delegatedOut
       /\ r2.delegatedLegacyOut = r.delegatedLegacyOut
       /\ r2.acquired = r.acquired /\ r2.acquiredLegacy = r.acquiredLegacy
  BY <1>1, <1>8, <1>9 DEF Rec
<1> HIDE DEF r2
<1>11. Keeps(r, r2)
  BY <1>10 DEF Keeps
<1>12. \A s \in Stakes : Own(r, s) \in Nat /\ Own(r2, s) \in Nat /\ Own(r2, s) = Own(r, s) + back[s]
  <2> SUFFICES ASSUME NEW s \in Stakes PROVE Own(r, s) \in Nat /\ Own(r2, s) \in Nat /\ Own(r2, s) = Own(r, s) + back[s]
    OBVIOUS
  <2>1. Own(r, s) \in Nat /\ Own(r2, s) \in Nat
    BY <1>1, <1>10, StakedIs
  <2>2. r.frozenV2[s] \in Nat /\ r.frozenLegacy[s].amount \in Nat /\ back[s] \in Nat
    BY <1>1, <1>6 DEF Rec
  <2>3. 0 + (r2.frozenV2[s] + r2.frozenLegacy[s].amount) + 0 = back[s] + (r.frozenV2[s] + r.frozenLegacy[s].amount) + 0
    BY <1>8, <1>10, <2>2
  <2>4. 0 + Own(r2, s) + 0 = back[s] + Own(r, s) + 0
    BY <1>1, <1>10, <1>11, <2>2, <2>3, OwnParts
  <2> QED
    BY <2>1, <2>2, <2>4
<1>13. Staked(r2) = Staked(r) + Sum(o)
  <2> DEFINE f == [s \in Stakes |-> Own(r, s)]
             h == [s \in Stakes |-> Own(r2, s)]
  <2>1. LedgerOf(f) /\ LedgerOf(h) /\ Staked(r) = Total(f) /\ Staked(r2) = Total(h)
    BY <1>1, <1>10, StakedIs
  <2>2. DOMAIN f = Stakes /\ DOMAIN h = Stakes /\ \A s \in Stakes : h[s] = f[s] + back[s]
    BY <1>12
  <2> HIDE DEF f, h
  <2>3. Total(h) = Total(f) + Total(back)
    BY <1>5, <1>6, <2>1, <2>2, TotalAdds
  <2> QED
    BY <1>5, <2>1, <2>3
<1>14. QuotaTronPower(r2) >= QuotaTronPower(r)
  <2>1. /\ QuotaTronPower(r) \in Nat /\ QuotaTronPower(r2) \in Nat
        /\ Staked(r) = QuotaTronPower(r) + Own(r, z) /\ Staked(r2) = QuotaTronPower(r2) + Own(r2, z)
    BY <1>1, <1>10, StakedIs DEF z
  <2>2. Own(r, z) \in Nat /\ Own(r2, z) = Own(r, z) + back[z] /\ back[z] \in Nat /\ back[z] <= Sum(o)
    BY <1>5, <1>6, <1>7, <1>12
  <2> QED
    BY <1>2, <1>13, <2>1, <2>2
<1>15. Carry(r2)
  BY <1>1, <1>10, <1>14, CarryKept
<1>16. Solvent(a, r2, balance[a] + y) /\ balance[a] + y \in Nat
  <2>1. balance[a] + Staked(r) + Sum(r.unfrozenV2) = Funds /\ Staked(r) \in Nat
    BY <1>1, PendingSum DEF Solvent
  <2>2. (balance[a] + y) + Staked(r2) + Sum(r2.unfrozenV2) = Funds
    BY <1>1, <1>2, <1>9, <1>10, <1>13, <2>1
  <2>3. Len(r2.unfrozenV2) <= MaxPending
    BY <1>9, <1>10, ResourcesAssumption
  <2> QED
    BY <1>1, <1>2, <1>15, <2>2, <2>3 DEF Solvent
<1>17. DOMAIN weight' = Stakes /\ weight' = [t \in Stakes |-> weight'[t]]
  BY <1>3
<1>18. ASSUME NEW t \in Stakes PROVE weight'[t] = weight[t] - Weighs(r, t) + Weighs(r2, t)
  <2> DEFINE b == WeightWithDelegated(r, t)
             f == Floor(b)
             g == Floor(b + back[t])
             l == Floor(r.frozenLegacy[t].amount)
             k == weight[t]
             w == Weighs(r, t)
             w2 == Weighs(r2, t)
  <2>1. b \in Nat /\ r.frozenLegacy[t].amount \in Int /\ back[t] \in Nat /\ w \in Int
    BY <1>1, <1>6, WeighsInt
  <2>2. b + back[t] \in Int
    <3> HIDE DEF b
    <3> QED
      BY <2>1
  <2>3. f \in Int /\ g \in Int /\ l \in Int
    <3> HIDE DEF b
    <3> QED
      BY <2>1, <2>2, Floors
  <2>4. WeightWithDelegated(r2, t) = b + back[t]
    <3>1. r.frozenV2[t] \in Nat /\ (t \in Quotas => r.delegatedOut[t] \in Nat)
      BY <1>1 DEF Rec
    <3> QED
      BY <1>8, <1>10, <2>1, <3>1 DEF WeightWithDelegated
  <2>5. k \in Int /\ weight'[t] = k + g - f
    BY <1>3, Types DEF IInv
  <2>6. Floor(WeightWithDelegated(r2, t)) + Floor(r2.frozenLegacy[t].amount)
            = Floor(WeightWithDelegated(r, t)) + Floor(r.frozenLegacy[t].amount) + g - f
    <3>1. Floor(WeightWithDelegated(r2, t)) = g /\ Floor(r2.frozenLegacy[t].amount) = l
          /\ Floor(WeightWithDelegated(r, t)) = f /\ Floor(r.frozenLegacy[t].amount) = l
      BY <1>10, <2>4
    <3> HIDE DEF f, g, l
    <3>2. g + l = f + l + g - f
      BY <2>3
    <3> QED
      BY <3>1, <3>2
  <2>7. w2 = w + g - f
    <3> HIDE DEF f, g
    <3> QED
      BY <1>1, <1>10, <1>11, <2>3, <2>6, WeighsParts
  <2> HIDE DEF f, g, k, w, w2
  <2>8. weight'[t] = k - w + w2
    BY <2>1, <2>3, <2>5, <2>7
  <2> QED
    BY <2>8 DEF k, w, w2
<1>19. \A t \in Stakes : r2.frozenLegacy[t].amount = r.frozenLegacy[t].amount
  BY <1>10
<1> QED
  BY <1>3, <1>10, <1>11, <1>16, <1>17, <1>18, <1>19, StakeStep DEF r

(***************************************************************************)
(* Delegation of Stake 2.0.                                                *)
(***************************************************************************)

\* The record of the account that delegates y of one resource, or takes it back.
Gives(r, r2, q, y) ==
    /\ r2.frozenV2[q] = r.frozenV2[q] - y /\ r2.delegatedOut[q] = r.delegatedOut[q] + y
    /\ \A t \in Stakes \ {q} : r2.frozenV2[t] = r.frozenV2[t]
    /\ \A t \in Quotas \ {q} : r2.delegatedOut[t] = r.delegatedOut[t]
    /\ r2.acquired = r.acquired /\ r2.unfrozenV2 = r.unfrozenV2 /\ r2.frozenLegacy = r.frozenLegacy
    /\ r2.delegatedLegacyOut = r.delegatedLegacyOut /\ r2.acquiredLegacy = r.acquiredLegacy
    /\ r2.oldTronPower = r.oldTronPower

\* The record of the account that it is delegated to.
Gets(r, r2, q, y) ==
    /\ r2.acquired[q] = IF r.acquired[q] + y < 0 THEN 0 ELSE r.acquired[q] + y
    /\ \A t \in Quotas \ {q} : r2.acquired[t] = r.acquired[t]
    /\ r2.frozenV2 = r.frozenV2 /\ r2.delegatedOut = r.delegatedOut
    /\ r2.unfrozenV2 = r.unfrozenV2 /\ r2.frozenLegacy = r.frozenLegacy
    /\ r2.delegatedLegacyOut = r.delegatedLegacyOut /\ r2.acquiredLegacy = r.acquiredLegacy
    /\ r2.oldTronPower = r.oldTronPower

\* Delegating moves stake within a record, and weighs the same.
LEMMA GivesSame ==
    ASSUME NEW r \in Rec, NEW r2 \in Rec, NEW q \in Quotas, NEW y \in Int, Gives(r, r2, q, y)
    PROVE  \A s \in Stakes : Own(r2, s) = Own(r, s) /\ Weighs(r2, s) = Weighs(r, s)
<1>1. q \in Stakes
  BY Finite
<1>2. /\ r.frozenV2[q] \in Nat /\ r.delegatedOut[q] \in Nat /\ r.frozenLegacy[q].amount \in Nat
      /\ r.delegatedLegacyOut[q] \in Nat
  BY <1>1 DEF Rec
<1>3. Own(r2, q) = Own(r, q)
  <2> DEFINE f == r.frozenV2[q]
             d == r.delegatedOut[q]
             l == r.frozenLegacy[q].amount
             e == r.delegatedLegacyOut[q]
  <2>1. Own(r, q) = f + l + (d + e) /\ Own(r2, q) = (f - y) + l + ((d + y) + e)
    BY DEF Own, Gives
  <2>2. f \in Nat /\ d \in Nat /\ l \in Nat /\ e \in Nat
    BY <1>2
  <2> HIDE DEF f, d, l, e
  <2> QED
    BY <2>1, <2>2
<1>4. WeightWithDelegated(r2, q) = WeightWithDelegated(r, q)
  BY <1>2 DEF WeightWithDelegated, Gives
<1>5. Weighs(r2, q) = Weighs(r, q)
  BY <1>4 DEF Weighs, Gives
<1>6. ASSUME NEW s \in Stakes \ {q} PROVE Own(r2, s) = Own(r, s) /\ Weighs(r2, s) = Weighs(r, s)
  <2>1. r2.frozenV2[s] = r.frozenV2[s] /\ (s \in Quotas => r2.delegatedOut[s] = r.delegatedOut[s])
    BY DEF Gives
  <2>2. WeightWithDelegated(r2, s) = WeightWithDelegated(r, s)
    BY <2>1 DEF WeightWithDelegated
  <2> QED
    BY <2>1, <2>2 DEF Own, Weighs, Gives
<1> QED
  BY <1>3, <1>5, <1>6

\* So does receiving.
LEMMA GetsSame ==
    ASSUME NEW r \in Rec, NEW r2 \in Rec, NEW q \in Quotas, NEW y \in Int, Gets(r, r2, q, y)
    PROVE  \A s \in Stakes : Own(r2, s) = Own(r, s) /\ Weighs(r2, s) = Weighs(r, s)
BY DEF Own, Weighs, WeightWithDelegated, Gets

\* An account whose stake is the same has what it started with.
LEMMA SolventSame ==
    ASSUME NEW c, NEW r \in Rec, NEW r2 \in Rec, NEW x, Solvent(c, r, x),
           \A s \in Stakes : Own(r2, s) = Own(r, s),
           r2.unfrozenV2 = r.unfrozenV2, r2.oldTronPower = r.oldTronPower, c \notin Owners => Idle(r2)
    PROVE  Solvent(c, r2, x)
<1>1. Staked(r2) = Staked(r) /\ QuotaTronPower(r2) = QuotaTronPower(r)
  BY StakedSame
<1>2. Carry(r2)
  BY <1>1 DEF Solvent, Carry
<1> QED
  BY <1>1, <1>2 DEF Solvent

\* The resource that is moved is owed to its receiver.
LEMMA OwedMoves ==
    ASSUME NEW b, NEW given \in Nat, NEW due \in Nat, NEW y \in Int, due + y \in Nat, Owed(b, given, due)
    PROVE  Owed(b, IF given + y < 0 THEN 0 ELSE given + y, due + y)
BY DEF Owed

\* A table in which the pair p has y more of one resource.
Shifts(tab2, p, q, y) ==
    \A i \in {1, 2} : \A c, t : t \in Quotas =>
        Pile(tab2, Of(Keys, i, c), t) =
            Pile(delegations, Of(Keys, i, c), t) + IF p[i] = c /\ t = q THEN y ELSE 0

\* A step that moves y of a resource from p[1] to p[2], in the records and in
\* the table.
LEMMA MoveStep ==
    ASSUME IInv, NEW p \in Pairs, NEW q \in Quotas, NEW y \in Int, NEW a, a = p[1], NEW b, b = p[2],
           record' \in [Accounts -> Rec], \A c \in Accounts : (c # a /\ c # b) => record'[c] = record[c],
           Gives(record[a], record'[a], q, y), Gets(record[b], record'[b], q, y),
           y > 0 => kind[b] = "plain",
           Table(delegations'), DOMAIN delegations' \subseteq Keys,
           Shifts(delegations', p, q, y),
           pairs' = {<<k[1], k[2]>> : k \in DOMAIN delegations'}, Locks',
           UNCHANGED <<params, addresses, balance, legacy, legacyPairs, weight, time>>, txs' \in 0..MaxTxs
    PROVE  IInv'
<1> USE DEF addresses, time
<1>0. \A i \in {1, 2} : \A c, t : t \in Quotas =>
          Pile(delegations', Of(Keys, i, c), t) =
              Pile(delegations, Of(Keys, i, c), t) + IF p[i] = c /\ t = q THEN y ELSE 0
  BY DEF Shifts
<1>1. a \in Owners /\ a \in Accounts /\ b \in Accounts /\ a # b
  BY KeysFinite
<1>2. \A c \in Accounts : record[c] \in Rec /\ record'[c] \in Rec
  BY Types DEF IInv
<1>3. \A c \in Accounts, s \in Stakes :
         Own(record'[c], s) = Own(record[c], s) /\ Weighs(record'[c], s) = Weighs(record[c], s)
  <2> SUFFICES ASSUME NEW c \in Accounts
               PROVE  \A s \in Stakes : Own(record'[c], s) = Own(record[c], s) /\ Weighs(record'[c], s) = Weighs(record[c], s)
    OBVIOUS
  <2>1. CASE c = a
    BY <1>2, <2>1, GivesSame
  <2>2. CASE c = b
    BY <1>2, <2>2, GetsSame
  <2>3. CASE c # a /\ c # b
    BY <2>3
  <2> QED
    BY <2>1, <2>2, <2>3
<1>4. \A c \in Accounts : /\ record'[c].unfrozenV2 = record[c].unfrozenV2
                          /\ record'[c].oldTronPower = record[c].oldTronPower
                          /\ record'[c].frozenLegacy = record[c].frozenLegacy
                          /\ record'[c].delegatedLegacyOut = record[c].delegatedLegacyOut
                          /\ record'[c].acquiredLegacy = record[c].acquiredLegacy
  BY DEF Gives, Gets
<1>5. Typed'
  <2>1. pairs' \subseteq Pairs
    BY KeysFinite
  <2>2. Table(legacy)'
    BY DEF IInv, Typed, Table
  <2> QED
    BY <2>1, <2>2 DEF IInv, Typed, Table
<1>6. Backed'
  <2> SUFFICES ASSUME NEW c \in Accounts PROVE Solvent(c, record[c], Purse(c))'
    BY DEF Backed
  <2>1. Purse(c)' = Purse(c) /\ Solvent(c, record[c], Purse(c))
    BY DEF Purse, IInv, Backed
  <2>2. c \notin Owners => Idle(record'[c])
    <3>1. c \notin Owners => /\ Idle(record[c]) /\ record'[c].frozenV2 = record[c].frozenV2
                             /\ record'[c].delegatedOut = record[c].delegatedOut
      BY <1>1, <2>1 DEF Solvent, Gets
    <3> QED
      BY <1>4, <3>1 DEF Idle
  <2> DEFINE r == record[c]
             r2 == record'[c]
             x == Purse(c)
  <2>3. r \in Rec /\ r2 \in Rec /\ Solvent(c, r, x) /\ (\A s \in Stakes : Own(r2, s) = Own(r, s))
        /\ r2.unfrozenV2 = r.unfrozenV2 /\ r2.oldTronPower = r.oldTronPower /\ (c \notin Owners => Idle(r2))
    BY <1>2, <1>3, <1>4, <2>1, <2>2
  <2> HIDE DEF r, r2, x
  <2>4. Solvent(c, r2, x)
    BY <2>3, SolventSame
  <2> QED
    BY <2>1, <2>4 DEF Solvent, Carry, Idle, r2, x
<1>7. Weighed'
  <2> SUFFICES ASSUME (StakeV2 \/ lost = {})', NEW s \in Stakes PROVE weight'[s] = Weigh(record', s)
    BY DEF Weighed, Weigh
  <2>1. weight[s] = Weigh(record, s)
    BY DEF IInv, Weighed, StakeV2
  <2> DEFINE R == record
             R2 == record'
  <2>2. \A c \in Accounts : Weighs(R2[c], s) = Weighs(R[c], s)
    BY <1>3
  <2> HIDE DEF R, R2
  <2>3. Weigh(R2, s) = Weigh(R, s)
    BY <2>2, WeighSame
  <2> QED
    BY <2>1, <2>3 DEF R, R2
<1>8. BookV1'
  <2>1. ASSUME NEW c \in Owners, NEW t \in Quotas
        PROVE  record'[c].delegatedLegacyOut[t] = Pile(legacy', Of(Pairs, 1, c), t)
    <3>1. c \in Accounts
      BY Finite
    <3> QED
      BY <1>4, <3>1 DEF IInv, BookV1
  <2>2. ASSUME NEW c \in Accounts, NEW t \in Quotas
        PROVE  Owed(c, record[c].acquiredLegacy[t], Pile(legacy, Of(Pairs, 2, c), t))'
    BY <1>4 DEF IInv, BookV1, Owed
  <2>3. legacyPairs' = DOMAIN legacy'
    BY DEF IInv, BookV1
  <2> QED
    BY <2>1, <2>2, <2>3 DEF BookV1
<1>9. BookV2'
  <2>1. ASSUME NEW c \in Owners, NEW t \in Quotas
        PROVE  record'[c].delegatedOut[t] = Pile(delegations', Of(Keys, 1, c), t)
    <3>1. record[c].delegatedOut[t] = Pile(delegations, Of(Keys, 1, c), t) /\ c \in Accounts
      BY Finite DEF IInv, BookV2
    <3>2. record[c].delegatedOut[t] \in Nat
      BY <1>2, <3>1 DEF Rec
    <3>3. Pile(delegations', Of(Keys, 1, c), t) =
              Pile(delegations, Of(Keys, 1, c), t) + IF p[1] = c /\ t = q THEN y ELSE 0
      BY <1>0
    <3>4. record'[c].delegatedOut[t] = record[c].delegatedOut[t] + IF c = a /\ t = q THEN y ELSE 0
      <4>1. CASE c = a
        BY <3>2, <4>1 DEF Gives
      <4>2. CASE c # a
        BY <3>1, <3>2, <4>2 DEF Gets
      <4> QED
        BY <4>1, <4>2
    <3> QED
      BY <3>1, <3>3, <3>4
  <2>2. ASSUME NEW c \in Accounts, NEW t \in Quotas
        PROVE  Owed(c, record[c].acquired[t], Pile(delegations, Of(Keys, 2, c), t))'
    <3> DEFINE g == record[c].acquired[t]
               g2 == record'[c].acquired[t]
               d == Pile(delegations, Of(Keys, 2, c), t)
               d2 == Pile(delegations', Of(Keys, 2, c), t)
               v == IF c = b /\ t = q THEN y ELSE 0
    <3>1. Owed(c, g, d) /\ g \in Nat
      BY <1>2 DEF IInv, BookV2, Rec
    <3>2. d \in Nat
      BY PileNat DEF IInv, Typed
    <3>3. d2 \in Nat
      <4> DEFINE D2 == delegations'
      <4>1. Table(D2)
        OBVIOUS
      <4> HIDE DEF D2
      <4>2. Pile(D2, Of(Keys, 2, c), t) \in Nat
        BY <4>1, PileNat
      <4> QED
        BY <4>2 DEF D2
    <3>4. d2 = d + v
      BY <1>0
    <3>5. g2 = IF g + v < 0 THEN 0 ELSE g + v
      <4>1. CASE c = b /\ t = q
        BY <4>1 DEF Gets
      <4>2. CASE c = b /\ t # q
        BY <3>1, <4>2 DEF Gets
      <4>3. CASE c # b
        BY <3>1, <4>3 DEF Gives
      <4> QED
        BY <4>1, <4>2, <4>3
    <3>6. v \in Int
      OBVIOUS
    <3> HIDE DEF g, d, g2, d2, v
    <3>7. Owed(c, g2, d2)
      BY <3>1, <3>2, <3>3, <3>4, <3>5, <3>6, OwedMoves
    <3> QED
      BY <3>7 DEF g2, d2, Owed
  <2> QED
    BY <2>1, <2>2 DEF BookV2
<1>10. Kinds'
  <2> SUFFICES ASSUME NEW c \in Accounts
               PROVE  /\ kind[c] # "plain" => c \in lost
                      /\ kind[c] = "none" => \A t \in Quotas : /\ record'[c].acquired[t] = 0
                                                               /\ record'[c].acquiredLegacy[t] = 0
    BY DEF Kinds
  <2>1. /\ kind[c] # "plain" => c \in lost
        /\ kind[c] = "none" => \A t \in Quotas : record[c].acquired[t] = 0 /\ record[c].acquiredLegacy[t] = 0
    BY DEF IInv, Kinds
  <2>2. ASSUME kind[c] = "none", NEW t \in Quotas PROVE record'[c].acquired[t] = 0
    <3>1. CASE c = b /\ t = q
      BY <2>1, <2>2, <3>1 DEF Gets
    <3>2. CASE c = b /\ t # q
      BY <2>1, <2>2, <3>2 DEF Gets
    <3>3. CASE c # b
      BY <2>1, <2>2, <3>3 DEF Gives
    <3> QED
      BY <3>1, <3>2, <3>3
  <2> QED
    BY <1>4, <2>1, <2>2
<1>11. NoLegacy'
  BY <1>4 DEF IInv, NoLegacy, StakeV2
<1> QED
  BY <1>5, <1>6, <1>7, <1>8, <1>9, <1>10, <1>11 DEF IInv

\* The least and the greatest of two amounts.
LEMMA TwoOf ==
    ASSUME NEW m \in Int, NEW n \in Int
    PROVE  /\ Min({m, n}) = IF m <= n THEN m ELSE n
           /\ Max({m, n}) = IF m >= n THEN m ELSE n
<1>1. ASSUME NEW v, v = Min({m, n}) PROVE v = IF m <= n THEN m ELSE n
  <2>1. \E x \in {m, n} : \A y \in {m, n} : x <= y
    OBVIOUS
  <2>2. v \in {m, n} /\ \A y \in {m, n} : v <= y
    BY <1>1, <2>1 DEF Min
  <2> QED
    BY <2>2
<1>2. ASSUME NEW v, v = Max({m, n}) PROVE v = IF m >= n THEN m ELSE n
  <2>1. \E x \in {m, n} : \A y \in {m, n} : x >= y
    OBVIOUS
  <2>2. v \in {m, n} /\ \A y \in {m, n} : v >= y
    BY <1>2, <2>1 DEF Max
  <2> QED
    BY <2>2
<1> QED
  BY <1>1, <1>2

\* What an account has used is an amount.
LEMMA UsedNat ==
    ASSUME Typed, NEW a \in Accounts, NEW q \in Quotas
    PROVE  Used(a, q) \in Nat
<1>1. record[a].usage[q].used \in Nat /\ record[a].usage[q].last \in Nat /\ clock \in Nat
  <2>1. record[a] \in Rec /\ clock \in Nat
    BY Types
  <2> DEFINE r == record[a]
  <2> HIDE DEF r
  <2>2. r \in Rec => r.usage[q].used \in Nat /\ r.usage[q].last \in Nat
    BY DEF Rec
  <2> QED
    BY <2>1, <2>2 DEF r
<1> QED
  BY <1>1, WindowedNat DEF Used, UsageAt

\* Where the weights are exact they are amounts.
LEMMA WeightNat ==
    ASSUME Typed, Weighed, StakeV2, NEW s \in Stakes
    PROVE  weight[s] \in Nat
<1> DEFINE f == [a \in Accounts |-> Weighs(record[a], s)]
<1>1. ASSUME NEW a \in Accounts PROVE Weighs(record[a], s) \in Nat
  <2> DEFINE r == record[a]
             w == WeightWithDelegated(r, s)
             l == r.frozenLegacy[s].amount
             c == IF s \in Quotas THEN Floor(r.acquiredLegacy[s]) ELSE 0
  <2>1. r \in Rec
    BY Types
  <2> HIDE DEF r
  <2>2. w \in Nat /\ l \in Nat
    BY <2>1, WeighsInt
  <2>3. \A n \in Nat : Floor(n) \in Nat
    BY ResourcesAssumption, Divides DEF Floor
  <2>4. c \in Nat
    <3>1. s \in Quotas => r.acquiredLegacy[s] \in Nat
      BY <2>1 DEF Rec
    <3> QED
      BY <2>3, <3>1
  <2>5. Floor(w) \in Nat /\ Floor(l) \in Nat
    BY <2>2, <2>3
  <2>6. Weighs(r, s) = Floor(w) + Floor(l) + c
    BY DEF Weighs
  <2> HIDE DEF w, l, c
  <2>7. Weighs(r, s) \in Nat
    BY <2>4, <2>5, <2>6
  <2> QED
    BY <2>7 DEF r
<1>2. DOMAIN f = Accounts /\ \A a \in Accounts : f[a] \in Nat
  BY <1>1
<1> HIDE DEF f
<1>3. LedgerOf(f)
  BY <1>2, Finite, LedgerOver
<1>4. Total(f) \in Nat
  BY <1>2, <1>3, TotalNat
<1> QED
  BY <1>4 DEF Weighed, Weigh, f

\* The usage that leaves with a delegation that is taken back, and what stays.
LEMMA TransferIs ==
    ASSUME Typed, Weighed, StakeV2, NEW b \in Accounts, NEW x \in Nat, NEW q \in Quotas
    PROVE  /\ TransferUsage(b, x, q) \in Nat /\ LeftBehind(b, x, q) \in Nat
           /\ LeftBehind(b, x, q) >= Used(b, q) - TransferUsage(b, x, q)
<1> DEFINE w == weight[q]
           u == Used(b, q)
           max == IF w = 0 THEN 0 ELSE (x * Limit) \div (Trx * w)
           all == record[b].frozenV2[q] + record[b].acquired[q]
           share == IF all = 0 THEN 0 ELSE (u * x) \div all
           t == TransferUsage(b, x, q)
<1>1. w \in Nat /\ u \in Nat /\ Trx \in Nat \ {0} /\ Limit \in Nat
  BY Finite, WeightNat, UsedNat, ResourcesAssumption
<1>2. all \in Nat
  <2> DEFINE r == record[b]
  <2>1. r \in Rec
    BY Types
  <2> HIDE DEF r
  <2>2. r.frozenV2[q] \in Nat /\ r.acquired[q] \in Nat
    BY <2>1, Finite DEF Rec
  <2> QED
    BY <2>2 DEF r
<1>3. t = IF record[b].acquired[q] < x THEN 0 ELSE Min({max, share})
  BY DEF TransferUsage
<1> HIDE DEF w, u, all
<1>4. max \in Nat
  <2>1. x * Limit \in Nat
    BY <1>1, Product
  <2>2. w # 0 => Trx * w \in Nat \ {0}
    <3>1. Trx * w \in Nat
      BY <1>1, Product
    <3>2. w # 0 => Trx * w # 0
      BY <1>1
    <3> QED
      BY <3>1, <3>2
  <2> QED
    BY <2>1, <2>2, Divides
<1>5. share \in Nat
  <2>1. u * x \in Nat
    BY <1>1, Product
  <2> QED
    BY <1>2, <2>1, Divides
<1> HIDE DEF max, share
<1>6. Min({max, share}) \in Nat
  BY <1>4, <1>5, TwoOf
<1>7. t \in Nat
  BY <1>3, <1>6
<1>8. LeftBehind(b, x, q) = Max({0, u - t})
  BY DEF LeftBehind, u
<1> HIDE DEF t
<1>9. u - t \in Int
  BY <1>1, <1>7
<1>10. Max({0, u - t}) = IF 0 >= u - t THEN 0 ELSE u - t
  <2> DEFINE m == 0
             n == u - t
  <2>1. m \in Int /\ n \in Int
    BY <1>9
  <2> HIDE DEF m, n
  <2>2. Max({m, n}) = IF m >= n THEN m ELSE n
    BY <2>1, TwoOf
  <2> QED
    BY <2>2 DEF m, n
<1>11. Max({0, u - t}) \in Nat /\ Max({0, u - t}) >= u - t
  BY <1>9, <1>10
<1> QED
  BY <1>7, <1>8, <1>11 DEF t, u

\* What the table's piles are once an entry of the pair has changed by y.
LEMMA TableMoves ==
    ASSUME Typed, NEW p \in Pairs, NEW L, L = <<p[1], p[2], TRUE>>, NEW F, F = <<p[1], p[2], FALSE>>,
           NEW U, U = Unlocked(p), NEW key \in {L, F}, NEW D2, Table(D2), But(U, D2, key),
           NEW q \in Quotas, NEW y \in Int,
           \A t \in Quotas : Get(D2, key).amount[t] = Get(U, key).amount[t] + IF t = q THEN y ELSE 0
    PROVE  Shifts(D2, p, q, y)
<1> SUFFICES ASSUME NEW i \in {1, 2}, NEW c, NEW t \in Quotas
             PROVE  Pile(D2, Of(Keys, i, c), t) =
                        Pile(delegations, Of(Keys, i, c), t) + IF p[i] = c /\ t = q THEN y ELSE 0
  BY DEF Shifts
<1> DEFINE S == Of(Keys, i, c)
<1>1. Table(delegations) /\ DOMAIN delegations \subseteq Keys /\ head \in Nat
  BY Types DEF Typed
<1>0. Joined(U, L, F)
  BY <1>1, UnlockedIs
<1>2. Table(U) /\ \A T, v : (v \in Quotas /\ (L \in T <=> F \in T)) => Pile(U, T, v) = Pile(delegations, T, v)
  BY <1>0 DEF Joined
<1>3. L \in Keys /\ F \in Keys /\ L[i] = p[i] /\ F[i] = p[i]
  <2>1. L \in Keys /\ F \in Keys
    BY KeysFinite
  <2>2. L[1] = p[1] /\ F[1] = p[1] /\ L[2] = p[2] /\ F[2] = p[2]
    OBVIOUS
  <2>3. i = 1 \/ i = 2
    OBVIOUS
  <2> QED
    BY <2>1, <2>2, <2>3
<1>4. (L \in S <=> p[i] = c) /\ (F \in S <=> p[i] = c)
  BY <1>3 DEF Of
<1> HIDE DEF S
<1>5. Pile(U, S, t) = Pile(delegations, S, t)
  BY <1>2, <1>4
<1>6. Pile(D2, S, t) = Pile(U, S, t) + IF key \in S THEN Get(D2, key).amount[t] - Get(U, key).amount[t] ELSE 0
  BY <1>2, PileMoves
<1>7. key \in S <=> p[i] = c
  BY <1>4
<1>8. Get(U, key).amount[t] \in Nat /\ Get(D2, key).amount[t] = Get(U, key).amount[t] + IF t = q THEN y ELSE 0
  BY <1>2, GetEntry
<1>9. Get(D2, key).amount[t] - Get(U, key).amount[t] = IF t = q THEN y ELSE 0
  <2> DEFINE n == Get(U, key).amount[t]
  <2>1. n \in Nat /\ Get(D2, key).amount[t] = n + IF t = q THEN y ELSE 0
    BY <1>8
  <2> HIDE DEF n
  <2>2. Get(D2, key).amount[t] - n = IF t = q THEN y ELSE 0
    BY <2>1
  <2> QED
    BY <2>2 DEF n
<1> QED
  BY <1>5, <1>6, <1>7, <1>9 DEF S

\* Expired locks that are joined leave the index and the other locks alone.
LEMMA UnlockedKeeps ==
    ASSUME Typed, Locks, NEW p \in Pairs, NEW L, L = <<p[1], p[2], TRUE>>, NEW F, F = <<p[1], p[2], FALSE>>,
           NEW U, U = Unlocked(p)
    PROVE  /\ {<<k[1], k[2]>> : k \in DOMAIN U} = {<<k[1], k[2]>> : k \in DOMAIN delegations}
           /\ ~LongLocks => \A k \in DOMAIN U, t \in Quotas : k[3] => U[k].expire[t] <= head + DefaultLock
<1>1. Table(delegations) /\ DOMAIN delegations \subseteq Keys /\ head \in Nat /\ DefaultLock \in Nat
  BY Types, ResourcesAssumption DEF Typed
<1>2. /\ Table(U)
      /\ \A k : (k # L /\ k # F) => (k \in DOMAIN U <=> k \in DOMAIN delegations)
      /\ \A k \in DOMAIN delegations : (k # L /\ k # F) => U[k] = delegations[k]
      /\ L \in DOMAIN U => /\ L \in DOMAIN delegations
                           /\ \A q \in Quotas : U[L].expire[q] <= delegations[L].expire[q]
      /\ L \in DOMAIN delegations \/ F \in DOMAIN delegations <=> L \in DOMAIN U \/ F \in DOMAIN U
  <2>1. Joined(U, L, F)
    BY <1>1, UnlockedIs
  <2> QED
    BY <2>1, Zenon DEF Joined
<1>3. L[1] = p[1] /\ L[2] = p[2] /\ F[1] = p[1] /\ F[2] = p[2] /\ L[3] = TRUE /\ F[3] = FALSE
  OBVIOUS
<1>4. {<<k[1], k[2]>> : k \in DOMAIN U} = {<<k[1], k[2]>> : k \in DOMAIN delegations}
  <2>1. ASSUME NEW k \in DOMAIN U PROVE \E j \in DOMAIN delegations : <<j[1], j[2]>> = <<k[1], k[2]>>
    BY <1>2, <1>3
  <2>2. ASSUME NEW k \in DOMAIN delegations PROVE \E j \in DOMAIN U : <<j[1], j[2]>> = <<k[1], k[2]>>
    BY <1>2, <1>3
  <2> QED
    BY <2>1, <2>2
<1>5. ASSUME ~LongLocks, NEW k \in DOMAIN U, NEW t \in Quotas, k[3] PROVE U[k].expire[t] <= head + DefaultLock
  <2>1. k # F
    BY <1>3, <1>5
  <2>2. CASE k = L
    <3>1. L \in DOMAIN delegations /\ U[L].expire[t] <= delegations[L].expire[t]
      BY <1>2, <1>5, <2>2
    <3>2. delegations[L].expire[t] <= head + DefaultLock
      BY <1>3, <1>5, <3>1 DEF Locks
    <3>3. U[L].expire[t] \in Nat /\ delegations[L].expire[t] \in Nat
      BY <1>1, <1>2, <1>5, <2>2, <3>1 DEF Table, Entry
    <3> QED
      BY <1>1, <2>2, <3>1, <3>2, <3>3
  <2>3. CASE k # L
    <3>1. k \in DOMAIN delegations /\ U[k] = delegations[k]
      BY <1>2, <1>5, <2>1, <2>3
    <3> QED
      BY <1>5, <3>1 DEF Locks
  <2> QED
    BY <2>2, <2>3
<1> QED
  BY <1>4, <1>5

\* What is delegated is at most what is frozen.
LEMMA DelegatableIs ==
    ASSUME Typed, NEW a \in Accounts, NEW q \in Quotas, NEW x \in Nat, x <= DelegatableSun(a, q)
    PROVE  x <= record[a].frozenV2[q]
<1> DEFINE w == weight[q]
           u == Used(a, q)
           v == UsageAsSun(u, q)
           g == record[a].acquired[q]
           f == record[a].frozenV2[q]
           o == v - g
<1>1. w \in Int /\ u \in Nat /\ Trx \in Nat \ {0} /\ Limit \in Nat \ {0}
  BY Finite, Types, UsedNat, ResourcesAssumption
<1>2. g \in Nat /\ f \in Nat
  <2> DEFINE r == record[a]
  <2>1. r \in Rec
    BY Types
  <2> HIDE DEF r
  <2>2. r.frozenV2[q] \in Nat /\ r.acquired[q] \in Nat
    BY <2>1, Finite DEF Rec
  <2> QED
    BY <2>2 DEF r
<1>3. DelegatableSun(a, q) = f - IF o > 0 THEN o ELSE 0
  BY DEF DelegatableSun
<1>4. v = IF w = 0 \/ u <= 0 THEN 0 ELSE (u * Trx * w) \div Limit
  BY DEF UsageAsSun
<1> HIDE DEF w, u, v, g, f
<1>5. v \in Int
  <2>1. u * Trx * w \in Int
    <3>1. u * Trx \in Int
      BY <1>1
    <3> QED
      BY <1>1, <3>1
  <2> DEFINE m == u * Trx * w
  <2> HIDE DEF m
  <2>2. m \in Int => m \div Limit \in Int
    BY <1>1
  <2> QED
    BY <1>4, <2>1, <2>2 DEF m
<1>6. o \in Int
  BY <1>2, <1>5
<1> HIDE DEF o
<1> QED
  BY <1>2, <1>3, <1>6 DEF f

\* A delegation.
LEMMA DelegateStep ==
    ASSUME IInv, NEW p \in Pairs, NEW x \in Amounts, NEW q \in Quotas, NEW lock \in BOOLEAN, NEW stated \in Periods,
           DelegateResource(p, x, q, lock, stated), txs' \in 0..MaxTxs
    PROVE  IInv'
<1> DEFINE a == p[1]
           b == p[2]
           L == <<a, b, TRUE>>
           F == <<a, b, FALSE>>
           key == <<a, b, lock>>
           U == Unlocked(p)
           period == LockPeriod(stated)
           held == Get(U, key)
           A == [held.amount EXCEPT ![q] = @ + x]
           E == [held.expire EXCEPT ![q] = IF lock THEN head + period ELSE @]
           e == [held EXCEPT !.amount = A, !.expire = E]
           ra == [record[a] EXCEPT !.frozenV2 = [record[a].frozenV2 EXCEPT ![q] = @ - x],
                                   !.delegatedOut = [record[a].delegatedOut EXCEPT ![q] = @ + x]]
           rb == [record[b] EXCEPT !.acquired = [record[b].acquired EXCEPT ![q] = @ + x]]
<1>1. a \in Owners /\ a \in Accounts /\ b \in Accounts /\ a # b /\ q \in Stakes
  BY KeysFinite, Finite
<1>2. x \in Nat /\ x <= record[a].frozenV2[q] /\ kind[b] = "plain"
  <2>1. x \in Nat /\ x <= DelegatableSun(a, q) /\ kind[b] = "plain"
    BY ResourcesAssumption DEF DelegateResource, CanDelegate
  <2> QED
    BY <1>1, <2>1, DelegatableIs DEF IInv
<1>3. /\ delegations' = With(U, key, e) /\ pairs' = pairs \cup {p}
      /\ record' = [record EXCEPT ![a].frozenV2[q] = @ - x, ![a].delegatedOut[q] = @ + x, ![b].acquired[q] = @ + x]
      /\ UNCHANGED <<params, addresses, balance, legacy, legacyPairs, weight, time>>
  BY DEF DelegateResource
<1>4. record \in [Accounts -> Rec] /\ record[a] \in Rec /\ record[b] \in Rec
  BY <1>1 DEF IInv, Typed
<1>5. record'[a] = ra /\ record'[b] = rb /\ (\A c \in Accounts : (c # a /\ c # b) => record'[c] = record[c])
      /\ DOMAIN record' = Accounts /\ record' = [c \in Accounts |-> record'[c]]
  BY <1>1, <1>3, <1>4
<1>6. ra \in Rec /\ Gives(record[a], ra, q, x)
  <2> DEFINE r == record[a]
             G == [r.frozenV2 EXCEPT ![q] = @ - x]
             D == [r.delegatedOut EXCEPT ![q] = @ + x]
             r2 == [r EXCEPT !.frozenV2 = G, !.delegatedOut = D]
  <2>1. r \in Rec /\ x <= r.frozenV2[q]
    BY <1>2, <1>4
  <2> HIDE DEF r
  <2>2. r.frozenV2 \in [Stakes -> Nat] /\ r.delegatedOut \in [Quotas -> Nat]
    BY <2>1 DEF Rec
  <2>3. r.frozenV2[q] - x \in Nat /\ r.delegatedOut[q] + x \in Nat
    BY <1>1, <1>2, <2>1, <2>2
  <2>4. G \in [Stakes -> Nat] /\ G[q] = r.frozenV2[q] - x /\ \A t \in Stakes \ {q} : G[t] = r.frozenV2[t]
    BY <1>1, <2>2, <2>3
  <2>5. D \in [Quotas -> Nat] /\ D[q] = r.delegatedOut[q] + x /\ \A t \in Quotas \ {q} : D[t] = r.delegatedOut[t]
    BY <2>2, <2>3
  <2> HIDE DEF G, D
  <2>6. r2 \in Rec
    BY <2>1, <2>4, <2>5 DEF Rec
  <2>7. Gives(r, r2, q, x)
    BY <2>1, <2>4, <2>5 DEF Rec, Gives
  <2> QED
    BY <2>6, <2>7 DEF r, G, D
<1>7. rb \in Rec /\ Gets(record[b], rb, q, x)
  <2> DEFINE r == record[b]
             G == [r.acquired EXCEPT ![q] = @ + x]
             r2 == [r EXCEPT !.acquired = G]
  <2>1. r \in Rec
    BY <1>4
  <2> HIDE DEF r
  <2>2. r.acquired \in [Quotas -> Nat] /\ r.acquired[q] + x \in Nat
    BY <1>2, <2>1 DEF Rec
  <2>3. G \in [Quotas -> Nat] /\ G[q] = r.acquired[q] + x /\ \A t \in Quotas \ {q} : G[t] = r.acquired[t]
    BY <2>2
  <2>4. G[q] = IF r.acquired[q] + x < 0 THEN 0 ELSE r.acquired[q] + x
    BY <2>2, <2>3
  <2> HIDE DEF G
  <2>5. r2 \in Rec
    BY <2>1, <2>3 DEF Rec
  <2>6. Gets(r, r2, q, x)
    BY <2>1, <2>3, <2>4 DEF Rec, Gets
  <2> QED
    BY <2>5, <2>6 DEF r, G
<1> HIDE DEF ra, rb
<1>8. record' \in [Accounts -> Rec]
  <2>1. \A c \in Accounts : record'[c] \in Rec
    BY <1>4, <1>5, <1>6, <1>7
  <2> QED
    BY <1>5, <2>1
<1>9. Typed /\ Locks /\ head \in Nat /\ Table(delegations) /\ DOMAIN delegations \subseteq Keys /\ DefaultLock \in Nat
  BY Types, ResourcesAssumption DEF IInv, Typed
<1>10. Joined(U, L, F)
  BY <1>9, UnlockedIs
<1>11. /\ {<<k[1], k[2]>> : k \in DOMAIN U} = {<<k[1], k[2]>> : k \in DOMAIN delegations}
       /\ ~LongLocks => \A k \in DOMAIN U, t \in Quotas : k[3] => U[k].expire[t] <= head + DefaultLock
  BY <1>9, UnlockedKeeps
<1>12. Table(U) /\ DOMAIN U \subseteq Keys /\ L \in Keys /\ F \in Keys /\ key \in Keys /\ key \in {L, F}
  BY <1>10, KeysFinite DEF Joined
<1>13. key[1] = a /\ key[2] = b /\ key[3] = lock /\ p = <<a, b>>
  BY KeysFinite
<1> HIDE DEF U, key, L, F
<1>14. held \in Entry /\ period \in Nat /\ (~LongLocks => period = DefaultLock)
  <2>1. held \in Entry
    BY <1>12, GetEntry
  <2>2. period \in Nat /\ (~LongLocks => period = DefaultLock)
    BY <1>9, ResourcesAssumption DEF LockPeriod
  <2> QED
    BY <2>1, <2>2
<1> HIDE DEF held, period
<1>15. held.amount \in [Quotas -> Nat] /\ held.expire \in [Quotas -> Nat]
  BY <1>14 DEF Entry
<1>16. A \in [Quotas -> Nat] /\ \A t \in Quotas : A[t] = held.amount[t] + IF t = q THEN x ELSE 0
  BY <1>2, <1>15
<1>17. E \in [Quotas -> Nat] /\ \A t \in Quotas : E[t] = IF t = q /\ lock THEN head + period ELSE held.expire[t]
  <2>1. head + period \in Nat
    BY <1>9, <1>14
  <2> QED
    BY <1>15, <2>1
<1> HIDE DEF A, E
<1>18. e \in Entry /\ e.amount = A /\ e.expire = E
  BY <1>14, <1>16, <1>17 DEF Entry
<1> HIDE DEF e
<1>19. /\ Table(With(U, key, e)) /\ But(U, With(U, key, e), key) /\ Get(With(U, key, e), key) = e
       /\ DOMAIN With(U, key, e) = DOMAIN U \cup {key} /\ With(U, key, e)[key] = e
  <2>1. /\ Table(With(U, key, e)) /\ But(U, With(U, key, e), key) /\ Get(With(U, key, e), key) = e
        /\ DOMAIN With(U, key, e) = DOMAIN U \cup {key}
    BY <1>12, <1>18, SetIs
  <2> QED
    BY <2>1 DEF With
<1> DEFINE D2 == With(U, key, e)
<1>20. D2 = delegations'
  BY <1>3
<1> HIDE DEF D2
<1>21. Table(D2) /\ But(U, D2, key) /\ Get(D2, key) = e /\ DOMAIN D2 = DOMAIN U \cup {key} /\ D2[key] = e
  BY <1>19 DEF D2
<1>22. Shifts(D2, p, q, x)
  <2>1. \A t \in Quotas : Get(D2, key).amount[t] = Get(U, key).amount[t] + IF t = q THEN x ELSE 0
    BY <1>16, <1>18, <1>21 DEF held
  <2>2. x \in Int /\ U = Unlocked(p) /\ L = <<p[1], p[2], TRUE>> /\ F = <<p[1], p[2], FALSE>>
    BY <1>2 DEF U, L, F
  <2> QED
    BY <1>9, <1>12, <1>21, <2>1, <2>2, TableMoves
<1>23. pairs' = {<<k[1], k[2]>> : k \in DOMAIN D2}
  <2>1. pairs = {<<k[1], k[2]>> : k \in DOMAIN U}
    BY <1>11 DEF IInv, BookV2
  <2>2. {<<k[1], k[2]>> : k \in DOMAIN U \cup {key}} = {<<k[1], k[2]>> : k \in DOMAIN U} \cup {<<key[1], key[2]>>}
    OBVIOUS
  <2> QED
    BY <1>3, <1>13, <1>21, <2>1, <2>2
<1>24. ASSUME ~LongLocks, NEW k \in DOMAIN D2, NEW t \in Quotas, k[3] PROVE D2[k].expire[t] <= head + DefaultLock
  <2>1. CASE k = key
    <3>1. D2[k].expire[t] = IF t = q /\ lock THEN head + period ELSE held.expire[t]
      BY <1>17, <1>18, <1>21, <2>1
    <3>2. held.expire[t] <= head + DefaultLock
      <4>1. CASE key \in DOMAIN U
        <5>1. held = U[key]
          BY <4>1 DEF held, Get
        <5> QED
          BY <1>11, <1>24, <2>1, <4>1, <5>1
      <4>2. CASE key \notin DOMAIN U
        <5>1. held.expire[t] = 0
          BY <4>2 DEF held, Get, NoEntry, Zero
        <5> QED
          BY <1>9, <5>1
      <4> QED
        BY <4>1, <4>2
    <3>3. lock => head + period <= head + DefaultLock
      BY <1>9, <1>14, <1>24
    <3> QED
      BY <3>1, <3>2, <3>3
  <2>2. CASE k # key
    <3>1. k \in DOMAIN U /\ D2[k] = U[k]
      BY <1>21, <2>2 DEF But
    <3> QED
      BY <1>11, <1>24, <3>1
  <2> QED
    BY <2>1, <2>2
<1>25. Locks'
  <2>1. head' = head /\ params' = params
    BY <1>3 DEF time
  <2>2. LongLocks' = LongLocks
    BY <2>1 DEF LongLocks, StakeV2
  <2> QED
    BY <1>20, <1>24, <2>1, <2>2 DEF Locks
<1>26. DOMAIN D2 \subseteq Keys /\ x \in Int
  BY <1>2, <1>12, <1>21
<1> QED
  BY <1>2, <1>3, <1>5, <1>6, <1>7, <1>8, <1>20, <1>21, <1>22, <1>23, <1>25, <1>26, MoveStep
\* What can be taken back is in the unlocked entry once expired locks have joined.
LEMMA AvailableIs ==
    ASSUME Typed, NEW p \in Pairs, NEW q \in Quotas, NEW x \in Nat, x <= Available(p, q),
           NEW L, L = <<p[1], p[2], TRUE>>, NEW F, F = <<p[1], p[2], FALSE>>, NEW U, U = Unlocked(p)
    PROVE  x <= Get(U, F).amount[q]
<1> DEFINE l == Get(delegations, L).amount[q]
           f == Get(delegations, F).amount[q]
           e == Get(delegations, L).expire[q]
           g == Get(U, F).amount[q]
           k == Get(U, L).amount[q]
<1>1. Table(delegations) /\ DOMAIN delegations \subseteq Keys /\ head \in Nat
  BY Types DEF Typed
<1>2. Joined(U, L, F)
  BY <1>1, UnlockedIs
<1>3. l \in Nat /\ f \in Nat /\ e \in Nat
  BY <1>1, GetEntry
<1>4. (k = IF e <= head THEN 0 ELSE l) /\ g = f + (l - k)
  BY <1>2 DEF Joined
<1>5. Available(p, q) = f + IF e < head THEN l ELSE 0
  BY DEF Available
<1> HIDE DEF l, f, e, g, k
<1>6. x <= g
  BY <1>1, <1>3, <1>4, <1>5
<1> QED
  BY <1>6 DEF g

\* The fields that a delegation which is taken back changes, in the records of
\* both accounts, of its owner and of its receiver.
TakenBack(R, a, b, q, g, u, f, d, v) ==
    [R EXCEPT ![b].acquired[q] = g, ![b].usage[q] = u,
              ![a].frozenV2[q] = f, ![a].delegatedOut[q] = d, ![a].usage[q] = v]
Giver(r, q, f, d, v) ==
    [r EXCEPT !.frozenV2 = [r.frozenV2 EXCEPT ![q] = f],
              !.delegatedOut = [r.delegatedOut EXCEPT ![q] = d],
              !.usage = [r.usage EXCEPT ![q] = v]]
Taker(r, q, g, u) ==
    [r EXCEPT !.acquired = [r.acquired EXCEPT ![q] = g], !.usage = [r.usage EXCEPT ![q] = u]]

\* Two records of which those fields change.
LEMMA TwoRecords ==
    ASSUME NEW R, NEW R2, NEW a \in Accounts, NEW b \in Accounts, a # b, NEW q \in Quotas, R \in [Accounts -> Rec],
           NEW g, NEW u, NEW f, NEW d, NEW v, R2 = TakenBack(R, a, b, q, g, u, f, d, v)
    PROVE  /\ R2[a] = Giver(R[a], q, f, d, v) /\ R2[b] = Taker(R[b], q, g, u)
           /\ (\A c \in Accounts : (c # a /\ c # b) => R2[c] = R[c])
           /\ DOMAIN R2 = Accounts /\ R2 = [c \in Accounts |-> R2[c]]
<1> DEFINE B1 == [R[b] EXCEPT !.acquired[q] = g]
           R3 == [R EXCEPT ![b].acquired[q] = g]
           B2 == [B1 EXCEPT !.usage[q] = u]
           R4 == [R3 EXCEPT ![b].usage[q] = u]
           A1 == [R[a] EXCEPT !.frozenV2[q] = f]
           R5 == [R4 EXCEPT ![a].frozenV2[q] = f]
           A2 == [A1 EXCEPT !.delegatedOut[q] = d]
           R6 == [R5 EXCEPT ![a].delegatedOut[q] = d]
           A3 == [A2 EXCEPT !.usage[q] = v]
           R7 == [R6 EXCEPT ![a].usage[q] = v]
<1>0. R2 = R7
  BY DEF TakenBack
<1>1. DOMAIN R = Accounts
  OBVIOUS
<1>2. DOMAIN R3 = Accounts /\ R3[b] = B1 /\ (\A c \in Accounts \ {b} : R3[c] = R[c])
  BY <1>1
<1> HIDE DEF R3
<1>3. DOMAIN R4 = Accounts /\ R4[b] = B2 /\ (\A c \in Accounts \ {b} : R4[c] = R[c])
  BY <1>2
<1> HIDE DEF R4
<1>4. DOMAIN R5 = Accounts /\ R5[b] = B2 /\ R5[a] = A1 /\ (\A c \in Accounts \ {b, a} : R5[c] = R[c])
  BY <1>3
<1> HIDE DEF R5
<1>5. DOMAIN R6 = Accounts /\ R6[b] = B2 /\ R6[a] = A2 /\ (\A c \in Accounts \ {b, a} : R6[c] = R[c])
  BY <1>4
<1> HIDE DEF R6
<1>6. DOMAIN R7 = Accounts /\ R7[b] = B2 /\ R7[a] = A3 /\ (\A c \in Accounts \ {b, a} : R7[c] = R[c])
      /\ R7 = [c \in Accounts |-> R7[c]]
  BY <1>5
<1> HIDE DEF R7
<1>7. B2 = Taker(R[b], q, g, u)
  <2> DEFINE r == R[b]
  <2>1. r \in Rec
    OBVIOUS
  <2> HIDE DEF r
  <2>2. [[r EXCEPT !.acquired[q] = g] EXCEPT !.usage[q] = u] =
            [r EXCEPT !.acquired = [r.acquired EXCEPT ![q] = g], !.usage = [r.usage EXCEPT ![q] = u]]
    BY <2>1 DEF Rec
  <2> QED
    BY <2>2 DEF r, Taker
<1>8. A3 = Giver(R[a], q, f, d, v)
  <2> DEFINE r == R[a]
  <2>1. r \in Rec
    OBVIOUS
  <2> HIDE DEF r
  <2>2. [[[r EXCEPT !.frozenV2[q] = f] EXCEPT !.delegatedOut[q] = d] EXCEPT !.usage[q] = v] =
            [r EXCEPT !.frozenV2 = [r.frozenV2 EXCEPT ![q] = f],
               !.delegatedOut = [r.delegatedOut EXCEPT ![q] = d], !.usage = [r.usage EXCEPT ![q] = v]]
    BY <2>1 DEF Rec
  <2> QED
    BY <2>2 DEF r, Giver
<1> HIDE DEF A3, B2
<1> QED
  BY <1>0, <1>6, <1>7, <1>8

\* A delegation that is taken back.
LEMMA UnDelegateStep ==
    ASSUME IInv, NEW p \in Pairs, NEW x \in Amounts, NEW q \in Quotas, UnDelegateResource(p, x, q),
           txs' \in 0..MaxTxs
    PROVE  IInv'
<1> DEFINE a == p[1]
           b == p[2]
           L == <<a, b, TRUE>>
           F == <<a, b, FALSE>>
           U == Unlocked(p)
           moved == TransferUsage(b, x, q)
           left == LeftBehind(b, x, q)
           free == Get(U, F)
           A == [free.amount EXCEPT ![q] = @ - x]
           e == [free EXCEPT !.amount = A]
           D2 == Put(U, F, e)
           ua == IF moved > 0 THEN Stamped(Used(a, q) + moved) ELSE record[a].usage[q]
           ra == [record[a] EXCEPT !.frozenV2 = [record[a].frozenV2 EXCEPT ![q] = @ + x],
                                   !.delegatedOut = [record[a].delegatedOut EXCEPT ![q] = @ - x],
                                   !.usage = [record[a].usage EXCEPT ![q] = ua]]
           ub == Stamped(left)
           rb == [record[b] EXCEPT !.acquired = [record[b].acquired EXCEPT ![q] = IF @ < x THEN 0 ELSE @ - x],
                                   !.usage = [record[b].usage EXCEPT ![q] = ub]]
           y == 0 - x
<1>1. a \in Owners /\ a \in Accounts /\ b \in Accounts /\ a # b /\ q \in Stakes
  BY KeysFinite, Finite
<1>2. x \in Nat /\ x <= Available(p, q) /\ StakeV2 /\ x > 0
  BY ResourcesAssumption DEF UnDelegateResource, CanUnDelegate
<1>3. /\ delegations' = D2
      /\ pairs' = IF {F, L} \cap DOMAIN D2 = {} THEN pairs \ {p} ELSE pairs
      /\ UNCHANGED <<params, addresses, balance, legacy, legacyPairs, weight, time>>
  BY DEF UnDelegateResource
<1>4. record' = [record EXCEPT
              ![b].acquired[q] = IF @ < x THEN 0 ELSE @ - x, ![b].usage[q] = ub,
              ![a].frozenV2[q] = @ + x, ![a].delegatedOut[q] = @ - x,
              ![a].usage[q] = IF moved > 0 THEN Stamped(Used(a, q) + moved) ELSE @]
  BY DEF UnDelegateResource
<1>5. record \in [Accounts -> Rec] /\ record[a] \in Rec /\ record[b] \in Rec
  BY <1>1 DEF IInv, Typed
<1>6. record'[a] = ra /\ record'[b] = rb /\ (\A c \in Accounts : (c # a /\ c # b) => record'[c] = record[c])
      /\ DOMAIN record' = Accounts /\ record' = [c \in Accounts |-> record'[c]]
  <2> DEFINE g == IF record[b].acquired[q] < x THEN 0 ELSE record[b].acquired[q] - x
             f == record[a].frozenV2[q] + x
             d == record[a].delegatedOut[q] - x
  <2>1. record' = TakenBack(record, a, b, q, g, ub, f, d, ua)
    <3> HIDE DEF moved, left, ub
    <3> QED
      BY <1>1, <1>4, <1>5 DEF TakenBack
  <2>2. ra = Giver(record[a], q, f, d, ua) /\ rb = Taker(record[b], q, g, ub)
    BY DEF Giver, Taker
  <2> HIDE DEF g, f, d, ua, ub, ra, rb, moved, left
  <2> DEFINE R == record
             R2 == record'
  <2>3. R \in [Accounts -> Rec] /\ a \in Accounts /\ b \in Accounts /\ a # b
        /\ R2 = TakenBack(R, a, b, q, g, ub, f, d, ua)
        /\ ra = Giver(R[a], q, f, d, ua) /\ rb = Taker(R[b], q, g, ub)
    BY <1>1, <1>5, <2>1, <2>2
  <2> HIDE DEF R, R2, a, b
  <2>4. R2[a] = Giver(R[a], q, f, d, ua) /\ R2[b] = Taker(R[b], q, g, ub)
    BY <2>3, TwoRecords
  <2>5. \A c \in Accounts : (c # a /\ c # b) => R2[c] = R[c]
    BY <2>3, TwoRecords
  <2>6. DOMAIN R2 = Accounts /\ R2 = [c \in Accounts |-> R2[c]]
    BY <2>3, TwoRecords
  <2> QED
    BY <2>3, <2>4, <2>5, <2>6, Zenon DEF R, R2, a, b
<1>7. Typed /\ Weighed /\ Locks /\ head \in Nat /\ clock \in Nat
      /\ Table(delegations) /\ DOMAIN delegations \subseteq Keys
  BY Types, ResourcesAssumption DEF IInv, Typed
<1>8. moved \in Nat /\ left \in Nat /\ Used(a, q) \in Nat
  BY <1>1, <1>2, <1>7, TransferIs, UsedNat
<1>9. ub \in [used : Nat, last : Nat] /\ ua \in [used : Nat, last : Nat]
  <2>1. \A n \in Nat : Stamped(n) \in [used : Nat, last : Nat]
    BY <1>7 DEF Stamped
  <2>2. record[a].usage[q] \in [used : Nat, last : Nat]
    BY <1>5 DEF Rec
  <2> HIDE DEF moved, left
  <2>3. Used(a, q) + moved \in Nat
    BY <1>8
  <2> QED
    BY <1>8, <2>1, <2>2, <2>3
<1> HIDE DEF ua, ub, moved, left
<1>10. Joined(U, L, F)
  BY <1>7, UnlockedIs
<1>11. /\ {<<k[1], k[2]>> : k \in DOMAIN U} = {<<k[1], k[2]>> : k \in DOMAIN delegations}
       /\ ~LongLocks => \A k \in DOMAIN U, t \in Quotas : k[3] => U[k].expire[t] <= head + DefaultLock
  BY <1>7, UnlockedKeeps
<1>12. Table(U) /\ DOMAIN U \subseteq Keys /\ L \in Keys /\ F \in Keys /\ L # F
  BY <1>10, KeysFinite DEF Joined
<1>13. F[1] = a /\ F[2] = b /\ F[3] = FALSE /\ L[1] = a /\ L[2] = b /\ p = <<a, b>>
  BY KeysFinite
<1>14. free \in Entry /\ x <= free.amount[q]
  <2>1. free \in Entry
    BY <1>12, GetEntry
  <2>2. x <= Get(U, F).amount[q]
    BY <1>2, <1>7, AvailableIs
  <2> QED
    BY <2>1, <2>2
<1>15. x <= record[a].delegatedOut[q]
  <2> DEFINE S == Of(Keys, 1, a)
  <2>1. record[a].delegatedOut[q] = Pile(delegations, S, q)
    BY <1>1 DEF IInv, BookV2
  <2>2. L \in S /\ F \in S
    BY <1>12, <1>13 DEF Of
  <2> HIDE DEF S, L, F, U
  <2>3. Pile(U, S, q) = Pile(delegations, S, q)
    BY <1>10, <2>2 DEF Joined
  <2>4. Get(U, F).amount[q] <= Pile(U, S, q) /\ Pile(U, S, q) \in Nat /\ Get(U, F).amount[q] \in Nat
    BY <1>12, <2>2, PileNat, GetEntry
  <2> QED
    BY <1>2, <1>14, <2>1, <2>3, <2>4
<1>16. y \in Int /\ ~(y > 0)
  BY <1>2
<1>17. ra \in Rec /\ Gives(record[a], ra, q, y)
  <2> DEFINE r == record[a]
             G == [r.frozenV2 EXCEPT ![q] = @ + x]
             D == [r.delegatedOut EXCEPT ![q] = @ - x]
             W == [r.usage EXCEPT ![q] = ua]
             r2 == [r EXCEPT !.frozenV2 = G, !.delegatedOut = D, !.usage = W]
  <2>1. r \in Rec /\ x <= r.delegatedOut[q]
    BY <1>5, <1>15
  <2> HIDE DEF r
  <2>2. r.frozenV2 \in [Stakes -> Nat] /\ r.delegatedOut \in [Quotas -> Nat]
        /\ r.usage \in [Quotas -> [used : Nat, last : Nat]]
    BY <2>1 DEF Rec
  <2>3. r.frozenV2[q] + x \in Nat /\ r.delegatedOut[q] - x \in Nat
    BY <1>1, <1>2, <2>1, <2>2
  <2>4. G \in [Stakes -> Nat] /\ G[q] = r.frozenV2[q] + x /\ \A t \in Stakes \ {q} : G[t] = r.frozenV2[t]
    BY <1>1, <2>2, <2>3
  <2>5. D \in [Quotas -> Nat] /\ D[q] = r.delegatedOut[q] - x /\ \A t \in Quotas \ {q} : D[t] = r.delegatedOut[t]
    BY <2>2, <2>3
  <2>6. W \in [Quotas -> [used : Nat, last : Nat]]
    BY <1>9, <2>2
  <2>7. G[q] = r.frozenV2[q] - y /\ D[q] = r.delegatedOut[q] + y
    <3> DEFINE f == r.frozenV2[q]
               d == r.delegatedOut[q]
    <3>1. f \in Nat /\ d \in Nat
      BY <1>1, <2>2
    <3> HIDE DEF f, d
    <3>2. f + x = f - y /\ d - x = d + y
      BY <1>2, <3>1
    <3> QED
      BY <2>4, <2>5, <3>2 DEF f, d
  <2> HIDE DEF G, D, W, y
  <2>8. r2 \in Rec
    BY <2>1, <2>4, <2>5, <2>6 DEF Rec
  <2>9. Gives(r, r2, q, y)
    BY <2>1, <2>4, <2>5, <2>7 DEF Rec, Gives
  <2> QED
    BY <2>8, <2>9 DEF r, G, D, W
<1>18. rb \in Rec /\ Gets(record[b], rb, q, y)
  <2> DEFINE r == record[b]
             G == [r.acquired EXCEPT ![q] = IF @ < x THEN 0 ELSE @ - x]
             W == [r.usage EXCEPT ![q] = ub]
             r2 == [r EXCEPT !.acquired = G, !.usage = W]
  <2>1. r \in Rec
    BY <1>5
  <2> HIDE DEF r
  <2>2. r.acquired \in [Quotas -> Nat] /\ r.acquired[q] \in Nat /\ r.usage \in [Quotas -> [used : Nat, last : Nat]]
    BY <1>2, <2>1 DEF Rec
  <2>3. /\ G \in [Quotas -> Nat] /\ G[q] = IF r.acquired[q] < x THEN 0 ELSE r.acquired[q] - x
        /\ \A t \in Quotas \ {q} : G[t] = r.acquired[t]
    BY <1>2, <2>2
  <2>4. G[q] = IF r.acquired[q] + y < 0 THEN 0 ELSE r.acquired[q] + y
    <3>1. r.acquired[q] + y = r.acquired[q] - x
      BY <1>2, <2>2
    <3> HIDE DEF G, y
    <3> QED
      BY <1>2, <2>2, <2>3, <3>1
  <2>5. W \in [Quotas -> [used : Nat, last : Nat]]
    BY <1>9, <2>2
  <2> HIDE DEF G, W, y
  <2>6. r2 \in Rec
    BY <2>1, <2>3, <2>5 DEF Rec
  <2>7. Gets(r, r2, q, y)
    BY <2>1, <2>3, <2>4 DEF Rec, Gets
  <2> QED
    BY <2>6, <2>7 DEF r, G, W
<1> HIDE DEF ra, rb, y
<1>19. record' \in [Accounts -> Rec]
  <2>1. \A c \in Accounts : record'[c] \in Rec
    BY <1>5, <1>6, <1>17, <1>18
  <2> QED
    BY <1>6, <2>1
<1> HIDE DEF U, L, F, free
<1>20. free.amount \in [Quotas -> Nat] /\ free.expire \in [Quotas -> Nat]
  BY <1>14 DEF Entry
<1>21. A \in [Quotas -> Nat] /\ \A t \in Quotas : A[t] = free.amount[t] + IF t = q THEN y ELSE 0
  <2>1. free.amount[q] - x \in Nat /\ free.amount[q] - x = free.amount[q] + y
    BY <1>2, <1>14, <1>20 DEF y
  <2> HIDE DEF y
  <2>2. \A t \in Quotas : A[t] = free.amount[t] + IF t = q THEN y ELSE 0
    BY <1>20, <2>1
  <2> QED
    BY <1>20, <2>1, <2>2
<1> HIDE DEF A
<1>22. e \in Entry /\ e.amount = A
  BY <1>14, <1>21 DEF Entry
<1> HIDE DEF e
<1>23. Table(D2) /\ But(U, D2, F) /\ DOMAIN D2 \subseteq DOMAIN U \cup {F}
  BY <1>12, <1>22, PutIs
<1>24. Get(D2, F).amount = A
  BY <1>12, <1>22, PutIs
<1> HIDE DEF D2
<1>25. Shifts(D2, p, q, y)
  <2>1. \A t \in Quotas : Get(D2, F).amount[t] = Get(U, F).amount[t] + IF t = q THEN y ELSE 0
    BY <1>21, <1>24 DEF free
  <2>2. F \in {L, F} /\ U = Unlocked(p) /\ L = <<p[1], p[2], TRUE>> /\ F = <<p[1], p[2], FALSE>>
    BY DEF U, L, F
  <2> DEFINE key == F
  <2>3. key \in {L, F} /\ But(U, D2, key)
        /\ \A t \in Quotas : Get(D2, key).amount[t] = Get(U, key).amount[t] + IF t = q THEN y ELSE 0
    BY <1>23, <2>1
  <2> HIDE DEF key
  <2> QED
    BY <1>7, <1>16, <1>23, <2>2, <2>3, TableMoves
<1>26. pairs' = {<<k[1], k[2]>> : k \in DOMAIN D2}
  <2> DEFINE PU == {<<k[1], k[2]>> : k \in DOMAIN U}
             PD == {<<k[1], k[2]>> : k \in DOMAIN D2}
  <2>1. pairs = PU
    BY <1>11 DEF IInv, BookV2
  <2>2. F \in DOMAIN U
    <3>1. Get(U, F).amount[q] # 0
      BY <1>2, <1>14, <1>20 DEF free
    <3> QED
      BY <3>1 DEF Get, NoEntry, Zero
  <2>3. \A k : k # F => (k \in DOMAIN D2 <=> k \in DOMAIN U)
    BY <1>23 DEF But
  <2>4. \A k \in Keys : (k[1] = a /\ k[2] = b) => k = L \/ k = F
    <3>1. ASSUME NEW k \in Keys, k[1] = a, k[2] = b PROVE k = L \/ k = F
      <4>1. k = <<k[1], k[2], k[3]>> /\ k[3] \in BOOLEAN
        BY KeysFinite
      <4>2. k[3] = TRUE \/ k[3] = FALSE
        BY <4>1
      <4>3. k = <<a, b, k[3]>>
        BY <3>1, <4>1
      <4> QED
        BY <4>2, <4>3 DEF L, F
    <3> QED
      BY <3>1
  <2>5. CASE {F, L} \cap DOMAIN D2 = {}
    <3>1. pairs' = PU \ {p} /\ L \notin DOMAIN D2 /\ F \notin DOMAIN D2
      BY <1>3, <2>1, <2>5
    <3>2. ASSUME NEW k \in DOMAIN D2 PROVE <<k[1], k[2]>> \in PU \ {p}
      <4>1. k \in DOMAIN U /\ k \in Keys /\ k # L /\ k # F
        BY <1>12, <2>3, <3>1, <3>2
      <4>2. ~(k[1] = a /\ k[2] = b)
        BY <2>4, <4>1
      <4>3. <<k[1], k[2]>> # p
        BY <1>13, <4>2
      <4> QED
        BY <4>1, <4>3
    <3>3. ASSUME NEW k \in DOMAIN U, <<k[1], k[2]>> # p PROVE <<k[1], k[2]>> \in PD
      <4>1. k # F
        BY <1>13, <3>3
      <4> QED
        BY <2>3, <3>3, <4>1
    <3> QED
      BY <3>1, <3>2, <3>3
  <2>6. CASE {F, L} \cap DOMAIN D2 # {}
    <3>1. pairs' = PU /\ (L \in DOMAIN D2 \/ F \in DOMAIN D2)
      BY <1>3, <2>1, <2>6
    <3>2. p \in PD /\ p \in PU
      BY <1>13, <2>2, <3>1
    <3>3. ASSUME NEW k \in DOMAIN D2 PROVE <<k[1], k[2]>> \in PU
      <4>1. CASE k = F
        BY <2>2, <4>1
      <4>2. CASE k # F
        BY <2>3, <3>3, <4>2
      <4> QED
        BY <4>1, <4>2
    <3>4. ASSUME NEW k \in DOMAIN U PROVE <<k[1], k[2]>> \in PD
      <4>1. CASE k = F
        BY <1>13, <3>2, <4>1
      <4>2. CASE k # F
        BY <2>3, <3>4, <4>2
      <4> QED
        BY <4>1, <4>2
    <3> QED
      BY <3>1, <3>3, <3>4
  <2> QED
    BY <2>5, <2>6
<1>27. ASSUME ~LongLocks, NEW k \in DOMAIN D2, NEW t \in Quotas, k[3] PROVE D2[k].expire[t] <= head + DefaultLock
  <2>1. k # F
    BY <1>13, <1>27
  <2>2. k \in DOMAIN U /\ D2[k] = U[k]
    BY <1>23, <2>1 DEF But
  <2> QED
    BY <1>11, <1>27, <2>2
<1>28. Locks'
  <2>1. head' = head /\ params' = params
    BY <1>3 DEF time
  <2>2. LongLocks' = LongLocks
    BY <2>1 DEF LongLocks, StakeV2
  <2> QED
    BY <1>3, <1>27, <2>1, <2>2 DEF Locks
<1>29. DOMAIN D2 \subseteq Keys
  BY <1>12, <1>23
<1> QED
  BY <1>3, <1>6, <1>16, <1>17, <1>18, <1>19, <1>23, <1>25, <1>26, <1>28, <1>29, MoveStep
(***************************************************************************)
(* Delegation of Stake 1.0.                                                *)
(***************************************************************************)

\* The record of the account that freezes y for another, or gets it back.
Lends(r, r2, q, y) ==
    /\ r2.delegatedLegacyOut[q] = r.delegatedLegacyOut[q] + y
    /\ \A t \in Quotas \ {q} : r2.delegatedLegacyOut[t] = r.delegatedLegacyOut[t]
    /\ r2.frozenV2 = r.frozenV2 /\ r2.delegatedOut = r.delegatedOut /\ r2.acquired = r.acquired
    /\ r2.unfrozenV2 = r.unfrozenV2 /\ r2.frozenLegacy = r.frozenLegacy
    /\ r2.acquiredLegacy = r.acquiredLegacy

\* The record of the account that it is frozen for.
Borrows(r, r2, q) ==
    /\ \A t \in Quotas \ {q} : r2.acquiredLegacy[t] = r.acquiredLegacy[t]
    /\ r2.frozenV2 = r.frozenV2 /\ r2.delegatedOut = r.delegatedOut /\ r2.acquired = r.acquired
    /\ r2.unfrozenV2 = r.unfrozenV2 /\ r2.frozenLegacy = r.frozenLegacy
    /\ r2.delegatedLegacyOut = r.delegatedLegacyOut /\ r2.oldTronPower = r.oldTronPower

\* What a loan changes in the account's own stake.
LEMMA LendsOwn ==
    ASSUME NEW r \in Rec, NEW r2 \in Rec, NEW q \in Quotas, NEW y \in Int, Lends(r, r2, q, y)
    PROVE  /\ Own(r2, q) = Own(r, q) + y /\ Own(r, q) \in Nat
           /\ \A t \in Stakes \ {q} : Own(r2, t) = Own(r, t)
           /\ \A s \in Stakes : Weighs(r2, s) = Weighs(r, s)
<1>1. q \in Stakes
  BY Finite
<1>2. /\ r.frozenV2[q] \in Nat /\ r.delegatedOut[q] \in Nat /\ r.frozenLegacy[q].amount \in Nat
      /\ r.delegatedLegacyOut[q] \in Nat
  BY <1>1 DEF Rec
<1>3. Own(r2, q) = Own(r, q) + y /\ Own(r, q) \in Nat
  <2> DEFINE f == r.frozenV2[q]
             d == r.delegatedOut[q]
             l == r.frozenLegacy[q].amount
             e == r.delegatedLegacyOut[q]
  <2>1. Own(r, q) = f + l + (d + e) /\ Own(r2, q) = f + l + (d + (e + y))
    BY DEF Own, Lends
  <2>2. f \in Nat /\ d \in Nat /\ l \in Nat /\ e \in Nat
    BY <1>2
  <2> HIDE DEF f, d, l, e
  <2> QED
    BY <2>1, <2>2
<1>4. \A s \in Stakes : Weighs(r2, s) = Weighs(r, s)
  BY DEF Weighs, WeightWithDelegated, Lends
<1>5. \A t \in Stakes \ {q} : Own(r2, t) = Own(r, t)
  BY DEF Own, Lends
<1> QED
  BY <1>3, <1>4, <1>5

\* An owner that lends has what it started with.
LEMMA SolventLends ==
    ASSUME NEW c \in Owners, NEW r \in Rec, NEW r2 \in Rec, NEW q \in Quotas, NEW y \in Int,
           Lends(r, r2, q, y), Carry(r2), NEW x \in Nat, NEW x2 \in Nat, x2 = x - y, Solvent(c, r, x)
    PROVE  Solvent(c, r2, x2)
<1>1. q \in Stakes
  BY Finite
<1>2. /\ Own(r2, q) = Own(r, q) + y /\ Own(r, q) \in Nat
      /\ \A t \in Stakes \ {q} : Own(r2, t) = Own(r, t)
  BY LendsOwn
<1>3. r2.unfrozenV2 = r.unfrozenV2
  BY DEF Lends
<1>4. Sum(r.unfrozenV2) \in Nat /\ Len(r.unfrozenV2) <= MaxPending
  BY PendingSum DEF Solvent
<1>5. x2 + Own(r2, q) + Sum(r2.unfrozenV2) = x + Own(r, q) + Sum(r.unfrozenV2)
  BY <1>2, <1>3, <1>4
<1> QED
  BY <1>1, <1>2, <1>3, <1>4, <1>5, SolventMoves

\* A weight that follows the one account whose weight changes stays exact.
LEMMA WeighFollows ==
    ASSUME NEW R \in [Accounts -> Rec], NEW R2 \in [Accounts -> Rec], NEW s \in Stakes, NEW b \in Accounts,
           \A c \in Accounts \ {b} : Weighs(R2[c], s) = Weighs(R[c], s),
           NEW k, k = Weigh(R, s), NEW k2, k2 = k - Weighs(R[b], s) + Weighs(R2[b], s)
    PROVE  k2 = Weigh(R2, s)
<1>1. Weigh(R2, s) = Weigh(R, s) - Weighs(R[b], s) + Weighs(R2[b], s)
  BY WeighMoves
<1> QED
  BY <1>1

\* The account a lends b the resource q of y sun of Stake 1.0, or takes it back
\* when y is negative, and has x2 sun left.
Lent(p, q, y, a, b, x2) ==
    /\ a = p[1] /\ b = p[2] /\ record' \in [Accounts -> Rec]
    /\ \A c \in Accounts : (c # a /\ c # b) => record'[c] = record[c]
    /\ Lends(record[a], record'[a], q, y) /\ Carry(record'[a]) /\ Borrows(record[b], record'[b], q)
    /\ x2 \in Nat /\ x2 = balance[a] - y /\ balance' = [balance EXCEPT ![a] = x2]
    /\ Table(legacy') /\ DOMAIN legacy' \subseteq Pairs /\ But(legacy, legacy', p)
    /\ \A t \in Quotas : Get(legacy', p).amount[t] = Get(legacy, p).amount[t] + IF t = q THEN y ELSE 0
    /\ legacyPairs' = DOMAIN legacy' /\ weight' \in [Stakes -> Int]
    /\ lost = {} => \A s \in Stakes : weight'[s] = weight[s] - Weighs(record[b], s) + Weighs(record'[b], s)
    /\ b \notin lost => record'[b].acquiredLegacy[q] = record[b].acquiredLegacy[q] + y
    /\ kind[b] # "contract" => record'[b].acquiredLegacy[q] <= Pile(legacy, Of(Pairs, 2, b), q) + y
    /\ kind[b] = "none" => record'[b].acquiredLegacy[q] = 0
    /\ UNCHANGED <<params, addresses, delegations, pairs, time>>

\* A step that moves y of an owner's balance into what it has frozen for another.
LEMMA LendStep ==
    ASSUME IInv, ~StakeV2, NEW p \in Pairs, NEW q \in Quotas, NEW y \in Int, NEW a, NEW b, NEW x2,
           Lent(p, q, y, a, b, x2), txs' \in 0..MaxTxs
    PROVE  IInv'
<1>0. /\ a = p[1] /\ b = p[2] /\ record' \in [Accounts -> Rec]
      /\ \A c \in Accounts : (c # a /\ c # b) => record'[c] = record[c]
      /\ Lends(record[a], record'[a], q, y) /\ Carry(record'[a]) /\ Borrows(record[b], record'[b], q)
      /\ x2 \in Nat /\ x2 = balance[a] - y /\ balance' = [balance EXCEPT ![a] = x2]
      /\ Table(legacy') /\ DOMAIN legacy' \subseteq Pairs /\ But(legacy, legacy', p)
      /\ \A t \in Quotas : Get(legacy', p).amount[t] = Get(legacy, p).amount[t] + IF t = q THEN y ELSE 0
      /\ legacyPairs' = DOMAIN legacy' /\ weight' \in [Stakes -> Int]
      /\ lost = {} => \A s \in Stakes : weight'[s] = weight[s] - Weighs(record[b], s) + Weighs(record'[b], s)
      /\ b \notin lost => record'[b].acquiredLegacy[q] = record[b].acquiredLegacy[q] + y
      /\ kind[b] # "contract" => record'[b].acquiredLegacy[q] <= Pile(legacy, Of(Pairs, 2, b), q) + y
      /\ kind[b] = "none" => record'[b].acquiredLegacy[q] = 0
      /\ UNCHANGED <<params, addresses, delegations, pairs, time>>
  BY DEF Lent
<1> USE <1>0
<1> USE DEF addresses, time
<1>1. a \in Owners /\ a \in Accounts /\ b \in Accounts /\ a # b /\ q \in Stakes
  BY KeysFinite, Finite
<1>2. \A c \in Accounts : record[c] \in Rec /\ record'[c] \in Rec
  BY Types DEF IInv
<1>3. balance' \in [Owners -> Nat] /\ balance'[a] = x2 /\ balance[a] \in Nat
      /\ \A c \in Owners \ {a} : balance'[c] = balance[c]
  BY <1>1 DEF IInv, Typed
<1>4. /\ Own(record'[a], q) = Own(record[a], q) + y /\ Own(record[a], q) \in Nat
      /\ \A t \in Stakes \ {q} : Own(record'[a], t) = Own(record[a], t)
      /\ \A s \in Stakes : Weighs(record'[a], s) = Weighs(record[a], s)
  <2> DEFINE r == record[a]
             r2 == record'[a]
  <2>1. r \in Rec /\ r2 \in Rec /\ Lends(r, r2, q, y)
    BY <1>1, <1>2
  <2> HIDE DEF r, r2
  <2>2. /\ Own(r2, q) = Own(r, q) + y /\ Own(r, q) \in Nat
        /\ \A t \in Stakes \ {q} : Own(r2, t) = Own(r, t)
        /\ \A s \in Stakes : Weighs(r2, s) = Weighs(r, s)
    BY <2>1, LendsOwn
  <2> QED
    BY <2>2 DEF r, r2
<1>5. Typed'
  <2>1. Table(delegations)'
    BY DEF IInv, Typed, Table
  <2>2. legacyPairs' \subseteq Pairs
    OBVIOUS
  <2> QED
    BY <1>3, <2>1, <2>2 DEF IInv, Typed, Table
<1>6. Backed'
  <2> SUFFICES ASSUME NEW c \in Accounts PROVE Solvent(c, record[c], Purse(c))'
    BY DEF Backed
  <2>0. Solvent(c, record[c], Purse(c))
    BY DEF IInv, Backed
  <2> DEFINE r == record[c]
             r2 == record'[c]
             x == Purse(c)
  <2>1. r \in Rec /\ r2 \in Rec /\ Solvent(c, r, x)
    BY <1>2, <2>0
  <2>2. CASE c = a
    <3>1. x = balance[a] /\ Purse(c)' = x2 /\ c \in Owners
      BY <1>1, <1>3, <2>2 DEF Purse
    <3>2. Lends(r, r2, q, y) /\ Carry(r2) /\ x \in Nat /\ x2 = x - y
      BY <1>3, <2>2, <3>1
    <3> HIDE DEF r, r2, x
    <3>6. Solvent(c, r2, x2)
      BY <2>1, <3>1, <3>2, SolventLends
    <3> QED
      BY <3>1, <3>6 DEF Solvent, Carry, Idle, r2
  <2>3. CASE c # a
    <3>1. Purse(c)' = x
      BY <1>3, <2>3 DEF Purse
    <3>2. /\ r2.frozenV2 = r.frozenV2 /\ r2.delegatedOut = r.delegatedOut /\ r2.frozenLegacy = r.frozenLegacy
          /\ r2.delegatedLegacyOut = r.delegatedLegacyOut /\ r2.oldTronPower = r.oldTronPower
          /\ r2.unfrozenV2 = r.unfrozenV2
      BY <2>3 DEF Borrows
    <3> HIDE DEF r, r2, x
    <3>3. \A s \in Stakes : Own(r2, s) = Own(r, s)
      BY <3>2 DEF Own
    <3>4. c \notin Owners => Idle(r2)
      BY <2>1, <3>2 DEF Solvent, Idle
    <3>5. Solvent(c, r2, x)
      BY <2>1, <3>2, <3>3, <3>4, SolventSame
    <3> QED
      BY <3>1, <3>5 DEF Solvent, Carry, Idle, r2
  <2> QED
    BY <2>2, <2>3
<1>7. Weighed'
  <2> SUFFICES ASSUME (StakeV2 \/ lost = {})', NEW s \in Stakes PROVE weight'[s] = Weigh(record', s)
    BY DEF Weighed, Weigh
  <2>1. lost = {}
    BY DEF StakeV2
  <2>2. weight[s] = Weigh(record, s) /\ weight'[s] = weight[s] - Weighs(record[b], s) + Weighs(record'[b], s)
    BY <2>1 DEF IInv, Weighed
  <2> DEFINE R == record
             R2 == record'
  <2>3. R \in [Accounts -> Rec] /\ R2 \in [Accounts -> Rec]
        /\ \A c \in Accounts \ {b} : Weighs(R2[c], s) = Weighs(R[c], s)
    <3>1. R \in [Accounts -> Rec] /\ R2 \in [Accounts -> Rec]
      BY DEF IInv, Typed
    <3>2. ASSUME NEW c \in Accounts \ {b} PROVE Weighs(R2[c], s) = Weighs(R[c], s)
      <4>1. CASE c = a
        BY <1>4, <4>1
      <4>2. CASE c # a
        BY <4>2
      <4> QED
        BY <4>1, <4>2
    <3> QED
      BY <3>1, <3>2
  <2> HIDE DEF R, R2
  <2> DEFINE k == weight[s]
             k2 == weight'[s]
  <2>4. k = Weigh(R, s) /\ k2 = k - Weighs(R[b], s) + Weighs(R2[b], s)
    BY <2>2 DEF R, R2
  <2> HIDE DEF k, k2
  <2>5. k2 = Weigh(R2, s)
    BY <1>1, <2>3, <2>4, WeighFollows
  <2> QED
    BY <2>5 DEF k2, R2
<1>8. BookV2'
  <2>1. ASSUME NEW c \in Accounts
        PROVE  record'[c].delegatedOut = record[c].delegatedOut /\ record'[c].acquired = record[c].acquired
    BY <2>1 DEF Lends, Borrows
  <2>2. ASSUME NEW c \in Owners, NEW t \in Quotas
        PROVE  record'[c].delegatedOut[t] = Pile(delegations', Of(Keys, 1, c), t)
    <3>1. c \in Accounts
      BY Finite
    <3> QED
      BY <2>1, <3>1 DEF IInv, BookV2
  <2>3. ASSUME NEW c \in Accounts, NEW t \in Quotas
        PROVE  Owed(c, record[c].acquired[t], Pile(delegations, Of(Keys, 2, c), t))'
    BY <2>1 DEF IInv, BookV2, Owed
  <2>4. pairs' = {<<k[1], k[2]>> : k \in DOMAIN delegations'}
    BY DEF IInv, BookV2
  <2> QED
    BY <2>2, <2>3, <2>4 DEF BookV2
<1>9. ASSUME NEW i \in {1, 2}, NEW c, NEW t \in Quotas
      PROVE  /\ Pile(legacy, Of(Pairs, i, c), t) \in Nat
             /\ Pile(legacy', Of(Pairs, i, c), t) =
                    Pile(legacy, Of(Pairs, i, c), t) + IF p[i] = c /\ t = q THEN y ELSE 0
  <2> DEFINE T == legacy
             T2 == legacy'
             S == Of(Pairs, i, c)
  <2>1. Table(T) /\ Table(T2) /\ But(T, T2, p)
        /\ Get(T2, p).amount[t] = Get(T, p).amount[t] + IF t = q THEN y ELSE 0
    BY DEF IInv, Typed
  <2>2. p \in S <=> p[i] = c
    BY DEF Of
  <2> HIDE DEF T, T2, S
  <2>3. Pile(T2, S, t) = Pile(T, S, t) + IF p \in S THEN Get(T2, p).amount[t] - Get(T, p).amount[t] ELSE 0
    BY <2>1, PileMoves
  <2>4. Pile(T, S, t) \in Nat /\ Get(T, p).amount[t] \in Nat
    BY <2>1, PileNat, GetEntry
  <2> DEFINE n == Get(T, p).amount[t]
             n2 == Get(T2, p).amount[t]
  <2>5. n \in Nat /\ n2 = n + IF t = q THEN y ELSE 0
    BY <2>1, <2>4
  <2> HIDE DEF n, n2
  <2>6. n2 - n = IF t = q THEN y ELSE 0
    BY <2>5
  <2>7. Pile(T2, S, t) = Pile(T, S, t) + IF p[i] = c /\ t = q THEN y ELSE 0
    BY <2>2, <2>3, <2>6 DEF n, n2
  <2> QED
    BY <2>4, <2>7 DEF T, T2, S
<1>10. BookV1'
  <2>1. ASSUME NEW c \in Owners, NEW t \in Quotas
        PROVE  record'[c].delegatedLegacyOut[t] = Pile(legacy', Of(Pairs, 1, c), t)
    <3>1. record[c].delegatedLegacyOut[t] = Pile(legacy, Of(Pairs, 1, c), t) /\ c \in Accounts
      BY Finite DEF IInv, BookV1
    <3>2. /\ Pile(legacy, Of(Pairs, 1, c), t) \in Nat
          /\ Pile(legacy', Of(Pairs, 1, c), t) =
                 Pile(legacy, Of(Pairs, 1, c), t) + IF c = a /\ t = q THEN y ELSE 0
      BY <1>9
    <3>3. record'[c].delegatedLegacyOut[t] = record[c].delegatedLegacyOut[t] + IF c = a /\ t = q THEN y ELSE 0
      <4>1. CASE c = a
        BY <3>1, <3>2, <4>1 DEF Lends
      <4>2. CASE c # a
        BY <3>1, <3>2, <4>2 DEF Borrows
      <4> QED
        BY <4>1, <4>2
    <3> QED
      BY <3>1, <3>2, <3>3
  <2>2. ASSUME NEW c \in Accounts, NEW t \in Quotas
        PROVE  Owed(c, record[c].acquiredLegacy[t], Pile(legacy, Of(Pairs, 2, c), t))'
    <3>1. Owed(c, record[c].acquiredLegacy[t], Pile(legacy, Of(Pairs, 2, c), t))
      BY DEF IInv, BookV1
    <3>2. /\ Pile(legacy, Of(Pairs, 2, c), t) \in Nat
          /\ Pile(legacy', Of(Pairs, 2, c), t) =
                 Pile(legacy, Of(Pairs, 2, c), t) + IF c = b /\ t = q THEN y ELSE 0
      BY <1>9
    <3>3. CASE c = b /\ t = q
      BY <3>1, <3>2, <3>3 DEF Owed
    <3>4. CASE ~(c = b /\ t = q)
      <4>1. record'[c].acquiredLegacy[t] = record[c].acquiredLegacy[t]
        BY <3>4 DEF Lends, Borrows
      <4>2. Pile(legacy', Of(Pairs, 2, c), t) = Pile(legacy, Of(Pairs, 2, c), t)
        BY <3>2, <3>4
      <4> QED
        BY <3>1, <4>1, <4>2 DEF Owed
    <3> QED
      BY <3>3, <3>4
  <2> QED
    BY <2>1, <2>2 DEF BookV1
<1>11. Kinds'
  <2> SUFFICES ASSUME NEW c \in Accounts
               PROVE  /\ kind[c] # "plain" => c \in lost
                      /\ kind[c] = "none" => \A t \in Quotas : /\ record'[c].acquired[t] = 0
                                                               /\ record'[c].acquiredLegacy[t] = 0
    BY DEF Kinds
  <2>1. /\ kind[c] # "plain" => c \in lost
        /\ kind[c] = "none" => \A t \in Quotas : record[c].acquired[t] = 0 /\ record[c].acquiredLegacy[t] = 0
    BY DEF IInv, Kinds
  <2>2. record'[c].acquired = record[c].acquired
    BY DEF Lends, Borrows
  <2>3. ASSUME kind[c] = "none", NEW t \in Quotas PROVE record'[c].acquiredLegacy[t] = 0
    <3>1. CASE c = b /\ t = q
      BY <2>3, <3>1
    <3>2. CASE c = b /\ t # q
      BY <2>1, <2>3, <3>2 DEF Borrows
    <3>3. CASE c # b
      BY <2>1, <2>3, <3>3 DEF Lends
    <3> QED
      BY <3>1, <3>2, <3>3
  <2> QED
    BY <2>1, <2>2, <2>3
<1>12. NoLegacy'
  BY DEF NoLegacy, StakeV2
<1>13. Locks'
  BY DEF IInv, Locks, LongLocks, StakeV2
<1> QED
  BY <1>5, <1>6, <1>7, <1>8, <1>10, <1>11, <1>12, <1>13 DEF IInv
\* What the receiver of a loan weighs more or less.
LEMMA BorrowsWeighs ==
    ASSUME NEW r \in Rec, NEW r2 \in Rec, NEW q \in Quotas, Borrows(r, r2, q)
    PROVE  /\ \A t \in Stakes \ {q} : Weighs(r2, t) = Weighs(r, t) /\ Weighs(r, t) \in Int
           /\ Weighs(r, q) \in Int
           /\ Floor(r.acquiredLegacy[q]) \in Int /\ Floor(r2.acquiredLegacy[q]) \in Int
           /\ Weighs(r2, q) = Weighs(r, q) + Floor(r2.acquiredLegacy[q]) - Floor(r.acquiredLegacy[q])
<1>1. q \in Stakes
  BY Finite
<1>2. \A t \in Stakes : Weighs(r, t) \in Int
  BY WeighsInt
<1>3. \A t \in Stakes \ {q} : Weighs(r2, t) = Weighs(r, t)
  BY DEF Weighs, WeightWithDelegated, Borrows
<1> DEFINE f == Floor(r.acquiredLegacy[q])
           g == Floor(r2.acquiredLegacy[q])
           w == Floor(WeightWithDelegated(r, q)) + Floor(r.frozenLegacy[q].amount)
<1>4. f \in Int /\ g \in Int
  <2>1. r.acquiredLegacy[q] \in Int /\ r2.acquiredLegacy[q] \in Int
    BY DEF Rec
  <2> QED
    BY <2>1, Floors
<1>5. w \in Int
  <2>1. WeightWithDelegated(r, q) \in Int /\ r.frozenLegacy[q].amount \in Int
    BY <1>1, WeighsInt
  <2>2. Floor(WeightWithDelegated(r, q)) \in Int /\ Floor(r.frozenLegacy[q].amount) \in Int
    BY <2>1, Floors
  <2> QED
    BY <2>2
<1>6. Weighs(r, q) = w + f
  BY DEF Weighs
<1>7. Weighs(r2, q) = w + g
  BY DEF Weighs, WeightWithDelegated, Borrows
<1> HIDE DEF f, g, w
<1>8. Weighs(r2, q) = Weighs(r, q) + g - f
  BY <1>4, <1>5, <1>6, <1>7
<1> QED
  BY <1>1, <1>2, <1>3, <1>4, <1>8 DEF f, g

\* Weights that are shifted stay integers.
LEMMA ShiftInt ==
    ASSUME Typed, NEW s \in Stakes, NEW before \in Int, NEW after \in Int, ShiftWeight(s, before, after)
    PROVE  weight' \in [Stakes -> Int]
<1>1. Floor(before) \in Int /\ Floor(after) \in Int
  BY Floors
<1>2. weight \in [Stakes -> Int] /\ weight' = [weight EXCEPT ![s] = @ + Floor(after) - Floor(before)]
  BY DEF Typed, ShiftWeight
<1>3. weight[s] + Floor(after) - Floor(before) \in Int
  BY <1>1, <1>2
<1> QED
  BY <1>2, <1>3

\* A freeze whose resource another account gets.
LEMMA FreezeForStep ==
    ASSUME IInv, NEW p \in Pairs, NEW x \in Amounts, NEW q \in Quotas, FreezeFor(p, x, q), txs' \in 0..MaxTxs
    PROVE  IInv'
<1> DEFINE a == p[1]
           b == p[2]
           held == Get(legacy, p)
           m == Migrated(record[a])
           D == [m.delegatedLegacyOut EXCEPT ![q] = @ + x]
           ra == [m EXCEPT !.delegatedLegacyOut = D]
           before == record[b].acquiredLegacy[q]
           G == [record[b].acquiredLegacy EXCEPT ![q] = @ + x]
           rb == [record[b] EXCEPT !.acquiredLegacy = G]
           A == [held.amount EXCEPT ![q] = @ + x]
           E == [held.expire EXCEPT ![q] = head + Frozen]
           e == [held EXCEPT !.amount = A, !.expire = E]
           T2 == With(legacy, p, e)
<1>1. a \in Owners /\ a \in Accounts /\ b \in Accounts /\ a # b /\ q \in Stakes
  BY KeysFinite, Finite
<1>2. x \in Nat /\ x <= balance[a] /\ ~StakeV2 /\ kind[b] = "plain" /\ Frozen \in Nat
  BY ResourcesAssumption DEF FreezeFor, CanFreeze
<1>3. /\ balance' = [balance EXCEPT ![a] = balance[a] - x] /\ legacy' = T2 /\ legacyPairs' = legacyPairs \cup {p}
      /\ ShiftWeight(q, before, before + x) /\ UNCHANGED <<params, addresses, delegations, pairs, time>>
  BY DEF FreezeFor
<1>4. record' = [record EXCEPT ![a] = [m EXCEPT !.delegatedLegacyOut[q] = @ + x], ![b].acquiredLegacy[q] = @ + x]
  BY DEF FreezeFor
<1>5. record \in [Accounts -> Rec] /\ record[a] \in Rec /\ record[b] \in Rec /\ Typed /\ head \in Nat
  BY <1>1, Types DEF IInv, Typed
<1>6. Carry(record[a]) /\ balance[a] \in Nat
  BY <1>1, OwnerIs
<1>7. m \in Rec /\ Alike(record[a], m) /\ Carry(m) /\ m.unfrozenV2 = record[a].unfrozenV2
  BY <1>5, <1>6, MigratedIs
<1>8. record'[a] = ra /\ record'[b] = rb /\ (\A c \in Accounts : (c # a /\ c # b) => record'[c] = record[c])
      /\ DOMAIN record' = Accounts /\ record' = [c \in Accounts |-> record'[c]]
  <2> HIDE DEF m
  <2> QED
    BY <1>1, <1>4, <1>5
<1> HIDE DEF m
<1>9. D \in [Quotas -> Nat] /\ D[q] = m.delegatedLegacyOut[q] + x /\ \A t \in Quotas \ {q} : D[t] = m.delegatedLegacyOut[t]
  BY <1>2, <1>7 DEF Rec
<1> HIDE DEF D
<1>10. /\ ra \in Rec /\ ra.delegatedLegacyOut = D /\ ra.frozenV2 = m.frozenV2 /\ ra.delegatedOut = m.delegatedOut
       /\ ra.acquired = m.acquired /\ ra.unfrozenV2 = m.unfrozenV2 /\ ra.frozenLegacy = m.frozenLegacy
       /\ ra.acquiredLegacy = m.acquiredLegacy /\ ra.oldTronPower = m.oldTronPower
  BY <1>7, <1>9 DEF Rec
<1> HIDE DEF ra
<1>11. Lends(m, ra, q, x) /\ Lends(record[a], ra, q, x)
  <2>1. Lends(m, ra, q, x)
    BY <1>9, <1>10 DEF Lends
  <2> QED
    BY <1>7, <1>9, <1>10, <2>1 DEF Lends, Alike
<1>12. Carry(ra)
  <2>1. Own(ra, q) = Own(m, q) + x /\ Own(m, q) \in Nat /\ \A t \in Stakes \ {q} : Own(ra, t) = Own(m, t)
    BY <1>2, <1>7, <1>10, <1>11, LendsOwn
  <2>2. Own(ra, q) >= Own(m, q)
    BY <1>2, <2>1
  <2>3. QuotaTronPower(ra) >= QuotaTronPower(m)
    BY <1>1, <1>7, <1>10, <2>1, <2>2, StakedMoves
  <2> QED
    BY <1>7, <1>10, <2>3, CarryKept
<1>13. before \in Nat /\ before + x \in Nat /\ before + x \in Int
  <2>1. before \in Nat
    BY <1>5 DEF Rec
  <2> HIDE DEF before
  <2> QED
    BY <1>2, <2>1
<1>14. G \in [Quotas -> Nat] /\ G[q] = before + x /\ \A t \in Quotas \ {q} : G[t] = record[b].acquiredLegacy[t]
  BY <1>5, <1>13 DEF Rec
<1> HIDE DEF G
<1>15. rb \in Rec /\ rb.acquiredLegacy = G /\ Borrows(record[b], rb, q)
  <2> DEFINE r == record[b]
             r2 == [r EXCEPT !.acquiredLegacy = G]
  <2>1. r \in Rec /\ \A t \in Quotas \ {q} : G[t] = r.acquiredLegacy[t]
    BY <1>5, <1>14
  <2> HIDE DEF r
  <2>2. r2 \in Rec /\ r2.acquiredLegacy = G
    BY <1>14, <2>1 DEF Rec
  <2>3. Borrows(r, r2, q)
    BY <2>1, <2>2 DEF Borrows, Rec
  <2> QED
    BY <2>2, <2>3 DEF r
<1> HIDE DEF rb
<1>16. record' \in [Accounts -> Rec]
  <2>1. \A c \in Accounts : record'[c] \in Rec
    BY <1>5, <1>8, <1>10, <1>15
  <2> QED
    BY <1>8, <2>1
<1>17. /\ weight' \in [Stakes -> Int]
       /\ \A s \in Stakes : weight'[s] = weight[s] - Weighs(record[b], s) + Weighs(rb, s)
  <2> DEFINE r == record[b]
             after == before + x
  <2>1. r \in Rec /\ Borrows(r, rb, q) /\ r.acquiredLegacy[q] = before /\ rb.acquiredLegacy[q] = after
    BY <1>5, <1>14, <1>15
  <2>2. ShiftWeight(q, before, after) /\ after \in Int /\ before \in Int
    BY <1>3, <1>13
  <2> HIDE DEF r, before, after
  <2>3. /\ \A t \in Stakes \ {q} : Weighs(rb, t) = Weighs(r, t) /\ Weighs(r, t) \in Int
        /\ Weighs(r, q) \in Int
        /\ Floor(r.acquiredLegacy[q]) \in Int /\ Floor(rb.acquiredLegacy[q]) \in Int
        /\ Weighs(rb, q) = Weighs(r, q) + Floor(rb.acquiredLegacy[q]) - Floor(r.acquiredLegacy[q])
    BY <1>15, <2>1, BorrowsWeighs
  <2>4. Floor(before) \in Int /\ Floor(after) \in Int /\ Weighs(rb, q) = Weighs(r, q) + Floor(after) - Floor(before)
    BY <2>1, <2>3
  <2>5. \A t \in Stakes : weight'[t] = weight[t] - Weighs(r, t) + Weighs(rb, t)
    BY <1>1, <1>5, <2>2, <2>3, <2>4, Shifted
  <2>6. weight' \in [Stakes -> Int]
    BY <1>1, <1>5, <2>2, ShiftInt
  <2> QED
    BY <2>5, <2>6 DEF r
<1>18. held \in Entry
  BY <1>5, GetEntry DEF Typed
<1> HIDE DEF held
<1>19. held.amount \in [Quotas -> Nat] /\ held.expire \in [Quotas -> Nat] /\ head + Frozen \in Nat
  BY <1>2, <1>5, <1>18 DEF Entry
<1>20. A \in [Quotas -> Nat] /\ \A t \in Quotas : A[t] = held.amount[t] + IF t = q THEN x ELSE 0
  BY <1>2, <1>19
<1>21. E \in [Quotas -> Nat]
  BY <1>19
<1> HIDE DEF A, E
<1>22. e \in Entry /\ e.amount = A
  BY <1>18, <1>20, <1>21 DEF Entry
<1> HIDE DEF e
<1>23. Table(T2) /\ But(legacy, T2, p) /\ Get(T2, p) = e /\ DOMAIN T2 = DOMAIN legacy \cup {p}
  BY <1>5, <1>22, SetIs DEF Typed
<1> HIDE DEF T2
<1>24. \A t \in Quotas : Get(T2, p).amount[t] = Get(legacy, p).amount[t] + IF t = q THEN x ELSE 0
  BY <1>20, <1>22, <1>23 DEF held
<1>25. legacyPairs' = DOMAIN T2 /\ DOMAIN T2 \subseteq Pairs
  BY <1>3, <1>23 DEF IInv, BookV1, Typed
<1>26. rb.acquiredLegacy[q] = record[b].acquiredLegacy[q] + x
  BY <1>14, <1>15
<1>27. rb.acquiredLegacy[q] <= Pile(legacy, Of(Pairs, 2, b), q) + x
  <2> DEFINE n == Pile(legacy, Of(Pairs, 2, b), q)
  <2>1. before <= n
    BY <1>1, <1>2 DEF IInv, BookV1, Owed
  <2>2. n \in Nat
    BY <1>5, PileNat DEF Typed
  <2>3. rb.acquiredLegacy[q] = before + x
    BY <1>26
  <2> HIDE DEF n, before
  <2>4. rb.acquiredLegacy[q] <= n + x
    BY <1>2, <1>13, <2>1, <2>2, <2>3
  <2> QED
    BY <2>4 DEF n
<1>28. balance[a] - x \in Nat /\ x \in Int
  BY <1>2, <1>6
<1> DEFINE x2 == balance[a] - x
<1>29. x2 \in Nat /\ x2 = balance[a] - x /\ balance' = [balance EXCEPT ![a] = x2] /\ x \in Int
  BY <1>3, <1>28
<1> HIDE DEF before, x2
<1>30. /\ Lends(record[a], record'[a], q, x) /\ Carry(record'[a]) /\ Borrows(record[b], record'[b], q)
       /\ Table(legacy') /\ DOMAIN legacy' \subseteq Pairs /\ But(legacy, legacy', p) /\ legacyPairs' = DOMAIN legacy'
  BY <1>3, <1>8, <1>11, <1>12, <1>15, <1>23, <1>25
<1>31. \A t \in Quotas : Get(legacy', p).amount[t] = Get(legacy, p).amount[t] + IF t = q THEN x ELSE 0
  BY <1>3, <1>24
<1>32. \A s \in Stakes : weight'[s] = weight[s] - Weighs(record[b], s) + Weighs(record'[b], s)
  BY <1>8, <1>17
<1>33. record'[b].acquiredLegacy[q] = record[b].acquiredLegacy[q] + x
  BY <1>8, <1>26
<1>34. record'[b].acquiredLegacy[q] <= Pile(legacy, Of(Pairs, 2, b), q) + x
  BY <1>8, <1>27
<1>35. weight' \in [Stakes -> Int]
  BY <1>17
<1>36. kind[b] = "none" => record'[b].acquiredLegacy[q] = 0
  BY <1>2
<1>37. UNCHANGED <<params, addresses, delegations, pairs, time>>
  BY <1>3
<1>38. ~StakeV2 /\ \A c \in Accounts : (c # a /\ c # b) => record'[c] = record[c]
  BY <1>2, <1>8
<1>39. a = p[1] /\ b = p[2]
  OBVIOUS
<1> HIDE DEF a, b
<1>40. Lent(p, q, x, a, b, x2)
  BY <1>16, <1>29, <1>30, <1>31, <1>32, <1>33, <1>34, <1>35, <1>36, <1>37, <1>38, <1>39 DEF Lent
<1> QED
  BY <1>29, <1>38, <1>40, LendStep
\* The release of a freeze whose resource another account had, which may have
\* lost its record since.
LEMMA UnfreezeFromStep ==
    ASSUME IInv, NEW p \in Pairs, NEW q \in Quotas, UnfreezeFrom(p, q), txs' \in 0..MaxTxs
    PROVE  IInv'
<1> DEFINE a == p[1]
           b == p[2]
           held == legacy[p]
           x == held.amount[q]
           y == 0 - x
           m == Migrated(record[a])
           D == [m.delegatedLegacyOut EXCEPT ![q] = @ - x]
           md == [m EXCEPT !.delegatedLegacyOut = D]
           ra == Unstaked(md)
           before == WeightReleased(b, x, q)
           acq == record[b].acquiredLegacy[q]
           g == IF kind[b] = "plain" THEN before - x ELSE acq
           G == [record[b].acquiredLegacy EXCEPT ![q] = g]
           rb == [record[b] EXCEPT !.acquiredLegacy = G]
           A == [held.amount EXCEPT ![q] = 0]
           E == [held.expire EXCEPT ![q] = 0]
           e == [held EXCEPT !.amount = A, !.expire = E]
           T2 == Put(legacy, p, e)
           n == Pile(legacy, Of(Pairs, 2, b), q)
<1>1. a \in Owners /\ a \in Accounts /\ b \in Accounts /\ a # b /\ q \in Stakes
  BY KeysFinite, Finite
<1>2. p \in DOMAIN legacy /\ x > 0 /\ ~StakeV2 /\ Get(legacy, p) = held
  BY DEF UnfreezeFrom, IInv, NoLegacy, Get
<1>3. /\ balance' = [balance EXCEPT ![a] = balance[a] + x] /\ legacy' = T2
      /\ legacyPairs' = (IF p \in DOMAIN T2 THEN legacyPairs ELSE legacyPairs \ {p})
      /\ ShiftWeight(q, before, before - x) /\ UNCHANGED <<params, addresses, delegations, pairs, time>>
  BY DEF UnfreezeFrom, Credit
<1>4. record' = [record EXCEPT ![a] = Unstaked([m EXCEPT !.delegatedLegacyOut[q] = @ - x]), ![b].acquiredLegacy[q] = g]
  BY DEF UnfreezeFrom
<1>5. record \in [Accounts -> Rec] /\ record[a] \in Rec /\ record[b] \in Rec /\ Typed /\ head \in Nat
  BY <1>1, Types DEF IInv, Typed
<1>6. Carry(record[a]) /\ balance[a] \in Nat
  BY <1>1, OwnerIs
<1>7. m \in Rec /\ Alike(record[a], m) /\ Carry(m) /\ m.unfrozenV2 = record[a].unfrozenV2
  BY <1>5, <1>6, MigratedIs
<1>8. record'[a] = ra /\ record'[b] = rb /\ (\A c \in Accounts : (c # a /\ c # b) => record'[c] = record[c])
      /\ DOMAIN record' = Accounts /\ record' = [c \in Accounts |-> record'[c]]
  <2> HIDE DEF m, g, x
  <2> QED
    BY <1>1, <1>4, <1>5
<1>9. held \in Entry /\ held.amount \in [Quotas -> Nat] /\ held.expire \in [Quotas -> Nat] /\ x \in Nat
  BY <1>2, <1>5 DEF Typed, Table, Entry
<1>10. /\ n \in Nat /\ x <= n /\ x <= Pile(legacy, Of(Pairs, 1, a), q) /\ Pile(legacy, Of(Pairs, 1, a), q) \in Nat
  <2>1. p \in Of(Pairs, 1, a) /\ p \in Of(Pairs, 2, b)
    BY DEF Of
  <2>2. Table(legacy)
    BY <1>5 DEF Typed
  <2>3. Get(legacy, p).amount[q] <= Pile(legacy, Of(Pairs, 1, a), q) /\ Pile(legacy, Of(Pairs, 1, a), q) \in Nat
    BY <2>1, <2>2, PileNat
  <2>4. Get(legacy, p).amount[q] <= Pile(legacy, Of(Pairs, 2, b), q) /\ Pile(legacy, Of(Pairs, 2, b), q) \in Nat
    BY <2>1, <2>2, PileNat
  <2> QED
    BY <1>2, <2>3, <2>4
<1>11. m.delegatedLegacyOut[q] >= x
  <2>1. record[a].delegatedLegacyOut[q] = Pile(legacy, Of(Pairs, 1, a), q)
    BY <1>1 DEF IInv, BookV1
  <2> QED
    BY <1>7, <1>10, <2>1 DEF Alike
<1> HIDE DEF m, held, n
<1>12. D \in [Quotas -> Nat] /\ D[q] = m.delegatedLegacyOut[q] - x /\ \A t \in Quotas \ {q} : D[t] = m.delegatedLegacyOut[t]
  <2> HIDE DEF x
  <2>1. m.delegatedLegacyOut \in [Quotas -> Nat]
    BY <1>7 DEF Rec
  <2>2. m.delegatedLegacyOut[q] - x \in Nat
    BY <1>9, <1>11, <2>1
  <2> QED
    BY <2>1, <2>2
<1> HIDE DEF D, x
<1>13. /\ md \in Rec /\ md.delegatedLegacyOut = D /\ md.frozenV2 = m.frozenV2 /\ md.delegatedOut = m.delegatedOut
       /\ md.acquired = m.acquired /\ md.unfrozenV2 = m.unfrozenV2 /\ md.frozenLegacy = m.frozenLegacy
       /\ md.acquiredLegacy = m.acquiredLegacy /\ md.oldTronPower = m.oldTronPower
  BY <1>7, <1>12 DEF Rec
<1> HIDE DEF md
<1>14. ~params.newResourceModel => md.oldTronPower = 0
  BY <1>7, <1>13 DEF Carry
<1>15. ra \in Rec /\ Alike(md, ra) /\ Carry(ra) /\ ra.unfrozenV2 = md.unfrozenV2
  BY <1>13, <1>14, UnstakedIs
<1> HIDE DEF ra
<1>16. y \in Int /\ m.delegatedLegacyOut[q] - x = m.delegatedLegacyOut[q] + y
  <2>1. m.delegatedLegacyOut[q] \in Nat
    BY <1>7 DEF Rec
  <2> QED
    BY <1>9, <2>1
<1>17. Lends(record[a], ra, q, y)
  <2>1. D[q] = m.delegatedLegacyOut[q] + y
    BY <1>12, <1>16
  <2> HIDE DEF y
  <2> QED
    BY <1>7, <1>12, <1>13, <1>15, <2>1 DEF Lends, Alike
<1>18. /\ acq \in Nat /\ (b \notin lost => acq = n) /\ (kind[b] # "contract" => acq <= n)
       /\ (kind[b] # "plain" => b \in lost) /\ (kind[b] = "none" => acq = 0)
       /\ kind[b] \in {"plain", "contract", "none"}
  <2>1. acq \in Nat /\ kind[b] \in {"plain", "contract", "none"}
    BY <1>1, <1>5 DEF Rec, Typed
  <2>2. Owed(b, acq, n)
    BY <1>1 DEF IInv, BookV1, n
  <2>3. (kind[b] # "plain" => b \in lost) /\ (kind[b] = "none" => acq = 0)
    BY <1>1 DEF IInv, Kinds
  <2> HIDE DEF acq
  <2> QED
    BY <2>1, <2>2, <2>3 DEF Owed
<1>19. before = IF kind[b] = "plain" /\ acq >= x THEN acq ELSE x
  BY DEF WeightReleased
<1> HIDE DEF before
<1> DEFINE after == before - x
<1>20. before \in Nat /\ after \in Nat /\ g \in Nat
  <2> HIDE DEF acq
  <2> QED
    BY <1>9, <1>18, <1>19
<1>21. /\ b \notin lost => (g = acq + y /\ before = acq /\ g = after)
       /\ kind[b] # "contract" => g <= n + y
       /\ kind[b] = "none" => g = 0
  <2> HIDE DEF acq
  <2>1. b \notin lost => (kind[b] = "plain" /\ acq >= x)
    BY <1>9, <1>10, <1>18
  <2>2. b \notin lost => (g = acq + y /\ before = acq /\ g = after)
    BY <1>9, <1>18, <1>19, <2>1
  <2>3. kind[b] # "contract" => g <= n + y
    <3>1. CASE kind[b] = "plain"
      BY <1>9, <1>10, <1>18, <1>19, <3>1
    <3>2. CASE kind[b] = "none"
      <4>1. g = 0
        BY <1>18, <3>2
      <4> QED
        BY <1>9, <1>10, <4>1
    <3> QED
      BY <1>18, <3>1, <3>2
  <2>4. kind[b] = "none" => g = 0
    BY <1>18
  <2> QED
    BY <2>2, <2>3, <2>4
<1> HIDE DEF g
<1>22. G \in [Quotas -> Nat] /\ G[q] = g /\ \A t \in Quotas \ {q} : G[t] = record[b].acquiredLegacy[t]
  BY <1>5, <1>20 DEF Rec
<1> HIDE DEF G
<1>23. rb \in Rec /\ rb.acquiredLegacy = G /\ Borrows(record[b], rb, q)
  <2> DEFINE r == record[b]
             r2 == [r EXCEPT !.acquiredLegacy = G]
  <2>1. r \in Rec /\ \A t \in Quotas \ {q} : G[t] = r.acquiredLegacy[t]
    BY <1>5, <1>22
  <2> HIDE DEF r
  <2>2. r2 \in Rec /\ r2.acquiredLegacy = G
    BY <1>22, <2>1 DEF Rec
  <2>3. Borrows(r, r2, q)
    BY <2>1, <2>2 DEF Borrows, Rec
  <2> QED
    BY <2>2, <2>3 DEF r
<1> HIDE DEF rb
<1>24. record' \in [Accounts -> Rec]
  <2>1. \A c \in Accounts : record'[c] \in Rec
    BY <1>5, <1>8, <1>15, <1>23
  <2> QED
    BY <1>8, <2>1
<1>25. ShiftWeight(q, before, after) /\ before \in Int /\ after \in Int
  BY <1>3, <1>20
<1> HIDE DEF after
<1>26. weight' \in [Stakes -> Int]
  BY <1>1, <1>5, <1>25, ShiftInt
<1>27. lost = {} => \A s \in Stakes : weight'[s] = weight[s] - Weighs(record[b], s) + Weighs(rb, s)
  <2> HAVE lost = {}
  <2> DEFINE r == record[b]
  <2>1. r \in Rec /\ Borrows(r, rb, q) /\ r.acquiredLegacy[q] = before /\ rb.acquiredLegacy[q] = after
    BY <1>5, <1>21, <1>22, <1>23
  <2> HIDE DEF r
  <2>2. /\ \A t \in Stakes \ {q} : Weighs(rb, t) = Weighs(r, t) /\ Weighs(r, t) \in Int
        /\ Weighs(r, q) \in Int
        /\ Floor(r.acquiredLegacy[q]) \in Int /\ Floor(rb.acquiredLegacy[q]) \in Int
        /\ Weighs(rb, q) = Weighs(r, q) + Floor(rb.acquiredLegacy[q]) - Floor(r.acquiredLegacy[q])
    BY <1>23, <2>1, BorrowsWeighs
  <2>3. Floor(before) \in Int /\ Floor(after) \in Int /\ Weighs(rb, q) = Weighs(r, q) + Floor(after) - Floor(before)
    BY <2>1, <2>2
  <2>4. \A t \in Stakes : weight'[t] = weight[t] - Weighs(r, t) + Weighs(rb, t)
    BY <1>1, <1>5, <1>25, <2>2, <2>3, Shifted
  <2> QED
    BY <2>4 DEF r
<1>28. A \in [Quotas -> Nat] /\ \A t \in Quotas : A[t] = held.amount[t] + IF t = q THEN y ELSE 0
  <2>1. A \in [Quotas -> Nat] /\ A[q] = 0 /\ \A t \in Quotas \ {q} : A[t] = held.amount[t] /\ held.amount[t] \in Nat
    BY <1>9
  <2>2. held.amount[q] + y = 0
    BY <1>9 DEF x
  <2> HIDE DEF A, y
  <2>3. \A t \in Quotas : A[t] = held.amount[t] + IF t = q THEN y ELSE 0
    BY <2>1, <2>2
  <2> QED
    BY <2>1, <2>3
<1>29. E \in [Quotas -> Nat]
  BY <1>9
<1> HIDE DEF A, E
<1>30. e \in Entry /\ e.amount = A
  BY <1>9, <1>28, <1>29 DEF Entry
<1> HIDE DEF e
<1>31. Table(T2) /\ But(legacy, T2, p) /\ DOMAIN T2 \subseteq DOMAIN legacy \cup {p} /\ Get(T2, p).amount = A
  BY <1>5, <1>30, PutIs DEF Typed
<1> HIDE DEF T2
<1>32. \A t \in Quotas : Get(legacy', p).amount[t] = Get(legacy, p).amount[t] + IF t = q THEN y ELSE 0
  BY <1>2, <1>3, <1>28, <1>31
<1>33. legacyPairs' = DOMAIN T2 /\ DOMAIN T2 \subseteq Pairs
  <2>1. legacyPairs = DOMAIN legacy /\ DOMAIN legacy \subseteq Pairs
    BY <1>5 DEF IInv, BookV1, Typed
  <2> QED
    BY <1>2, <1>3, <1>31, <2>1 DEF But
<1> DEFINE x2 == balance[a] + x
<1>34. x2 \in Nat /\ x2 = balance[a] - y /\ balance' = [balance EXCEPT ![a] = x2]
  BY <1>3, <1>6, <1>9
<1> HIDE DEF x2, y
<1>35. /\ Lends(record[a], record'[a], q, y) /\ Carry(record'[a]) /\ Borrows(record[b], record'[b], q)
       /\ Table(legacy') /\ DOMAIN legacy' \subseteq Pairs /\ But(legacy, legacy', p) /\ legacyPairs' = DOMAIN legacy'
  BY <1>3, <1>8, <1>15, <1>17, <1>23, <1>31, <1>33
<1>36. lost = {} => \A s \in Stakes : weight'[s] = weight[s] - Weighs(record[b], s) + Weighs(record'[b], s)
  BY <1>8, <1>27
<1>37. record'[b].acquiredLegacy[q] = g
  BY <1>8, <1>22, <1>23
<1>38. b \notin lost => record'[b].acquiredLegacy[q] = record[b].acquiredLegacy[q] + y
  BY <1>21, <1>37
<1>39. kind[b] # "contract" => record'[b].acquiredLegacy[q] <= Pile(legacy, Of(Pairs, 2, b), q) + y
  BY <1>21, <1>37 DEF n
<1>40. kind[b] = "none" => record'[b].acquiredLegacy[q] = 0
  BY <1>21, <1>37
<1>41. UNCHANGED <<params, addresses, delegations, pairs, time>>
  BY <1>3
<1>42. \A c \in Accounts : (c # a /\ c # b) => record'[c] = record[c]
  BY <1>8
<1>43. a = p[1] /\ b = p[2]
  OBVIOUS
<1> HIDE DEF a, b
<1>44. Lent(p, q, y, a, b, x2)
  BY <1>24, <1>26, <1>32, <1>34, <1>35, <1>36, <1>38, <1>39, <1>40, <1>41, <1>42, <1>43 DEF Lent
<1> QED
  BY <1>2, <1>16, <1>44, LendStep
(***************************************************************************)
(* Addresses without a key, and time.                                      *)
(***************************************************************************)

\* An account without stake that nobody lends weighs nothing.
LEMMA IdleWeighs ==
    ASSUME NEW r \in Rec, Idle(r), \A q \in Quotas : r.acquiredLegacy[q] = 0
    PROVE  \A s \in Stakes : Weighs(r, s) = 0
<1> SUFFICES ASSUME NEW s \in Stakes PROVE Weighs(r, s) = 0
  OBVIOUS
<1>1. WeightWithDelegated(r, s) = 0 /\ r.frozenLegacy[s].amount = 0 /\ (s \in Quotas => r.acquiredLegacy[s] = 0)
  BY DEF WeightWithDelegated, Idle
<1>2. Floor(0) = 0
  BY ResourcesAssumption DEF Floor
<1> QED
  BY <1>1, <1>2 DEF Weighs

\* What may become of an address c that no key signs for.
Turned(c) ==
    /\ c \in lost' /\ lost \subseteq lost' /\ lost' \subseteq lost \cup {c}
    /\ \A a \in Accounts \ {c} : kind'[a] = kind[a]
    /\ kind' \in [Accounts -> {"plain", "contract", "none"}]
    /\ \/ record' = record /\ (kind'[c] = "contract" \/ (kind'[c] = "plain" /\ kind[c] = "none"))
       \/ record' = [record EXCEPT ![c] = Blank]
    /\ UNCHANGED <<params, balance, books, weight, time>>

\* A step that turns what there is at an address without a key.
LEMMA AddressStep ==
    ASSUME IInv, NEW c \in Deployable, Turned(c), txs' \in 0..MaxTxs
    PROVE  IInv'
<1> USE DEF books, time
<1>1. c \in Accounts /\ c \notin Owners /\ record \in [Accounts -> Rec] /\ record[c] \in Rec
  BY ResourcesAssumption, Finite DEF IInv, Typed
<1>2. /\ c \in lost' /\ lost \subseteq lost' /\ lost' \subseteq lost \cup {c} /\ lost \subseteq Deployable
      /\ \A a \in Accounts \ {c} : kind'[a] = kind[a]
      /\ kind' \in [Accounts -> {"plain", "contract", "none"}]
      /\ UNCHANGED <<params, balance, books, weight, time>>
  BY DEF Turned, IInv, Typed
<1>3. /\ record' \in [Accounts -> Rec] /\ \A a \in Accounts \ {c} : record'[a] = record[a]
      /\ record'[c] = record[c] \/ record'[c] = Blank
      /\ kind'[c] = "none" => record'[c] = Blank
      /\ kind'[c] = "plain" => record'[c] = Blank \/ kind[c] = "none"
  BY <1>1, BlankIs DEF Turned
<1>4. Blank \in Rec /\ Carry(Blank) /\ Idle(Blank) /\ (\A s \in Stakes : Weighs(Blank, s) = 0 /\ Blank.frozenLegacy[s].amount = 0)
      /\ \A q \in Quotas : Blank.acquired[q] = 0 /\ Blank.acquiredLegacy[q] = 0
  BY BlankIs
<1>5. Typed'
  <2>1. Table(delegations)' /\ Table(legacy)'
    BY <1>2 DEF IInv, Typed, Table
  <2> QED
    BY <1>2, <1>3, <2>1 DEF IInv, Typed
<1>6. Backed'
  <2> SUFFICES ASSUME NEW a \in Accounts PROVE Solvent(a, record[a], Purse(a))'
    BY DEF Backed
  <2>0. Solvent(a, record[a], Purse(a)) /\ Purse(a)' = Purse(a)
    BY <1>2 DEF IInv, Backed, Purse
  <2>1. CASE record'[a] = record[a]
    BY <1>2, <2>0, <2>1 DEF Solvent, Carry, Idle
  <2>2. CASE a = c /\ record'[a] = Blank
    <3>1. Carry(record[a])'
      BY <1>2, <1>4, <2>2 DEF Carry
    <3>2. Idle(record'[a])
      BY <1>4, <2>2
    <3> QED
      BY <1>1, <2>2, <3>1, <3>2 DEF Solvent, Idle
  <2> QED
    BY <1>3, <2>1, <2>2
<1>7. Weighed'
  <2> SUFFICES ASSUME (StakeV2 \/ lost = {})', NEW s \in Stakes PROVE weight'[s] = Weigh(record', s)
    BY DEF Weighed, Weigh
  <2>1. StakeV2
    BY <1>2 DEF StakeV2
  <2>2. weight'[s] = Weigh(record, s)
    BY <1>2, <2>1 DEF IInv, Weighed
  <2>3. Weighs(record[c], s) = 0
    <3>1. Idle(record[c]) /\ \A q \in Quotas : record[c].acquiredLegacy[q] = 0
      BY <1>1, <2>1 DEF IInv, Backed, Solvent, NoLegacy
    <3> QED
      BY <1>1, <3>1, IdleWeighs
  <2>4. \A a \in Accounts : Weighs(record'[a], s) = Weighs(record[a], s)
    BY <1>3, <1>4, <2>3
  <2> DEFINE R == record
             R2 == record'
  <2>5. R \in [Accounts -> Rec] /\ R2 \in [Accounts -> Rec] /\ \A a \in Accounts : Weighs(R2[a], s) = Weighs(R[a], s)
    BY <1>1, <1>3, <2>4
  <2> HIDE DEF R, R2
  <2>6. Weigh(R2, s) = Weigh(R, s)
    BY <2>5, WeighSame
  <2> QED
    BY <2>2, <2>6 DEF R, R2
<1>8. ASSUME NEW b \in Accounts, NEW t \in Quotas
      PROVE  /\ Owed(b, record[b].acquired[t], Pile(delegations, Of(Keys, 2, b), t))'
             /\ Owed(b, record[b].acquiredLegacy[t], Pile(legacy, Of(Pairs, 2, b), t))'
  <2> DEFINE n == Pile(delegations, Of(Keys, 2, b), t)
             l == Pile(legacy, Of(Pairs, 2, b), t)
  <2>1. Owed(b, record[b].acquired[t], n) /\ Owed(b, record[b].acquiredLegacy[t], l)
    BY DEF IInv, BookV2, BookV1
  <2>2. n \in Nat /\ l \in Nat
    BY PileNat DEF IInv, Typed
  <2>3. Pile(delegations', Of(Keys, 2, b), t) = n /\ Pile(legacy', Of(Pairs, 2, b), t) = l
    BY <1>2
  <2> HIDE DEF n, l
  <2>4. CASE b # c
    BY <1>2, <1>3, <2>1, <2>3, <2>4 DEF Owed
  <2>5. CASE b = c /\ record'[c] = Blank
    BY <1>2, <1>4, <2>2, <2>3, <2>5 DEF Owed
  <2>6. CASE b = c /\ record'[c] = record[c]
    BY <1>2, <1>3, <1>4, <2>1, <2>2, <2>3, <2>6 DEF Owed
  <2> QED
    BY <1>3, <2>4, <2>5, <2>6
<1>9. BookV2' /\ BookV1'
  <2>1. ASSUME NEW a \in Owners, NEW q \in Quotas
        PROVE  /\ record'[a].delegatedOut[q] = Pile(delegations', Of(Keys, 1, a), q)
               /\ record'[a].delegatedLegacyOut[q] = Pile(legacy', Of(Pairs, 1, a), q)
    <3>1. a \in Accounts \ {c}
      BY <1>1, Finite
    <3> QED
      BY <1>2, <1>3, <3>1 DEF IInv, BookV2, BookV1
  <2>2. (pairs = {<<k[1], k[2]>> : k \in DOMAIN delegations} /\ legacyPairs = DOMAIN legacy)'
    BY <1>2 DEF IInv, BookV2, BookV1
  <2> QED
    BY <1>8, <2>1, <2>2 DEF BookV2, BookV1
<1>10. Kinds'
  BY <1>2, <1>3, <1>4 DEF IInv, Kinds
<1>11. NoLegacy'
  BY <1>1, <1>2, <1>3, <1>4 DEF IInv, NoLegacy, StakeV2
<1>12. Locks'
  BY <1>2 DEF IInv, Locks, LongLocks, StakeV2
<1> QED
  BY <1>5, <1>6, <1>7, <1>9, <1>10, <1>11, <1>12 DEF IInv

\* A contract takes an address, is destroyed there, or a transfer revives it.
LEMMA DeployedStep ==
    ASSUME IInv, NEW c \in Deployable, Deploy(c) \/ Destroy(c) \/ Revive(c), txs' \in 0..MaxTxs
    PROVE  IInv'
<1>1. c \in Accounts /\ kind \in [Accounts -> {"plain", "contract", "none"}] /\ lost \subseteq Deployable
  BY Finite DEF IInv, Typed
<1>2. kind[c] = "none" => c \in lost
  BY <1>1 DEF IInv, Kinds
<1>3. CASE Deploy(c)
  BY <1>1, <1>3, AddressStep DEF Deploy, Turned
<1>4. CASE Destroy(c)
  BY <1>1, <1>4, AddressStep DEF Destroy, Turned
<1>5. CASE Revive(c)
  BY <1>1, <1>2, <1>5, AddressStep DEF Revive, Turned
<1> QED
  BY <1>3, <1>4, <1>5

\* What ends within a span of h ends within that span of a later time.
LEMMA Later ==
    ASSUME NEW n \in Nat, NEW h \in Nat, NEW h2 \in Nat, NEW d \in Nat, n <= h + d, h <= h2
    PROVE  n <= h2 + d
OBVIOUS

\* Time passes, or nothing happens.
LEMMA TimeStep ==
    ASSUME IInv, UNCHANGED <<params, addresses, balance, record, books, weight>>,
           head <= head', head' \in 0..clock', clock' \in 0..MaxTime, txs' \in 0..MaxTxs
    PROVE  IInv'
<1> USE DEF addresses, books
<1>1. Typed'
  <2>1. Table(delegations)' /\ Table(legacy)'
    BY DEF IInv, Typed, Table
  <2> QED
    BY <2>1 DEF IInv, Typed
<1>2. Backed'
  <2> SUFFICES ASSUME NEW a \in Accounts PROVE Solvent(a, record[a], Purse(a))'
    BY DEF Backed
  <2>1. Solvent(a, record[a], Purse(a)) /\ Purse(a)' = Purse(a)
    BY DEF IInv, Backed, Purse
  <2> QED
    BY <2>1 DEF Solvent, Carry, Idle
<1>3. Weighed'
  BY DEF IInv, Weighed, StakeV2, Weigh
<1>4. \A b \in Accounts : Keeps(record[b], record'[b])
  BY DEF Keeps
<1>5. BookV2' /\ BookV1'
  BY <1>4, BooksKept DEF IInv
<1>6. Kinds' /\ NoLegacy'
  BY DEF IInv, Kinds, NoLegacy, StakeV2
<1>7. Locks'
  <2> SUFFICES ASSUME ~LongLocks, NEW k \in DOMAIN delegations, NEW q \in Quotas, k[3]
               PROVE  delegations[k].expire[q] <= head' + DefaultLock
    BY DEF Locks, LongLocks, StakeV2
  <2>1. delegations[k].expire[q] <= head + DefaultLock
    BY DEF IInv, Locks
  <2>2. delegations[k].expire[q] \in Nat /\ head \in Nat /\ head' \in Nat /\ DefaultLock \in Nat
    BY ResourcesAssumption DEF IInv, Typed, Table, Entry
  <2> DEFINE n == delegations[k].expire[q]
  <2>3. n <= head + DefaultLock /\ n \in Nat
    BY <2>1, <2>2
  <2> HIDE DEF n
  <2>4. n <= head' + DefaultLock
    BY <2>2, <2>3, Later
  <2> QED
    BY <2>4 DEF n
<1> QED
  BY <1>1, <1>2, <1>3, <1>5, <1>6, <1>7 DEF IInv
\* Every step of the node keeps the invariant.
LEMMA StepInv ==
    ASSUME IInv, [Next]_vars
    PROVE  IInv'
<1>1. txs \in 0..MaxTxs /\ MaxTxs \in Nat /\ head \in 0..clock /\ clock \in 0..MaxTime /\ MaxTime \in Nat
  BY ResourcesAssumption DEF IInv, Typed
<1>2. CASE Transaction /\ txs < MaxTxs /\ txs' = txs + 1
  <2>1. txs' \in 0..MaxTxs
    BY <1>1, <1>2
  <2>2. ASSUME NEW a \in Owners, NEW x \in Amounts, NEW s \in Stakes,
               FreezeBalanceV2(a, x, s) \/ UnfreezeBalanceV2(a, x, s) \/ FreezeBalance(a, x, s)
        PROVE  IInv'
    BY <2>1, <2>2, FreezeV2Step, UnfreezeV2Step, FreezeStep
  <2>3. ASSUME NEW a \in Owners, WithdrawExpireUnfreeze(a) \/ CancelAllUnfreezeV2(a)
        PROVE  IInv'
    BY <2>1, <2>3, WithdrawStep, CancelStep
  <2>4. ASSUME NEW p \in Pairs, NEW x \in Amounts, NEW q \in Quotas,
               \/ \E lock \in BOOLEAN, period \in Periods : DelegateResource(p, x, q, lock, period)
               \/ UnDelegateResource(p, x, q) \/ FreezeFor(p, x, q)
        PROVE  IInv'
    BY <2>1, <2>4, DelegateStep, UnDelegateStep, FreezeForStep
  <2>5. ASSUME NEW a \in Owners, NEW s \in Stakes, UnfreezeBalance(a, s)
        PROVE  IInv'
    BY <2>1, <2>5, UnfreezeStep
  <2>6. ASSUME NEW p \in Pairs, NEW q \in Quotas, UnfreezeFrom(p, q)
        PROVE  IInv'
    BY <2>1, <2>6, UnfreezeFromStep
  <2>7. ASSUME NEW a \in Owners, NEW q \in Quotas, NEW u \in Units, Consume(a, q, u)
        PROVE  IInv'
    BY <2>1, <2>7, ConsumeStep
  <2>8. ASSUME NEW c \in Deployable, Deploy(c) \/ Destroy(c) \/ Revive(c)
        PROVE  IInv'
    BY <2>1, <2>8, DeployedStep
  <2> QED
    BY <1>2, <2>2, <2>3, <2>4, <2>5, <2>6, <2>7, <2>8 DEF Transaction
<1>3. CASE Tick /\ UNCHANGED txs
  <2>1. /\ UNCHANGED <<params, addresses, balance, record, books, weight>>
        /\ head <= head' /\ head' \in 0..clock' /\ clock' \in 0..MaxTime /\ txs' \in 0..MaxTxs
    BY <1>1, <1>3 DEF Tick
  <2> QED
    BY <2>1, TimeStep
<1>4. CASE Seal /\ UNCHANGED txs
  <2>1. /\ UNCHANGED <<params, addresses, balance, record, books, weight>>
        /\ head <= head' /\ head' \in 0..clock' /\ clock' \in 0..MaxTime /\ txs' \in 0..MaxTxs
    BY <1>1, <1>4 DEF Seal
  <2> QED
    BY <2>1, TimeStep
<1>5. CASE UNCHANGED vars
  <2>1. /\ UNCHANGED <<params, addresses, balance, record, books, weight>>
        /\ head <= head' /\ head' \in 0..clock' /\ clock' \in 0..MaxTime /\ txs' \in 0..MaxTxs
    BY <1>1, <1>5 DEF vars, time
  <2> QED
    BY <2>1, TimeStep
<1> QED
  BY <1>2, <1>3, <1>4, <1>5 DEF Next

\* What IInv says holds throughout, for any accounts, amounts, periods and chain
\* parameters.
THEOREM ResourcesInvariant == Spec => []IInv
<1>1. Init => IInv
  BY InitInv
<1>2. IInv /\ [Next]_vars => IInv'
  BY StepInv
<1> QED
  BY <1>1, <1>2, PTL DEF Spec

\* The ledgers of stakes, delegations, votes and weights always say the same
\* (node.ts, wallet/stake.ts): no sun is made or lost, the weights are the sums
\* of what the accounts weigh, the four books of a delegation agree, votes are
\* backed by stake and pending unstakes keep within their slots.
THEOREM ResourcesSound == Spec => []BooksSound
<1>1. IInv => BooksSound
  BY InvSound
<1> QED
  BY <1>1, ResourcesInvariant, PTL(***************************************************************************)
(* What a step may do: pay an owner, join a lock, move usage.              *)
(***************************************************************************)

\* What an owner is paid had matured at the head.
Earned(a) ==
    LET r == record[a]
        paid == balance'[a] - balance[a]
    IN paid > 0 =>
           \/ paid = Sum(Matured(r))
           \/ \E s \in Stakes : paid = r.frozenLegacy[s].amount /\ r.frozenLegacy[s].expire <= head
           \/ \E p \in DOMAIN legacy, q \in Quotas :
                 p[1] = a /\ paid = legacy[p].amount[q] /\ LegacyExpiry(p, q) <= head

\* Who is not paid need not have waited.
LEMMA NotPaid ==
    ASSUME NEW a, balance[a] \in Nat, NEW x \in Nat, balance'[a] = balance[a] - x
    PROVE  Earned(a)
<1> DEFINE paid == balance'[a] - balance[a]
<1>1. ~(paid > 0)
  OBVIOUS
<1> QED
  BY <1>1 DEF Earned

\* A step that debits one owner pays nobody.
LEMMA DebitEarned ==
    ASSUME IInv, NEW c \in Owners, NEW x \in Nat, balance' = [balance EXCEPT ![c] = balance[c] - x], NEW a \in Owners
    PROVE  Earned(a)
<1>1. balance \in [Owners -> Nat] /\ balance[a] \in Nat
  BY DEF IInv, Typed
<1>2. CASE a = c
  <2>1. balance'[a] = balance[a] - x
    BY <1>1, <1>2
  <2> QED
    BY <1>1, <2>1, NotPaid
<1>3. CASE a # c
  <2> DEFINE y == 0
  <2>1. y \in Nat /\ balance'[a] = balance[a] - y
    BY <1>1, <1>3
  <2> HIDE DEF y
  <2> QED
    BY <1>1, <2>1, NotPaid
<1> QED
  BY <1>2, <1>3

\* A step that leaves the balances alone pays nobody.
LEMMA SameEarned ==
    ASSUME IInv, UNCHANGED balance, NEW a \in Owners
    PROVE  Earned(a)
<1> DEFINE y == 0
<1>1. balance[a] \in Nat /\ y \in Nat /\ balance'[a] = balance[a] - y
  BY DEF IInv, Typed
<1> HIDE DEF y
<1> QED
  BY <1>1, NotPaid

\* A step that credits one owner pays what it credits, to that owner.
LEMMA CreditEarned ==
    ASSUME IInv, NEW c \in Owners, NEW x \in Nat, Credit(c, x), NEW a \in Owners,
           \/ x = Sum(Matured(record[c]))
           \/ \E s \in Stakes : x = record[c].frozenLegacy[s].amount /\ record[c].frozenLegacy[s].expire <= head
           \/ \E p \in DOMAIN legacy, q \in Quotas :
                 p[1] = c /\ x = legacy[p].amount[q] /\ LegacyExpiry(p, q) <= head
    PROVE  Earned(a)
<1>1. balance \in [Owners -> Nat] /\ balance[a] \in Nat
  BY DEF IInv, Typed
<1>2. CASE a = c
  <2> DEFINE paid == balance'[a] - balance[a]
  <2>1. balance'[a] = balance[a] + x
    BY <1>1, <1>2 DEF Credit
  <2>2. paid = x
    BY <1>1, <2>1
  <2> HIDE DEF paid
  <2>3. \/ paid = Sum(Matured(record[a]))
        \/ \E s \in Stakes : paid = record[a].frozenLegacy[s].amount /\ record[a].frozenLegacy[s].expire <= head
        \/ \E p \in DOMAIN legacy, q \in Quotas :
              p[1] = a /\ paid = legacy[p].amount[q] /\ LegacyExpiry(p, q) <= head
    BY <1>2, <2>2
  <2> QED
    BY <2>3 DEF Earned, paid
<1>3. CASE a # c
  <2> DEFINE y == 0
  <2>1. y \in Nat /\ balance'[a] = balance[a] - y
    BY <1>1, <1>3 DEF Credit
  <2> HIDE DEF y
  <2> QED
    BY <1>1, <2>1, NotPaid
<1> QED
  BY <1>2, <1>3

\* Every step of the node pays only what had matured.
LEMMA StepEarned ==
    ASSUME IInv, [Next]_vars, NEW a \in Owners
    PROVE  Earned(a)
<1>0. Amounts \subseteq Nat /\ \A p \in Pairs : p[1] \in Owners
  BY ResourcesAssumption, KeysFinite
<1>1. CASE UNCHANGED balance
  BY <1>1, SameEarned
<1>2. ASSUME NEW c \in Owners, NEW x \in Amounts, NEW s \in Stakes, FreezeBalanceV2(c, x, s) \/ FreezeBalance(c, x, s)
      PROVE  Earned(a)
  <2>1. x \in Nat /\ balance' = [balance EXCEPT ![c] = balance[c] - x]
    BY <1>0, <1>2 DEF FreezeBalanceV2, FreezeBalance
  <2> QED
    BY <2>1, DebitEarned
<1>3. ASSUME NEW p \in Pairs, NEW x \in Amounts, NEW q \in Quotas, FreezeFor(p, x, q)
      PROVE  Earned(a)
  <2> DEFINE c == p[1]
  <2>1. c \in Owners /\ x \in Nat /\ balance' = [balance EXCEPT ![c] = balance[c] - x]
    BY <1>0, <1>3 DEF FreezeFor
  <2> HIDE DEF c
  <2> QED
    BY <2>1, DebitEarned
<1>4. ASSUME NEW c \in Owners, Credit(c, Sum(Matured(record[c])))
      PROVE  Earned(a)
  <2> DEFINE x == Sum(Matured(record[c]))
  <2>1. x \in Nat
    BY OwnerIs, ClaimedIs
  <2>2. Credit(c, x) /\ x = Sum(Matured(record[c]))
    BY <1>4
  <2> HIDE DEF x
  <2> QED
    BY <2>1, <2>2, CreditEarned
<1>5. ASSUME NEW c \in Owners, NEW s \in Stakes, UnfreezeBalance(c, s)
      PROVE  Earned(a)
  <2> DEFINE r == Migrated(record[c])
             x == record[c].frozenLegacy[s].amount
  <2>1. record[c] \in Rec /\ Carry(record[c])
    BY OwnerIs
  <2>2. r.frozenLegacy = record[c].frozenLegacy
    BY <2>1, MigratedIs DEF Alike
  <2>3. Credit(c, r.frozenLegacy[s].amount) /\ UnfreezeTime(r, s)
    BY <1>5 DEF UnfreezeBalance
  <2> HIDE DEF r
  <2>4. Credit(c, x) /\ record[c].frozenLegacy[s].expire <= head /\ x \in Nat
    BY <2>1, <2>2, <2>3 DEF UnfreezeTime, Rec
  <2>5. \E t \in Stakes : x = record[c].frozenLegacy[t].amount /\ record[c].frozenLegacy[t].expire <= head
    BY <2>4
  <2> HIDE DEF x
  <2> QED
    BY <2>4, <2>5, CreditEarned
<1>6. ASSUME NEW p \in Pairs, NEW q \in Quotas, UnfreezeFrom(p, q)
      PROVE  Earned(a)
  <2> DEFINE c == p[1]
             x == legacy[p].amount[q]
  <2>1. p \in DOMAIN legacy /\ Credit(c, x) /\ LegacyExpiry(p, q) <= head
    BY <1>6 DEF UnfreezeFrom
  <2>2. x \in Nat /\ c \in Owners
    BY <1>0, <2>1 DEF IInv, Typed, Table, Entry
  <2>3. \E z \in DOMAIN legacy, t \in Quotas : z[1] = c /\ x = legacy[z].amount[t] /\ LegacyExpiry(z, t) <= head
    BY <2>1
  <2> HIDE DEF c, x
  <2> QED
    BY <2>1, <2>2, <2>3, CreditEarned
<1>7. CASE Transaction
  <2>1. ASSUME NEW c \in Owners
        PROVE  \A x, s : UnfreezeBalanceV2(c, x, s) \/ WithdrawExpireUnfreeze(c) \/ CancelAllUnfreezeV2(c)
                            => Credit(c, Sum(Matured(record[c])))
    BY DEF UnfreezeBalanceV2, WithdrawExpireUnfreeze, CancelAllUnfreezeV2
  <2>2. ASSUME NEW p \in Pairs, NEW x \in Amounts, NEW q \in Quotas, NEW lock \in BOOLEAN, NEW period \in Periods,
               DelegateResource(p, x, q, lock, period)
        PROVE  UNCHANGED balance
    BY <2>2 DEF DelegateResource
  <2>5. ASSUME NEW p \in Pairs, NEW x \in Amounts, NEW q \in Quotas, UnDelegateResource(p, x, q)
        PROVE  UNCHANGED balance
    BY <2>5 DEF UnDelegateResource
  <2>3. \A c, q, u : Consume(c, q, u) => UNCHANGED balance
    BY DEF Consume
  <2>4. \A c : Deploy(c) \/ Destroy(c) \/ Revive(c) => UNCHANGED balance
    BY DEF Deploy, Destroy, Revive
  <2> QED
    BY <1>1, <1>2, <1>3, <1>4, <1>5, <1>6, <1>7, <2>1, <2>2, <2>3, <2>4, <2>5 DEF Transaction
<1>8. CASE Tick \/ Seal \/ UNCHANGED vars
  BY <1>1, <1>8 DEF Tick, Seal, vars
<1> QED
  BY <1>7, <1>8 DEF Next

\* Sun becomes spendable only by waiting (node.ts, withdrawExpireUnfreeze and
\* the unfreezes): whatever a step pays an owner had matured at the head.
THEOREM ResourcesPaid == Spec => PaidWhenMatured
<1>1. IInv /\ [Next]_vars => \A a \in Owners : Earned(a)
  BY StepEarned
<1>2. IInv /\ [Next]_vars =>
        [\A a \in Owners :
          LET r == record[a]
              paid == balance'[a] - balance[a]
          IN paid > 0 =>
                 \/ paid = Sum(Matured(r))
                 \/ \E s \in Stakes : paid = r.frozenLegacy[s].amount /\ r.frozenLegacy[s].expire <= head
                 \/ \E p \in DOMAIN legacy, q \in Quotas :
                       p[1] = a /\ paid = legacy[p].amount[q] /\ LegacyExpiry(p, q) <= head]_vars
  BY <1>1, Zenon DEF Earned
<1> QED
  BY <1>2, ResourcesInvariant, PTL DEF Spec, PaidWhenMatured
\* What is locked under a key stays so until its time, which comes no sooner.
Honours(T, T2, L, q) ==
    (Get(T, L).amount[q] > 0 /\ Get(T, L).expire[q] > head) =>
        Get(T2, L).amount[q] >= Get(T, L).amount[q] /\ Get(T2, L).expire[q] >= Get(T, L).expire[q]

\* A table that keeps an entry honours it.
LEMMA SameHonours ==
    ASSUME NEW T, Table(T), NEW T2, NEW L, Get(T2, L) = Get(T, L), NEW q \in Quotas
    PROVE  Honours(T, T2, L, q)
<1>1. Get(T, L).amount[q] \in Nat /\ Get(T, L).expire[q] \in Nat
  BY GetEntry
<1> QED
  BY <1>1 DEF Honours

\* Other keys than the one that is set have what they had.
LEMMA ButGet ==
    ASSUME NEW T, NEW T2, NEW z, But(T, T2, z), NEW k, k # z
    PROVE  Get(T2, k) = Get(T, k)
BY DEF But, Get

\* Unlocking what has expired honours what has not.
LEMMA JoinedHonours ==
    ASSUME Table(delegations), NEW U, NEW L, NEW F, Joined(U, L, F), NEW k, NEW q \in Quotas, k # F, head \in Nat
    PROVE  Honours(delegations, U, k, q)
<1>1. CASE k = L
  <2> DEFINE n == Get(delegations, L).amount[q]
             t == Get(delegations, L).expire[q]
             n2 == Get(U, L).amount[q]
             t2 == Get(U, L).expire[q]
  <2>1. n \in Nat /\ t \in Nat
    BY GetEntry
  <2>2. (n2 = IF t <= head THEN 0 ELSE n) /\ (n2 > 0 => t2 = t)
    BY DEF Joined
  <2> HIDE DEF n, t, n2, t2
  <2>3. (n > 0 /\ t > head) => n2 >= n /\ t2 >= t
    BY <2>1, <2>2
  <2> QED
    BY <1>1, <2>3 DEF Honours, n, t, n2, t2
<1>2. CASE k # L
  <2>1. Get(U, k) = Get(delegations, k)
    BY <1>2 DEF Joined, Get
  <2> QED
    BY <2>1, SameHonours
<1> QED
  BY <1>1, <1>2

\* The key of what is locked is not that of what is not.
LEMMA OtherKey ==
    ASSUME NEW K, K[3] = TRUE, NEW a, NEW b
    PROVE  K # <<a, b, FALSE>>
<1> SUFFICES ASSUME K = <<a, b, FALSE>> PROVE FALSE
  OBVIOUS
<1>1. <<a, b, FALSE>>[3] = FALSE
  OBVIOUS
<1> QED
  BY <1>1

\* Taking back a delegation honours every lock.
LEMMA UnDelegateHonours ==
    ASSUME IInv, NEW p \in Pairs, NEW x \in Amounts, NEW q \in Quotas, UnDelegateResource(p, x, q),
           NEW t \in Quotas, NEW K, K[3] = TRUE
    PROVE  Honours(delegations, delegations', K, t)
<1> DEFINE L == <<p[1], p[2], TRUE>>
           F == <<p[1], p[2], FALSE>>
           U == Unlocked(p)
           free == Get(U, F)
           A == [free.amount EXCEPT ![q] = @ - x]
           e == [free EXCEPT !.amount = A]
           D2 == Put(U, F, e)
<1>0. K # F
  BY OtherKey
<1>1. delegations' = D2 /\ x \in Nat /\ x <= Available(p, q)
  BY ResourcesAssumption DEF UnDelegateResource, CanUnDelegate
<1>2. Typed /\ Table(delegations) /\ DOMAIN delegations \subseteq Keys /\ head \in Nat
  BY Types DEF IInv, Typed
<1>3. Joined(U, L, F)
  BY <1>2, UnlockedIs
<1>4. x <= free.amount[q]
  BY <1>1, <1>2, AvailableIs
<1> HIDE DEF U, F, L
<1>5. Table(U)
  BY <1>3 DEF Joined
<1>6. free \in Entry
  BY <1>5, GetEntry
<1> HIDE DEF free
<1>7. A \in [Quotas -> Nat]
  <2>1. free.amount \in [Quotas -> Nat]
    BY <1>6 DEF Entry
  <2>2. free.amount[q] - x \in Nat
    BY <1>1, <1>4, <2>1
  <2> QED
    BY <2>1, <2>2
<1> HIDE DEF A
<1>8. e \in Entry
  BY <1>6, <1>7 DEF Entry
<1> HIDE DEF e
<1>9. But(U, D2, F)
  BY <1>5, <1>8, PutIs
<1> HIDE DEF D2
<1>10. Get(D2, K) = Get(U, K)
  BY <1>0, <1>9, ButGet
<1>11. Honours(delegations, U, K, t)
  BY <1>0, <1>2, <1>3, JoinedHonours
<1>12. Honours(delegations, D2, K, t)
  BY <1>10, <1>11 DEF Honours
<1> QED
  BY <1>1, <1>12

\* A delegation, locked or not, honours every lock: the rule for one that joins
\* a lock, and the default period where the rule does not apply.
LEMMA DelegateHonours ==
    ASSUME IInv, NEW p \in Pairs, NEW x \in Amounts, NEW q \in Quotas, NEW lock \in BOOLEAN, NEW stated \in Periods,
           DelegateResource(p, x, q, lock, stated),
           NEW t \in Quotas, NEW K, K[3] = TRUE
    PROVE  Honours(delegations, delegations', K, t)
<1> DEFINE L == <<p[1], p[2], TRUE>>
           F == <<p[1], p[2], FALSE>>
           key == <<p[1], p[2], lock>>
           U == Unlocked(p)
           period == LockPeriod(stated)
           held == Get(U, key)
           A == [held.amount EXCEPT ![q] = @ + x]
           E == [held.expire EXCEPT ![q] = IF lock THEN head + period ELSE @]
           e == [held EXCEPT !.amount = A, !.expire = E]
           D2 == With(U, key, e)
<1>0. K # F
  BY OtherKey
<1>1. delegations' = D2 /\ x \in Nat /\ (lock => LockAllowed(p, q, period)) /\ (lock => key = L) /\ (~lock => key = F)
  BY ResourcesAssumption DEF DelegateResource, CanDelegate
<1>2. Typed /\ Table(delegations) /\ DOMAIN delegations \subseteq Keys /\ head \in Nat /\ DefaultLock \in Nat
  BY Types, ResourcesAssumption DEF IInv, Typed
<1>3. period \in Nat /\ (~LongLocks => period = DefaultLock)
  BY ResourcesAssumption DEF LockPeriod
<1>4. (lock /\ Get(delegations, L).amount[q] > 0) => Get(delegations, L).expire[q] <= head + period
  <2> SUFFICES ASSUME lock, Get(delegations, L).amount[q] > 0
               PROVE  Get(delegations, L).expire[q] <= head + period
    OBVIOUS
  <2>1. L \in DOMAIN delegations
    <3>1. L \notin DOMAIN delegations => Get(delegations, L).amount[q] = 0
      BY <1>2, GetEntry DEF Get
    <3> QED
      BY <3>1
  <2> DEFINE n == delegations[L].expire[q]
  <2>2. n \in Nat /\ Get(delegations, L).expire[q] = n
    BY <1>2, <2>1 DEF Table, Entry, Get
  <2>3. CASE LongLocks
    <3>1. period >= n - head
      BY <1>1, <2>1, <2>3 DEF LockAllowed
    <3> HIDE DEF n, period
    <3> QED
      BY <1>2, <1>3, <2>2, <3>1
  <2>4. CASE ~LongLocks
    <3>1. L[3]
      OBVIOUS
    <3>2. n <= head + DefaultLock
      BY <2>1, <2>4, <3>1 DEF IInv, Locks
    <3> QED
      BY <1>3, <2>2, <2>4, <3>2
  <2> QED
    BY <2>3, <2>4
<1>5. Joined(U, L, F)
  BY <1>2, UnlockedIs
<1> HIDE DEF U, F, L, key, period
<1>6. Table(U)
  BY <1>5 DEF Joined
<1>7. held \in Entry
  BY <1>6, GetEntry
<1> HIDE DEF held
<1>8. held.amount \in [Quotas -> Nat] /\ held.expire \in [Quotas -> Nat] /\ head + period \in Nat
  BY <1>2, <1>3, <1>7 DEF Entry
<1>9. A \in [Quotas -> Nat] /\ A[q] = held.amount[q] + x /\ \A s \in Quotas \ {q} : A[s] = held.amount[s]
  BY <1>1, <1>8
<1>10. E \in [Quotas -> Nat] /\ (lock => E[q] = head + period) /\ \A s \in Quotas \ {q} : E[s] = held.expire[s]
  BY <1>8
<1> HIDE DEF A, E
<1>11. e \in Entry /\ e.amount = A /\ e.expire = E
  BY <1>7, <1>9, <1>10 DEF Entry
<1> HIDE DEF e
<1>12. But(U, D2, key) /\ Get(D2, key) = e
  BY <1>6, <1>11, SetIs
<1> HIDE DEF D2
<1>13. Honours(delegations, U, K, t)
  BY <1>0, <1>2, <1>5, JoinedHonours
<1>14. CASE K # key
  <2>1. Get(D2, K) = Get(U, K)
    BY <1>12, <1>14, ButGet
  <2>2. Honours(delegations, D2, K, t)
    BY <1>13, <2>1 DEF Honours
  <2> QED
    BY <1>1, <2>2
<1>15. CASE K = key
  <2>1. lock /\ K = L /\ key = L
    BY <1>0, <1>1, <1>15
  <2> DEFINE n == Get(delegations, L).amount[t]
             i == Get(delegations, L).expire[t]
             n1 == held.amount[t]
             i1 == held.expire[t]
             n2 == A[t]
             i2 == E[t]
  <2>2. n \in Nat /\ i \in Nat /\ n1 \in Nat /\ i1 \in Nat
    BY <1>2, <1>8, GetEntry
  <2>3. (n > 0 /\ i > head) => (n1 >= n /\ i1 >= i)
    BY <1>13, <2>1 DEF Honours, held
  <2>4. n2 >= n1
    BY <1>1, <1>9, <2>2
  <2>5. t # q => i2 = i1
    BY <1>10
  <2>6. t = q => (i2 = head + period /\ (n > 0 => i <= head + period))
    BY <1>4, <1>10, <2>1
  <2>7. n2 \in Nat /\ i2 \in Nat
    BY <1>9, <1>10
  <2> HIDE DEF n, i, n1, i1, n2, i2
  <2>8. (n > 0 /\ i > head) => (n2 >= n /\ i2 >= i)
    BY <1>2, <1>3, <2>2, <2>3, <2>4, <2>5, <2>6, <2>7
  <2>9. Get(D2, K).amount[t] = n2 /\ Get(D2, K).expire[t] = i2
    BY <1>11, <1>12, <1>15 DEF n2, i2
  <2>10. Honours(delegations, D2, K, t)
    BY <2>1, <2>8, <2>9 DEF Honours, n, i
  <2> QED
    BY <1>1, <2>10
<1> QED
  BY <1>14, <1>15

\* Every step of the node honours every lock.
LEMMA StepHonours ==
    ASSUME IInv, [Next]_vars, NEW t \in Quotas, NEW K, K[3] = TRUE
    PROVE  Honours(delegations, delegations', K, t)
<1>1. CASE UNCHANGED delegations
  <2>1. Table(delegations) /\ Get(delegations', K) = Get(delegations, K)
    BY <1>1 DEF IInv, Typed
  <2> DEFINE T == delegations
             T2 == delegations'
  <2>2. Table(T) /\ Get(T2, K) = Get(T, K)
    BY <2>1
  <2> HIDE DEF T, T2
  <2>3. Honours(T, T2, K, t)
    BY <2>2, SameHonours
  <2> QED
    BY <2>3 DEF T, T2
<1>2. CASE Transaction
  <2> USE DEF books
  <2>1. ASSUME NEW a \in Owners, NEW x \in Amounts, NEW s \in Stakes,
               FreezeBalanceV2(a, x, s) \/ UnfreezeBalanceV2(a, x, s) \/ FreezeBalance(a, x, s)
        PROVE  UNCHANGED delegations
    BY <2>1 DEF FreezeBalanceV2, UnfreezeBalanceV2, FreezeBalance
  <2>2. ASSUME NEW a \in Owners, WithdrawExpireUnfreeze(a) \/ CancelAllUnfreezeV2(a)
        PROVE  UNCHANGED delegations
    BY <2>2 DEF WithdrawExpireUnfreeze, CancelAllUnfreezeV2
  <2>3. ASSUME NEW p \in Pairs, NEW x \in Amounts, NEW q \in Quotas, FreezeFor(p, x, q)
        PROVE  UNCHANGED delegations
    BY <2>3 DEF FreezeFor
  <2>4. ASSUME NEW a \in Owners, NEW s \in Stakes, UnfreezeBalance(a, s)
        PROVE  UNCHANGED delegations
    BY <2>4 DEF UnfreezeBalance
  <2>5. ASSUME NEW p \in Pairs, NEW q \in Quotas, UnfreezeFrom(p, q)
        PROVE  UNCHANGED delegations
    BY <2>5 DEF UnfreezeFrom
  <2>6. ASSUME NEW a \in Owners, NEW q \in Quotas, NEW u \in Units, Consume(a, q, u)
        PROVE  UNCHANGED delegations
    BY <2>6 DEF Consume
  <2>7. ASSUME NEW c \in Deployable, Deploy(c) \/ Destroy(c) \/ Revive(c)
        PROVE  UNCHANGED delegations
    BY <2>7 DEF Deploy, Destroy, Revive
  <2> QED
    BY <1>1, <1>2, <2>1, <2>2, <2>3, <2>4, <2>5, <2>6, <2>7, DelegateHonours, UnDelegateHonours DEF Transaction
<1>3. CASE Tick \/ Seal \/ UNCHANGED vars
  BY <1>1, <1>3 DEF Tick, Seal, vars, books
<1> QED
  BY <1>2, <1>3 DEF Next

\* A lock is honoured (delegateResource, unlockExpired in node.ts, and the rule
\* of wallet/stake.ts on joining one): what is locked stays locked until its
\* time, and joining it never brings that time forward.
THEOREM ResourcesLocks == Spec => LockHonoured
<1>1. IInv /\ [Next]_vars => \A p \in Pairs, q \in Quotas : Honours(delegations, delegations', <<p[1], p[2], TRUE>>, q)
  BY StepHonours
<1>2. IInv /\ [Next]_vars =>
        [\A p \in Pairs, q \in Quotas :
          LET before == Get(delegations, <<p[1], p[2], TRUE>>)
              after == Get(delegations', <<p[1], p[2], TRUE>>)
          IN (before.amount[q] > 0 /\ before.expire[q] > head) =>
                 after.amount[q] >= before.amount[q] /\ after.expire[q] >= before.expire[q]]_vars
  BY <1>1, Zenon DEF Honours
<1> QED
  BY <1>2, ResourcesInvariant, PTL DEF Spec, LockHonoured
\* A total does not fall when what two places have together does not.
LEMMA TotalTwo ==
    ASSUME NEW f, LedgerOf(f), NEW h, LedgerOf(h), DOMAIN h = DOMAIN f, NEW a \in DOMAIN f, NEW b \in DOMAIN f, a # b,
           \A x \in DOMAIN f : (x # a /\ x # b) => h[x] = f[x], h[a] + h[b] >= f[a] + f[b]
    PROVE  Total(f) <= Total(h)
<1> DEFINE g == [x \in DOMAIN f |-> IF x = a THEN h[a] ELSE f[x]]
<1>1. f[a] \in Int /\ f[b] \in Int /\ h[a] \in Int /\ h[b] \in Int
  BY DEF LedgerOf
<1>2. LedgerOf(g) /\ DOMAIN g = DOMAIN f /\ g[a] = h[a] /\ g[b] = f[b] /\ \A x \in DOMAIN f \ {a} : g[x] = f[x]
  BY <1>1 DEF LedgerOf
<1>3. \A x \in DOMAIN g \ {b} : h[x] = g[x]
  BY <1>2
<1> HIDE DEF g
<1>4. Total(g) = Total(f) - f[a] + h[a]
  BY <1>2, TotalMoves
<1>5. Total(h) = Total(g) - g[b] + h[b]
  BY <1>2, <1>3, TotalMoves
<1>6. Total(f) \in Int /\ Total(g) \in Int /\ Total(h) \in Int
  BY <1>2, TotalInt
<1> DEFINE n == Total(f)
           k == Total(g)
           l == Total(h)
<1>7. k = n - f[a] + h[a] /\ l = k - f[b] + h[b] /\ n \in Int /\ k \in Int /\ l \in Int
  BY <1>2, <1>4, <1>5, <1>6
<1> HIDE DEF n, k, l
<1>8. n <= l
  BY <1>1, <1>7
<1> QED
  BY <1>8 DEF n, l

\* The usage of all accounts at the time of the candidate.
Usage(R, q) == [a \in Accounts |-> UsageAt(R[a].usage, q)]

\* Reading a ledger gives a natural number.
LEMMA UsageNat ==
    ASSUME clock \in Nat, NEW R \in [Accounts -> Rec], NEW q \in Quotas
    PROVE  /\ DOMAIN Usage(R, q) = Accounts /\ LedgerOf(Usage(R, q))
           /\ \A a \in Accounts : Usage(R, q)[a] = UsageAt(R[a].usage, q) /\ Usage(R, q)[a] \in Nat
<1>1. ASSUME NEW a \in Accounts PROVE UsageAt(R[a].usage, q) \in Nat
  <2> DEFINE u == R[a].usage[q].used
             l == R[a].usage[q].last
  <2>1. u \in Nat /\ l \in Nat
    BY DEF Rec
  <2> HIDE DEF u, l
  <2>2. WindowedUsage(u, l, clock, 0) \in Nat
    <3> DEFINE z == 0
    <3>1. z \in Nat
      OBVIOUS
    <3> HIDE DEF z
    <3>2. WindowedUsage(u, l, clock, z) \in Nat
      BY <2>1, <3>1, WindowedNat
    <3> QED
      BY <3>2 DEF z
  <2> QED
    BY <2>2 DEF UsageAt, u, l
<1> DEFINE f == Usage(R, q)
<1>2. DOMAIN f = Accounts /\ \A a \in Accounts : f[a] = UsageAt(R[a].usage, q) /\ f[a] \in Nat
  BY <1>1 DEF Usage
<1> HIDE DEF f
<1>3. LedgerOf(f)
  BY <1>2, Finite DEF LedgerOf
<1> QED
  BY <1>2, <1>3 DEF f

\* A step sheds no usage when no account does.
LEMMA NoneSheds ==
    ASSUME clock \in Nat, NEW R \in [Accounts -> Rec], NEW R2 \in [Accounts -> Rec], NEW q \in Quotas,
           \A a \in Accounts : UsageAt(R[a].usage, q) <= UsageAt(R2[a].usage, q)
    PROVE  Total(Usage(R, q)) <= Total(Usage(R2, q))
<1> DEFINE f == Usage(R, q)
           h == Usage(R2, q)
<1>1. /\ DOMAIN f = Accounts /\ LedgerOf(f) /\ \A a \in Accounts : f[a] = UsageAt(R[a].usage, q)
      /\ DOMAIN h = Accounts /\ LedgerOf(h) /\ \A a \in Accounts : h[a] = UsageAt(R2[a].usage, q)
  BY UsageNat
<1> HIDE DEF f, h
<1>2. \A x \in DOMAIN f : f[x] <= h[x]
  BY <1>1
<1>3. Total(f) <= Total(h)
  BY <1>1, <1>2, TotalRises
<1> QED
  BY <1>3 DEF f, h

\* A step that leaves every usage alone sheds none.
LEMMA SameUsage ==
    ASSUME clock \in Nat, NEW R \in [Accounts -> Rec], NEW R2 \in [Accounts -> Rec], NEW q \in Quotas,
           \A a \in Accounts : R2[a].usage = R[a].usage
    PROVE  Total(Usage(R, q)) <= Total(Usage(R2, q))
<1>1. ASSUME NEW a \in Accounts PROVE UsageAt(R[a].usage, q) <= UsageAt(R2[a].usage, q)
  <2> DEFINE n == UsageAt(R[a].usage, q)
  <2>1. n \in Nat
    BY UsageNat
  <2> HIDE DEF n
  <2>2. n <= n
    BY <2>1
  <2> QED
    BY <2>2 DEF n
<1> QED
  BY <1>1, NoneSheds

\* A charge raises the usage of the account that pays it.
LEMMA ConsumeSheds ==
    ASSUME IInv, NEW c \in Owners, NEW s \in Quotas, NEW u \in Units, Consume(c, s, u),
           record' \in [Accounts -> Rec], NEW q \in Quotas
    PROVE  Total(Usage(record, q)) <= Total(Usage(record', q))
<1>1. clock \in Nat /\ u \in Nat /\ c \in Accounts /\ record \in [Accounts -> Rec]
  BY ResourcesAssumption, Types, Finite DEF IInv, Typed
<1> DEFINE w == record[c].usage[s].used
           l == record[c].usage[s].last
           n == WindowedUsage(w, l, clock, u)
           z == 0
<1>2. record' = [record EXCEPT ![c].usage[s] = [used |-> n, last |-> clock]]
  BY DEF Consume
<1>3. w \in Nat /\ l \in Nat /\ z \in Nat
  <2>1. record[c] \in Rec
    BY <1>1
  <2>2. w \in Nat /\ l \in Nat
    BY <2>1 DEF Rec
  <2> QED
    BY <2>2
<1>4. n \in Nat /\ WindowedUsage(w, l, clock, z) <= n
  <2> HIDE DEF w, l, z
  <2>1. n \in Nat
    BY <1>1, <1>3, WindowedNat
  <2>2. WindowedUsage(w, l, clock, 0) <= n
    BY <1>1, <1>3, WindowedNat
  <2> QED
    BY <2>1, <2>2 DEF z
<1> HIDE DEF n
<1>5. /\ record'[c].usage[s] = [used |-> n, last |-> clock]
      /\ \A t \in Quotas \ {s} : record'[c].usage[t] = record[c].usage[t]
      /\ \A a \in Accounts \ {c} : record'[a].usage = record[a].usage
  BY <1>1, <1>2 DEF Rec
<1>6. WindowedUsage(n, clock, clock, 0) = n
  BY <1>1, <1>4, StampedReads
<1>7. ASSUME NEW a \in Accounts PROVE UsageAt(record[a].usage, q) <= UsageAt(record'[a].usage, q)
  <2>1. CASE a = c /\ q = s
    <3>1. UsageAt(record'[a].usage, q) = n
      BY <1>5, <1>6, <2>1 DEF UsageAt
    <3>2. UsageAt(record[a].usage, q) <= n
      BY <1>4, <2>1 DEF UsageAt
    <3> QED
      BY <3>1, <3>2
  <2>2. CASE ~(a = c /\ q = s)
    <3>1. record'[a].usage[q] = record[a].usage[q]
      BY <1>5, <2>2
    <3> DEFINE k == UsageAt(record[a].usage, q)
    <3>2. k \in Nat /\ UsageAt(record'[a].usage, q) = k
      BY <1>1, <3>1, UsageNat DEF UsageAt
    <3> HIDE DEF k
    <3>3. k <= UsageAt(record'[a].usage, q)
      BY <3>2
    <3> QED
      BY <3>3 DEF k
  <2> QED
    BY <2>1, <2>2
<1> DEFINE R == record
           R2 == record'
<1>8. R \in [Accounts -> Rec] /\ R2 \in [Accounts -> Rec]
      /\ \A a \in Accounts : UsageAt(R[a].usage, q) <= UsageAt(R2[a].usage, q)
  BY <1>1, <1>7
<1> HIDE DEF R, R2
<1>9. Total(Usage(R, q)) <= Total(Usage(R2, q))
  BY <1>1, <1>8, NoneSheds
<1> QED
  BY <1>9 DEF R, R2
\* Taking back a delegation: the usage that leaves the receiver is the owner's.
LEMMA UnDelegateSheds ==
    ASSUME IInv, NEW p \in Pairs, NEW x \in Amounts, NEW s \in Quotas, UnDelegateResource(p, x, s),
           record' \in [Accounts -> Rec], NEW q \in Quotas
    PROVE  Total(Usage(record, q)) <= Total(Usage(record', q))
<1> DEFINE a == p[1]
           b == p[2]
           moved == TransferUsage(b, x, s)
           left == LeftBehind(b, x, s)
           ua == IF moved > 0 THEN Stamped(Used(a, s) + moved) ELSE record[a].usage[s]
           ub == Stamped(left)
           g == IF record[b].acquired[s] < x THEN 0 ELSE record[b].acquired[s] - x
           f == record[a].frozenV2[s] + x
           d == record[a].delegatedOut[s] - x
           R == record
           R2 == record'
<1>1. a \in Accounts /\ b \in Accounts /\ a # b
  BY KeysFinite
<1>2. Typed /\ Weighed /\ StakeV2 /\ x \in Nat /\ clock \in Nat
  BY ResourcesAssumption, Types DEF IInv, UnDelegateResource, CanUnDelegate
<1>3. R \in [Accounts -> Rec] /\ R2 \in [Accounts -> Rec] /\ record[a] \in Rec /\ record[b] \in Rec
  BY <1>1, <1>2 DEF Typed
<1>4. record' = [record EXCEPT
              ![b].acquired[s] = IF @ < x THEN 0 ELSE @ - x, ![b].usage[s] = ub,
              ![a].frozenV2[s] = @ + x, ![a].delegatedOut[s] = @ - x,
              ![a].usage[s] = IF moved > 0 THEN Stamped(Used(a, s) + moved) ELSE @]
  BY DEF UnDelegateResource
<1>5. R2 = TakenBack(R, a, b, s, g, ub, f, d, ua)
  <2>1. record' = TakenBack(record, a, b, s, g, ub, f, d, ua)
    <3> HIDE DEF moved, left, ub
    <3> QED
      BY <1>1, <1>3, <1>4 DEF TakenBack
  <2> QED
    BY <2>1
<1>6. moved \in Nat /\ left \in Nat /\ left >= Used(b, s) - moved /\ Used(a, s) \in Nat /\ Used(b, s) \in Nat
  BY <1>1, <1>2, TransferIs, UsedNat
<1> DEFINE ja == UsageAt(R[a].usage, s)
           jb == UsageAt(R[b].usage, s)
           ja2 == UsageAt(R2[a].usage, s)
           jb2 == UsageAt(R2[b].usage, s)
<1>7. ja = Used(a, s) /\ jb = Used(b, s)
  BY DEF Used
<1> HIDE DEF moved, left, ua, ub, g, f, d, R, R2
<1>8. R2[a] = Giver(R[a], s, f, d, ua) /\ R2[b] = Taker(R[b], s, g, ub)
      /\ \A c \in Accounts : (c # a /\ c # b) => R2[c] = R[c]
  <2> HIDE DEF a, b
  <2>1. R2[a] = Giver(R[a], s, f, d, ua) /\ R2[b] = Taker(R[b], s, g, ub)
    BY <1>1, <1>3, <1>5, TwoRecords
  <2>2. \A c \in Accounts : (c # a /\ c # b) => R2[c] = R[c]
    BY <1>1, <1>3, <1>5, TwoRecords
  <2> QED
    BY <2>1, <2>2
<1>9. /\ R2[a].usage[s] = ua /\ \A t \in Quotas \ {s} : R2[a].usage[t] = R[a].usage[t]
      /\ R2[b].usage[s] = ub /\ \A t \in Quotas \ {s} : R2[b].usage[t] = R[b].usage[t]
  <2> DEFINE r == R[a]
             o == R[b]
  <2>1. r \in Rec /\ o \in Rec /\ R2[a] = Giver(r, s, f, d, ua) /\ R2[b] = Taker(o, s, g, ub)
    BY <1>1, <1>3, <1>8
  <2> HIDE DEF r, o
  <2>2. /\ Giver(r, s, f, d, ua).usage[s] = ua
        /\ \A t \in Quotas \ {s} : Giver(r, s, f, d, ua).usage[t] = r.usage[t]
    BY <2>1 DEF Giver, Rec
  <2>3. /\ Taker(o, s, g, ub).usage[s] = ub
        /\ \A t \in Quotas \ {s} : Taker(o, s, g, ub).usage[t] = o.usage[t]
    BY <2>1 DEF Taker, Rec
  <2> QED
    BY <2>1, <2>2, <2>3 DEF r, o
<1>10. jb2 = left
  <2>1. WindowedUsage(left, clock, clock, 0) = left
    BY <1>2, <1>6, StampedReads
  <2>2. R2[b].usage[s].used = left /\ R2[b].usage[s].last = clock
    BY <1>9 DEF Stamped, ub
  <2> QED
    BY <2>1, <2>2 DEF UsageAt
<1>11. ja2 = ja + moved
  <2>1. CASE moved > 0
    <3> DEFINE n == Used(a, s) + moved
    <3>1. n \in Nat
      BY <1>6
    <3>2. R2[a].usage[s].used = n /\ R2[a].usage[s].last = clock
      BY <1>9, <2>1 DEF Stamped, ua
    <3> HIDE DEF n
    <3>3. WindowedUsage(n, clock, clock, 0) = n
      BY <1>2, <3>1, StampedReads
    <3>4. ja2 = n
      BY <3>2, <3>3 DEF UsageAt
    <3> QED
      BY <1>7, <3>4 DEF n
  <2>2. CASE ~(moved > 0)
    <3>1. moved = 0
      BY <1>6, <2>2
    <3>2. R2[a].usage[s] = R[a].usage[s]
      BY <1>9, <2>2 DEF ua, R
    <3>3. ja2 = ja
      BY <3>2 DEF UsageAt
    <3>4. ja \in Nat
      BY <1>6, <1>7
    <3> HIDE DEF ja, ja2
    <3> QED
      BY <3>1, <3>3, <3>4
  <2> QED
    BY <2>1, <2>2
<1>12. ja \in Nat /\ jb \in Nat /\ ja2 + jb2 >= ja + jb
  <2>1. ja \in Nat /\ jb \in Nat /\ left >= jb - moved
    BY <1>6, <1>7
  <2> HIDE DEF ja, jb, ja2, jb2
  <2> QED
    BY <1>6, <1>10, <1>11, <2>1
<1>13. CASE q = s
  <2> DEFINE h == Usage(R, q)
             h2 == Usage(R2, q)
  <2>1. /\ DOMAIN h = Accounts /\ LedgerOf(h) /\ DOMAIN h2 = Accounts /\ LedgerOf(h2)
        /\ \A c \in Accounts : h[c] = UsageAt(R[c].usage, q) /\ h2[c] = UsageAt(R2[c].usage, q)
    BY <1>2, <1>3, UsageNat
  <2> HIDE DEF h, h2
  <2>2. h[a] = ja /\ h[b] = jb /\ h2[a] = ja2 /\ h2[b] = jb2
    BY <1>1, <1>13, <2>1
  <2>3. h2[a] + h2[b] >= h[a] + h[b]
    BY <1>12, <2>2
  <2>4. \A c \in DOMAIN h : (c # a /\ c # b) => h2[c] = h[c]
    BY <1>8, <2>1
  <2> HIDE DEF a, b
  <2>5. Total(h) <= Total(h2)
    BY <1>1, <2>1, <2>3, <2>4, TotalTwo
  <2> QED
    BY <2>5 DEF h, h2, R, R2
<1>14. CASE q # s
  <2>1. \A c \in Accounts : R2[c].usage[q] = R[c].usage[q]
    BY <1>8, <1>9, <1>14
  <2>2. ASSUME NEW c \in Accounts PROVE UsageAt(R[c].usage, q) <= UsageAt(R2[c].usage, q)
    <3> DEFINE n == UsageAt(R[c].usage, q)
    <3>1. n \in Nat /\ UsageAt(R2[c].usage, q) = n
      BY <1>2, <1>3, <2>1, UsageNat DEF UsageAt
    <3> HIDE DEF n
    <3>2. n <= UsageAt(R2[c].usage, q)
      BY <3>1
    <3> QED
      BY <3>2 DEF n
  <2>3. Total(Usage(R, q)) <= Total(Usage(R2, q))
    BY <1>2, <1>3, <2>2, NoneSheds
  <2> QED
    BY <2>3 DEF R, R2
<1> QED
  BY <1>13, <1>14
\* Ending the carry-over leaves the usage alone.
LEMMA UnstakedUsage ==
    ASSUME NEW r, "usage" \in DOMAIN r, r = [i \in DOMAIN r |-> r[i]]
    PROVE  Unstaked(r).usage = r.usage
BY DEF Unstaked

\* The transactions of Stake 2.0 that move an owner's own stake leave the usage
\* of every account alone.
LEMMA OwnUsage ==
    ASSUME IInv, NEW a \in Owners, NEW x, NEW s,
           \/ FreezeBalanceV2(a, x, s) \/ UnfreezeBalanceV2(a, x, s) \/ FreezeBalance(a, x, s)
           \/ UnfreezeBalance(a, s) \/ WithdrawExpireUnfreeze(a) \/ CancelAllUnfreezeV2(a),
           NEW c \in Accounts
    PROVE  record'[c].usage = record[c].usage
<1> DEFINE r == record[a]
           m == Migrated(r)
           k == Claimed(r)
           mk == Migrated(k)
<1>1. r \in Rec /\ Carry(r) /\ a \in Accounts /\ record \in [Accounts -> Rec] /\ head \in Nat
  BY OwnerIs DEF IInv, Typed
<1>2. k \in Rec /\ Carry(k) /\ k.usage = r.usage
  BY <1>1, ClaimedIs
<1>3. m \in Rec /\ m.usage = r.usage /\ mk \in Rec /\ mk.usage = k.usage
  BY <1>1, <1>2, MigratedIs
<1>4. "usage" \in DOMAIN r /\ "usage" \in DOMAIN m /\ "usage" \in DOMAIN k /\ "usage" \in DOMAIN mk
  BY <1>1, <1>2, <1>3 DEF Rec
<1> SUFFICES \E r2 : record' = [record EXCEPT ![a] = r2] /\ r2.usage = r.usage
  <2>1. PICK r2 : record' = [record EXCEPT ![a] = r2] /\ r2.usage = r.usage
    OBVIOUS
  <2> QED
    BY <1>1, <2>1
<1>5. CASE FreezeBalanceV2(a, x, s)
  <2> DEFINE r2 == [m EXCEPT !.frozenV2[s] = @ + x]
  <2>1. record' = [record EXCEPT ![a] = r2]
    BY <1>5 DEF FreezeBalanceV2
  <2> HIDE DEF m
  <2>2. r2.usage = r.usage
    BY <1>3, <1>4
  <2> QED
    BY <2>1, <2>2
<1>6. CASE FreezeBalance(a, x, s)
  <2> DEFINE r2 == [m EXCEPT !.frozenLegacy[s] = [amount |-> m.frozenLegacy[s].amount + x, expire |-> head + Frozen]]
  <2>1. record' = [record EXCEPT ![a] = r2]
    BY <1>6 DEF FreezeBalance
  <2> HIDE DEF m
  <2>2. r2.usage = r.usage
    BY <1>3, <1>4
  <2> QED
    BY <2>1, <2>2
<1>7. CASE UnfreezeBalance(a, s)
  <2> DEFINE u == [m EXCEPT !.frozenLegacy[s] = Held]
             r2 == Unstaked(u)
  <2>1. record' = [record EXCEPT ![a] = r2]
    BY <1>7 DEF UnfreezeBalance
  <2> HIDE DEF m
  <2>2. u.usage = r.usage /\ "usage" \in DOMAIN u /\ u = [i \in DOMAIN u |-> u[i]]
    BY <1>3, <1>4
  <2> HIDE DEF u
  <2>3. r2.usage = u.usage
    BY <2>2, UnstakedUsage
  <2> QED
    BY <2>1, <2>2, <2>3
<1>8. CASE UnfreezeBalanceV2(a, x, s)
  <2> DEFINE u == [mk EXCEPT !.frozenV2[s] = @ - x,
                            !.unfrozenV2 = Append(@, [type |-> s, amount |-> x, expire |-> head + params.unfreezeDelay])]
             r2 == Unstaked(u)
  <2>1. record' = [record EXCEPT ![a] = r2]
    BY <1>8 DEF UnfreezeBalanceV2
  <2> HIDE DEF mk
  <2>2. u.usage = r.usage /\ "usage" \in DOMAIN u /\ u = [i \in DOMAIN u |-> u[i]]
    BY <1>2, <1>3, <1>4
  <2> HIDE DEF u
  <2>3. r2.usage = u.usage
    BY <2>2, UnstakedUsage
  <2> QED
    BY <2>1, <2>2, <2>3
<1>9. CASE WithdrawExpireUnfreeze(a)
  <2>1. record' = [record EXCEPT ![a] = k]
    BY <1>9 DEF WithdrawExpireUnfreeze
  <2> QED
    BY <1>2, <2>1
<1>10. CASE CancelAllUnfreezeV2(a)
  <2> DEFINE back == [z \in Stakes |-> Sum(Within(Open(r), {e \in Range(Open(r)) : e.type = z}))]
             G == [z \in Stakes |-> r.frozenV2[z] + back[z]]
             r2 == [r EXCEPT !.unfrozenV2 = << >>, !.frozenV2 = G]
  <2>1. record' = [record EXCEPT ![a] = r2]
    BY <1>10 DEF CancelAllUnfreezeV2
  <2> HIDE DEF r, G
  <2>2. r2.usage = r.usage
    BY <1>4
  <2> QED
    BY <2>1, <2>2
<1> QED
  BY <1>5, <1>6, <1>7, <1>8, <1>9, <1>10

\* So does moving stake between accounts, except when it is taken back.
LEMMA MovedUsage ==
    ASSUME IInv, NEW p \in Pairs, NEW x, NEW q \in Quotas,
           \/ \E lock \in BOOLEAN, period \in Periods : DelegateResource(p, x, q, lock, period)
           \/ FreezeFor(p, x, q) \/ UnfreezeFrom(p, q),
           NEW c \in Accounts
    PROVE  record'[c].usage = record[c].usage
<1> DEFINE a == p[1]
           b == p[2]
           ra == record[a]
           m == Migrated(ra)
<1>1. ra \in Rec /\ Carry(ra) /\ a \in Accounts /\ record \in [Accounts -> Rec] /\ b \in Accounts /\ a # b
  BY OwnerIs, KeysFinite DEF IInv, Typed
<1>2. m \in Rec /\ m.usage = ra.usage
  BY <1>1, MigratedIs
<1>3. "usage" \in DOMAIN m
  BY <1>2 DEF Rec
<1>4. record[b] \in Rec
  BY <1>1
<1>5. CASE \E lock \in BOOLEAN, period \in Periods : DelegateResource(p, x, q, lock, period)
  <2>1. record' = [record EXCEPT ![a].frozenV2[q] = @ - x, ![a].delegatedOut[q] = @ + x, ![b].acquired[q] = @ + x]
    BY <1>5 DEF DelegateResource
  <2> HIDE DEF a, b, ra
  <2> QED
    BY <1>1, <2>1 DEF Rec, ra
<1>6. ASSUME NEW u, u.usage = ra.usage, NEW v, record' = [record EXCEPT ![a] = u, ![b].acquiredLegacy[q] = v]
      PROVE  record'[c].usage = record[c].usage
  <2> HIDE DEF a, b
  <2> QED
    BY <1>1, <1>4, <1>6 DEF Rec
<1>7. CASE FreezeFor(p, x, q)
  <2> DEFINE u == [m EXCEPT !.delegatedLegacyOut[q] = @ + x]
             v == record[b].acquiredLegacy[q] + x
  <2>1. record' = [record EXCEPT ![a] = [m EXCEPT !.delegatedLegacyOut[q] = @ + x], ![b].acquiredLegacy[q] = @ + x]
    BY <1>7 DEF FreezeFor
  <2> HIDE DEF m
  <2>2. record' = [record EXCEPT ![a] = u, ![b].acquiredLegacy[q] = v]
    BY <1>1, <2>1
  <2>3. u.usage = ra.usage
    BY <1>2, <1>3
  <2> HIDE DEF u, v
  <2> QED
    BY <1>6, <2>2, <2>3
<1>8. CASE UnfreezeFrom(p, q)
  <2> DEFINE o == legacy[p].amount[q]
             w == [m EXCEPT !.delegatedLegacyOut[q] = @ - o]
             u == Unstaked(w)
             v == IF kind[b] = "plain" THEN WeightReleased(b, o, q) - o ELSE record[b].acquiredLegacy[q]
  <2>1. record' = [record EXCEPT ![a] = u,
                       ![b].acquiredLegacy[q] = IF kind[b] = "plain" THEN WeightReleased(b, o, q) - o ELSE @]
    BY <1>8 DEF UnfreezeFrom
  <2> HIDE DEF m, o
  <2>2. record' = [record EXCEPT ![a] = u, ![b].acquiredLegacy[q] = v]
    <3> HIDE DEF u
    <3> QED
      BY <1>1, <2>1
  <2>3. w.usage = ra.usage /\ "usage" \in DOMAIN w /\ w = [i \in DOMAIN w |-> w[i]]
    BY <1>2, <1>3
  <2> HIDE DEF w
  <2>4. u.usage = ra.usage
    BY <2>3, UnstakedUsage
  <2> HIDE DEF u, v
  <2> QED
    BY <1>6, <2>2, <2>4
<1> QED
  BY <1>5, <1>7, <1>8
\* No step of the node sheds usage within one block time.
LEMMA StepSheds ==
    ASSUME IInv, [Next]_vars, clock' = clock, kind' = kind, NEW q \in Quotas
    PROVE  Total(Usage(record, q)) <= Total(Usage(record', q))
<1>1. record \in [Accounts -> Rec] /\ record' \in [Accounts -> Rec] /\ clock \in Nat /\ kind \in [Accounts -> {"plain", "contract", "none"}]
  BY StepInv, Types DEF IInv, Typed
<1>2. ASSUME \A c \in Accounts : record'[c].usage = record[c].usage
      PROVE  Total(Usage(record, q)) <= Total(Usage(record', q))
  <2> DEFINE R == record
             R2 == record'
  <2>1. R \in [Accounts -> Rec] /\ R2 \in [Accounts -> Rec] /\ \A c \in Accounts : R2[c].usage = R[c].usage
    BY <1>1, <1>2
  <2> HIDE DEF R, R2
  <2>2. Total(Usage(R, q)) <= Total(Usage(R2, q))
    BY <1>1, <2>1, SameUsage
  <2> QED
    BY <2>2 DEF R, R2
<1>3. CASE Transaction
  <2>1. ASSUME NEW a \in Owners, NEW x \in Amounts, NEW s \in Stakes,
               FreezeBalanceV2(a, x, s) \/ UnfreezeBalanceV2(a, x, s) \/ FreezeBalance(a, x, s)
        PROVE  Total(Usage(record, q)) <= Total(Usage(record', q))
    BY <1>2, <2>1, OwnUsage
  <2>2. ASSUME NEW a \in Owners, WithdrawExpireUnfreeze(a) \/ CancelAllUnfreezeV2(a)
        PROVE  Total(Usage(record, q)) <= Total(Usage(record', q))
    BY <1>2, <2>2, OwnUsage
  <2>3. ASSUME NEW p \in Pairs, NEW x \in Amounts, NEW s \in Quotas,
               \/ \E lock \in BOOLEAN, period \in Periods : DelegateResource(p, x, s, lock, period)
               \/ FreezeFor(p, x, s)
        PROVE  Total(Usage(record, q)) <= Total(Usage(record', q))
    BY <1>2, <2>3, MovedUsage
  <2>4. ASSUME NEW p \in Pairs, NEW x \in Amounts, NEW s \in Quotas, UnDelegateResource(p, x, s)
        PROVE  Total(Usage(record, q)) <= Total(Usage(record', q))
    BY <1>1, <2>4, UnDelegateSheds
  <2>5. ASSUME NEW a \in Owners, NEW s \in Stakes, UnfreezeBalance(a, s)
        PROVE  Total(Usage(record, q)) <= Total(Usage(record', q))
    BY <1>2, <2>5, OwnUsage
  <2>6. ASSUME NEW p \in Pairs, NEW s \in Quotas, UnfreezeFrom(p, s)
        PROVE  Total(Usage(record, q)) <= Total(Usage(record', q))
    BY <1>2, <2>6, MovedUsage
  <2>7. ASSUME NEW a \in Owners, NEW s \in Quotas, NEW u \in Units, Consume(a, s, u)
        PROVE  Total(Usage(record, q)) <= Total(Usage(record', q))
    BY <1>1, <2>7, ConsumeSheds
  <2>8. ASSUME NEW c \in Deployable, Deploy(c) \/ Destroy(c) \/ Revive(c)
        PROVE  Total(Usage(record, q)) <= Total(Usage(record', q))
    <3>1. c \in Accounts
      BY Finite
    <3>2. kind'[c] # kind[c]
      BY <1>1, <2>8, <3>1 DEF Deploy, Destroy, Revive
    <3> QED
      BY <3>2
  <2> QED
    BY <1>3, <2>1, <2>2, <2>3, <2>4, <2>5, <2>6, <2>7, <2>8 DEF Transaction
<1>4. CASE Tick \/ Seal \/ UNCHANGED vars
  <2>1. UNCHANGED record
    BY <1>4 DEF Tick, Seal, vars
  <2> QED
    BY <1>2, <2>1
<1> QED
  BY <1>3, <1>4 DEF Next

\* Usage is not shed by moving stake about (undelegateResource in node.ts):
\* within one block time the usage of all accounts together never falls.
THEOREM ResourcesUsage == Spec => UsageNotShed
<1>1. ASSUME IInv, [Next]_vars, clock' = clock /\ kind' = kind, NEW q \in Quotas
      PROVE  Total([a \in Accounts |-> UsageAt(record'[a].usage, q)])
                 >= Total([a \in Accounts |-> UsageAt(record[a].usage, q)])
  <2> DEFINE n == Total([a \in Accounts |-> UsageAt(record[a].usage, q)])
             k == Total([a \in Accounts |-> UsageAt(record'[a].usage, q)])
  <2>1. Total(Usage(record, q)) <= Total(Usage(record', q))
    BY <1>1, StepSheds
  <2>2. n <= k
    BY <2>1 DEF Usage
  <2> HIDE DEF n, k
  <2>3. k >= n
    BY <2>2
  <2> QED
    BY <2>3 DEF n, k
<1>2. IInv /\ [Next]_vars =>
        [(clock' = clock /\ kind' = kind) =>
          \A q \in Quotas :
              Total([a \in Accounts |-> UsageAt(record'[a].usage, q)])
                  >= Total([a \in Accounts |-> UsageAt(record[a].usage, q)])]_vars
  BY <1>1, Zenon
<1> QED
  BY <1>2, ResourcesInvariant, PTL DEF Spec, UsageNotShed

\* Delegating again ends no lock early, moving stake sheds no usage, and what an
\* unstaking pays out was staked and has matured.
THEOREM ResourcesHonest == Spec => DelegationHonest
BY ResourcesLocks, ResourcesUsage, ResourcesPaid DEF DelegationHonest
=============================================================================
