---------------------------- MODULE Transactions ----------------------------
(***************************************************************************)
(* The transactions of packages/tx: legacy ones with the TRON token fields *)
(* and the typed ones of EIP-2930 and EIP-1559, through construction,      *)
(* signing, serialization and the ways back (bytes, block bodies, JSON).   *)
(* Integers are small; on the wire an integer is a number and the count of *)
(* zero bytes in front of it.  A signature is the key, the message it was  *)
(* made for and its recovery bit; keccak is injective.  EIPs 606, 607,     *)
(* 1559, 2718 and 2930 are active, as in the TRON profile.                 *)
(***************************************************************************)
EXTENDS Integers, Sequences, FiniteSets

CONSTANTS TxDatas,     \* the data transactions are made of
          Chains,      \* chain ids
          TxKeys,      \* private keys
          BaseFees,    \* base fees of blocks
          MAX_INTEGER, MAX_UINT64, TOKEN_MAX,
          MaxMade      \* bound: objects made in a behaviour

\* r and s as one value: absent, both zero, or made by a key.
NoSig == [key |-> "none", msg |-> << >>, rec |-> 0, high |-> FALSE]
Zero == [NoSig EXCEPT !.key = "zero"]

\* Data carries no signature of a key: r and s are absent or zero.
Datas == [type : Nat, chain : Nat \cup {-1}, nonce : Nat, price : Nat, prio : Nat, gas : Nat, to : Nat, value : Nat,
          tokenId : Nat, tokenValue : Nat, data : Nat, access : Nat, v : Nat \cup {-1}, rs : {NoSig, Zero},
          prot : BOOLEAN, frozen : BOOLEAN, sender : {"none"}]

ASSUME TransactionsAssumption ==
    /\ TxDatas \subseteq Datas /\ TxDatas # {}
    /\ Chains \subseteq Nat /\ BaseFees \subseteq Nat
    /\ TxKeys \cap {"none", "zero", "throws", "stranger", "no object"} = {}
    /\ {MAX_INTEGER, MAX_UINT64, TOKEN_MAX, MaxMade} \subseteq Nat

VARIABLES tx,          \* a transaction object
          chain,       \* the chain id of the Common in use
          signed,      \* ghost: what keys have signed
          origin,      \* the values tx was decoded from
          broken,      \* a signature attempt on tx has thrown
          made

txVars == <<tx, chain, signed, origin, broken, made>>

Legacy == 0
AccessListEIP2930 == 1
FeeMarketEIP1559 == 2
Undefined == -1

Refused == [refused |-> TRUE]
IsRefused(x) == "refused" \in DOMAIN x

Protected(v, id) == v = 2 * id + 35 \/ v = 2 * id + 36   \* meetsEIP155

isSigned(t) == t.v # Undefined /\ t.rs.key # "none"

(***************************************************************************)
(* Construction.                                                           *)
(***************************************************************************)
\* The checks of every type.
sharedConstructor(t) ==
    /\ t.type # Legacy => t.tokenId = 0 /\ t.tokenValue = 0
    /\ t.value <= MAX_INTEGER /\ t.gas <= MAX_UINT64 /\ t.nonce < MAX_UINT64
    /\ t.tokenId <= TOKEN_MAX /\ t.tokenValue <= TOKEN_MAX

validateHighS(t) == ~t.rs.high

validateYParity(t) == t.v \in {Undefined, 0, 1}

\* A legacy v is 27 or 28, or carries the chain id.
validateVAndExtractChainID(t, id) ==
    t.v # Undefined => (t.v >= 37 \/ t.v \in {27, 28}) /\ (t.v \in {27, 28} \/ Protected(t.v, id))

\* gas times price as bigints; the capability of replay protection.
LegacyTx(t, id) ==
    IF sharedConstructor(t) /\ t.price <= MAX_INTEGER /\ validateVAndExtractChainID(t, id)
       /\ t.price * t.gas <= MAX_INTEGER
    THEN [t EXCEPT !.chain = id, !.prio = 0, !.access = 0, !.prot = ~isSigned(t) \/ Protected(t.v, id)]
    ELSE Refused

AccessList2930Tx(t, id) ==
    IF sharedConstructor(t) /\ t.chain \in {Undefined, id} /\ t.price <= MAX_INTEGER
       /\ t.price * t.gas <= MAX_INTEGER /\ validateYParity(t) /\ validateHighS(t)
    THEN [t EXCEPT !.chain = id, !.prio = 0, !.prot = FALSE] ELSE Refused

FeeMarket1559Tx(t, id) ==
    IF sharedConstructor(t) /\ t.chain \in {Undefined, id} /\ t.price <= MAX_INTEGER /\ t.prio <= MAX_INTEGER
       /\ t.gas * t.price <= MAX_INTEGER /\ t.prio <= t.price /\ validateYParity(t) /\ validateHighS(t)
    THEN [t EXCEPT !.chain = id, !.prot = FALSE] ELSE Refused

\* createTx: the constructor of the type the data names; the object is new,
\* so nothing is cached.
createTx(t, id) ==
    LET fresh == [t EXCEPT !.sender = "none"]
    IN CASE t.type = Legacy -> LegacyTx(fresh, id)
         [] t.type = AccessListEIP2930 -> AccessList2930Tx(fresh, id)
         [] t.type = FeeMarketEIP1559 -> FeeMarket1559Tx(fresh, id)
         [] OTHER -> Refused

(***************************************************************************)
(* What is signed.                                                         *)
(***************************************************************************)
\* Faulty variant: the six fields of an Ethereum transaction.
messageLegacyPlain(t) == <<t.nonce, t.price, t.gas, t.to, t.value, t.data>>
                         \o (IF t.prot THEN <<t.chain, 0, 0>> ELSE << >>)

messageLegacy(t) == <<t.nonce, t.price, t.gas, t.to, t.value, t.tokenId, t.tokenValue, t.data>>
                    \o (IF t.prot THEN <<t.chain, 0, 0>> ELSE << >>)
message2930(t) == <<AccessListEIP2930, t.chain, t.nonce, t.price, t.gas, t.to, t.value, t.data, t.access>>
message1559(t) == <<FeeMarketEIP1559, t.chain, t.nonce, t.prio, t.price, t.gas, t.to, t.value, t.data, t.access>>

getMessageToSign(t) == CASE t.type = Legacy -> messageLegacy(t)
                         [] t.type = AccessListEIP2930 -> message2930(t)
                         [] t.type = FeeMarketEIP1559 -> message1559(t)

\* The recovery bit from v: for a legacy transaction either the classic or the
\* chain's value is taken off.
calculateSigRecovery(t) == IF t.v \in {0, 1} THEN t.v
                           ELSE IF t.prot THEN t.v - (2 * t.chain + 35) ELSE t.v - 27

\* Whose signature the message carries: some other key's if it was made for a
\* different message, nobody's if the values cannot be a signature.
ecrecover(t) ==
    IF calculateSigRecovery(t) \notin {0, 1} \/ t.rs.key \in {"none", "zero"} THEN "throws"
    ELSE IF t.rs.msg = getMessageToSign(t) /\ t.rs.rec = calculateSigRecovery(t) THEN t.rs.key
    ELSE "stranger"

getSenderPublicKey(t) ==
    IF t.sender # "none" THEN t.sender
    ELSE IF ~isSigned(t) \/ ~validateHighS(t) THEN "throws" ELSE ecrecover(t)

(***************************************************************************)
(* The wire: the list of values and the type in front of it.               *)
(***************************************************************************)
Num(n) == [pad |-> 0, n |-> n]

\* raw and serialize.  An absent v and a v of zero are both the empty string,
\* and so are an absent r or s and a zero.
Values(t) ==
    [type |-> t.type, full |-> TRUE, chain |-> Num(0),
     nonce |-> t.nonce, price |-> t.price, prio |-> 0, gas |-> t.gas, to |-> t.to, value |-> t.value,
     tokenId |-> Num(0), tokenValue |-> Num(0), data |-> t.data, access |-> 0,
     v |-> Num(IF t.v = Undefined THEN 0 ELSE t.v), rs |-> IF t.rs.key = "zero" THEN NoSig ELSE t.rs]

rawLegacy(t) == [Values(t) EXCEPT !.tokenId = Num(t.tokenId), !.tokenValue = Num(t.tokenValue)]
raw2930(t) == [Values(t) EXCEPT !.chain = Num(t.chain), !.access = t.access]
raw1559(t) == [Values(t) EXCEPT !.chain = Num(t.chain), !.prio = t.prio, !.access = t.access]

serializeTx(t) == CASE t.type = Legacy -> rawLegacy(t)
                    [] t.type = AccessListEIP2930 -> raw2930(t)
                    [] t.type = FeeMarketEIP1559 -> raw1559(t)

\* The values read with the given chain id and v.
Read(w, id, v) ==
    [type |-> w.type, chain |-> id, nonce |-> w.nonce, price |-> w.price,
     prio |-> w.prio, gas |-> w.gas, to |-> w.to, value |-> w.value, tokenId |-> w.tokenId.n,
     tokenValue |-> w.tokenValue.n, data |-> w.data, access |-> w.access, v |-> v, rs |-> w.rs,
     prot |-> FALSE, frozen |-> TRUE, sender |-> "none"]

\* Eleven values, or the nine of an Ethereum transaction, which has no token
\* fields.  The token fields may have leading zeros.
createLegacyTxFromBytesArray(w, id) ==
    IF w.v.pad > 0 THEN Refused
    ELSE createTx(Read(w, Undefined, IF w.v.n = 0 THEN Undefined ELSE w.v.n), id)

\* A typed v that is empty is zero.  The chain id may have leading zeros.
createAccessList2930TxFromBytesArray(w, id) ==
    IF w.v.pad > 0 THEN Refused ELSE createTx(Read(w, w.chain.n, w.v.n), id)

create1559FeeMarketTxFromBytesArray(w, id) ==
    IF w.v.pad > 0 THEN Refused ELSE createTx(Read(w, w.chain.n, w.v.n), id)

\* createTxFromRLP and createTxFromBlockBodyData: the first byte decides.
createTxFromRLP(w, id) == CASE w.type = Legacy -> createLegacyTxFromBytesArray(w, id)
                            [] w.type = AccessListEIP2930 -> createAccessList2930TxFromBytesArray(w, id)
                            [] w.type = FeeMarketEIP1559 -> create1559FeeMarketTxFromBytesArray(w, id)

\* toJSON and createTxFromRPC: 0x0 in r or s means absent, in v it means zero.
normalizeTxParams(t) ==
    [t EXCEPT !.rs = IF @.key = "zero" THEN NoSig ELSE @,
              !.v = IF @ = 0 /\ t.rs.key \in {"none", "zero"} THEN Undefined ELSE @]

(***************************************************************************)
(* Fees.                                                                   *)
(***************************************************************************)
Lesser(a, b) == IF a < b THEN a ELSE b

upfrontCost1559(t, baseFee) == t.gas * (Lesser(t.prio, t.price - baseFee) + baseFee) + t.value
upfrontCostLegacy(t) == t.gas * t.price + t.value
getUpfrontCost(t, baseFee) ==
    IF t.type = FeeMarketEIP1559 THEN upfrontCost1559(t, baseFee) ELSE upfrontCostLegacy(t)

\* The tip per unit of gas, Undefined when the base fee cannot be paid.
priorityFeeLegacy(t, baseFee) == IF baseFee > t.price THEN Undefined ELSE t.price - baseFee

priorityFee1559(t, baseFee) ==
    IF baseFee > t.price THEN Undefined ELSE Lesser(t.prio, t.price - baseFee)

getEffectivePriorityFee(t, baseFee) ==
    IF t.type = FeeMarketEIP1559 THEN priorityFee1559(t, baseFee) ELSE priorityFeeLegacy(t, baseFee)

\* The least gas limit: one unit for the transaction, for a data byte, for the
\* access list and for the creation of a contract.
getDataGas(t) == t.data
accessListGas(t) == t.access
toCreationAddress(t) == t.to = 0
getIntrinsicGas(t) == 1 + getDataGas(t) + accessListGas(t) + (IF toCreationAddress(t) THEN 1 ELSE 0)
isValid(t) == /\ isSigned(t) => getSenderPublicKey(t) # "throws"
              /\ getIntrinsicGas(t) <= t.gas

(***************************************************************************)
(* The operations.                                                         *)
(***************************************************************************)
NoOrigin == [full |-> FALSE]

\* What a key has committed to by signing; an unprotected legacy signature
\* says nothing of the chain.
Content(t) == <<t.type, t.nonce, t.price, t.prio, t.gas, t.to, t.value, t.tokenId, t.tokenValue, t.data, t.access>>
Commitment(key, t) == [key |-> key, content |-> Content(t),
                       chain |-> IF t.type = Legacy /\ ~t.prot THEN Undefined ELSE t.chain]

Hold(t) == /\ ~IsRefused(t) /\ made < MaxMade
           /\ tx' = t /\ made' = made + 1 /\ broken' = FALSE

Make == \E d \in TxDatas, f \in BOOLEAN, id \in Chains :
          /\ tx.sender = "no object" /\ chain' = id
          /\ Hold(createTx([d EXCEPT !.frozen = f], id))
          /\ origin' = NoOrigin /\ UNCHANGED signed

\* addSignature: a new object with v converted from the recovery bit.
addSignature(t, key, rec, msg) ==
    createTx([t EXCEPT !.v = IF t.type # Legacy THEN rec
                             ELSE IF t.prot THEN rec + 35 + 2 * t.chain ELSE rec + 27,
                       !.rs = [key |-> key, msg |-> msg, rec |-> rec, high |-> FALSE]], chain)

\* A legacy transaction that is signed without replay protection is signed
\* again with it.
Upgraded(t) == IF t.type = Legacy THEN [t EXCEPT !.prot = TRUE] ELSE t

\* The object that was signed is left as it was.
AfterSign(t) == t

\* sign: with a key that the curve refuses it throws between lending the
\* capability and taking it back.
Sign == \E key \in TxKeys, rec \in {0, 1} :
          LET lent == Upgraded(tx)
              out == addSignature(lent, key, rec, getMessageToSign(lent))
          IN /\ tx.sender # "no object"
             /\ \/ /\ Hold(out) /\ signed' = signed \cup {Commitment(key, lent)} /\ origin' = NoOrigin
                \/ /\ ~IsRefused(out) /\ made < MaxMade /\ made' = made + 1
                   /\ tx' = AfterSign(tx) /\ signed' = signed \cup {Commitment(key, lent)}
                   /\ UNCHANGED <<origin, broken>>
             /\ UNCHANGED chain

SignThrows == /\ tx.sender # "no object" /\ ~broken
              /\ tx' = Upgraded(tx) /\ broken' = TRUE /\ UNCHANGED <<chain, signed, origin, made>>

\* A wallet without replay protection signs and adds its signature.
SignElsewhere == \E key \in TxKeys, rec \in {0, 1} :
          LET bare == [tx EXCEPT !.prot = FALSE]
          IN /\ tx.type = Legacy /\ tx.sender # "no object" /\ tx.v = Undefined
             /\ Hold(addSignature(bare, key, rec, getMessageToSign(bare)))
             /\ signed' = signed \cup {Commitment(key, bare)} /\ origin' = NoOrigin /\ UNCHANGED chain

\* getSenderAddress, isValid, verifySignature: the sender is kept once known.
AskSender == /\ tx.sender = "none" /\ tx.frozen /\ getSenderPublicKey(tx) # "throws"
             /\ tx' = [tx EXCEPT !.sender = getSenderPublicKey(tx)]
             /\ UNCHANGED <<chain, signed, origin, broken, made>>

\* The forms in which a transaction may come in after it was serialized: as
\* it was, with a field changed, with the other of the two values of s, with
\* leading zeros, or in the short form.
Other(n) == IF n = 0 THEN 1 ELSE 0
OtherS(rs) == [rs EXCEPT !.high = ~rs.high, !.rec = 1 - rs.rec]
Forms(w) == {w} \cup {[w EXCEPT !.value = Other(@)], [w EXCEPT !.nonce = Other(@)], [w EXCEPT !.tokenId = Num(1)]}
            \cup {[w EXCEPT !.tokenId = [@ EXCEPT !.pad = 1]], [w EXCEPT !.v = [@ EXCEPT !.pad = 1]],
                  [w EXCEPT !.chain = [@ EXCEPT !.pad = IF w.type = Legacy THEN 0 ELSE 1]]}
            \cup (IF w.type = Legacy
                  THEN {[w EXCEPT !.full = FALSE, !.tokenId = Num(0), !.tokenValue = Num(0)]} ELSE {})
            \cup (IF w.rs.key \in TxKeys
                  THEN {[w EXCEPT !.rs = OtherS(@),
                                  !.v = Num(IF w.rs.rec = 0 THEN @.n + 1 ELSE @.n - 1)]}
                  ELSE {})

Deliver == \E id \in Chains : \E w \in Forms(serializeTx(tx)) :
             /\ tx.sender # "no object"
             /\ Hold(createTxFromRLP(w, id)) /\ chain' = id /\ origin' = w /\ UNCHANGED signed

Rpc == /\ tx.sender # "no object"
       /\ Hold(createTx(normalizeTxParams(tx), chain)) /\ origin' = NoOrigin /\ UNCHANGED <<chain, signed>>

NoTx(d) == [d EXCEPT !.sender = "no object"]
TransactionsInit == /\ tx \in {NoTx(d) : d \in {CHOOSE d \in TxDatas : TRUE}}
                    /\ chain \in Chains /\ signed = {} /\ origin = NoOrigin /\ broken = FALSE /\ made = 0

TransactionsNext == Make \/ Sign \/ SignThrows \/ SignElsewhere \/ AskSender \/ Deliver \/ Rpc
TransactionsSpec == TransactionsInit /\ [][TransactionsNext]_txVars

(***************************************************************************)
(* Properties.                                                             *)
(***************************************************************************)
Object == tx.sender # "no object"
Bare(t) == [t EXCEPT !.sender = "none", !.prot = FALSE, !.frozen = TRUE]

\* Every object has values within their widths and its v fits its type.
TransactionsTypeOK ==
    Object => /\ tx.type \in {Legacy, AccessListEIP2930, FeeMarketEIP1559}
              /\ tx.nonce < MAX_UINT64 /\ tx.gas * tx.price <= MAX_INTEGER
              /\ tx.v = Undefined \/ (IF tx.type = Legacy THEN tx.v >= 27 ELSE tx.v \in {0, 1})

\* A transaction is attributed to a key only if that key signed every field
\* of it, the token fields and the fees included, for this chain, or for no
\* chain in the old legacy form.
Authorised ==
    Object /\ getSenderPublicKey(tx) \in TxKeys =>
      \E s \in signed : /\ s.key = getSenderPublicKey(tx) /\ s.content = Content(tx)
                        /\ s.chain \in {tx.chain, Undefined}

\* Nobody but the signer can make a second transaction with the same content
\* and another hash: the other value of s is never attributed to the key.
Unmalleable == Object /\ getSenderPublicKey(tx) \in TxKeys => ~tx.rs.high

\* Signing an object, asking for its sender and caching it change nothing in
\* what it says of itself: it agrees with a copy made from its data.  The
\* exception is a signature attempt that threw on an object signed without
\* replay protection: the object then claims the protection.
CopyAgrees ==
    Object /\ ~broken =>
      LET copy == createTx([tx EXCEPT !.chain = IF tx.type = Legacy THEN Undefined ELSE @], tx.chain)
      IN ~IsRefused(copy) /\ Bare(copy) = Bare(tx) /\ copy.prot = tx.prot
         /\ getSenderPublicKey(copy) = getSenderPublicKey(tx)

\* Serialized and read back on the same chain a transaction is the same, with
\* the same sender and as valid as it was; a signature of zeros reads as an
\* absent one.
WireExact ==
    Object /\ ~broken =>
      LET back == createTxFromRLP(serializeTx(tx), tx.chain)
      IN IF tx.rs.key = "zero" THEN IsRefused(back) \/ ~isSigned(back)
         ELSE /\ ~IsRefused(back)
              /\ Content(back) = Content(tx) /\ back.rs = tx.rs /\ isSigned(back) = isSigned(tx)
              /\ getSenderPublicKey(back) = getSenderPublicKey(tx) /\ isValid(back) = isValid(tx)

\* What was read is what is written again, so that a transaction has one
\* serialized form and one hash; the exceptions are the short legacy form
\* and leading zeros in the token fields and the chain id, which are accepted.
WireCanonical ==
    Object /\ "type" \in DOMAIN origin =>
      \/ serializeTx(tx) = origin
      \/ ~origin.full \/ origin.tokenId.pad > 0 \/ origin.chain.pad > 0

\* For every base fee a transaction can pay, what is reserved up front is the
\* gas at base fee and tip together, and never more than the price it named.
FeesAgree ==
    Object => \A b \in BaseFees :
      LET tip == getEffectivePriorityFee(tx, b)
      IN tip # Undefined => /\ tip >= 0 /\ tip + b <= tx.price
                            /\ getUpfrontCost(tx, b) = tx.gas * (tip + b) + tx.value

\* Transactions: only the signer can have meant what is executed, under one
\* hash, and every way of copying or sending one keeps it.
TransactionsExact == /\ TransactionsTypeOK /\ Authorised /\ Unmalleable
                     /\ CopyAgrees /\ WireExact /\ WireCanonical /\ FeesAgree
=============================================================================
