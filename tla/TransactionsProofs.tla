------------------------- MODULE TransactionsProofs -------------------------
(***************************************************************************)
(* Transactions, as objects and as what they do to accounts.               *)
(*                                                                         *)
(* For any keys, chains, data and widths: a transaction is attributed to   *)
(* a key only if that key signed every field of it, and what is copied,    *)
(* sent and read back is the transaction that was signed.                  *)
(*                                                                         *)
(* A signature holds the message it was made for, so the properties rest   *)
(* on two facts.  createTx is idempotent: an object is what a copy of its  *)
(* data would be (CreateTx, Built).  And the three messages are injective, *)
(* each alone and together: equal messages mean equal transactions         *)
(* (Binding).  The rest of the invariant carries a signature from the key  *)
(* that made it to the object that is asked for its sender (Meaning), and  *)
(* keeps a sender that was asked for true while the object lives (Cached). *)
(***************************************************************************)
EXTENDS Transactions, Wallet, LedgersProofs

Keys == TxKeys \cup {"none", "zero"}
Senders == TxKeys \cup {"none", "throws", "stranger", "no object"}
Sigs == [key : Keys, msg : Seq(Int), rec : {0, 1}, high : BOOLEAN]
Txs == [type : Nat, chain : Nat \cup {-1}, nonce : Nat, price : Nat, prio : Nat, gas : Nat, to : Nat, value : Nat,
        tokenId : Nat, tokenValue : Nat, data : Nat, access : Nat, v : Nat \cup {-1}, rs : Sigs,
        prot : BOOLEAN, frozen : BOOLEAN, sender : Senders]
Nums == [pad : Nat, n : Nat]
Wires == [type : {Legacy, AccessListEIP2930, FeeMarketEIP1559}, full : BOOLEAN, chain : Nums, nonce : Nat,
          price : Nat, prio : Nat, gas : Nat, to : Nat, value : Nat, tokenId : Nums, tokenValue : Nums,
          data : Nat, access : Nat, v : [pad : Nat, n : Nat \cup {-1}], rs : Sigs]

(* The conditions under which createTx makes an object, and the object.    *)
Accepts(t, id) ==
    /\ sharedConstructor(t) /\ t.price <= MAX_INTEGER /\ t.gas * t.price <= MAX_INTEGER
    /\ \/ t.type = Legacy /\ validateVAndExtractChainID(t, id)
       \/ /\ t.type \in {AccessListEIP2930, FeeMarketEIP1559}
          /\ t.chain \in {Undefined, id} /\ validateYParity(t) /\ validateHighS(t)
          /\ t.type = FeeMarketEIP1559 => t.prio <= MAX_INTEGER /\ t.prio <= t.price
Protects(t, id) == t.type = Legacy /\ (~isSigned(t) \/ Protected(t.v, id))

(* The message a commitment was made for.                                  *)
Meant(s) ==
    [type |-> s.content[1], nonce |-> s.content[2], price |-> s.content[3], prio |-> s.content[4],
     gas |-> s.content[5], to |-> s.content[6], value |-> s.content[7], tokenId |-> s.content[8],
     tokenValue |-> s.content[9], data |-> s.content[10], access |-> s.content[11],
     chain |-> s.chain, prot |-> s.chain # Undefined]

(* The fields a type does not have are zero.                               *)
Plain(t) == /\ t.type # FeeMarketEIP1559 => t.prio = 0
            /\ IF t.type = Legacy THEN t.access = 0 ELSE t.tokenId = 0 /\ t.tokenValue = 0
Sound(t) == /\ t.type \in {Legacy, AccessListEIP2930, FeeMarketEIP1559}
            /\ {t.nonce, t.price, t.prio, t.gas, t.to, t.value, t.tokenId, t.tokenValue, t.data, t.access} \subseteq Nat
            /\ Plain(t)

Types == tx \in Txs /\ chain \in Chains /\ broken \in BOOLEAN /\ made \in Nat
Built == Object => /\ tx.chain = chain /\ Accepts(tx, chain) /\ Plain(tx)
                   /\ ~broken => tx.prot = Protects(tx, chain)
Committed == \A s \in signed : /\ s.key \in TxKeys /\ s.chain \in Nat \cup {Undefined}
                               /\ s.content = Content(Meant(s)) /\ Sound(Meant(s))
                               /\ Meant(s).type # Legacy => s.chain # Undefined
Meaning == tx.rs.key \in TxKeys =>
    /\ tx.v # Undefined
    /\ \E s \in signed : s.key = tx.rs.key /\ tx.rs.msg = getMessageToSign(Meant(s))
Cached == Object /\ tx.sender # "none" =>
    /\ tx.sender # "throws" /\ ~tx.rs.high
    /\ tx.sender \in TxKeys => \E s \in signed : /\ s.key = tx.sender /\ s.content = Content(tx)
                                                 /\ s.chain \in {tx.chain, Undefined}
    /\ ~broken => isSigned(tx) /\ tx.sender = ecrecover(tx)
IInv == Types /\ Built /\ Committed /\ Meaning /\ Cached /\ WireCanonical
-----------------------------------------------------------------------------
(* Construction.                                                           *)

LEMMA ConstantsTyped == (\A id \in Chains : id \in Nat) /\ (\A b \in BaseFees : b \in Nat)
BY TransactionsAssumption, Zenon

LEMMA KeysApart == \A key \in TxKeys : key \notin {"none", "zero", "throws", "stranger", "no object"}
BY TransactionsAssumption, Zenon

LEMMA DatasTyped == TxDatas \subseteq Datas /\ TxDatas # {}
BY TransactionsAssumption, Zenon

(* The object that createTx makes of t.                                    *)
Result(t, id) ==
    [t EXCEPT !.sender = "none", !.chain = id,
              !.prio = IF t.type = FeeMarketEIP1559 THEN @ ELSE 0,
              !.access = IF t.type = Legacy THEN 0 ELSE @,
              !.prot = Protects(t, id)]

LEMMA ResultFields ==
    ASSUME NEW t \in Txs, NEW id \in Nat
    PROVE  /\ Result(t, id) \in Txs
           /\ Result(t, id).type = t.type /\ Result(t, id).nonce = t.nonce /\ Result(t, id).price = t.price
           /\ Result(t, id).gas = t.gas /\ Result(t, id).to = t.to /\ Result(t, id).value = t.value
           /\ Result(t, id).tokenId = t.tokenId /\ Result(t, id).tokenValue = t.tokenValue
           /\ Result(t, id).data = t.data /\ Result(t, id).v = t.v /\ Result(t, id).rs = t.rs
           /\ Result(t, id).frozen = t.frozen
           /\ Result(t, id).sender = "none" /\ Result(t, id).chain = id
           /\ Result(t, id).prot = Protects(t, id)
           /\ Result(t, id).prio = IF t.type = FeeMarketEIP1559 THEN t.prio ELSE 0
           /\ Result(t, id).access = IF t.type = Legacy THEN 0 ELSE t.access
<1>1. Protects(t, id) \in BOOLEAN
  BY DEF Protects
<1> DEFINE p == Protects(t, id)
<1> HIDE DEF p
<1> QED
  BY <1>1 DEF Result, Txs, Senders, p

LEMMA Unrefused == ASSUME NEW t \in Txs PROVE ~IsRefused(t) /\ IsRefused(Refused)
BY DEF Txs, IsRefused, Refused

LEMMA Alike ==
    ASSUME NEW r \in Txs, NEW s \in Txs, r.type = s.type, r.chain = s.chain, r.nonce = s.nonce, r.price = s.price,
           r.prio = s.prio, r.gas = s.gas, r.to = s.to, r.value = s.value, r.tokenId = s.tokenId,
           r.tokenValue = s.tokenValue, r.data = s.data, r.access = s.access, r.v = s.v, r.rs = s.rs,
           r.prot = s.prot, r.frozen = s.frozen, r.sender = s.sender
    PROVE  r = s
BY DEF Txs

LEMMA CreateTx ==
    ASSUME NEW t \in Txs, NEW id \in Nat
    PROVE  createTx(t, id) = IF Accepts(t, id) THEN Result(t, id) ELSE Refused
<1> DEFINE f == [t EXCEPT !.sender = "none"]
<1>1. "none" \in Senders
  BY DEF Senders
<1>2. /\ f \in Txs
      /\ f.type = t.type /\ f.nonce = t.nonce /\ f.price = t.price /\ f.prio = t.prio /\ f.gas = t.gas
      /\ f.value = t.value /\ f.tokenId = t.tokenId /\ f.tokenValue = t.tokenValue /\ f.access = t.access
      /\ f.v = t.v /\ f.rs = t.rs /\ f.chain = t.chain /\ f.to = t.to /\ f.data = t.data
  <2>1. f \in Txs
    BY <1>1 DEF Txs
  <2> QED
    BY <2>1 DEF Txs
<1>3. sharedConstructor(f) = sharedConstructor(t) /\ validateVAndExtractChainID(f, id) = validateVAndExtractChainID(t, id)
      /\ validateYParity(f) = validateYParity(t) /\ validateHighS(f) = validateHighS(t)
      /\ isSigned(f) = isSigned(t)
  BY <1>2 DEF sharedConstructor, validateVAndExtractChainID, validateYParity, validateHighS, isSigned
<1>4. createTx(t, id) = CASE t.type = Legacy -> LegacyTx(f, id)
         [] t.type = AccessListEIP2930 -> AccessList2930Tx(f, id)
         [] t.type = FeeMarketEIP1559 -> FeeMarket1559Tx(f, id)
         [] OTHER -> Refused
  BY DEF createTx
<1>5. t.price * t.gas = t.gas * t.price
  BY DEF Txs
<1> DEFINE p == Protects(t, id)
<1>6. p \in BOOLEAN
  BY DEF Protects
<1>7. f = [t EXCEPT !.sender = "none"]
  OBVIOUS
<1>8. t.prio \in Nat /\ t.access \in Nat
  BY DEF Txs
<1> HIDE DEF f, p
<1>9. CASE t.type = Legacy
  <2>1. createTx(t, id) = LegacyTx(f, id)
    BY <1>4, <1>9 DEF Legacy, AccessListEIP2930, FeeMarketEIP1559
  <2>2. Accepts(t, id) <=> (sharedConstructor(t) /\ t.price <= MAX_INTEGER /\ validateVAndExtractChainID(t, id)
                          /\ t.price * t.gas <= MAX_INTEGER)
    <3>1. ASSUME Accepts(t, id) PROVE sharedConstructor(t) /\ t.price <= MAX_INTEGER /\ validateVAndExtractChainID(t, id)
                          /\ t.price * t.gas <= MAX_INTEGER
      BY <3>1, <1>5, <1>9 DEF Accepts, Legacy, AccessListEIP2930, FeeMarketEIP1559
    <3>2. ASSUME sharedConstructor(t) /\ t.price <= MAX_INTEGER /\ validateVAndExtractChainID(t, id)
                          /\ t.price * t.gas <= MAX_INTEGER
          PROVE  Accepts(t, id)
      BY <3>2, <1>5, <1>9 DEF Accepts, Legacy, AccessListEIP2930, FeeMarketEIP1559
    <3> QED
      BY <3>1, <3>2
  <2>3. (~isSigned(f) \/ Protected(f.v, id)) = Protects(t, id)
    BY <1>2, <1>3, <1>9 DEF Protects
  <2>4. Result(t, id) = [t EXCEPT !.sender = "none", !.chain = id, !.prio = 0, !.access = 0, !.prot = p]
    BY <1>9 DEF Result, p, Legacy, FeeMarketEIP1559
  <2>5. [f EXCEPT !.chain = id, !.prio = 0, !.access = 0, !.prot = p] = Result(t, id)
    BY <1>2, <1>6, <1>7, <2>4 DEF Txs
  <2>6. LegacyTx(f, id) = IF Accepts(t, id)
             THEN [f EXCEPT !.chain = id, !.prio = 0, !.access = 0, !.prot = ~isSigned(f) \/ Protected(f.v, id)]
             ELSE Refused
    BY <1>2, <1>3, <2>2 DEF LegacyTx
  <2>7. (~isSigned(f) \/ Protected(f.v, id)) = p
    BY <2>3 DEF p
  <2>8. [f EXCEPT !.chain = id, !.prio = 0, !.access = 0, !.prot = ~isSigned(f) \/ Protected(f.v, id)]
           = [f EXCEPT !.chain = id, !.prio = 0, !.access = 0, !.prot = p]
    BY <2>7
  <2> QED
    BY <2>1, <2>5, <2>6, <2>8
<1>10. CASE t.type = AccessListEIP2930
  <2>1. createTx(t, id) = AccessList2930Tx(f, id)
    BY <1>4, <1>10 DEF Legacy, AccessListEIP2930, FeeMarketEIP1559
  <2>2. Accepts(t, id) <=> (sharedConstructor(t) /\ t.chain \in {Undefined, id} /\ t.price <= MAX_INTEGER
                          /\ t.price * t.gas <= MAX_INTEGER /\ validateYParity(t) /\ validateHighS(t))
    <3>1. ASSUME Accepts(t, id) PROVE sharedConstructor(t) /\ t.chain \in {Undefined, id} /\ t.price <= MAX_INTEGER
                          /\ t.price * t.gas <= MAX_INTEGER /\ validateYParity(t) /\ validateHighS(t)
      BY <3>1, <1>5, <1>10 DEF Accepts, Legacy, AccessListEIP2930, FeeMarketEIP1559
    <3>2. ASSUME sharedConstructor(t) /\ t.chain \in {Undefined, id} /\ t.price <= MAX_INTEGER
                          /\ t.price * t.gas <= MAX_INTEGER /\ validateYParity(t) /\ validateHighS(t)
          PROVE  Accepts(t, id)
      BY <3>2, <1>5, <1>10 DEF Accepts, Legacy, AccessListEIP2930, FeeMarketEIP1559
    <3> QED
      BY <3>1, <3>2
  <2>3. Protects(t, id) = FALSE
    BY <1>10 DEF Protects, Legacy, AccessListEIP2930
  <2>4. Result(t, id) = [t EXCEPT !.sender = "none", !.chain = id, !.prio = 0, !.access = t.access, !.prot = p]
    BY <1>10 DEF Result, p, Legacy, AccessListEIP2930, FeeMarketEIP1559
  <2>5. [f EXCEPT !.chain = id, !.prio = 0, !.access = t.access, !.prot = p] = Result(t, id)
    BY <1>2, <1>6, <1>7, <1>8, <2>4 DEF Txs
  <2>6. p = FALSE
    BY <2>3 DEF p
  <2>7. [f EXCEPT !.chain = id, !.prio = 0, !.prot = FALSE] = Result(t, id)
    BY <1>2, <1>6, <2>5, <2>6 DEF Txs
  <2> QED
    BY <2>1, <2>2, <2>7, <1>2, <1>3 DEF AccessList2930Tx
<1>11. CASE t.type = FeeMarketEIP1559
  <2>1. createTx(t, id) = FeeMarket1559Tx(f, id)
    BY <1>4, <1>11 DEF Legacy, AccessListEIP2930, FeeMarketEIP1559
  <2>2. Accepts(t, id) <=> (sharedConstructor(t) /\ t.chain \in {Undefined, id} /\ t.price <= MAX_INTEGER
                          /\ t.prio <= MAX_INTEGER /\ t.gas * t.price <= MAX_INTEGER /\ t.prio <= t.price
                          /\ validateYParity(t) /\ validateHighS(t))
    <3>1. ASSUME Accepts(t, id) PROVE sharedConstructor(t) /\ t.chain \in {Undefined, id} /\ t.price <= MAX_INTEGER
                          /\ t.prio <= MAX_INTEGER /\ t.gas * t.price <= MAX_INTEGER /\ t.prio <= t.price
                          /\ validateYParity(t) /\ validateHighS(t)
      BY <3>1, <1>11 DEF Accepts, Legacy, AccessListEIP2930, FeeMarketEIP1559
    <3>2. ASSUME sharedConstructor(t) /\ t.chain \in {Undefined, id} /\ t.price <= MAX_INTEGER
                          /\ t.prio <= MAX_INTEGER /\ t.gas * t.price <= MAX_INTEGER /\ t.prio <= t.price
                          /\ validateYParity(t) /\ validateHighS(t)
          PROVE  Accepts(t, id)
      BY <3>2, <1>11 DEF Accepts, Legacy, AccessListEIP2930, FeeMarketEIP1559
    <3> QED
      BY <3>1, <3>2
  <2>3. Protects(t, id) = FALSE
    BY <1>11 DEF Protects, Legacy, FeeMarketEIP1559
  <2>4. Result(t, id) = [t EXCEPT !.sender = "none", !.chain = id, !.prio = t.prio, !.access = t.access, !.prot = p]
    BY <1>11 DEF Result, p, Legacy, FeeMarketEIP1559
  <2>5. [f EXCEPT !.chain = id, !.prio = t.prio, !.access = t.access, !.prot = p] = Result(t, id)
    BY <1>2, <1>6, <1>7, <1>8, <2>4 DEF Txs
  <2>6. p = FALSE
    BY <2>3 DEF p
  <2>7. [f EXCEPT !.chain = id, !.prot = FALSE] = Result(t, id)
    BY <1>2, <1>6, <2>5, <2>6 DEF Txs
  <2> QED
    BY <2>1, <2>2, <2>7, <1>2, <1>3 DEF FeeMarket1559Tx
<1>12. CASE t.type \notin {Legacy, AccessListEIP2930, FeeMarketEIP1559}
  <2>1. createTx(t, id) = Refused
    BY <1>4, <1>12
  <2> QED
    BY <2>1, <1>12 DEF Accepts
<1> QED
  BY <1>9, <1>10, <1>11, <1>12
-----------------------------------------------------------------------------
(* What is signed.                                                         *)

\* A legacy message has eight fields, or eleven that end with the chain.
LEMMA LegacyMessage ==
    ASSUME NEW t, Sound(t), t.type = Legacy, t.chain \in Int, t.prot \in BOOLEAN
    PROVE  messageLegacy(t) = IF t.prot
             THEN <<t.nonce, t.price, t.gas, t.to, t.value, t.tokenId, t.tokenValue, t.data, t.chain, 0, 0>>
             ELSE <<t.nonce, t.price, t.gas, t.to, t.value, t.tokenId, t.tokenValue, t.data>>
<1> DEFINE s == <<t.nonce, t.price, t.gas, t.to, t.value, t.tokenId, t.tokenValue, t.data>>
           e == <<t.chain, 0, 0>>
<1>1. s \in Seq(Int) /\ e \in Seq(Int)
  BY DEF Sound
<1>2. t.prot => messageLegacy(t) = s \o e
  BY DEF messageLegacy
<1>3. ~t.prot => messageLegacy(t) = s \o << >>
  BY DEF messageLegacy
<1>4. s \o << >> = s
  BY <1>1
<1>5. s \o e = <<t.nonce, t.price, t.gas, t.to, t.value, t.tokenId, t.tokenValue, t.data, t.chain, 0, 0>>
  <2> DEFINE m == <<t.nonce, t.price, t.gas, t.to, t.value, t.tokenId, t.tokenValue, t.data, t.chain, 0, 0>>
  <2>1. m \in Seq(Int) /\ Len(m) = 11
    BY DEF Sound
  <2>2. s \o e \in Seq(Int) /\ Len(s \o e) = 11
    BY <1>1
  <2>3. \A i \in 1..8 : (s \o e)[i] = s[i] /\ s[i] = m[i]
    BY <1>1
  <2>4. \A i \in 9..11 : (s \o e)[i] = e[i - 8] /\ e[i - 8] = m[i]
    BY <1>1
  <2>5. \A i \in 1..11 : (s \o e)[i] = m[i]
    BY <2>3, <2>4
  <2> HIDE DEF s, e, m
  <2>6. s \o e = m
    BY <2>1, <2>2, <2>5, SeqEqual
  <2> QED
    BY <2>6 DEF m
<1> QED
  BY <1>2, <1>3, <1>4, <1>5

\* Equal messages were made for equal transactions: they have different lengths
\* for different types, and every field of the type is in them.
LEMMA Binding ==
    ASSUME NEW a, NEW b, Sound(a), Sound(b), a.chain \in Int, b.chain \in Int,
           a.prot \in BOOLEAN, b.prot \in BOOLEAN, getMessageToSign(a) = getMessageToSign(b)
    PROVE  /\ Content(a) = Content(b)
           /\ IF a.type = Legacy THEN a.prot = b.prot /\ (a.prot => a.chain = b.chain) ELSE a.chain = b.chain
<1> DEFINE long(t) == <<t.nonce, t.price, t.gas, t.to, t.value, t.tokenId, t.tokenValue, t.data, t.chain, 0, 0>>
           short(t) == <<t.nonce, t.price, t.gas, t.to, t.value, t.tokenId, t.tokenValue, t.data>>
           Message(t) == \/ t.type = Legacy /\ t.prot /\ getMessageToSign(t) = long(t)
                         \/ t.type = Legacy /\ ~t.prot /\ getMessageToSign(t) = short(t)
                         \/ t.type = AccessListEIP2930 /\ getMessageToSign(t) = message2930(t)
                         \/ t.type = FeeMarketEIP1559 /\ getMessageToSign(t) = message1559(t)
           Length(t) == IF t.type = Legacy THEN (IF t.prot THEN 11 ELSE 8)
                        ELSE IF t.type = AccessListEIP2930 THEN 9 ELSE 10
<1>1. \A t : Sound(t) /\ t.chain \in Int /\ t.prot \in BOOLEAN => Message(t)
  BY LegacyMessage DEF Sound, getMessageToSign, Legacy, AccessListEIP2930, FeeMarketEIP1559
<1>2. \A t : Message(t) => Len(getMessageToSign(t)) = Length(t)
  BY DEF message2930, message1559, Legacy, AccessListEIP2930, FeeMarketEIP1559
<1>3. Length(a) = Length(b) /\ Message(a) /\ Message(b)
  BY <1>1, <1>2
<1>4. a.type = b.type /\ (a.type = Legacy => a.prot = b.prot)
  BY <1>3 DEF Sound, Legacy, AccessListEIP2930, FeeMarketEIP1559
<1>5. CASE a.type = Legacy /\ a.prot
  <2>1. long(a) = long(b)
    BY <1>3, <1>4, <1>5 DEF Legacy, AccessListEIP2930, FeeMarketEIP1559
  <2>2. /\ a.nonce = b.nonce /\ a.price = b.price /\ a.gas = b.gas /\ a.to = b.to /\ a.value = b.value
        /\ a.tokenId = b.tokenId /\ a.tokenValue = b.tokenValue /\ a.data = b.data /\ a.chain = b.chain
    BY <2>1
  <2>3. a.prio = b.prio /\ a.access = b.access
    BY <1>4, <1>5 DEF Sound, Plain, Legacy, FeeMarketEIP1559
  <2>4. Content(a) = Content(b)
    BY <2>2, <2>3, <1>4 DEF Content
  <2> QED
    BY <2>2, <2>4, <1>4, <1>5
<1>6. CASE a.type = Legacy /\ ~a.prot
  <2>1. short(a) = short(b)
    BY <1>3, <1>4, <1>6 DEF Legacy, AccessListEIP2930, FeeMarketEIP1559
  <2> QED
    BY <2>1, <1>4, <1>6 DEF Content, Sound, Plain, Legacy, FeeMarketEIP1559
<1>7. CASE a.type = AccessListEIP2930
  <2>1. message2930(a) = message2930(b)
    BY <1>3, <1>4, <1>7 DEF Legacy, AccessListEIP2930, FeeMarketEIP1559
  <2> QED
    BY <2>1, <1>4, <1>7 DEF message2930, Content, Sound, Plain, Legacy, AccessListEIP2930, FeeMarketEIP1559
<1>8. CASE a.type = FeeMarketEIP1559
  <2>1. message1559(a) = message1559(b)
    BY <1>3, <1>4, <1>8 DEF Legacy, AccessListEIP2930, FeeMarketEIP1559
  <2> QED
    BY <2>1, <1>4, <1>8 DEF message1559, Content, Sound, Plain, Legacy, AccessListEIP2930, FeeMarketEIP1559
<1> QED
  BY <1>5, <1>6, <1>7, <1>8 DEF Sound
-----------------------------------------------------------------------------
(* New objects.                                                            *)

\* What the checks and the messages look at.
LEMMA SameData ==
    ASSUME NEW r \in Txs, NEW t \in Txs, NEW id \in Nat,
           r.type = t.type, r.nonce = t.nonce, r.price = t.price, r.prio = t.prio, r.gas = t.gas,
           r.value = t.value, r.tokenId = t.tokenId, r.tokenValue = t.tokenValue, r.access = t.access,
           r.v = t.v, r.rs = t.rs
    PROVE  /\ r.chain \in {t.chain, id, Undefined} /\ Accepts(t, id) => Accepts(r, id)
           /\ Protects(r, id) = Protects(t, id)
           /\ isSigned(r) = isSigned(t)
<1>1. /\ sharedConstructor(r) = sharedConstructor(t) /\ validateYParity(r) = validateYParity(t)
      /\ validateHighS(r) = validateHighS(t) /\ isSigned(r) = isSigned(t)
      /\ validateVAndExtractChainID(r, id) = validateVAndExtractChainID(t, id)
  BY DEF sharedConstructor, validateYParity, validateHighS, isSigned, validateVAndExtractChainID
<1>2. Protects(r, id) = Protects(t, id)
  BY <1>1 DEF Protects
<1>3. ASSUME r.chain \in {t.chain, id, Undefined}, Accepts(t, id) PROVE Accepts(r, id)
  BY <1>1, <1>3 DEF Accepts
<1> QED
  BY <1>1, <1>2, <1>3

\* An object is accepted again, and made the same again.
LEMMA Idempotent ==
    ASSUME NEW d \in Txs, NEW id \in Nat, Accepts(d, id)
    PROVE  LET t == Result(d, id)
           IN  t \in Txs /\ Accepts(t, id) /\ Plain(t) /\ t.prot = Protects(t, id)
<1> DEFINE t == Result(d, id)
<1>1. /\ t \in Txs
      /\ t.type = d.type /\ t.nonce = d.nonce /\ t.price = d.price /\ t.gas = d.gas /\ t.value = d.value
      /\ t.tokenId = d.tokenId /\ t.tokenValue = d.tokenValue /\ t.v = d.v /\ t.rs = d.rs
      /\ t.chain = id /\ t.prot = Protects(d, id)
      /\ t.prio = IF d.type = FeeMarketEIP1559 THEN d.prio ELSE 0
      /\ t.access = IF d.type = Legacy THEN 0 ELSE d.access
  BY ResultFields
<1> HIDE DEF t
<1>2. /\ sharedConstructor(t) = sharedConstructor(d) /\ validateYParity(t) = validateYParity(d)
      /\ validateHighS(t) = validateHighS(d) /\ isSigned(t) = isSigned(d)
      /\ validateVAndExtractChainID(t, id) = validateVAndExtractChainID(d, id)
  BY <1>1 DEF sharedConstructor, validateYParity, validateHighS, isSigned, validateVAndExtractChainID
<1>3. Accepts(t, id)
  BY <1>1, <1>2 DEF Accepts
<1>4. Plain(t)
  <2>1. d.type # Legacy => d.tokenId = 0 /\ d.tokenValue = 0
    BY DEF Accepts, sharedConstructor
  <2> QED
    BY <1>1, <2>1 DEF Plain, Legacy, FeeMarketEIP1559
<1>5. Protects(t, id) = Protects(d, id)
  BY <1>1, <1>2 DEF Protects
<1> QED
  BY <1>1, <1>3, <1>4, <1>5 DEF t

LEMMA NewObject ==
    ASSUME NEW d \in Txs, NEW id \in Nat, Hold(createTx(d, id))
    PROVE  Accepts(d, id) /\ tx' = Result(d, id)
BY CreateTx, Unrefused DEF Hold

\* A new object from data whose signature, if it has one, is accounted for.
LEMMA Held ==
    ASSUME NEW d \in Txs, NEW id \in Chains, Hold(createTx(d, id)), chain' = id, made \in Nat,
           Committed', WireCanonical',
           Accepts(d, id) /\ d.rs.key \in TxKeys =>
              d.v # Undefined /\ \E s \in signed' : s.key = d.rs.key /\ d.rs.msg = getMessageToSign(Meant(s))
    PROVE  /\ IInv'
           /\ Accepts(d, id) /\ tx' = Result(d, id)
<1>1. id \in Nat
  BY ConstantsTyped
<1>2. Accepts(d, id) /\ tx' = Result(d, id)
  BY <1>1, NewObject
<1>3. /\ tx' \in Txs /\ Accepts(tx', id) /\ Plain(tx') /\ tx'.prot = Protects(tx', id)
      /\ tx'.chain = id /\ tx'.sender = "none" /\ tx'.rs = d.rs /\ tx'.v = d.v
  BY <1>1, <1>2, Idempotent, ResultFields
<1>4. broken' = FALSE /\ made' \in Nat
  BY DEF Hold
<1>5. Types'
  BY <1>3, <1>4 DEF Types
<1>6. Built'
  BY <1>3 DEF Built
<1>7. Meaning'
  BY <1>2, <1>3 DEF Meaning
<1>8. Cached'
  BY <1>3 DEF Cached
<1> QED
  BY <1>2, <1>5, <1>6, <1>7, <1>8 DEF IInv

\* What a key commits to is enough to know what it signed.
LEMMA Commits ==
    ASSUME NEW t \in Txs, NEW key \in TxKeys, Plain(t), t.chain \in Nat,
           t.type \in {Legacy, AccessListEIP2930, FeeMarketEIP1559}
    PROVE  LET s == Commitment(key, t)
           IN  /\ s.key = key /\ s.chain \in Nat \cup {Undefined}
               /\ s.content = Content(Meant(s)) /\ Sound(Meant(s))
               /\ Meant(s).type # Legacy => s.chain # Undefined
               /\ getMessageToSign(Meant(s)) = getMessageToSign(t)
<1> DEFINE s == Commitment(key, t)
           m == Meant(s)
<1>1. s.key = key /\ s.content = Content(t) /\ s.chain = IF t.type = Legacy /\ ~t.prot THEN Undefined ELSE t.chain
  BY DEF Commitment
<1>2. /\ m.type = t.type /\ m.nonce = t.nonce /\ m.price = t.price /\ m.prio = t.prio /\ m.gas = t.gas
      /\ m.to = t.to /\ m.value = t.value /\ m.tokenId = t.tokenId /\ m.tokenValue = t.tokenValue
      /\ m.data = t.data /\ m.access = t.access /\ m.chain = s.chain
  BY <1>1 DEF Meant, Content
<1>3. m.prot = (s.chain # Undefined)
  BY DEF Meant
<1>4. t.prot \in BOOLEAN
  BY DEF Txs
<1> HIDE DEF s, m
<1>5. s.chain \in Nat \cup {Undefined} /\ (t.type # Legacy => s.chain = t.chain /\ s.chain # Undefined)
  BY <1>1 DEF Undefined
<1>6. Content(m) = Content(t)
  BY <1>2 DEF Content
<1>7. Sound(m)
  BY <1>2 DEF Sound, Plain, Txs
<1>8. t.type = Legacy => m.prot = t.prot /\ (t.prot => m.chain = t.chain)
  BY <1>1, <1>2, <1>3, <1>4 DEF Undefined
<1>9. getMessageToSign(m) = getMessageToSign(t)
  <2>1. CASE t.type = Legacy
    <3>1. messageLegacy(m) = messageLegacy(t)
      BY <1>2, <1>4, <1>8, <2>1 DEF messageLegacy
    <3> QED
      BY <1>2, <2>1, <3>1 DEF getMessageToSign, Legacy, AccessListEIP2930, FeeMarketEIP1559
  <2>2. CASE t.type = AccessListEIP2930
    BY <1>2, <1>5, <2>2 DEF getMessageToSign, message2930, Legacy, AccessListEIP2930, FeeMarketEIP1559
  <2>3. CASE t.type = FeeMarketEIP1559
    BY <1>2, <1>5, <2>3 DEF getMessageToSign, message1559, Legacy, AccessListEIP2930, FeeMarketEIP1559
  <2> QED
    BY <2>1, <2>2, <2>3
<1> QED
  BY <1>1, <1>2, <1>5, <1>6, <1>7, <1>9 DEF s, m

\* Whom a signature recovers to has signed every field of the transaction.
LEMMA Attributed ==
    ASSUME IInv, Object, ecrecover(tx) \in TxKeys
    PROVE  \E s \in signed : /\ s.key = ecrecover(tx) /\ s.content = Content(tx)
                             /\ s.chain \in {tx.chain, Undefined}
<1>1. ecrecover(tx) = tx.rs.key /\ tx.rs.key \in TxKeys /\ tx.rs.msg = getMessageToSign(tx)
  <2>1. ecrecover(tx) # "throws" /\ ecrecover(tx) # "stranger"
    BY KeysApart, Zenon
  <2> QED
    BY <2>1 DEF ecrecover
<1>2. PICK s \in signed : s.key = tx.rs.key /\ tx.rs.msg = getMessageToSign(Meant(s))
  BY <1>1 DEF IInv, Meaning
<1>3. /\ s.chain \in Nat \cup {Undefined} /\ s.content = Content(Meant(s)) /\ Sound(Meant(s))
      /\ Meant(s).type # Legacy => s.chain # Undefined
  BY DEF IInv, Committed
<1>4. tx \in Txs /\ Plain(tx) /\ Accepts(tx, chain) /\ tx.chain \in Nat
  BY ConstantsTyped DEF IInv, Types, Built
<1>5. Sound(tx)
  BY <1>4 DEF Sound, Txs, Accepts
<1>6. Meant(s).chain = s.chain /\ Meant(s).prot = (s.chain # Undefined)
  BY DEF Meant
<1>7. Meant(s).chain \in Int /\ Meant(s).prot \in BOOLEAN /\ tx.prot \in BOOLEAN
  BY <1>3, <1>4, <1>6 DEF Undefined, Txs
<1>8. /\ Content(Meant(s)) = Content(tx)
      /\ IF Meant(s).type = Legacy THEN Meant(s).prot = tx.prot /\ (Meant(s).prot => Meant(s).chain = tx.chain)
         ELSE Meant(s).chain = tx.chain
  <2>1. getMessageToSign(Meant(s)) = getMessageToSign(tx)
    BY <1>1, <1>2
  <2>2. tx.chain \in Int
    BY <1>4
  <2> QED
    BY <2>1, <2>2, <1>3, <1>5, <1>7, Binding, Zenon
<1>9. s.chain \in {tx.chain, Undefined}
  BY <1>6, <1>8
<1> QED
  BY <1>1, <1>2, <1>3, <1>8, <1>9
-----------------------------------------------------------------------------
(* The steps.                                                              *)

LEMMA MessageTyped ==
    ASSUME NEW t \in Txs, Plain(t), t.chain \in Nat, t.type \in {Legacy, AccessListEIP2930, FeeMarketEIP1559}
    PROVE  getMessageToSign(t) \in Seq(Int)
<1>1. Sound(t) /\ t.prot \in BOOLEAN
  BY DEF Sound, Txs
<1>2. CASE t.type = Legacy
  <2>1. getMessageToSign(t) = messageLegacy(t)
    BY <1>2 DEF getMessageToSign, Legacy, AccessListEIP2930, FeeMarketEIP1559
  <2>2. <<t.nonce, t.price, t.gas, t.to, t.value, t.tokenId, t.tokenValue, t.data>> \in Seq(Int)
    BY DEF Txs
  <2>3. <<t.nonce, t.price, t.gas, t.to, t.value, t.tokenId, t.tokenValue, t.data, t.chain, 0, 0>> \in Seq(Int)
    BY DEF Txs
  <2>4. t.chain \in Int
    OBVIOUS
  <2>5. messageLegacy(t) = IF t.prot
             THEN <<t.nonce, t.price, t.gas, t.to, t.value, t.tokenId, t.tokenValue, t.data, t.chain, 0, 0>>
             ELSE <<t.nonce, t.price, t.gas, t.to, t.value, t.tokenId, t.tokenValue, t.data>>
    BY <1>1, <1>2, <2>4, LegacyMessage, Zenon
  <2> QED
    BY <2>1, <2>2, <2>3, <2>5, Zenon
<1>3. CASE t.type = AccessListEIP2930
  BY <1>3 DEF getMessageToSign, message2930, Txs, Legacy, AccessListEIP2930, FeeMarketEIP1559
<1>4. CASE t.type = FeeMarketEIP1559
  BY <1>4 DEF getMessageToSign, message1559, Txs, Legacy, AccessListEIP2930, FeeMarketEIP1559
<1> QED
  BY <1>2, <1>3, <1>4

\* A transaction with the signature of key, as addSignature makes it.
WithSignature(t, key, rec, msg) ==
    [t EXCEPT !.v = IF t.type # Legacy THEN rec
                    ELSE IF t.prot THEN rec + 35 + 2 * t.chain ELSE rec + 27,
              !.rs = [key |-> key, msg |-> msg, rec |-> rec, high |-> FALSE]]

\* Signing t adds what it commits to, and the new object carries that signature.
LEMMA SignedBy ==
    ASSUME IInv, NEW t \in Txs, NEW key \in TxKeys, NEW rec \in {0, 1}, Plain(t), t.chain \in Nat,
           t.type \in {Legacy, AccessListEIP2930, FeeMarketEIP1559},
           signed' = signed \cup {Commitment(key, t)}
    PROVE  LET d == WithSignature(t, key, rec, getMessageToSign(t))
           IN  /\ d \in Txs /\ d.v # Undefined /\ Committed'
               /\ \E s \in signed' : s.key = d.rs.key /\ d.rs.msg = getMessageToSign(Meant(s))
<1> DEFINE msg == getMessageToSign(t)
           sig == [key |-> key, msg |-> msg, rec |-> rec, high |-> FALSE]
           v == IF t.type # Legacy THEN rec ELSE IF t.prot THEN rec + 35 + 2 * t.chain ELSE rec + 27
           d == WithSignature(t, key, rec, msg)
           s == Commitment(key, t)
<1>1. msg \in Seq(Int)
  BY MessageTyped
<1>2. v \in Nat
  BY DEF Txs
<1>3. d = [t EXCEPT !.v = v, !.rs = sig]
  BY DEF WithSignature
<1>4. /\ s.key = key /\ s.chain \in Nat \cup {Undefined}
      /\ s.content = Content(Meant(s)) /\ Sound(Meant(s))
      /\ Meant(s).type # Legacy => s.chain # Undefined
      /\ getMessageToSign(Meant(s)) = msg
  BY Commits
<1> HIDE DEF msg, v, s
<1>5. sig \in Sigs /\ sig.key = key /\ sig.msg = msg
  BY <1>1 DEF Sigs, Keys
<1> HIDE DEF sig, d
<1>6. d \in Txs /\ d.v = v /\ d.rs = sig
  BY <1>2, <1>3, <1>5 DEF Txs
<1>7. Committed'
  <2>1. signed' = signed \cup {s}
    BY DEF s
  <2> SUFFICES ASSUME NEW c \in signed'
               PROVE  /\ c.key \in TxKeys /\ c.chain \in Nat \cup {Undefined}
                      /\ c.content = Content(Meant(c)) /\ Sound(Meant(c))
                      /\ Meant(c).type # Legacy => c.chain # Undefined
    BY DEF Committed
  <2>2. CASE c \in signed
    BY <2>2 DEF IInv, Committed
  <2>3. CASE c = s
    BY <2>3, <1>4
  <2> QED
    BY <2>1, <2>2, <2>3
<1>8. s \in signed'
  BY DEF s
<1>9. d.v # Undefined
  BY <1>2, <1>6 DEF Undefined
<1>10. \E c \in signed' : c.key = d.rs.key /\ d.rs.msg = getMessageToSign(Meant(c))
  BY <1>4, <1>5, <1>6, <1>8
<1> QED
  BY <1>6, <1>7, <1>9, <1>10 DEF d, msg

\* A signature, or the throw of one, leaves these fields as they are.
LEMMA UpgradedFields ==
    ASSUME NEW t \in Txs
    PROVE  LET u == Upgraded(t)
           IN  /\ u \in Txs
               /\ u.type = t.type /\ u.chain = t.chain /\ u.nonce = t.nonce /\ u.price = t.price /\ u.prio = t.prio
               /\ u.gas = t.gas /\ u.to = t.to /\ u.value = t.value /\ u.tokenId = t.tokenId
               /\ u.tokenValue = t.tokenValue /\ u.data = t.data /\ u.access = t.access /\ u.v = t.v
               /\ u.rs = t.rs /\ u.sender = t.sender
<1>1. CASE t.type = Legacy
  <2> DEFINE u == [t EXCEPT !.prot = TRUE]
  <2>1. u \in Txs
    BY DEF Txs
  <2>2. Upgraded(t) = u
    BY <1>1 DEF Upgraded
  <2> QED
    BY <2>1, <2>2 DEF Txs
<1>2. CASE t.type # Legacy
  BY <1>2 DEF Upgraded
<1> QED
  BY <1>1, <1>2

LEMMA ObjectFields ==
    ASSUME IInv, Object
    PROVE  /\ tx \in Txs /\ tx.chain = chain /\ chain \in Nat /\ Plain(tx) /\ Accepts(tx, chain)
           /\ tx.type \in {Legacy, AccessListEIP2930, FeeMarketEIP1559}
           /\ tx.v # Undefined => IF tx.type = Legacy THEN tx.v >= 27 ELSE tx.v \in {0, 1}
<1>1. tx \in Txs /\ tx.chain = chain /\ chain \in Chains /\ Plain(tx) /\ Accepts(tx, chain)
  BY DEF IInv, Types, Built
<1>2. chain \in Nat
  BY <1>1, ConstantsTyped
<1>3. tx.v \in Nat \cup {Undefined} /\ tx.type \in {Legacy, AccessListEIP2930, FeeMarketEIP1559}
  BY <1>1 DEF Accepts, Txs, Undefined
<1>4. ASSUME tx.v # Undefined, tx.type = Legacy PROVE tx.v >= 27
  <2>1. validateVAndExtractChainID(tx, chain)
    BY <1>1, <1>4 DEF Accepts, Legacy, AccessListEIP2930, FeeMarketEIP1559
  <2> QED
    BY <1>3, <1>4, <2>1 DEF validateVAndExtractChainID
<1>5. ASSUME tx.v # Undefined, tx.type # Legacy PROVE tx.v \in {0, 1}
  BY <1>1, <1>5 DEF Accepts, validateYParity
<1> QED
  BY <1>1, <1>2, <1>3, <1>4, <1>5

LEMMA NotDecoded == ASSUME origin' = NoOrigin PROVE WireCanonical'
BY DEF WireCanonical, NoOrigin

LEMMA MakeHolds == ASSUME IInv, Make PROVE IInv'
<1>1. PICK d \in TxDatas, f \in BOOLEAN, id \in Chains :
         /\ chain' = id /\ Hold(createTx([d EXCEPT !.frozen = f], id)) /\ origin' = NoOrigin /\ UNCHANGED signed
  BY DEF Make
<1> DEFINE e == [d EXCEPT !.frozen = f]
<1>2. d \in Datas
  BY DatasTyped, Zenon
<1>3. NoSig \in Sigs /\ NoSig.key = "none" /\ Zero \in Sigs /\ Zero.key = "zero"
  <2>1. NoSig \in Sigs /\ NoSig.key = "none"
    BY DEF NoSig, Sigs, Keys
  <2>2. "zero" \in Keys
    BY DEF Keys
  <2> QED
    BY <2>1, <2>2 DEF Zero, Sigs
<1>4. e \in Txs /\ e.rs \in {NoSig, Zero}
  BY <1>2, <1>3 DEF Datas, Txs, Senders
<1>5. e.rs.key \notin TxKeys
  BY <1>3, <1>4, KeysApart
<1>6. Committed' /\ made \in Nat
  BY <1>1 DEF IInv, Committed, Types
<1> HIDE DEF e
<1> QED
  BY <1>1, <1>4, <1>5, <1>6, NotDecoded, Held DEF e

LEMMA SignHolds == ASSUME IInv, Sign PROVE IInv'
<1>1. PICK key \in TxKeys, rec \in {0, 1} :
        LET lent == Upgraded(tx)
            out == addSignature(lent, key, rec, getMessageToSign(lent))
        IN /\ tx.sender # "no object"
           /\ \/ /\ Hold(out) /\ signed' = signed \cup {Commitment(key, lent)} /\ origin' = NoOrigin
              \/ /\ tx' = AfterSign(tx) /\ signed' = signed \cup {Commitment(key, lent)}
                 /\ UNCHANGED <<origin, broken>> /\ made' = made + 1
           /\ UNCHANGED chain
  BY DEF Sign
<1> DEFINE lent == Upgraded(tx)
           d == WithSignature(lent, key, rec, getMessageToSign(lent))
<1>2. Object
  BY <1>1 DEF Object
<1>3. /\ tx \in Txs /\ tx.chain = chain /\ chain \in Nat /\ Plain(tx) /\ Accepts(tx, chain)
      /\ tx.type \in {Legacy, AccessListEIP2930, FeeMarketEIP1559}
  BY <1>2, ObjectFields
<1>4. /\ lent \in Txs /\ lent.type = tx.type /\ lent.chain = tx.chain /\ Plain(lent)
  BY <1>3, UpgradedFields DEF Plain
<1>5. signed' = signed \cup {Commitment(key, lent)} /\ chain' = chain
  BY <1>1
<1>6. /\ d \in Txs /\ d.v # Undefined /\ Committed'
      /\ \E s \in signed' : s.key = d.rs.key /\ d.rs.msg = getMessageToSign(Meant(s))
  <2> HIDE DEF lent
  <2> QED
    BY <1>3, <1>4, <1>5, SignedBy
<1>7. addSignature(lent, key, rec, getMessageToSign(lent)) = createTx(d, chain)
  BY DEF addSignature, WithSignature
<1>8. chain \in Chains /\ made \in Nat
  BY DEF IInv, Types
<1>9. CASE Hold(createTx(d, chain)) /\ origin' = NoOrigin
  <2> HIDE DEF d
  <2> QED
    BY <1>5, <1>6, <1>8, <1>9, NotDecoded, Held
<1>10. CASE tx' = tx /\ UNCHANGED <<origin, broken>> /\ made' = made + 1
  <2>1. Types'
    BY <1>5, <1>10 DEF IInv, Types
  <2>2. Built'
    BY <1>5, <1>10 DEF IInv, Built, Object
  <2>3. signed \subseteq signed'
    BY <1>5
  <2>4. Meaning'
    BY <1>10, <2>3 DEF IInv, Meaning
  <2>5. Cached'
    BY <1>10, <2>3 DEF IInv, Cached, Object
  <2>6. WireCanonical'
    BY <1>10 DEF IInv, WireCanonical, Object
  <2> QED
    BY <1>6, <2>1, <2>2, <2>4, <2>5, <2>6 DEF IInv
<1> QED
  BY <1>1, <1>7, <1>9, <1>10 DEF AfterSign

LEMMA SignElsewhereHolds == ASSUME IInv, SignElsewhere PROVE IInv'
<1>1. PICK key \in TxKeys, rec \in {0, 1} :
        LET bare == [tx EXCEPT !.prot = FALSE]
        IN /\ tx.sender # "no object"
           /\ Hold(addSignature(bare, key, rec, getMessageToSign(bare)))
           /\ signed' = signed \cup {Commitment(key, bare)} /\ origin' = NoOrigin /\ UNCHANGED chain
  BY DEF SignElsewhere
<1> DEFINE bare == [tx EXCEPT !.prot = FALSE]
           d == WithSignature(bare, key, rec, getMessageToSign(bare))
<1>2. Object
  BY <1>1 DEF Object
<1>3. /\ tx \in Txs /\ tx.chain = chain /\ chain \in Nat /\ Plain(tx)
      /\ tx.type \in {Legacy, AccessListEIP2930, FeeMarketEIP1559}
  BY <1>2, ObjectFields
<1>4. bare \in Txs
  BY <1>3 DEF Txs
<1>5. bare.type = tx.type /\ bare.chain = tx.chain /\ Plain(bare)
  BY <1>3 DEF Txs, Plain
<1>6. signed' = signed \cup {Commitment(key, bare)} /\ chain' = chain /\ origin' = NoOrigin
  BY <1>1
<1>7. addSignature(bare, key, rec, getMessageToSign(bare)) = createTx(d, chain)
  BY DEF addSignature, WithSignature
<1>8. Hold(createTx(d, chain))
  BY <1>1, <1>7
<1> HIDE DEF bare
<1>9. /\ d \in Txs /\ d.v # Undefined /\ Committed'
      /\ \E s \in signed' : s.key = d.rs.key /\ d.rs.msg = getMessageToSign(Meant(s))
  BY <1>3, <1>4, <1>5, <1>6, SignedBy
<1>10. chain \in Chains /\ made \in Nat
  BY DEF IInv, Types
<1> HIDE DEF d
<1> QED
  BY <1>6, <1>8, <1>9, <1>10, NotDecoded, Held

LEMMA RpcHolds == ASSUME IInv, Rpc PROVE IInv'
<1>1. /\ tx.sender # "no object" /\ Hold(createTx(normalizeTxParams(tx), chain))
      /\ origin' = NoOrigin /\ chain' = chain /\ signed' = signed
  BY DEF Rpc
<1>2. tx \in Txs /\ chain \in Chains /\ made \in Nat /\ Committed'
  BY <1>1 DEF IInv, Types, Committed
<1> DEFINE rs == IF tx.rs.key = "zero" THEN NoSig ELSE tx.rs
           v == IF tx.v = 0 /\ tx.rs.key \in {"none", "zero"} THEN Undefined ELSE tx.v
           d == normalizeTxParams(tx)
<1>3. NoSig \in Sigs /\ NoSig.key = "none"
  BY DEF NoSig, Sigs, Keys
<1>4. rs \in Sigs /\ v \in Nat \cup {-1}
  BY <1>2, <1>3 DEF Txs, Undefined
<1>5. d = [tx EXCEPT !.rs = rs, !.v = v]
  BY DEF normalizeTxParams
<1>6. tx.rs.key \in TxKeys => v = tx.v /\ rs = tx.rs
  BY KeysApart
<1>7. rs.key \in TxKeys => rs = tx.rs
  BY <1>3, KeysApart
<1> HIDE DEF rs, v, d
<1>8. d \in Txs /\ d.rs = rs /\ d.v = v
  BY <1>2, <1>4, <1>5 DEF Txs
<1>9. d.rs.key \in TxKeys =>
        d.v # Undefined /\ \E s \in signed' : s.key = d.rs.key /\ d.rs.msg = getMessageToSign(Meant(s))
  BY <1>1, <1>6, <1>7, <1>8 DEF IInv, Meaning
<1> QED
  BY <1>1, <1>2, <1>8, <1>9, NotDecoded, Held DEF d

(* Two objects that differ in the caches and the capability alone.         *)
Same(r, t) == /\ r.type = t.type /\ r.chain = t.chain /\ r.nonce = t.nonce /\ r.price = t.price /\ r.prio = t.prio
              /\ r.gas = t.gas /\ r.to = t.to /\ r.value = t.value /\ r.tokenId = t.tokenId
              /\ r.tokenValue = t.tokenValue /\ r.data = t.data /\ r.access = t.access /\ r.v = t.v /\ r.rs = t.rs

LEMMA SameContent ==
    ASSUME NEW r, NEW t, Same(r, t)
    PROVE  /\ Content(r) = Content(t) /\ serializeTx(r) = serializeTx(t)
           /\ isSigned(r) = isSigned(t) /\ validateHighS(r) = validateHighS(t)
<1>1. Content(r) = Content(t)
  BY DEF Same, Content
<1>2. Values(r) = Values(t)
  BY DEF Same, Values
<1>3. rawLegacy(r) = rawLegacy(t) /\ raw2930(r) = raw2930(t) /\ raw1559(r) = raw1559(t)
  BY <1>2 DEF Same, rawLegacy, raw2930, raw1559
<1>4. serializeTx(r) = serializeTx(t)
  BY <1>3 DEF Same, serializeTx
<1>5. isSigned(r) = isSigned(t) /\ validateHighS(r) = validateHighS(t)
  BY DEF Same, isSigned, validateHighS
<1> QED
  BY <1>1, <1>4, <1>5

LEMMA SameMessage ==
    ASSUME NEW r, NEW t, Same(r, t), r.prot = t.prot
    PROVE  ecrecover(r) = ecrecover(t)
<1>1. messageLegacy(r) = messageLegacy(t) /\ message2930(r) = message2930(t) /\ message1559(r) = message1559(t)
  BY DEF Same, messageLegacy, message2930, message1559
<1>2. getMessageToSign(r) = getMessageToSign(t)
  BY <1>1 DEF Same, getMessageToSign
<1>3. calculateSigRecovery(r) = calculateSigRecovery(t)
  BY DEF Same, calculateSigRecovery
<1> QED
  BY <1>2, <1>3 DEF Same, ecrecover

LEMMA SignThrowsHolds == ASSUME IInv, SignThrows PROVE IInv'
<1>1. /\ tx.sender # "no object" /\ tx' = Upgraded(tx) /\ broken' = TRUE
      /\ chain' = chain /\ signed' = signed /\ origin' = origin /\ made' = made
  BY DEF SignThrows
<1>2. /\ tx \in Txs /\ tx.chain = chain /\ chain \in Nat /\ Plain(tx) /\ Accepts(tx, chain)
  BY <1>1, ObjectFields DEF Object
<1>3. /\ tx' \in Txs /\ Same(tx', tx) /\ tx'.sender = tx.sender
  BY <1>1, <1>2, UpgradedFields DEF Same
<1>4. Content(tx') = Content(tx) /\ serializeTx(tx') = serializeTx(tx)
  BY <1>3, SameContent
<1>5. Types' /\ Committed'
  BY <1>1, <1>3 DEF IInv, Types, Committed
<1>6. Built'
  <2>1. tx'.chain = chain' /\ Plain(tx')
    BY <1>1, <1>2, <1>3 DEF Same, Plain
  <2>2. Accepts(tx', chain)
    BY <1>2, <1>3, SameData DEF Same
  <2> QED
    BY <1>1, <2>1, <2>2 DEF Built
<1>7. Meaning'
  BY <1>1, <1>3 DEF IInv, Meaning, Same
<1>8. Cached'
  BY <1>1, <1>3, <1>4 DEF IInv, Cached, Same, Object
<1>9. WireCanonical'
  BY <1>1, <1>4 DEF IInv, WireCanonical, Object
<1> QED
  BY <1>5, <1>6, <1>7, <1>8, <1>9 DEF IInv

LEMMA AskSenderHolds == ASSUME IInv, AskSender PROVE IInv'
<1>1. /\ tx.sender = "none" /\ getSenderPublicKey(tx) # "throws"
      /\ tx' = [tx EXCEPT !.sender = getSenderPublicKey(tx)]
      /\ chain' = chain /\ signed' = signed /\ origin' = origin /\ broken' = broken /\ made' = made
  BY DEF AskSender
<1>2. isSigned(tx) /\ ~tx.rs.high /\ getSenderPublicKey(tx) = ecrecover(tx)
  BY <1>1 DEF getSenderPublicKey, validateHighS
<1>3. Object
  BY <1>1 DEF Object
<1>4. /\ tx \in Txs /\ tx.chain = chain /\ chain \in Nat /\ Plain(tx) /\ Accepts(tx, chain)
  BY <1>3, ObjectFields
<1>5. ecrecover(tx) \in TxKeys \cup {"stranger"}
  <2>1. tx.rs.key \in Keys
    BY <1>4 DEF Txs, Sigs
  <2> QED
    BY <1>1, <1>2, <2>1 DEF ecrecover, Keys
<1> DEFINE k == ecrecover(tx)
<1> HIDE DEF k
<1>6. tx' = [tx EXCEPT !.sender = k] /\ k \in TxKeys \cup {"stranger"}
  BY <1>1, <1>2, <1>5 DEF k
<1>7. tx' \in Txs
  BY <1>4, <1>6 DEF Txs, Senders
<1>8. Same(tx', tx) /\ tx'.prot = tx.prot /\ tx'.sender = k
  BY <1>4, <1>6, <1>7 DEF Txs, Same
<1>9. /\ Content(tx') = Content(tx) /\ serializeTx(tx') = serializeTx(tx) /\ isSigned(tx') = isSigned(tx)
      /\ ecrecover(tx') = k
  BY <1>8, SameContent, SameMessage DEF k
<1>10. Types' /\ Committed'
  BY <1>1, <1>7 DEF IInv, Types, Committed
<1>11. Built'
  <2>1. tx'.chain = chain' /\ Plain(tx')
    BY <1>1, <1>4, <1>8 DEF Same, Plain
  <2>2. Accepts(tx', chain) /\ Protects(tx', chain) = Protects(tx, chain)
    BY <1>4, <1>7, <1>8, SameData DEF Same
  <2> QED
    BY <1>1, <1>3, <1>8, <2>1, <2>2 DEF IInv, Built
<1>12. Meaning'
  BY <1>1, <1>8 DEF IInv, Meaning, Same
<1>13. Cached'
  <2>1. k \in TxKeys => \E s \in signed : s.key = k /\ s.content = Content(tx) /\ s.chain \in {tx.chain, Undefined}
    BY <1>3, Attributed DEF k
  <2>2. tx'.rs = tx.rs /\ tx'.chain = tx.chain
    BY <1>8 DEF Same
  <2>3. k # "throws"
    BY <1>6, KeysApart
  <2> QED
    BY <1>1, <1>2, <1>8, <1>9, <2>1, <2>2, <2>3 DEF Cached
<1>14. WireCanonical'
  BY <1>1, <1>3, <1>9 DEF IInv, WireCanonical
<1> QED
  BY <1>10, <1>11, <1>12, <1>13, <1>14 DEF IInv
-----------------------------------------------------------------------------
(* The wire.                                                               *)

Wire(t) ==
    [type |-> t.type, full |-> TRUE, chain |-> Num(IF t.type = Legacy THEN 0 ELSE t.chain),
     nonce |-> t.nonce, price |-> t.price, prio |-> IF t.type = FeeMarketEIP1559 THEN t.prio ELSE 0,
     gas |-> t.gas, to |-> t.to, value |-> t.value,
     tokenId |-> Num(IF t.type = Legacy THEN t.tokenId ELSE 0),
     tokenValue |-> Num(IF t.type = Legacy THEN t.tokenValue ELSE 0),
     data |-> t.data, access |-> IF t.type = Legacy THEN 0 ELSE t.access,
     v |-> Num(IF t.v = Undefined THEN 0 ELSE t.v), rs |-> IF t.rs.key = "zero" THEN NoSig ELSE t.rs]

LEMMA WireTyped ==
    ASSUME NEW t \in Txs, t.chain \in Nat, t.type \in {Legacy, AccessListEIP2930, FeeMarketEIP1559}
    PROVE  /\ Wire(t) \in Wires
           /\ Wire(t).v.n \in Nat /\ Wire(t).rs.key # "zero"
<1> DEFINE rs == IF t.rs.key = "zero" THEN NoSig ELSE t.rs
           v == IF t.v = Undefined THEN 0 ELSE t.v
<1>1. rs \in Sigs /\ rs.key # "zero"
  <2>1. NoSig \in Sigs /\ NoSig.key = "none"
    BY DEF NoSig, Sigs, Keys
  <2> QED
    BY <2>1 DEF Txs
<1>2. v \in Nat
  BY DEF Txs, Undefined
<1>3. Wire(t).v = Num(v) /\ Wire(t).rs = rs
  BY DEF Wire
<1> HIDE DEF rs, v
<1>4. \A n \in Nat : Num(n) \in Nums /\ Num(n) \in [pad : Nat, n : Nat \cup {-1}] /\ Num(n).n = n
  BY DEF Num, Nums
<1> DEFINE c == Num(IF t.type = Legacy THEN 0 ELSE t.chain)
           i == Num(IF t.type = Legacy THEN t.tokenId ELSE 0)
           a == Num(IF t.type = Legacy THEN t.tokenValue ELSE 0)
           n == Num(v)
<1>5. c \in Nums /\ i \in Nums /\ a \in Nums /\ n \in [pad : Nat, n : Nat \cup {-1}] /\ n.n \in Nat
  <2>1. t.tokenId \in Nat /\ t.tokenValue \in Nat
    BY DEF Txs
  <2> QED
    BY <1>2, <1>4, <2>1
<1>6. Wire(t) = [type |-> t.type, full |-> TRUE, chain |-> c, nonce |-> t.nonce, price |-> t.price,
                 prio |-> IF t.type = FeeMarketEIP1559 THEN t.prio ELSE 0, gas |-> t.gas, to |-> t.to,
                 value |-> t.value, tokenId |-> i, tokenValue |-> a, data |-> t.data,
                 access |-> IF t.type = Legacy THEN 0 ELSE t.access, v |-> n, rs |-> rs]
  BY DEF Wire, rs, v
<1> HIDE DEF c, i, a, n
<1>7. Wire(t) \in Wires
  BY <1>1, <1>5, <1>6 DEF Wires, Txs
<1> QED
  BY <1>1, <1>3, <1>5, <1>7 DEF n

LEMMA AlikeWires ==
    ASSUME NEW r \in Wires, NEW s \in Wires, r.type = s.type, r.full = s.full, r.chain = s.chain,
           r.nonce = s.nonce, r.price = s.price, r.prio = s.prio, r.gas = s.gas, r.to = s.to, r.value = s.value,
           r.tokenId = s.tokenId, r.tokenValue = s.tokenValue, r.data = s.data, r.access = s.access,
           r.v = s.v, r.rs = s.rs
    PROVE  r = s
BY DEF Wires

LEMMA SerializeTx ==
    ASSUME NEW t \in Txs, t.chain \in Nat, t.type \in {Legacy, AccessListEIP2930, FeeMarketEIP1559}
    PROVE  serializeTx(t) = Wire(t)
<1> DEFINE rs == IF t.rs.key = "zero" THEN NoSig ELSE t.rs
           v == Num(IF t.v = Undefined THEN 0 ELSE t.v)
           u == Values(t)
           w == Wire(t)
<1>1. w \in Wires /\ w.v = v /\ w.rs = rs
  BY WireTyped DEF Wire
<1>2. v \in [pad : Nat, n : Nat \cup {-1}] /\ rs \in Sigs
  BY <1>1 DEF Wires
<1>3. /\ w.type = t.type /\ w.full = TRUE /\ w.nonce = t.nonce /\ w.price = t.price /\ w.gas = t.gas /\ w.to = t.to
      /\ w.value = t.value /\ w.data = t.data
      /\ w.chain = Num(IF t.type = Legacy THEN 0 ELSE t.chain)
      /\ w.prio = (IF t.type = FeeMarketEIP1559 THEN t.prio ELSE 0)
      /\ w.tokenId = Num(IF t.type = Legacy THEN t.tokenId ELSE 0)
      /\ w.tokenValue = Num(IF t.type = Legacy THEN t.tokenValue ELSE 0)
      /\ w.access = (IF t.type = Legacy THEN 0 ELSE t.access)
  BY DEF Wire
<1>4. u = [type |-> t.type, full |-> TRUE, chain |-> Num(0), nonce |-> t.nonce, price |-> t.price, prio |-> 0,
           gas |-> t.gas, to |-> t.to, value |-> t.value, tokenId |-> Num(0), tokenValue |-> Num(0),
           data |-> t.data, access |-> 0, v |-> v, rs |-> rs]
  BY DEF Values
<1> HIDE DEF rs, v, u, w
<1>5. /\ t.nonce \in Nat /\ t.price \in Nat /\ t.prio \in Nat /\ t.gas \in Nat /\ t.to \in Nat /\ t.value \in Nat
      /\ t.data \in Nat /\ t.access \in Nat
      /\ Num(0) \in Nums /\ Num(t.chain) \in Nums /\ Num(t.tokenId) \in Nums /\ Num(t.tokenValue) \in Nums
  BY DEF Txs, Num, Nums
<1>6. /\ u \in Wires
      /\ u.type = t.type /\ u.full = TRUE /\ u.chain = Num(0) /\ u.nonce = t.nonce /\ u.price = t.price
      /\ u.prio = 0 /\ u.gas = t.gas /\ u.to = t.to /\ u.value = t.value /\ u.tokenId = Num(0)
      /\ u.tokenValue = Num(0) /\ u.data = t.data /\ u.access = 0 /\ u.v = v /\ u.rs = rs
  BY <1>2, <1>4, <1>5 DEF Wires
<1>7. CASE t.type = Legacy
  <2> DEFINE s == [u EXCEPT !.tokenId = Num(t.tokenId), !.tokenValue = Num(t.tokenValue)]
  <2>1. serializeTx(t) = s
    BY <1>7 DEF serializeTx, rawLegacy, u, Legacy, AccessListEIP2930, FeeMarketEIP1559
  <2>2. s \in Wires
    BY <1>5, <1>6 DEF Wires
  <2>3. /\ s.tokenId = w.tokenId /\ s.tokenValue = w.tokenValue
        /\ s.type = u.type /\ s.full = u.full /\ s.chain = u.chain /\ s.nonce = u.nonce /\ s.price = u.price
        /\ s.prio = u.prio /\ s.gas = u.gas /\ s.to = u.to /\ s.value = u.value /\ s.data = u.data
        /\ s.access = u.access /\ s.v = u.v /\ s.rs = u.rs
    BY <1>3, <1>6, <1>7 DEF Wires
  <2>4. w.chain = Num(0) /\ w.prio = 0 /\ w.access = 0
    BY <1>3, <1>7 DEF Legacy, FeeMarketEIP1559
  <2> HIDE DEF s
  <2>5. /\ s.type = w.type /\ s.full = w.full /\ s.chain = w.chain /\ s.nonce = w.nonce /\ s.price = w.price
        /\ s.prio = w.prio /\ s.gas = w.gas /\ s.to = w.to /\ s.value = w.value /\ s.tokenId = w.tokenId
        /\ s.tokenValue = w.tokenValue /\ s.data = w.data /\ s.access = w.access /\ s.v = w.v /\ s.rs = w.rs
    BY <1>1, <1>3, <1>6, <2>3, <2>4
  <2>6. s = w
    BY <1>1, <2>2, <2>5, AlikeWires, Zenon
  <2> QED
    BY <2>1, <2>6 DEF w
<1>8. CASE t.type = AccessListEIP2930
  <2> DEFINE s == [u EXCEPT !.chain = Num(t.chain), !.access = t.access]
  <2>1. serializeTx(t) = s
    BY <1>8 DEF serializeTx, raw2930, u, Legacy, AccessListEIP2930, FeeMarketEIP1559
  <2>2. s \in Wires
    BY <1>5, <1>6 DEF Wires
  <2>3. /\ s.chain = Num(t.chain) /\ s.access = t.access
        /\ s.type = u.type /\ s.full = u.full /\ s.tokenId = u.tokenId /\ s.tokenValue = u.tokenValue
        /\ s.nonce = u.nonce /\ s.price = u.price
        /\ s.prio = u.prio /\ s.gas = u.gas /\ s.to = u.to /\ s.value = u.value /\ s.data = u.data
        /\ s.v = u.v /\ s.rs = u.rs
    BY <1>3, <1>6, <1>8 DEF Wires
  <2>4. w.chain = Num(t.chain) /\ w.prio = 0 /\ w.access = t.access /\ w.tokenId = Num(0) /\ w.tokenValue = Num(0)
    BY <1>3, <1>8 DEF Legacy, AccessListEIP2930, FeeMarketEIP1559
  <2> HIDE DEF s
  <2>5. /\ s.type = w.type /\ s.full = w.full /\ s.chain = w.chain /\ s.nonce = w.nonce /\ s.price = w.price
        /\ s.prio = w.prio /\ s.gas = w.gas /\ s.to = w.to /\ s.value = w.value /\ s.tokenId = w.tokenId
        /\ s.tokenValue = w.tokenValue /\ s.data = w.data /\ s.access = w.access /\ s.v = w.v /\ s.rs = w.rs
    BY <1>1, <1>3, <1>6, <2>3, <2>4
  <2>6. s = w
    BY <1>1, <2>2, <2>5, AlikeWires, Zenon
  <2> QED
    BY <2>1, <2>6 DEF w
<1>9. CASE t.type = FeeMarketEIP1559
  <2> DEFINE s == [u EXCEPT !.chain = Num(t.chain), !.prio = t.prio, !.access = t.access]
  <2>1. serializeTx(t) = s
    BY <1>9 DEF serializeTx, raw1559, u, Legacy, AccessListEIP2930, FeeMarketEIP1559
  <2>2. s \in Wires
    BY <1>5, <1>6 DEF Wires
  <2>3. /\ s.chain = Num(t.chain) /\ s.prio = t.prio /\ s.access = t.access
        /\ s.type = u.type /\ s.full = u.full /\ s.tokenId = u.tokenId /\ s.tokenValue = u.tokenValue
        /\ s.nonce = u.nonce /\ s.price = u.price
        /\ s.gas = u.gas /\ s.to = u.to /\ s.value = u.value /\ s.data = u.data
        /\ s.v = u.v /\ s.rs = u.rs
    BY <1>3, <1>6, <1>9 DEF Wires
  <2>4. w.chain = Num(t.chain) /\ w.prio = t.prio /\ w.access = t.access /\ w.tokenId = Num(0) /\ w.tokenValue = Num(0)
    BY <1>3, <1>9 DEF Legacy, FeeMarketEIP1559
  <2> HIDE DEF s
  <2>5. /\ s.type = w.type /\ s.full = w.full /\ s.chain = w.chain /\ s.nonce = w.nonce /\ s.price = w.price
        /\ s.prio = w.prio /\ s.gas = w.gas /\ s.to = w.to /\ s.value = w.value /\ s.tokenId = w.tokenId
        /\ s.tokenValue = w.tokenValue /\ s.data = w.data /\ s.access = w.access /\ s.v = w.v /\ s.rs = w.rs
    BY <1>1, <1>3, <1>6, <2>3, <2>4
  <2>6. s = w
    BY <1>1, <2>2, <2>5, AlikeWires, Zenon
  <2> QED
    BY <2>1, <2>6 DEF w
<1> QED
  BY <1>7, <1>8, <1>9

(* What is read from w.                                                    *)
ReadData(w) == IF w.type = Legacy THEN Read(w, Undefined, IF w.v.n = 0 THEN Undefined ELSE w.v.n)
               ELSE Read(w, w.chain.n, w.v.n)

LEMMA FromRLP ==
    ASSUME NEW w \in Wires, NEW id
    PROVE  createTxFromRLP(w, id) = IF w.v.pad > 0 THEN Refused ELSE createTx(ReadData(w), id)
<1>1. w.type \in {Legacy, AccessListEIP2930, FeeMarketEIP1559}
  BY DEF Wires
<1>2. CASE w.type = Legacy
  BY <1>2 DEF createTxFromRLP, createLegacyTxFromBytesArray, ReadData, Legacy, AccessListEIP2930, FeeMarketEIP1559
<1>3. CASE w.type = AccessListEIP2930
  BY <1>3 DEF createTxFromRLP, createAccessList2930TxFromBytesArray, ReadData,
              Legacy, AccessListEIP2930, FeeMarketEIP1559
<1>4. CASE w.type = FeeMarketEIP1559
  BY <1>4 DEF createTxFromRLP, create1559FeeMarketTxFromBytesArray, ReadData,
              Legacy, AccessListEIP2930, FeeMarketEIP1559
<1> QED
  BY <1>1, <1>2, <1>3, <1>4

LEMMA ReadFields ==
    ASSUME NEW w \in Wires
    PROVE  LET d == ReadData(w)
           IN  /\ d \in Txs
               /\ d.type = w.type /\ d.nonce = w.nonce /\ d.price = w.price /\ d.prio = w.prio /\ d.gas = w.gas
               /\ d.to = w.to /\ d.value = w.value /\ d.tokenId = w.tokenId.n /\ d.tokenValue = w.tokenValue.n
               /\ d.data = w.data /\ d.access = w.access /\ d.rs = w.rs
               /\ d.chain = (IF w.type = Legacy THEN Undefined ELSE w.chain.n)
               /\ d.v = (IF w.type = Legacy /\ w.v.n = 0 THEN Undefined ELSE w.v.n)
<1> DEFINE d == ReadData(w)
           c == IF w.type = Legacy THEN Undefined ELSE w.chain.n
           v == IF w.type = Legacy /\ w.v.n = 0 THEN Undefined ELSE w.v.n
<1>1. c \in Nat \cup {-1} /\ v \in Nat \cup {-1}
  BY DEF Wires, Nums, Undefined
<1>2. d = Read(w, c, v)
  BY DEF ReadData
<1> HIDE DEF c, v, d
<1>3. d = [type |-> w.type, chain |-> c, nonce |-> w.nonce, price |-> w.price,
           prio |-> w.prio, gas |-> w.gas, to |-> w.to, value |-> w.value, tokenId |-> w.tokenId.n,
           tokenValue |-> w.tokenValue.n, data |-> w.data, access |-> w.access, v |-> v, rs |-> w.rs,
           prot |-> FALSE, frozen |-> TRUE, sender |-> "none"]
  BY <1>2 DEF Read
<1>4. d \in Txs
  BY <1>1, <1>3 DEF Txs, Wires, Nums, Senders, Legacy, AccessListEIP2930, FeeMarketEIP1559
<1> QED
  BY <1>3, <1>4 DEF d, c, v

\* What every form of x keeps of it.
LEMMA FormsKeep ==
    ASSUME NEW x \in Wires, x.v.n \in Nat, x.v.pad = 0, x.tokenValue.pad = 0, x.chain.pad = 0, NEW w \in Forms(x)
    PROVE  /\ w \in Wires
           /\ w.type = x.type /\ w.prio = x.prio /\ w.access = x.access /\ w.chain.n = x.chain.n
           /\ w.tokenValue.pad = 0 /\ w.rs.key = x.rs.key /\ w.rs.msg = x.rs.msg
           /\ \/ w.v.n = x.v.n /\ w.rs = x.rs
              \/ x.rs.key \in TxKeys /\ w.rs.high = ~x.rs.high /\ w.v.n \in {x.v.n - 1, x.v.n + 1}
<1> DEFINE short == [x EXCEPT !.full = FALSE, !.tokenId = Num(0), !.tokenValue = Num(0)]
           flipped == [x EXCEPT !.rs = OtherS(@),
                                !.v = Num(IF x.rs.rec = 0 THEN @.n + 1 ELSE @.n - 1)]
           value == [x EXCEPT !.value = Other(@)]
           nonce == [x EXCEPT !.nonce = Other(@)]
           token == [x EXCEPT !.tokenId = Num(1)]
           tokenPad == [x EXCEPT !.tokenId = [@ EXCEPT !.pad = 1]]
           vPad == [x EXCEPT !.v = [@ EXCEPT !.pad = 1]]
           chainPad == [x EXCEPT !.chain = [@ EXCEPT !.pad = IF x.type = Legacy THEN 0 ELSE 1]]
<1>1. \/ w \in {x, short, value, nonce, token, tokenPad, vPad, chainPad}
      \/ w = flipped /\ x.rs.key \in TxKeys
  <2>1. w \in {x} \cup {value, nonce, token} \cup {tokenPad, vPad, chainPad}
              \cup (IF x.type = Legacy THEN {short} ELSE {})
              \cup (IF x.rs.key \in TxKeys THEN {flipped} ELSE {})
    BY DEF Forms
  <2> HIDE DEF short, flipped, value, nonce, token, tokenPad, vPad, chainPad
  <2> QED
    BY <2>1
<1>2. Num(0) \in Nums /\ Num(0).pad = 0 /\ Num(1) \in Nums
  BY DEF Num, Nums
<1>3. \A n : Other(n) \in Nat
  BY DEF Other
<1>4. CASE w = x
  BY <1>4
<1>5. CASE w = short
  <2>1. w \in Wires
    BY <1>2, <1>5 DEF Wires
  <2> QED
    BY <1>2, <1>5, <2>1 DEF Wires
<1>6. CASE w = flipped /\ x.rs.key \in TxKeys
  <2> DEFINE h == ~x.rs.high
             r == 1 - x.rs.rec
             n == IF x.rs.rec = 0 THEN x.v.n + 1 ELSE x.v.n - 1
             rs == [x.rs EXCEPT !.high = h, !.rec = r]
             v == Num(n)
  <2>1. h \in BOOLEAN /\ r \in {0, 1} /\ n \in Nat \cup {-1} /\ n \in {x.v.n - 1, x.v.n + 1}
    BY DEF Wires, Sigs
  <2>2. w = [x EXCEPT !.rs = rs, !.v = v]
    <3>1. OtherS(x.rs) = rs
      BY DEF OtherS
    <3> QED
      BY <1>6, <3>1, Zenon
  <2>3. x.rs \in Sigs
    BY DEF Wires
  <2>4. h = ~x.rs.high
    OBVIOUS
  <2> HIDE DEF h, r, n
  <2>5. rs \in Sigs
    BY <2>1, <2>3 DEF Sigs
  <2>6. rs.key = x.rs.key /\ rs.msg = x.rs.msg /\ rs.high = h
    BY <2>3, <2>5 DEF Sigs
  <2>7. v \in [pad : Nat, n : Nat \cup {-1}] /\ v.n = n
    BY <2>1 DEF Num
  <2> HIDE DEF rs, v
  <2>8. w \in Wires
    BY <2>2, <2>5, <2>7 DEF Wires
  <2>9. w.rs = rs /\ w.v = v /\ w.type = x.type /\ w.prio = x.prio /\ w.access = x.access /\ w.chain = x.chain
        /\ w.tokenValue = x.tokenValue
    BY <2>2, <2>8 DEF Wires
  <2> QED
    BY <1>6, <2>1, <2>4, <2>6, <2>7, <2>8, <2>9
<1>7. CASE w = value
  <2>1. w \in Wires
    BY <1>3, <1>7 DEF Wires
  <2> QED
    BY <1>7, <2>1 DEF Wires
<1>8. CASE w = nonce
  <2>1. w \in Wires
    BY <1>3, <1>8 DEF Wires
  <2> QED
    BY <1>8, <2>1 DEF Wires
<1>9. CASE w = token
  <2>1. w \in Wires
    BY <1>2, <1>9 DEF Wires
  <2> QED
    BY <1>9, <2>1 DEF Wires
<1>10. CASE w = tokenPad
  <2> DEFINE i == [x.tokenId EXCEPT !.pad = 1]
  <2>1. i \in Nums
    BY DEF Wires, Nums
  <2>2. w = [x EXCEPT !.tokenId = i]
    BY <1>10
  <2> HIDE DEF i
  <2>3. w \in Wires
    BY <2>1, <2>2 DEF Wires
  <2> QED
    BY <2>2, <2>3 DEF Wires
<1>11. CASE w = vPad
  <2> DEFINE v == [x.v EXCEPT !.pad = 1]
  <2>1. v \in [pad : Nat, n : Nat \cup {-1}]
    BY DEF Wires
  <2>2. w = [x EXCEPT !.v = v] /\ v.n = x.v.n
    BY <1>11, <2>1 DEF Wires
  <2> HIDE DEF v
  <2>3. w \in Wires
    BY <2>1, <2>2 DEF Wires
  <2> QED
    BY <2>2, <2>3 DEF Wires
<1>12. CASE w = chainPad
  <2> DEFINE p == IF x.type = Legacy THEN 0 ELSE 1
             c == [x.chain EXCEPT !.pad = p]
  <2>1. p \in Nat
    OBVIOUS
  <2>2. w = [x EXCEPT !.chain = c]
    BY <1>12
  <2> HIDE DEF p
  <2>3. c \in Nums /\ c.n = x.chain.n
    BY <2>1 DEF Wires, Nums
  <2> HIDE DEF c
  <2>4. w \in Wires
    BY <2>2, <2>3 DEF Wires
  <2> QED
    BY <2>2, <2>3, <2>4 DEF Wires
<1> HIDE DEF short, flipped, value, nonce, token, tokenPad, vPad, chainPad
<1> QED
  BY <1>1, <1>4, <1>5, <1>6, <1>7, <1>8, <1>9, <1>10, <1>11, <1>12

LEMMA DeliverHolds == ASSUME IInv, Deliver PROVE IInv'
<1>1. PICK id \in Chains, w \in Forms(serializeTx(tx)) :
         /\ tx.sender # "no object" /\ Hold(createTxFromRLP(w, id))
         /\ chain' = id /\ origin' = w /\ UNCHANGED signed
  BY DEF Deliver
<1> DEFINE x == Wire(tx)
           d == ReadData(w)
<1>2. Object
  BY <1>1 DEF Object
<1>3. /\ tx \in Txs /\ tx.chain \in Nat /\ Accepts(tx, chain)
      /\ tx.type \in {Legacy, AccessListEIP2930, FeeMarketEIP1559}
      /\ tx.v # Undefined => IF tx.type = Legacy THEN tx.v >= 27 ELSE tx.v \in {0, 1}
  BY <1>2, ObjectFields
<1>4. x \in Wires /\ x.v.n \in Nat /\ x.rs.key # "zero"
  BY <1>3, WireTyped
<1>5. /\ x.type = tx.type /\ x.chain = Num(IF tx.type = Legacy THEN 0 ELSE tx.chain)
      /\ x.prio = (IF tx.type = FeeMarketEIP1559 THEN tx.prio ELSE 0)
      /\ x.access = (IF tx.type = Legacy THEN 0 ELSE tx.access)
      /\ x.v = Num(IF tx.v = Undefined THEN 0 ELSE tx.v)
      /\ x.rs = (IF tx.rs.key = "zero" THEN NoSig ELSE tx.rs)
      /\ x.tokenValue = Num(IF tx.type = Legacy THEN tx.tokenValue ELSE 0)
  BY DEF Wire
<1>6. x.v.pad = 0 /\ x.tokenValue.pad = 0 /\ x.chain.pad = 0 /\ x.v.n = (IF tx.v = Undefined THEN 0 ELSE tx.v)
      /\ x.chain.n = (IF tx.type = Legacy THEN 0 ELSE tx.chain)
  BY <1>5 DEF Num
<1>7. serializeTx(tx) = x
  BY <1>3, SerializeTx
<1> HIDE DEF x
<1>8. w \in Forms(x)
  BY <1>7
<1>9. /\ w \in Wires
      /\ w.type = x.type /\ w.prio = x.prio /\ w.access = x.access /\ w.chain.n = x.chain.n
      /\ w.tokenValue.pad = 0 /\ w.rs.key = x.rs.key /\ w.rs.msg = x.rs.msg
      /\ \/ w.v.n = x.v.n /\ w.rs = x.rs
         \/ x.rs.key \in TxKeys /\ w.rs.high = ~x.rs.high /\ w.v.n \in {x.v.n - 1, x.v.n + 1}
  BY <1>4, <1>6, <1>8, FormsKeep
<1>10. w.v.pad = 0 /\ Hold(createTx(d, id))
  <2>1. ~IsRefused(createTxFromRLP(w, id)) /\ IsRefused(Refused)
    BY <1>1 DEF Hold, IsRefused, Refused
  <2>2. w.v.pad \in Nat
    BY <1>9 DEF Wires
  <2>3. createTxFromRLP(w, id) = IF w.v.pad > 0 THEN Refused ELSE createTx(d, id)
    BY <1>9, FromRLP
  <2> HIDE DEF d
  <2>4. ~(w.v.pad > 0)
    BY <2>1, <2>3
  <2>5. createTxFromRLP(w, id) = createTx(d, id)
    BY <2>3, <2>4
  <2>6. w.v.pad = 0
    BY <2>2, <2>4
  <2> QED
    BY <1>1, <2>5, <2>6, Zenon
<1>11. /\ d \in Txs
       /\ d.type = w.type /\ d.prio = w.prio
       /\ d.tokenId = w.tokenId.n /\ d.tokenValue = w.tokenValue.n
       /\ d.access = w.access /\ d.rs = w.rs
       /\ d.chain = (IF w.type = Legacy THEN Undefined ELSE w.chain.n)
       /\ d.v = (IF w.type = Legacy /\ w.v.n = 0 THEN Undefined ELSE w.v.n)
       /\ d.nonce = w.nonce /\ d.price = w.price /\ d.gas = w.gas
       /\ d.to = w.to /\ d.value = w.value /\ d.data = w.data
  BY <1>9, ReadFields
<1> HIDE DEF d
<1>12. id \in Nat /\ made \in Nat /\ Committed'
  BY <1>1, ConstantsTyped DEF IInv, Types, Committed
<1>13. Accepts(d, id) /\ tx' = Result(d, id)
  BY <1>10, <1>11, <1>12, NewObject
<1>14. w.rs.key \in TxKeys => tx.v # Undefined /\ x.rs = tx.rs /\ tx.rs.key \in TxKeys
  <2>1. ASSUME w.rs.key \in TxKeys PROVE tx.rs.key \in TxKeys /\ x.rs = tx.rs
    <3>1. NoSig.key = "none"
      BY DEF NoSig
    <3> QED
      BY <1>5, <1>9, <2>1, <3>1, KeysApart
  <2> QED
    BY <2>1 DEF IInv, Meaning
<1>15. w.v.n \in Nat /\ (w.rs.key \in TxKeys => d.v # Undefined)
  <2>1. CASE w.rs.key \in TxKeys /\ w.type = Legacy
    BY <1>3, <1>4, <1>5, <1>6, <1>9, <1>11, <1>14, <2>1 DEF Undefined
  <2>2. CASE w.rs.key \in TxKeys /\ w.type # Legacy
    <3>1. ~d.rs.high
      BY <1>11, <1>13, <2>2 DEF Accepts, validateHighS
    <3>2. ~tx.rs.high
      BY <1>3, <1>5, <1>9, <2>2 DEF Accepts, validateHighS
    <3>3. w.v.n = x.v.n
      BY <1>9, <1>11, <1>14, <2>2, <3>1, <3>2
    <3> QED
      BY <1>4, <1>11, <2>2, <3>3 DEF Undefined
  <2>3. CASE w.rs.key \notin TxKeys
    BY <1>4, <1>9, <2>3
  <2> QED
    BY <2>1, <2>2, <2>3
<1>16. WireCanonical'
  <2> SUFFICES ASSUME w.full, ~(w.tokenId.pad > 0), ~(w.chain.pad > 0) PROVE serializeTx(tx') = w
    BY <1>1 DEF WireCanonical
  <2> DEFINE t == Result(d, id)
             y == Wire(t)
  <2>1. /\ t \in Txs /\ t.type = d.type /\ t.nonce = d.nonce /\ t.price = d.price
        /\ t.gas = d.gas /\ t.to = d.to /\ t.value = d.value
        /\ t.tokenId = d.tokenId /\ t.tokenValue = d.tokenValue
        /\ t.data = d.data /\ t.v = d.v /\ t.rs = d.rs /\ t.chain = id
        /\ t.prio = (IF d.type = FeeMarketEIP1559 THEN d.prio ELSE 0)
        /\ t.access = (IF d.type = Legacy THEN 0 ELSE d.access)
    BY <1>11, <1>12, ResultFields
  <2> HIDE DEF t
  <2>2. t.type \in {Legacy, AccessListEIP2930, FeeMarketEIP1559}
    BY <1>3, <1>5, <1>9, <1>11, <2>1
  <2>3. y \in Wires /\ serializeTx(t) = y
    BY <1>12, <2>1, <2>2, WireTyped, SerializeTx
  <2>4. /\ y.type = t.type /\ y.full = TRUE /\ y.nonce = t.nonce /\ y.price = t.price /\ y.gas = t.gas
        /\ y.to = t.to /\ y.value = t.value /\ y.data = t.data
        /\ y.chain = Num(IF t.type = Legacy THEN 0 ELSE t.chain)
        /\ y.prio = (IF t.type = FeeMarketEIP1559 THEN t.prio ELSE 0)
        /\ y.tokenId = Num(IF t.type = Legacy THEN t.tokenId ELSE 0)
        /\ y.tokenValue = Num(IF t.type = Legacy THEN t.tokenValue ELSE 0)
        /\ y.access = (IF t.type = Legacy THEN 0 ELSE t.access)
        /\ y.v = Num(IF t.v = Undefined THEN 0 ELSE t.v)
        /\ y.rs = (IF t.rs.key = "zero" THEN NoSig ELSE t.rs)
    BY DEF Wire
  <2> HIDE DEF y
  <2>5. /\ w.chain = Num(w.chain.n) /\ w.tokenId = Num(w.tokenId.n) /\ w.tokenValue = Num(w.tokenValue.n)
        /\ w.v = Num(w.v.n) /\ w.chain.n \in Nat
    <3>1. w.chain \in Nums /\ w.tokenId \in Nums /\ w.tokenValue \in Nums /\ w.v \in [pad : Nat, n : Nat \cup {-1}]
      BY <1>9 DEF Wires
    <3>2. w.chain.pad = 0 /\ w.tokenId.pad = 0
      BY <3>1 DEF Nums
    <3> QED
      BY <1>9, <1>10, <3>1, <3>2 DEF Nums, Num
  <2>6. y.chain = w.chain
    <3>1. CASE w.type = Legacy
      BY <1>5, <1>6, <1>9, <1>11, <2>1, <2>4, <2>5, <3>1
    <3>2. CASE w.type # Legacy
      <4>1. w.chain.n = id
        BY <1>11, <1>13, <2>5, <3>2 DEF Accepts, Undefined
      <4> QED
        BY <1>11, <2>1, <2>4, <2>5, <3>2, <4>1
    <3> QED
      BY <3>1, <3>2
  <2>7. y.tokenId = w.tokenId /\ y.tokenValue = w.tokenValue
    <3>1. w.type # Legacy => d.tokenId = 0 /\ d.tokenValue = 0
      BY <1>11, <1>13 DEF Accepts, sharedConstructor
    <3> QED
      BY <1>11, <2>1, <2>4, <2>5, <3>1
  <2>8. y.prio = w.prio /\ y.access = w.access
    BY <1>5, <1>9, <1>11, <2>1, <2>4
  <2>9. y.v = w.v
    <3>1. (IF t.v = Undefined THEN 0 ELSE t.v) = w.v.n
      BY <1>11, <1>15, <2>1 DEF Undefined
    <3> QED
      BY <2>4, <2>5, <3>1
  <2>10. y.rs = w.rs
    BY <1>4, <1>9, <1>11, <2>1, <2>4
  <2>11. /\ y.type = w.type /\ y.full = w.full /\ y.nonce = w.nonce /\ y.price = w.price /\ y.gas = w.gas
         /\ y.to = w.to /\ y.value = w.value /\ y.data = w.data
    <3>1. w.full = TRUE
      BY <1>9 DEF Wires
    <3> QED
      BY <1>11, <2>1, <2>4, <3>1
  <2>12. y = w
    BY <1>9, <2>3, <2>6, <2>7, <2>8, <2>9, <2>10, <2>11, AlikeWires, Zenon
  <2> QED
    BY <1>13, <2>3, <2>12 DEF t
<1>17. d.rs.key \in TxKeys =>
         d.v # Undefined /\ \E s \in signed' : s.key = d.rs.key /\ d.rs.msg = getMessageToSign(Meant(s))
  BY <1>1, <1>9, <1>11, <1>14, <1>15 DEF IInv, Meaning
<1> QED
  BY <1>1, <1>10, <1>11, <1>12, <1>16, <1>17, Held

LEMMA InitHolds == TransactionsInit => IInv
<1> SUFFICES ASSUME TransactionsInit PROVE IInv
  OBVIOUS
<1>1. PICK d \in TxDatas : tx = NoTx(d)
  BY DatasTyped, Zenon DEF TransactionsInit
<1>2. chain \in Chains /\ signed = {} /\ origin = NoOrigin /\ broken = FALSE /\ made = 0
  BY DEF TransactionsInit
<1>3. d \in Datas
  BY DatasTyped, Zenon
<1>4. NoSig \in Sigs /\ NoSig.key = "none" /\ Zero \in Sigs /\ Zero.key = "zero"
  <2>1. NoSig \in Sigs /\ NoSig.key = "none"
    BY DEF NoSig, Sigs, Keys
  <2>2. "zero" \in Keys
    BY DEF Keys
  <2> QED
    BY <2>1, <2>2 DEF Zero, Sigs
<1>5. tx \in Txs /\ tx.rs \in {NoSig, Zero} /\ tx.sender = "no object"
  <2>1. d \in Txs
    BY <1>3, <1>4 DEF Datas, Txs, Senders
  <2>2. d.rs \in {NoSig, Zero}
    BY <1>3 DEF Datas
  <2>3. "no object" \in Senders
    BY DEF Senders
  <2>4. tx \in Txs
    BY <1>1, <2>1, <2>3 DEF NoTx, Txs
  <2> QED
    BY <1>1, <2>1, <2>2, <2>4 DEF NoTx, Txs
<1>6. tx.rs.key \notin TxKeys
  BY <1>4, <1>5, KeysApart
<1>7. Types /\ Committed /\ Meaning
  BY <1>2, <1>5, <1>6 DEF Types, Committed, Meaning
<1>8. Built /\ Cached /\ WireCanonical
  BY <1>5 DEF Built, Cached, WireCanonical, Object
<1> QED
  BY <1>7, <1>8 DEF IInv

LEMMA StepHolds == IInv /\ [TransactionsNext]_txVars => IInv'
<1> SUFFICES ASSUME IInv, [TransactionsNext]_txVars PROVE IInv'
  OBVIOUS
<1>1. CASE UNCHANGED txVars
  BY <1>1 DEF txVars, IInv, Types, Built, Committed, Meaning, Cached, WireCanonical, Object
<1>2. CASE TransactionsNext
  BY <1>2, MakeHolds, SignHolds, SignThrowsHolds, SignElsewhereHolds, AskSenderHolds, DeliverHolds, RpcHolds
     DEF TransactionsNext
<1> QED
  BY <1>1, <1>2
-----------------------------------------------------------------------------
(* What the invariant promises.                                            *)

LEMMA TypeOKHolds == ASSUME IInv PROVE TransactionsTypeOK
<1> SUFFICES ASSUME Object PROVE
       /\ tx.type \in {Legacy, AccessListEIP2930, FeeMarketEIP1559}
       /\ tx.nonce < MAX_UINT64 /\ tx.gas * tx.price <= MAX_INTEGER
       /\ tx.v = Undefined \/ (IF tx.type = Legacy THEN tx.v >= 27 ELSE tx.v \in {0, 1})
  BY DEF TransactionsTypeOK
<1> QED
  BY ObjectFields DEF Accepts, sharedConstructor

\* The sender of an object is the one its signature recovers to.
LEMMA SenderOf ==
    ASSUME IInv, Object
    PROVE  /\ getSenderPublicKey(tx) \in TxKeys => ~tx.rs.high
           /\ getSenderPublicKey(tx) \in TxKeys =>
                \E s \in signed : /\ s.key = getSenderPublicKey(tx) /\ s.content = Content(tx)
                                  /\ s.chain \in {tx.chain, Undefined}
           /\ ~broken => getSenderPublicKey(tx) =
                           IF ~isSigned(tx) \/ tx.rs.high THEN "throws" ELSE ecrecover(tx)
<1>1. CASE tx.sender # "none"
  <2>1. getSenderPublicKey(tx) = tx.sender
    BY <1>1 DEF getSenderPublicKey
  <2> QED
    BY <1>1, <2>1 DEF IInv, Cached
<1>2. CASE tx.sender = "none"
  <2>1. getSenderPublicKey(tx) = IF ~isSigned(tx) \/ tx.rs.high THEN "throws" ELSE ecrecover(tx)
    BY <1>2 DEF getSenderPublicKey, validateHighS
  <2>2. getSenderPublicKey(tx) \in TxKeys => ~tx.rs.high /\ getSenderPublicKey(tx) = ecrecover(tx)
    BY <2>1, KeysApart
  <2> QED
    BY <2>1, <2>2, Attributed
<1> QED
  BY <1>1, <1>2

\* A new object made with the data of tx has its sender, content and validity.
LEMMA CopyOf ==
    ASSUME IInv, Object, ~broken, NEW r \in Txs, Same(r, tx), r.prot = tx.prot, r.sender = "none"
    PROVE  getSenderPublicKey(r) = getSenderPublicKey(tx)
<1>1. isSigned(r) = isSigned(tx) /\ validateHighS(r) = validateHighS(tx) /\ ecrecover(r) = ecrecover(tx)
  BY SameContent, SameMessage
<1>2. getSenderPublicKey(r) = IF ~isSigned(r) \/ ~validateHighS(r) THEN "throws" ELSE ecrecover(r)
  BY DEF getSenderPublicKey
<1>3. getSenderPublicKey(tx) = IF ~isSigned(tx) \/ tx.rs.high THEN "throws" ELSE ecrecover(tx)
  BY SenderOf
<1> QED
  BY <1>1, <1>2, <1>3 DEF validateHighS

LEMMA CopyAgreesHolds == ASSUME IInv PROVE CopyAgrees
<1> SUFFICES ASSUME Object, ~broken
             PROVE  LET copy == createTx([tx EXCEPT !.chain = IF tx.type = Legacy THEN Undefined ELSE @], tx.chain)
                    IN ~IsRefused(copy) /\ Bare(copy) = Bare(tx) /\ copy.prot = tx.prot
                       /\ getSenderPublicKey(copy) = getSenderPublicKey(tx)
  BY DEF CopyAgrees
<1> DEFINE c == IF tx.type = Legacy THEN Undefined ELSE tx.chain
           d == [tx EXCEPT !.chain = c]
           r == Result(d, chain)
<1>1. /\ tx \in Txs /\ tx.chain = chain /\ chain \in Nat /\ Plain(tx) /\ Accepts(tx, chain)
      /\ tx.type \in {Legacy, AccessListEIP2930, FeeMarketEIP1559}
  BY ObjectFields
<1>2. c \in Nat \cup {-1} /\ c \in {tx.chain, chain, Undefined}
  BY <1>1 DEF Undefined
<1> HIDE DEF c
<1>3. d \in Txs
  BY <1>1, <1>2 DEF Txs
<1>4. /\ d.type = tx.type /\ d.nonce = tx.nonce /\ d.price = tx.price /\ d.prio = tx.prio /\ d.gas = tx.gas
      /\ d.to = tx.to /\ d.value = tx.value /\ d.tokenId = tx.tokenId /\ d.tokenValue = tx.tokenValue
      /\ d.data = tx.data /\ d.access = tx.access /\ d.v = tx.v /\ d.rs = tx.rs /\ d.frozen = tx.frozen
      /\ d.chain = c
  BY <1>1, <1>3 DEF Txs
<1> HIDE DEF d
<1>5. Accepts(d, chain) /\ Protects(d, chain) = Protects(tx, chain)
  BY <1>1, <1>2, <1>3, <1>4, SameData
<1>6. createTx(d, chain) = r
  BY <1>1, <1>3, <1>5, CreateTx
<1>7. /\ r \in Txs
      /\ r.type = d.type /\ r.nonce = d.nonce /\ r.price = d.price /\ r.gas = d.gas /\ r.to = d.to
      /\ r.value = d.value /\ r.tokenId = d.tokenId /\ r.tokenValue = d.tokenValue /\ r.data = d.data
      /\ r.v = d.v /\ r.rs = d.rs /\ r.frozen = d.frozen
      /\ r.sender = "none" /\ r.chain = chain /\ r.prot = Protects(d, chain)
      /\ r.prio = (IF d.type = FeeMarketEIP1559 THEN d.prio ELSE 0)
      /\ r.access = (IF d.type = Legacy THEN 0 ELSE d.access)
  BY <1>1, <1>3, ResultFields
<1> HIDE DEF r
<1>8. Same(r, tx)
  <2>1. r.prio = tx.prio /\ r.access = tx.access
    BY <1>1, <1>4, <1>7 DEF Plain
  <2> QED
    BY <1>1, <1>4, <1>7, <2>1 DEF Same
<1>9. r.prot = tx.prot
  BY <1>5, <1>7 DEF IInv, Built
<1>10. getSenderPublicKey(r) = getSenderPublicKey(tx)
  BY <1>7, <1>8, <1>9, CopyOf
<1>11. Bare(r) = Bare(tx)
  <2> DEFINE a == Bare(r)
             b == Bare(tx)
  <2>1. a \in Txs /\ b \in Txs
    BY <1>1, <1>7 DEF Bare, Txs, Senders
  <2>2. a.type = b.type /\ a.chain = b.chain /\ a.nonce = b.nonce /\ a.price = b.price /\ a.prio = b.prio
        /\ a.gas = b.gas /\ a.to = b.to /\ a.value = b.value /\ a.tokenId = b.tokenId
        /\ a.tokenValue = b.tokenValue /\ a.data = b.data /\ a.access = b.access /\ a.v = b.v /\ a.rs = b.rs
        /\ a.prot = b.prot /\ a.frozen = b.frozen /\ a.sender = b.sender
    BY <1>1, <1>7, <1>8 DEF Bare, Txs, Same
  <2> HIDE DEF a, b
  <2>3. a = b
    BY <2>1, <2>2, Alike, Zenon
  <2> QED
    BY <2>3 DEF a, b
<1>12. createTx([tx EXCEPT !.chain = IF tx.type = Legacy THEN Undefined ELSE @], tx.chain) = r
  BY <1>1, <1>6 DEF d, c
<1>13. ~IsRefused(r)
  BY <1>7, Unrefused
<1> QED
  BY <1>9, <1>10, <1>11, <1>12, <1>13

LEMMA WireExactHolds == ASSUME IInv PROVE WireExact
<1> SUFFICES ASSUME Object, ~broken
             PROVE  LET back == createTxFromRLP(serializeTx(tx), tx.chain)
                    IN IF tx.rs.key = "zero" THEN IsRefused(back) \/ ~isSigned(back)
                       ELSE /\ ~IsRefused(back)
                            /\ Content(back) = Content(tx) /\ back.rs = tx.rs /\ isSigned(back) = isSigned(tx)
                            /\ getSenderPublicKey(back) = getSenderPublicKey(tx) /\ isValid(back) = isValid(tx)
  BY DEF WireExact
<1> DEFINE x == Wire(tx)
           d == ReadData(x)
           r == Result(d, chain)
<1>1. /\ tx \in Txs /\ tx.chain = chain /\ chain \in Nat /\ Plain(tx) /\ Accepts(tx, chain)
      /\ tx.type \in {Legacy, AccessListEIP2930, FeeMarketEIP1559}
      /\ tx.v # Undefined => IF tx.type = Legacy THEN tx.v >= 27 ELSE tx.v \in {0, 1}
  BY ObjectFields
<1>2. x \in Wires /\ serializeTx(tx) = x
  BY <1>1, WireTyped, SerializeTx
<1>3. /\ x.type = tx.type /\ x.chain = Num(IF tx.type = Legacy THEN 0 ELSE tx.chain) /\ x.nonce = tx.nonce
      /\ x.price = tx.price /\ x.prio = (IF tx.type = FeeMarketEIP1559 THEN tx.prio ELSE 0) /\ x.gas = tx.gas
      /\ x.to = tx.to /\ x.value = tx.value
      /\ x.tokenId = Num(IF tx.type = Legacy THEN tx.tokenId ELSE 0)
      /\ x.tokenValue = Num(IF tx.type = Legacy THEN tx.tokenValue ELSE 0)
      /\ x.data = tx.data /\ x.access = (IF tx.type = Legacy THEN 0 ELSE tx.access)
      /\ x.v = Num(IF tx.v = Undefined THEN 0 ELSE tx.v)
      /\ x.rs = (IF tx.rs.key = "zero" THEN NoSig ELSE tx.rs)
  BY DEF Wire
<1>4. /\ x.v.pad = 0 /\ x.v.n = (IF tx.v = Undefined THEN 0 ELSE tx.v)
      /\ x.chain.n = (IF tx.type = Legacy THEN 0 ELSE tx.chain)
      /\ x.tokenId.n = (IF tx.type = Legacy THEN tx.tokenId ELSE 0)
      /\ x.tokenValue.n = (IF tx.type = Legacy THEN tx.tokenValue ELSE 0)
  BY <1>3 DEF Num
<1> HIDE DEF x
<1>5. createTxFromRLP(x, tx.chain) = createTx(d, chain)
  BY <1>1, <1>2, <1>4, FromRLP
<1>6. /\ d \in Txs
      /\ d.type = x.type /\ d.nonce = x.nonce /\ d.price = x.price /\ d.prio = x.prio /\ d.gas = x.gas
      /\ d.to = x.to /\ d.value = x.value /\ d.tokenId = x.tokenId.n /\ d.tokenValue = x.tokenValue.n
      /\ d.data = x.data /\ d.access = x.access /\ d.rs = x.rs
      /\ d.chain = (IF x.type = Legacy THEN Undefined ELSE x.chain.n)
      /\ d.v = (IF x.type = Legacy /\ x.v.n = 0 THEN Undefined ELSE x.v.n)
  BY <1>2, ReadFields
<1> HIDE DEF d
<1>7. createTx(d, chain) = IF Accepts(d, chain) THEN r ELSE Refused
  BY <1>1, <1>6, CreateTx
<1>8. /\ r \in Txs
      /\ r.type = d.type /\ r.nonce = d.nonce /\ r.price = d.price /\ r.gas = d.gas /\ r.to = d.to
      /\ r.value = d.value /\ r.tokenId = d.tokenId /\ r.tokenValue = d.tokenValue /\ r.data = d.data
      /\ r.v = d.v /\ r.rs = d.rs
      /\ r.sender = "none" /\ r.chain = chain /\ r.prot = Protects(d, chain)
      /\ r.prio = (IF d.type = FeeMarketEIP1559 THEN d.prio ELSE 0)
      /\ r.access = (IF d.type = Legacy THEN 0 ELSE d.access)
  BY <1>1, <1>6, ResultFields
<1> HIDE DEF r
<1>9. CASE tx.rs.key = "zero"
  <2>1. d.rs = NoSig
    BY <1>3, <1>6, <1>9
  <2>2. ~isSigned(r)
    BY <1>8, <2>1 DEF isSigned, NoSig
  <2>3. IsRefused(createTx(d, chain)) \/ ~isSigned(createTx(d, chain))
    BY <1>7, <2>2, Unrefused, <1>1
  <2> QED
    BY <1>2, <1>5, <1>9, <2>3
<1>10. CASE tx.rs.key # "zero"
  <2>1. /\ d.type = tx.type /\ d.nonce = tx.nonce /\ d.price = tx.price /\ d.gas = tx.gas
        /\ d.to = tx.to /\ d.value = tx.value /\ d.data = tx.data /\ d.rs = tx.rs
        /\ d.chain \in {Undefined, chain}
    BY <1>1, <1>3, <1>4, <1>6, <1>10
  <2>2. d.prio = tx.prio /\ d.access = tx.access /\ d.tokenId = tx.tokenId /\ d.tokenValue = tx.tokenValue
    <3>1. tx.prio = (IF tx.type = FeeMarketEIP1559 THEN tx.prio ELSE 0)
      BY <1>1 DEF Plain
    <3>2. tx.access = (IF tx.type = Legacy THEN 0 ELSE tx.access)
      BY <1>1 DEF Plain
    <3>3. tx.tokenId = (IF tx.type = Legacy THEN tx.tokenId ELSE 0)
          /\ tx.tokenValue = (IF tx.type = Legacy THEN tx.tokenValue ELSE 0)
      BY <1>1 DEF Plain
    <3> QED
      BY <1>3, <1>4, <1>6, <3>1, <3>2, <3>3
  \* A typed transaction without v reads as one with a v of zero, which is not
  \* signed either.
  <2>3. \/ d.v = tx.v
        \/ tx.type # Legacy /\ tx.v = Undefined /\ d.v = 0 /\ tx.rs.key = "none"
    <3>1. CASE tx.v = Undefined
      <4>1. tx.rs.key \notin TxKeys
        BY <3>1 DEF IInv, Meaning
      <4>2. tx.rs.key = "none"
        BY <1>1, <1>10, <4>1 DEF Txs, Sigs, Keys
      <4> QED
        BY <1>3, <1>4, <1>6, <3>1, <4>2
    <3>2. CASE tx.v # Undefined
      BY <1>1, <1>3, <1>4, <1>6, <3>2
    <3> QED
      BY <3>1, <3>2
  <2>4. isSigned(d) = isSigned(tx)
    BY <2>1, <2>3 DEF isSigned, Undefined
  <2>5. Accepts(d, chain)
    <3>1. sharedConstructor(d) /\ d.price <= MAX_INTEGER /\ d.gas * d.price <= MAX_INTEGER
      BY <1>1, <2>1, <2>2 DEF Accepts, sharedConstructor
    <3>2. CASE tx.type = Legacy
      <4>1. validateVAndExtractChainID(tx, chain) /\ d.v = tx.v
        BY <1>1, <2>3, <3>2 DEF Accepts, Legacy, AccessListEIP2930, FeeMarketEIP1559
      <4>2. validateVAndExtractChainID(d, chain)
        BY <4>1 DEF validateVAndExtractChainID
      <4> QED
        BY <2>1, <3>1, <3>2, <4>2 DEF Accepts
    <3>3. CASE tx.type # Legacy
      <4>1. validateYParity(tx) /\ validateHighS(tx)
            /\ (tx.type = FeeMarketEIP1559 => tx.prio <= MAX_INTEGER /\ tx.prio <= tx.price)
        BY <1>1, <3>3 DEF Accepts
      <4>2. validateYParity(d) /\ validateHighS(d)
        BY <2>1, <2>3, <4>1 DEF validateYParity, validateHighS
      <4> QED
        BY <1>1, <2>1, <2>2, <3>1, <3>3, <4>1, <4>2 DEF Accepts
    <3> QED
      BY <3>2, <3>3
  <2>6. Protects(d, chain) = tx.prot
    <3>1. tx.prot = Protects(tx, chain)
      BY DEF IInv, Built
    <3>2. CASE tx.type = Legacy
      <4>1. d.v = tx.v
        BY <2>3, <3>2
      <4> QED
        BY <2>1, <2>4, <3>1, <4>1 DEF Protects
    <3>3. CASE tx.type # Legacy
      BY <2>1, <3>1, <3>3 DEF Protects
    <3> QED
      BY <3>2, <3>3
  <2>7. createTxFromRLP(serializeTx(tx), tx.chain) = r
    BY <1>2, <1>5, <1>7, <2>5
  <2>8. r.prio = tx.prio /\ r.access = tx.access
    BY <1>1, <1>8, <2>1, <2>2 DEF Plain
  <2>9. ~IsRefused(r) /\ r.rs = tx.rs
    BY <1>8, <2>1, Unrefused
  <2>10. Content(r) = Content(tx)
    BY <1>8, <2>1, <2>2, <2>8 DEF Content
  <2>11. isSigned(r) = isSigned(tx)
    BY <1>8, <2>4 DEF isSigned
  <2>12. getSenderPublicKey(r) = getSenderPublicKey(tx)
    <3>1. CASE d.v = tx.v
      <4>1. Same(r, tx)
        BY <1>1, <1>8, <2>1, <2>2, <2>8, <3>1 DEF Same
      <4> QED
        BY <1>8, <2>6, <4>1, CopyOf
    <3>2. CASE ~isSigned(tx)
      <4>1. getSenderPublicKey(r) = "throws"
        BY <1>8, <2>11, <3>2 DEF getSenderPublicKey
      <4>2. getSenderPublicKey(tx) = "throws"
        BY <3>2, SenderOf
      <4> QED
        BY <4>1, <4>2
    <3> QED
      BY <2>3, <3>1, <3>2 DEF isSigned
  <2>13. isValid(r) = isValid(tx)
    <3>1. getIntrinsicGas(r) = getIntrinsicGas(tx)
      BY <1>8, <2>1, <2>8 DEF getIntrinsicGas, getDataGas, accessListGas, toCreationAddress
    <3>2. r.gas = tx.gas
      BY <1>8, <2>1
    <3> QED
      BY <2>11, <2>12, <3>1, <3>2 DEF isValid
  <2> QED
    BY <1>10, <2>7, <2>9, <2>10, <2>11, <2>12, <2>13
<1> QED
  BY <1>9, <1>10

LEMMA FeesAgreeHolds == ASSUME IInv PROVE FeesAgree
<1> SUFFICES ASSUME Object, NEW b \in BaseFees,
                    getEffectivePriorityFee(tx, b) # Undefined
             PROVE  LET tip == getEffectivePriorityFee(tx, b)
                    IN /\ tip >= 0 /\ tip + b <= tx.price
                       /\ getUpfrontCost(tx, b) = tx.gas * (tip + b) + tx.value
  BY DEF FeesAgree
<1> DEFINE tip == getEffectivePriorityFee(tx, b)
<1>1. /\ tx \in Txs /\ tx.type \in {Legacy, AccessListEIP2930, FeeMarketEIP1559}
  BY ObjectFields
<1>2. tx.price \in Nat /\ tx.prio \in Nat /\ tx.gas \in Nat /\ tx.value \in Nat /\ b \in Nat
  BY <1>1, ConstantsTyped DEF Txs
<1>3. CASE tx.type = FeeMarketEIP1559
  <2>1. b <= tx.price /\ tip = Lesser(tx.prio, tx.price - b)
    BY <1>2, <1>3 DEF getEffectivePriorityFee, priorityFee1559
  <2>2. tip \in Nat /\ tip + b <= tx.price
    BY <1>2, <2>1 DEF Lesser
  <2>3. getUpfrontCost(tx, b) = tx.gas * (tip + b) + tx.value
    BY <1>3, <2>1 DEF getUpfrontCost, upfrontCost1559
  <2> QED
    BY <2>2, <2>3
<1>4. CASE tx.type # FeeMarketEIP1559
  <2>1. b <= tx.price /\ tip = tx.price - b
    BY <1>2, <1>4 DEF getEffectivePriorityFee, priorityFeeLegacy
  <2>2. tip + b = tx.price /\ tip \in Nat
    BY <1>2, <2>1
  <2>3. getUpfrontCost(tx, b) = tx.gas * tx.price + tx.value
    BY <1>4 DEF getUpfrontCost, upfrontCostLegacy
  <2> QED
    BY <1>2, <2>2, <2>3
<1> QED
  BY <1>3, <1>4

LEMMA Promised == IInv => TransactionsExact
<1> SUFFICES ASSUME IInv PROVE TransactionsExact
  OBVIOUS
<1>1. Authorised
  BY SenderOf DEF Authorised
<1>2. Unmalleable
  BY SenderOf DEF Unmalleable
<1>3. WireCanonical
  BY DEF IInv
<1> QED
  BY <1>1, <1>2, <1>3, TypeOKHolds, CopyAgreesHolds, WireExactHolds, FeesAgreeHolds DEF TransactionsExact

\* A transaction is attributed only to a key that signed every field of it,
\* under one hash; copying, signing, sending and reading keep what it is.
THEOREM TransactionsSafe == TransactionsSpec => []TransactionsExact
<1>1. TransactionsSpec => []IInv
  BY InitHolds, StepHolds, PTL DEF TransactionsSpec
<1>2. []IInv => []TransactionsExact
  BY Promised, PTL
<1> QED
  BY <1>1, <1>2

-----------------------------------------------------------------------------
(***************************************************************************)
(* What transactions do to the native ledgers, for any holders, contracts, *)
(* issues, permissions, fees, limits and chain parameters: sun and tokens  *)
(* are conserved, execution stays within its budget, names and ids stay    *)
(* unique, nobody is locked out and every account is paid for.             *)
(*                                                                         *)
(* The invariant (WalletInv) takes the world apart by ledger, so that an   *)
(* action is charged with the parts it writes: it is one lemma per stage   *)
(* of a transaction (signature, bandwidth, creation, fees, effect), and an *)
(* action's lemma composes its stages.  Quotas are in it because an asset's *)
(* pool is held against its issuer's stake of the same day (PoolsOk), and  *)
(* the index of names because it is what a new name is checked against     *)
(* (NamesOk).                                                              *)
(***************************************************************************)

Callers == Holders \cup Fresh

Usage == [used : Nat, at : Nat]
NowAt(ledger, day) == IF ledger.at = day THEN ledger.used ELSE 0

Meta == [origin : Accounts, percent : 0..100, limit : Nat]

IssueNames == {i.name : i \in Issues}
Asset == [owner : Callers, name : IssueNames, supply : 0..IntMax, num : Nat, trxNum : Nat \ {0},
          start : Nat, end : Nat, freeLimit : Nat, publicLimit : Nat, pool : Usage]
Tranche == [amount : Nat, expire : Nat]

IsWorld(w) ==
    DOMAIN w = {"exists", "balance", "burned", "net", "stakedNet", "energy", "assets", "holding",
                "assetNet", "frozen", "permissions", "name", "names", "ids", "contracts"}

\* Sun, of accounts that exist, within what the encoding holds.
SunOk(balance, burned, exists) ==
    /\ exists \in SUBSET Accounts
    /\ balance \in [Accounts -> Nat] /\ burned \in Nat
    /\ \A a \in Accounts : /\ a \notin Contracts => balance[a] <= IntMax
                           /\ a \notin exists => balance[a] = 0
    /\ Total(balance) + burned = Cardinality(Holders) * Funds

\* Quotas, none charged on a later day than the head's.
QuotasOk(net, stakedNet, energy, assetNet, day) ==
    /\ day \in Nat /\ net \in [Accounts -> Usage] /\ stakedNet \in [Accounts -> Usage]
    /\ energy \in [Accounts -> Usage] /\ assetNet \in [Accounts -> [TokenIds -> Usage]]
    /\ \A a \in Accounts :
          /\ net[a].at <= day /\ stakedNet[a].at <= day /\ energy[a].at <= day
          /\ NowAt(net[a], day) <= FreeNet
          /\ NowAt(stakedNet[a], day) <= NetLimit(a)
          /\ NowAt(energy[a], day) <= StakedEnergy

\* What is held of an asset and what its issuer's tranches lock.
Column(holding, id) == [a \in Accounts |-> holding[a][id]]
Backing(holding, frozen, id, owner) == Total(Column(holding, id)) + Sum(frozen[owner])

TokensOk(assets, holding, frozen) ==
    /\ assets \in Seq(Asset) /\ holding \in [Accounts -> [TokenIds -> Nat]]
    /\ frozen \in [Accounts -> Seq(Tranche)]
    /\ DOMAIN assets \subseteq TokenIds
    /\ \A i, j \in DOMAIN assets : assets[i].owner = assets[j].owner => i = j
    /\ \A id \in TokenIds \ DOMAIN assets : \A a \in Accounts : holding[a][id] = 0
    /\ \A id \in DOMAIN assets : Backing(holding, frozen, id, assets[id].owner) = assets[id].supply

\* Issuers exist, and their assets' names differ while names are keys.
TitlesOk(assets, exists, p) ==
    /\ \A i \in DOMAIN assets : assets[i].owner \in exists
    /\ p.sameTokenName \/ \A i, j \in DOMAIN assets : assets[i].name = assets[j].name => i = j

PoolsOk(assets, stakedNet, day) ==
    \A id \in DOMAIN assets :
       /\ assets[id].pool.at <= day
       /\ NowAt(assets[id].pool, day) <= NowAt(stakedNet[assets[id].owner], day)

\* Ids name different accounts, whatever their case.
IdsOk(ids) == \A i, j \in DOMAIN ids : i # j => ids[i] # ids[j] /\ IdKey(i) # IdKey(j)

\* While renaming is off, a name in use is in the index, and the index names one
\* account.
NamesOk(name, names, ids, p) ==
    /\ name \in [Accounts -> Names \cup {""}]
    /\ \A a \in Accounts : ~p.updateAccountName /\ name[a] # "" =>
          name[a] \in DOMAIN names /\ \A b \in Accounts : name[b] = name[a] => a = b
    /\ IdsOk(ids)

PermissionsOk(permissions) ==
    /\ DOMAIN permissions = Accounts
    /\ \A a \in Accounts :
          permissions[a] = << >> \/ (/\ permissions[a] \in PermissionSets
                                      /\ \A id \in DOMAIN permissions[a] : PermissionOk(permissions[a][id]))

ContractsOk(contracts) ==
    contracts \in [DOMAIN contracts -> Meta] /\ DOMAIN contracts \subseteq Contracts

Good(w, day, p) ==
    /\ IsWorld(w)
    /\ SunOk(w.balance, w.burned, w.exists)
    /\ QuotasOk(w.net, w.stakedNet, w.energy, w.assetNet, day)
    /\ TokensOk(w.assets, w.holding, w.frozen)
    /\ TitlesOk(w.assets, w.exists, p)
    /\ PoolsOk(w.assets, w.stakedNet, day)
    /\ NamesOk(w.name, w.names, w.ids, p)
    /\ PermissionsOk(w.permissions)
    /\ ContractsOk(w.contracts)

WalletInv ==
    /\ params \in Params /\ head \in 0..MaxDay /\ txs \in 0..MaxTxs
    /\ Good(world, head, params)

(***************************************************************************)
(* The energy budget and its settlement.                                   *)
(***************************************************************************)

\* The origin's part is rounded down twice, of the budget and of what was used:
\* the caller's part stays within the caller's limit.
LEMMA Rounding ==
    ASSUME NEW percent \in 1..99, NEW limit \in Nat, NEW used \in Nat,
           used <= limit + ((limit * (100 - percent)) \div percent)
    PROVE  used - ((used * (100 - percent)) \div 100) <= limit
<1> DEFINE d == (limit * (100 - percent)) \div percent
           q == (used * (100 - percent)) \div 100
           r == 100 - percent
<1>0. r \in Nat /\ percent \in Nat \ {0} /\ r + percent = 100
  OBVIOUS
<1>1. limit * r \in Nat /\ used * r \in Nat
  BY <1>0, Product
<1>2. d \in Nat /\ percent * d <= limit * r
  BY <1>0, <1>1, Divides
<1>3. q \in Nat /\ used * r < 100 * q + 100
  BY <1>1, Divides
<1>4. percent * used <= percent * limit + percent * d
  <2>1. used <= limit + d
    OBVIOUS
  <2> HIDE DEF d
  <2>2. percent * used <= percent * (limit + d)
    BY <1>0, <1>2, <2>1
  <2>3. percent * (limit + d) = percent * limit + percent * d
    BY <1>0, <1>2
  <2> QED
    BY <2>2, <2>3
<1>5. percent * limit + limit * r = 100 * limit
  BY <1>0
<1>6. percent * used + used * r = 100 * used
  BY <1>0
<1>7. percent * used \in Nat /\ percent * limit \in Nat /\ percent * d \in Nat
  BY <1>0, <1>2, Product
<1> HIDE DEF d, q, r
<1>8. 100 * used <= 100 * limit + 100 * q + 99
  BY <1>1, <1>2, <1>3, <1>4, <1>5, <1>6, <1>7
<1>9. used - q <= limit
  BY <1>3, <1>8
<1> QED
  BY <1>9 DEF q, r

\* What is left of a stake, and what a caller and an origin may use of it.
LEMMA LimitsAre ==
    ASSUME NEW w, NEW a, NowAt(w.energy[a], head) \in Nat
    PROVE  /\ EnergyLeft(w, a) \in Nat
           /\ NowAt(w.energy[a], head) <= StakedEnergy =>
                NowAt(w.energy[a], head) + EnergyLeft(w, a) <= StakedEnergy
<1> DEFINE s == IF a \in Staked THEN StakedEnergy ELSE 0
           n == NowAt(w.energy[a], head)
<1>1. s \in Nat /\ n \in Nat /\ s <= StakedEnergy /\ StakedEnergy \in Nat
  BY WalletAssumption
<1>2. EnergyLeft(w, a) = Max({0, s - n})
  BY DEF EnergyLeft, NowAt, Now
<1> HIDE DEF s, n
<1>3. Max({0, s - n}) = IF 0 >= s - n THEN 0 ELSE s - n
  <2>1. 0 \in Int /\ s - n \in Int
    BY <1>1
  <2> QED
    BY <2>1, OfTwo
<1> QED
  BY <1>1, <1>2, <1>3 DEF n

\* The budget of an execution and what each side pays of what it used.
LEMMA Budget ==
    ASSUME NEW w, NEW a, NEW meta \in Meta, NEW value \in Nat, NEW used \in Nat,
           NowAt(w.energy[a], head) \in Nat, NowAt(w.energy[meta.origin], head) \in Nat,
           w.balance[a] \in Nat,
           used <= CallerLimit(w, a, value) + CreatorLimit(w, a, meta, CallerLimit(w, a, value))
    PROVE  LET byOrigin == OriginUsage(w, a, meta, used)
               mine == used - byOrigin
           IN /\ CallerLimit(w, a, value) \in Nat
              /\ byOrigin \in Nat /\ mine \in Nat /\ mine <= CallerLimit(w, a, value)
              /\ meta.origin = a => byOrigin = 0
              /\ byOrigin <= EnergyLeft(w, meta.origin)
              /\ Min({mine, EnergyLeft(w, a)}) \in Nat
              /\ Min({mine, EnergyLeft(w, a)}) <= EnergyLeft(w, a)
              /\ (mine - Min({mine, EnergyLeft(w, a)})) * Fees["energy"] \in Nat
              /\ (mine - Min({mine, EnergyLeft(w, a)})) * Fees["energy"] <= Max({0, w.balance[a] - value})
<1> DEFINE limit == CallerLimit(w, a, value)
           byOrigin == OriginUsage(w, a, meta, used)
           mine == used - byOrigin
           left == EnergyLeft(w, a)
           rest == Max({0, w.balance[a] - value})
           fee == Fees["energy"]
           bound == OriginBound(w, meta)
           p == meta.percent
<1>1. /\ fee \in Nat \ {0} /\ FeeLimit \in Nat
      /\ meta.percent \in 0..100 /\ meta.limit \in Nat
  BY WalletAssumption DEF Meta
<1>2. left \in Nat /\ EnergyLeft(w, meta.origin) \in Nat
  BY LimitsAre
<1>3. rest \in Nat
  <2>1. 0 \in Int /\ w.balance[a] - value \in Int
    OBVIOUS
  <2>2. rest = IF 0 >= w.balance[a] - value THEN 0 ELSE w.balance[a] - value
    BY <2>1, OfTwo
  <2> QED
    BY <2>1, <2>2
<1>4. rest \div fee \in Nat /\ fee * (rest \div fee) <= rest
  <2> HIDE DEF rest, fee
  <2> QED
    BY <1>1, <1>3, Divides
<1>5. limit \in Nat /\ limit <= left + (rest \div fee)
  <2>1. limit = Min({FeeLimit, left + (rest \div fee)})
    BY DEF CallerLimit
  <2> HIDE DEF limit, left, rest, fee
  <2> QED
    BY <1>1, <1>2, <1>4, <2>1, OfTwo
<1>6. bound \in Nat /\ bound <= EnergyLeft(w, meta.origin)
  <2>1. bound = Min({EnergyLeft(w, meta.origin), meta.limit})
    BY DEF OriginBound
  <2> HIDE DEF bound
  <2> QED
    BY <1>1, <1>2, <2>1, OfTwo
<1>7. byOrigin \in Nat /\ byOrigin <= used /\ byOrigin <= EnergyLeft(w, meta.origin)
      /\ (meta.origin = a => byOrigin = 0) /\ mine <= limit
  <2> DEFINE share == (used * (100 - p)) \div 100
             give == (limit * (100 - p)) \div p
  <2>1. share \in Nat /\ share <= used
    <3>1. used * (100 - p) \in Nat /\ used * (100 - p) <= 100 * used
      <4>1. 100 - p \in Nat /\ p \in Nat
        BY <1>1
      <4>2. used * p \in Nat /\ used * (100 - p) \in Nat
        BY <4>1, Product
      <4>3. used * (100 - p) + used * p = 100 * used
        BY <4>1
      <4> HIDE DEF p
      <4> QED
        BY <4>2, <4>3
    <3> DEFINE x == used * (100 - p)
    <3>2. x \in Nat /\ x <= 100 * used
      BY <3>1
    <3> HIDE DEF x
    <3>3. x \div 100 \in Nat /\ 100 * (x \div 100) <= x
      BY <3>2, Divides
    <3>4. x \div 100 <= used
      BY <3>2, <3>3
    <3> QED
      BY <3>3, <3>4 DEF x
  <2>2. CASE meta.origin = a
    <3>1. byOrigin = 0 /\ CreatorLimit(w, a, meta, limit) = 0
      BY <2>2 DEF OriginUsage, CreatorLimit
    <3> HIDE DEF limit, byOrigin
    <3> QED
      BY <3>1, <1>2, <1>5 DEF limit
  <2>3. CASE meta.origin # a
    <3>1. byOrigin = Min({bound, share})
      BY <2>3 DEF OriginUsage
    <3>2. byOrigin = IF bound <= share THEN bound ELSE share
      <4> HIDE DEF byOrigin, bound, share
      <4> QED
        BY <1>6, <2>1, <3>1, OfTwo
    <3>3. byOrigin \in Nat /\ byOrigin <= used /\ byOrigin <= bound
      <4> HIDE DEF byOrigin, bound, share
      <4> QED
        BY <1>6, <2>1, <3>2
    <3>4. mine <= limit
      <4>1. CASE p = 100
        <5>1. CreatorLimit(w, a, meta, limit) = 0
          BY <4>1, <2>3 DEF CreatorLimit
        <5> HIDE DEF limit, byOrigin, p
        <5> QED
          BY <5>1, <3>3, <1>5 DEF limit
      <4>2. CASE p = 0
        <5>1. CreatorLimit(w, a, meta, limit) = bound
          BY <4>2, <2>3 DEF CreatorLimit
        <5>2. share = used
          BY <4>2
        <5> HIDE DEF limit, byOrigin, p, bound, share
        <5> QED
          BY <5>1, <5>2, <3>2, <1>5, <1>6 DEF limit
      <4>3. CASE p \in 1..99
        <5>1. CreatorLimit(w, a, meta, limit) = Min({bound, give})
          BY <4>3, <2>3 DEF CreatorLimit
        <5>2. give \in Nat
          <6>1. 100 - p \in Nat /\ p \in Nat \ {0} /\ limit * (100 - p) \in Nat
            BY <4>3, <1>5, Product
          <6> HIDE DEF limit, p
          <6> QED
            BY <6>1, Divides
        <5>3. used <= limit + bound /\ used <= limit + give
          <6>1. Min({bound, give}) = IF bound <= give THEN bound ELSE give
            <7> HIDE DEF bound, give
            <7> QED
              BY <1>6, <5>2, OfTwo
          <6>2. used <= limit + Min({bound, give})
            BY <5>1
          <6> HIDE DEF limit, bound, give
          <6> QED
            BY <1>5, <1>6, <5>2, <6>1, <6>2
        <5>4. used - share <= limit
          <6> HIDE DEF limit, p
          <6> QED
            BY <4>3, <5>3, <1>5, Rounding
        <5> HIDE DEF limit, byOrigin, bound, share, give
        <5> QED
          BY <5>3, <5>4, <3>2, <1>5, <1>6, <2>1
      <4> QED
        BY <4>1, <4>2, <4>3, <1>1
    <3> HIDE DEF byOrigin, bound, mine
    <3> QED
      BY <2>3, <3>3, <3>4, <1>6, <1>2
  <2> QED
    BY <2>2, <2>3
<1>8. mine \in Nat
  <2> HIDE DEF byOrigin
  <2> QED
    BY <1>7
<1>9. Min({mine, left}) = IF mine <= left THEN mine ELSE left
  <2> HIDE DEF mine, left
  <2> QED
    BY <1>2, <1>8, OfTwo
<1>10. /\ (mine - Min({mine, left})) \in Nat
       /\ mine - Min({mine, left}) <= rest \div fee
       /\ Min({mine, left}) \in Nat /\ Min({mine, left}) <= left
  <2> HIDE DEF mine, left, rest, fee, limit
  <2> QED
    BY <1>2, <1>4, <1>5, <1>7, <1>8, <1>9
<1>11. (mine - Min({mine, left})) * fee \in Nat /\ (mine - Min({mine, left})) * fee <= rest
  <2> DEFINE m == mine - Min({mine, left})
             q == rest \div fee
  <2>1. m \in Nat /\ q \in Nat /\ m <= q /\ fee \in Nat /\ fee * q <= rest
    BY <1>1, <1>4, <1>10
  <2> HIDE DEF m, q, rest, fee
  <2>2. m * fee <= fee * q /\ m * fee \in Nat /\ fee * q \in Nat
    BY <2>1
  <2>3. m * fee \in Nat /\ m * fee <= rest
    BY <1>3, <2>1, <2>2
  <2> QED
    BY <2>3 DEF m
<1> HIDE DEF limit, byOrigin, left, rest, fee, bound, p
<1> QED
  BY <1>5, <1>7, <1>8, <1>10, <1>11 DEF limit, byOrigin, left, rest, fee

(***************************************************************************)
(* Sun moves and burns.                                                    *)
(***************************************************************************)

LEMMA Finite ==
    /\ IsFiniteSet(Accounts) /\ IsFiniteSet(Callers)
    /\ Callers \subseteq Accounts /\ Holders \subseteq Accounts /\ Contracts \subseteq Accounts
    /\ Callers \cap Contracts = {}
BY WalletAssumption, FS_Union DEF Accounts, Callers

LEMMA FeesNat ==
    \A f \in {"bandwidth", "create", "newAccount", "multiSign", "memo", "issue", "permission", "energy"} :
        Fees[f] \in Nat
BY WalletAssumption

\* The total follows one account's balance.
LEMMA BalanceMoves ==
    ASSUME NEW b \in [Accounts -> Nat], NEW a \in Accounts, NEW y \in Nat
    PROVE  /\ Total([b EXCEPT ![a] = y]) = Total(b) - b[a] + y
           /\ Total(b) \in Int
<1> DEFINE h == [b EXCEPT ![a] = y]
<1>1. /\ DOMAIN b = Accounts /\ DOMAIN h = Accounts /\ h[a] = y
      /\ \A x \in Accounts : b[x] \in Int /\ h[x] \in Int
      /\ \A x \in Accounts \ {a} : h[x] = b[x]
  OBVIOUS
<1> HIDE DEF h
<1>2. LedgerOf(b) /\ LedgerOf(h)
  BY <1>1, Finite DEF LedgerOf
<1>3. Total(h) = Total(b) - b[a] + h[a]
  BY <1>1, <1>2, TotalMoves
<1>4. Total(b) \in Int
  BY <1>2, TotalInt
<1> QED
  BY <1>1, <1>3, <1>4 DEF h

LEMMA SunBurns ==
    ASSUME NEW b, NEW n, NEW ex, SunOk(b, n, ex), NEW a \in ex, NEW sun \in Nat, sun <= b[a]
    PROVE  SunOk([b EXCEPT ![a] = @ - sun], n + sun, ex)
<1>1. a \in Accounts /\ b \in [Accounts -> Nat] /\ n \in Nat /\ b[a] - sun \in Nat
  BY DEF SunOk
<1>2. Total([b EXCEPT ![a] = b[a] - sun]) = Total(b) - b[a] + (b[a] - sun) /\ Total(b) \in Int
  BY <1>1, BalanceMoves
<1> DEFINE h == [b EXCEPT ![a] = @ - sun]
<1>3. h \in [Accounts -> Nat] /\ \A x \in Accounts : h[x] <= b[x] /\ (x # a => h[x] = b[x])
  BY <1>1
<1>4. Total(h) + (n + sun) = Total(b) + n
  BY <1>1, <1>2
<1> HIDE DEF h
<1>5. \A x \in Accounts : /\ x \notin Contracts => h[x] <= IntMax
                          /\ x \notin ex => h[x] = 0
  <2>1. IntMax \in Nat
    BY WalletAssumption
  <2>2. \A x \in Accounts : (x \notin Contracts => b[x] <= IntMax) /\ (x \notin ex => b[x] = 0)
    BY DEF SunOk
  <2>3. \A x \in Accounts : h[x] \in Nat /\ b[x] \in Nat
    BY <1>1, <1>3
  <2> QED
    BY <1>3, <2>1, <2>2, <2>3
<1>6. Total(h) + (n + sun) = Cardinality(Holders) * Funds
  BY <1>4 DEF SunOk
<1>7. n + sun \in Nat /\ ex \in SUBSET Accounts
  BY <1>1 DEF SunOk
<1>8. SunOk(h, n + sun, ex)
  BY <1>3, <1>5, <1>6, <1>7 DEF SunOk
<1> QED
  BY <1>8 DEF h

LEMMA SunMoves ==
    ASSUME NEW b, NEW n, NEW ex, SunOk(b, n, ex), NEW a \in Accounts, NEW c \in Accounts, a # c,
           NEW x \in Nat, x <= b[a], c \notin Contracts => b[c] + x <= IntMax
    PROVE  SunOk([[b EXCEPT ![a] = @ - x] EXCEPT ![c] = @ + x], n, ex \cup {c})
<1> DEFINE g == [b EXCEPT ![a] = b[a] - x]
           h == [g EXCEPT ![c] = g[c] + x]
<1>1. b \in [Accounts -> Nat] /\ n \in Nat /\ b[a] - x \in Nat /\ ex \in SUBSET Accounts
  BY DEF SunOk
<1>2. Total(g) = Total(b) - b[a] + (b[a] - x) /\ Total(b) \in Int
  BY <1>1, BalanceMoves
<1>3. g \in [Accounts -> Nat] /\ g[c] = b[c] /\ g[c] + x \in Nat
  BY <1>1
<1>4. Total(h) = Total(g) - g[c] + (g[c] + x) /\ Total(g) \in Int
  <2> HIDE DEF g
  <2> QED
    BY <1>3, BalanceMoves
<1>5. /\ h \in [Accounts -> Nat] /\ h[a] = b[a] - x /\ h[c] = b[c] + x
      /\ \A z \in Accounts : z # a /\ z # c => h[z] = b[z]
  BY <1>1, <1>3
<1>6. h = [[b EXCEPT ![a] = @ - x] EXCEPT ![c] = @ + x]
  OBVIOUS
<1> HIDE DEF g, h
<1>7. Total(h) = Total(b)
  <2>1. b[a] \in Nat
    BY <1>1
  <2> QED
    BY <1>2, <1>3, <1>4, <2>1
<1>8. ASSUME NEW z \in Accounts
      PROVE  (z \notin Contracts => h[z] <= IntMax) /\ (z \notin ex \cup {c} => h[z] = 0)
  <2>1. (z \notin Contracts => b[z] <= IntMax) /\ (z \notin ex => b[z] = 0) /\ b[z] \in Nat /\ IntMax \in Nat
    BY <1>1, WalletAssumption DEF SunOk
  <2>2. CASE z = c
    BY <2>2, <1>5
  <2>3. CASE z = a
    BY <2>1, <2>3, <1>5
  <2>4. CASE z # a /\ z # c
    BY <2>1, <2>4, <1>5
  <2> QED
    BY <2>2, <2>3, <2>4
<1>9. SunOk(h, n, ex \cup {c})
  <2>1. Total(h) + n = Cardinality(Holders) * Funds
    BY <1>7 DEF SunOk
  <2> QED
    BY <1>1, <1>5, <1>8, <2>1 DEF SunOk
<1> QED
  BY <1>6, <1>9

(***************************************************************************)
(* Billing.                                                                *)
(***************************************************************************)

\* What every charge on the way to the contract's own rules leaves of w.
Pays(w, v) ==
    /\ Good(v, head, params)
    /\ v.exists = w.exists /\ v.contracts = w.contracts /\ v.burned >= w.burned

LEMMA PaysOn ==
    ASSUME NEW u, NEW w, NEW v, Good(u, head, params), Pays(u, w), Pays(w, v)
    PROVE  Pays(u, v)
<1>1. u.burned \in Nat /\ w.burned \in Nat /\ v.burned \in Nat
  BY DEF Pays, Good, SunOk
<1> QED
  BY <1>1 DEF Pays

\* Paying nothing.
LEMMA PaysNone ==
    ASSUME NEW w, Good(w, head, params)
    PROVE  Pays(w, w)
<1>1. w.burned \in Nat
  BY DEF Good, SunOk
<1> QED
  BY <1>1 DEF Pays

LEMMA BurnPays ==
    ASSUME NEW w, Good(w, head, params), NEW a, NEW sun \in Nat, NEW v \in Burn(w, a, sun)
    PROVE  /\ Pays(w, v) /\ a \in w.exists /\ sun <= w.balance[a]
           /\ v.burned = w.burned + sun
           /\ v.balance = [w.balance EXCEPT ![a] = @ - sun]
           /\ v.assets = w.assets /\ v.holding = w.holding /\ v.frozen = w.frozen
           /\ v.permissions = w.permissions /\ v.energy = w.energy
<1>1. /\ a \in w.exists /\ w.balance[a] >= sun
      /\ v = [w EXCEPT !.balance[a] = @ - sun, !.burned = @ + sun]
  BY DEF Burn
<1>2. IsWorld(w) /\ SunOk(w.balance, w.burned, w.exists)
  BY DEF Good
<1>3. w.balance[a] \in Nat
  BY <1>1, <1>2 DEF SunOk
<1>4. /\ IsWorld(v) /\ v.balance = [w.balance EXCEPT ![a] = @ - sun] /\ v.burned = w.burned + sun
      /\ v.exists = w.exists /\ v.net = w.net /\ v.stakedNet = w.stakedNet /\ v.energy = w.energy
      /\ v.assets = w.assets /\ v.holding = w.holding /\ v.assetNet = w.assetNet /\ v.frozen = w.frozen
      /\ v.permissions = w.permissions /\ v.name = w.name /\ v.names = w.names /\ v.ids = w.ids
      /\ v.contracts = w.contracts
  BY <1>1, <1>2 DEF IsWorld
<1>5. SunOk(v.balance, v.burned, v.exists)
  BY <1>1, <1>2, <1>3, <1>4, SunBurns
<1>6. Good(v, head, params)
  BY <1>4, <1>5 DEF Good
<1>7. v.burned >= w.burned /\ sun <= w.balance[a]
  BY <1>1, <1>2, <1>3, <1>4 DEF SunOk
<1> QED
  BY <1>1, <1>4, <1>6, <1>7 DEF Pays

\* What was burned follows.
LEMMA BurnIs ==
    ASSUME NEW w, Good(w, head, params), NEW a, NEW sun, NEW v \in Burn(w, a, sun)
    PROVE  v.burned = w.burned + sun
<1>1. v = [w EXCEPT !.balance[a] = @ - sun, !.burned = @ + sun]
  BY DEF Burn
<1>2. IsWorld(w)
  BY DEF Good
<1> QED
  BY <1>1, <1>2 DEF IsWorld

\* A charge counts for the day.
LEMMA ChargedIs ==
    ASSUME NEW u \in Usage, head \in Nat, NEW units \in Nat
    PROVE  /\ Now(u) = NowAt(u, head) /\ NowAt(u, head) \in Nat
           /\ Charged(u, units) \in Usage /\ Charged(u, units).at = head
           /\ NowAt(Charged(u, units), head) = NowAt(u, head) + units
BY DEF Usage, Now, NowAt, Charged

LEMMA StakedPays ==
    ASSUME NEW w, Good(w, head, params), NEW a \in Accounts, NEW v \in ConsumeStakedNet(w, a)
    PROVE  /\ Pays(w, v) /\ v.assets = w.assets /\ v.assetNet = w.assetNet
           /\ v.holding = w.holding /\ v.frozen = w.frozen /\ v.energy = w.energy /\ v.net = w.net
           /\ NowAt(v.stakedNet[a], head) = NowAt(w.stakedNet[a], head) + 1
<1>1. /\ Now(w.stakedNet[a]) + 1 <= NetLimit(a)
      /\ v = [w EXCEPT !.stakedNet[a] = Charged(@, 1)]
  BY DEF ConsumeStakedNet
<1>2. IsWorld(w) /\ QuotasOk(w.net, w.stakedNet, w.energy, w.assetNet, head)
      /\ PoolsOk(w.assets, w.stakedNet, head) /\ TokensOk(w.assets, w.holding, w.frozen)
  BY DEF Good
<1>3. /\ IsWorld(v) /\ v.balance = w.balance /\ v.burned = w.burned
      /\ v.exists = w.exists /\ v.net = w.net /\ v.energy = w.energy
      /\ v.stakedNet = [w.stakedNet EXCEPT ![a] = Charged(@, 1)]
      /\ v.assets = w.assets /\ v.holding = w.holding /\ v.assetNet = w.assetNet /\ v.frozen = w.frozen
      /\ v.permissions = w.permissions /\ v.name = w.name /\ v.names = w.names /\ v.ids = w.ids
      /\ v.contracts = w.contracts
  BY <1>1, <1>2 DEF IsWorld
<1> DEFINE s == w.stakedNet
           t == v.stakedNet
           c == Charged(s[a], 1)
<1>4. s \in [Accounts -> Usage] /\ head \in Nat
  BY <1>2 DEF QuotasOk
<1>5. /\ c \in Usage /\ c.at = head /\ NowAt(c, head) = NowAt(s[a], head) + 1
      /\ NowAt(s[a], head) \in Nat /\ NowAt(c, head) <= NetLimit(a)
  <2>1. s[a] \in Usage /\ 1 \in Nat
    BY <1>4
  <2>2. /\ c \in Usage /\ c.at = head /\ NowAt(c, head) = NowAt(s[a], head) + 1
        /\ NowAt(s[a], head) \in Nat /\ Now(s[a]) = NowAt(s[a], head)
    BY <1>4, <2>1, ChargedIs
  <2> QED
    BY <1>1, <2>2
<1>6. t \in [Accounts -> Usage] /\ t[a] = c /\ \A x \in Accounts : x # a => t[x] = s[x]
  BY <1>3, <1>4, <1>5
<1> HIDE DEF c, s, t
<1>7. QuotasOk(v.net, t, v.energy, v.assetNet, head)
  <2>1. ASSUME NEW x \in Accounts PROVE t[x].at <= head /\ NowAt(t[x], head) <= NetLimit(x)
    <3>1. CASE x = a
      <4>1. c.at <= head
        BY <1>4, <1>5
      <4> QED
        BY <3>1, <4>1, <1>5, <1>6
    <3>2. CASE x # a
      BY <3>2, <1>2, <1>6 DEF QuotasOk, s
    <3> QED
      BY <3>1, <3>2
  <2> QED
    BY <1>2, <1>3, <1>6, <2>1 DEF QuotasOk
<1>8. PoolsOk(v.assets, t, head)
  <2>1. ASSUME NEW id \in DOMAIN w.assets
        PROVE  w.assets[id].pool.at <= head /\ NowAt(w.assets[id].pool, head) <= NowAt(t[w.assets[id].owner], head)
    <3> DEFINE o == w.assets[id].owner
               n == NowAt(w.assets[id].pool, head)
    <3>1. w.assets[id].pool.at <= head /\ n <= NowAt(s[o], head)
      BY <1>2, <2>1 DEF PoolsOk, s
    <3>2. o \in Accounts /\ n \in Nat
      <4>1. w.assets[id] \in Asset
        BY <1>2 DEF TokensOk
      <4>2. o \in Callers /\ w.assets[id].pool \in Usage
        BY <4>1 DEF Asset
      <4> QED
        BY <4>2, <1>4, Finite, ChargedIs
    <3> HIDE DEF o, n
    <3>3. CASE o = a
      BY <3>1, <3>2, <3>3, <1>5, <1>6 DEF n, o
    <3>4. CASE o # a
      BY <3>1, <3>2, <3>4, <1>6 DEF n, o
    <3> QED
      BY <3>3, <3>4
  <2> QED
    BY <1>3, <2>1 DEF PoolsOk
<1>9. Good(v, head, params)
  BY <1>3, <1>7, <1>8 DEF Good, t
<1>10. v.burned >= w.burned
  <2>1. w.burned \in Nat
    BY DEF Good, SunOk
  <2> QED
    BY <2>1, <1>3
<1>11. NowAt(t[a], head) = NowAt(s[a], head) + 1
  BY <1>5, <1>6
<1> QED
  BY <1>3, <1>9, <1>10, <1>11 DEF Pays, s, t

\* What issuers and supplies are is all that holdings ask of the assets.
LEMMA AssetsEdited ==
    ASSUME NEW ts, NEW hs, NEW fs, TokensOk(ts, hs, fs),
           NEW bs \in Seq(Asset), DOMAIN bs = DOMAIN ts,
           \A i \in DOMAIN ts : /\ bs[i].owner = ts[i].owner /\ bs[i].supply = ts[i].supply
                                /\ bs[i].name = ts[i].name
    PROVE  /\ TokensOk(bs, hs, fs)
           /\ \A ex, p : TitlesOk(ts, ex, p) => TitlesOk(bs, ex, p)
<1>1. TokensOk(bs, hs, fs)
  BY DEF TokensOk
<1>2. \A ex, p : TitlesOk(ts, ex, p) => TitlesOk(bs, ex, p)
  BY DEF TitlesOk
<1> QED
  BY <1>1, <1>2

\* What a list holds.
LEMMA Listed ==
    ASSUME NEW E, NEW s \in Seq(E), NEW i \in DOMAIN s
    PROVE  s[i] \in E
OBVIOUS

\* One asset's pool is charged.
PoolCharged(w, id) == [w.assets EXCEPT ![id].pool = Charged(@, 1)]

LEMMA PoolChargedIs ==
    ASSUME NEW w, Good(w, head, params), NEW id \in DOMAIN w.assets
    PROVE  LET ts == w.assets
               bs == PoolCharged(w, id)
               c == Charged(ts[id].pool, 1)
           IN /\ bs \in Seq(Asset) /\ DOMAIN bs = DOMAIN ts
              /\ \A i \in DOMAIN ts : /\ bs[i].owner = ts[i].owner /\ bs[i].supply = ts[i].supply
                                      /\ bs[i].name = ts[i].name
              /\ bs[id].pool = c /\ \A i \in DOMAIN ts : i # id => bs[i] = ts[i]
              /\ c.at = head /\ NowAt(c, head) = NowAt(ts[id].pool, head) + 1
              /\ NowAt(ts[id].pool, head) \in Nat
<1> DEFINE ts == w.assets
           c == Charged(ts[id].pool, 1)
           m == [ts[id] EXCEPT !.pool = c]
           bs == [ts EXCEPT ![id] = m]
<1>1. ts \in Seq(Asset) /\ head \in Nat
  BY DEF Good, TokensOk, QuotasOk
<1>2. ts[id] \in Asset
  BY <1>1
<1>3. ts[id].pool \in Usage
  BY <1>2 DEF Asset
<1>4. /\ c \in Usage /\ c.at = head /\ NowAt(c, head) = NowAt(ts[id].pool, head) + 1
      /\ NowAt(ts[id].pool, head) \in Nat
  BY <1>1, <1>3, ChargedIs
<1> HIDE DEF c
<1>5. m \in Asset /\ m.owner = ts[id].owner /\ m.supply = ts[id].supply /\ m.name = ts[id].name /\ m.pool = c
  BY <1>2, <1>4 DEF Asset
<1> HIDE DEF m, ts
<1>6. bs \in Seq(Asset) /\ DOMAIN bs = DOMAIN ts /\ bs[id] = m /\ \A i \in DOMAIN ts : i # id => bs[i] = ts[i]
  BY <1>1, <1>5 DEF ts
<1>7. PoolCharged(w, id) = bs
  BY DEF PoolCharged, ts, m, c
<1> HIDE DEF bs
<1> QED
  BY <1>4, <1>5, <1>6, <1>7 DEF ts, c

LEMMA AssetPays ==
    ASSUME NEW w, Good(w, head, params), NEW a \in Accounts, NEW id \in DOMAIN w.assets,
           NEW v \in ConsumeAssetNet(w, a, id)
    PROVE  Pays(w, v)
<1> DEFINE o == w.assets[id].owner
<1>1. PICK u \in ConsumeStakedNet(w, o) :
         v = [u EXCEPT !.assets[id].pool = Charged(@, 1), !.assetNet[a][id] = Charged(@, 1)]
  BY DEF ConsumeAssetNet
<1>2. o \in Accounts
  <2>1. w.assets[id] \in Asset
    BY DEF Good, TokensOk
  <2> QED
    BY <2>1, Finite DEF Asset
<1>3. /\ Pays(w, u) /\ u.assets = w.assets /\ u.assetNet = w.assetNet
      /\ u.holding = w.holding /\ u.frozen = w.frozen /\ u.energy = w.energy /\ u.net = w.net
      /\ NowAt(u.stakedNet[o], head) = NowAt(w.stakedNet[o], head) + 1
  BY <1>1, <1>2, StakedPays
<1> HIDE DEF o
<1>4. Good(u, head, params) /\ id \in DOMAIN u.assets
  BY <1>3 DEF Pays
<1> DEFINE ts == u.assets
           bs == PoolCharged(u, id)
           c == Charged(ts[id].pool, 1)
           n == [u.assetNet EXCEPT ![a][id] = Charged(@, 1)]
<1>5. /\ bs \in Seq(Asset) /\ DOMAIN bs = DOMAIN ts
      /\ \A i \in DOMAIN ts : /\ bs[i].owner = ts[i].owner /\ bs[i].supply = ts[i].supply
                              /\ bs[i].name = ts[i].name
      /\ bs[id].pool = c /\ \A i \in DOMAIN ts : i # id => bs[i] = ts[i]
      /\ c.at = head /\ NowAt(c, head) = NowAt(ts[id].pool, head) + 1
      /\ NowAt(ts[id].pool, head) \in Nat
  BY <1>4, PoolChargedIs
<1>6. /\ IsWorld(v) /\ v.balance = u.balance /\ v.burned = u.burned
      /\ v.exists = u.exists /\ v.net = u.net /\ v.energy = u.energy /\ v.stakedNet = u.stakedNet
      /\ v.assets = bs /\ v.holding = u.holding /\ v.assetNet = n /\ v.frozen = u.frozen
      /\ v.permissions = u.permissions /\ v.name = u.name /\ v.names = u.names /\ v.ids = u.ids
      /\ v.contracts = u.contracts
  <2>1. IsWorld(u)
    BY <1>4 DEF Good
  <2> QED
    BY <1>1, <2>1 DEF IsWorld, PoolCharged
<1> HIDE DEF bs, n
<1>7. n \in [Accounts -> [TokenIds -> Usage]]
  <2>1. u.assetNet \in [Accounts -> [TokenIds -> Usage]] /\ head \in Nat /\ id \in TokenIds
    BY <1>4 DEF Good, QuotasOk, TokensOk
  <2>2. u.assetNet[a][id] \in Usage
    BY <2>1
  <2>3. Charged(u.assetNet[a][id], 1) \in Usage
    BY <2>1, <2>2, ChargedIs
  <2> QED
    BY <2>1, <2>3 DEF n
<1>8. QuotasOk(v.net, v.stakedNet, v.energy, v.assetNet, head)
  BY <1>4, <1>6, <1>7 DEF Good, QuotasOk
<1>9. TokensOk(v.assets, v.holding, v.frozen) /\ TitlesOk(v.assets, v.exists, params)
  <2>1. TokensOk(u.assets, u.holding, u.frozen) /\ TitlesOk(u.assets, u.exists, params)
    BY <1>4 DEF Good
  <2> QED
    BY <2>1, <1>5, <1>6, AssetsEdited
<1>10. PoolsOk(v.assets, v.stakedNet, head)
  <2>1. /\ PoolsOk(w.assets, w.stakedNet, head) /\ PoolsOk(u.assets, u.stakedNet, head)
        /\ head \in Nat /\ w.stakedNet \in [Accounts -> Usage]
    BY <1>4 DEF Good, QuotasOk
  <2>2. NowAt(ts[id].pool, head) <= NowAt(w.stakedNet[o], head)
    BY <2>1, <1>3 DEF PoolsOk, o
  <2>3. NowAt(w.stakedNet[o], head) \in Nat
    BY <1>2, <2>1, ChargedIs
  <2>4. ts[id].owner = o
    BY <1>3 DEF o
  <2> DEFINE x == NowAt(ts[id].pool, head)
             y == NowAt(w.stakedNet[o], head)
  <2>7. x \in Nat /\ y \in Nat /\ x <= y /\ NowAt(c, head) = x + 1 /\ NowAt(u.stakedNet[o], head) = y + 1
    <3>1. ts = w.assets
      BY <1>3
    <3> QED
      BY <3>1, <1>3, <1>5, <2>2, <2>3
  <2> HIDE DEF ts, c, x, y
  <2>5. NowAt(c, head) <= NowAt(u.stakedNet[o], head)
    BY <2>7
  <2>6. ASSUME NEW i \in DOMAIN bs
        PROVE  bs[i].pool.at <= head /\ NowAt(bs[i].pool, head) <= NowAt(u.stakedNet[bs[i].owner], head)
    <3>1. CASE i = id
      <4>1. bs[i].pool = c /\ bs[i].owner = o
        BY <1>5, <2>4, <3>1
      <4>2. c.at = head /\ head \in Nat
        BY <1>5, <2>1
      <4>3. c.at <= head
        BY <4>2
      <4> QED
        BY <4>1, <4>3, <2>5
    <3>2. CASE i # id
      BY <3>2, <1>5, <2>1 DEF PoolsOk, ts
    <3> QED
      BY <3>1, <3>2
  <2> QED
    BY <1>6, <2>6 DEF PoolsOk
<1>11. Good(v, head, params)
  BY <1>4, <1>6, <1>8, <1>9, <1>10 DEF Good
<1>12. Pays(u, v)
  <2>1. u.burned \in Nat
    BY <1>4 DEF Good, SunOk
  <2> QED
    BY <1>6, <1>11, <2>1 DEF Pays
<1> QED
  BY <1>3, <1>12, PaysOn

\* The free allowance is charged.
LEMMA FreePays ==
    ASSUME NEW w, Good(w, head, params), NEW a \in Accounts, Now(w.net[a]) + 1 <= FreeNet,
           NEW v, v = [w EXCEPT !.net[a] = Charged(@, 1)]
    PROVE  Pays(w, v)
<1>1. IsWorld(w) /\ QuotasOk(w.net, w.stakedNet, w.energy, w.assetNet, head)
  BY DEF Good
<1> DEFINE n == [w.net EXCEPT ![a] = Charged(@, 1)]
           c == Charged(w.net[a], 1)
<1>2. /\ IsWorld(v) /\ v.balance = w.balance /\ v.burned = w.burned
      /\ v.exists = w.exists /\ v.net = n /\ v.energy = w.energy /\ v.stakedNet = w.stakedNet
      /\ v.assets = w.assets /\ v.holding = w.holding /\ v.assetNet = w.assetNet /\ v.frozen = w.frozen
      /\ v.permissions = w.permissions /\ v.name = w.name /\ v.names = w.names /\ v.ids = w.ids
      /\ v.contracts = w.contracts
  BY <1>1 DEF IsWorld
<1>3. w.net \in [Accounts -> Usage] /\ head \in Nat
  BY <1>1 DEF QuotasOk
<1>4. c \in Usage /\ c.at = head /\ NowAt(c, head) <= FreeNet
  <2>1. w.net[a] \in Usage
    BY <1>3
  <2> QED
    BY <1>3, <2>1, ChargedIs
<1>5. n \in [Accounts -> Usage] /\ n[a] = c /\ \A x \in Accounts : x # a => n[x] = w.net[x]
  BY <1>3, <1>4
<1> HIDE DEF n, c
<1>6. QuotasOk(n, w.stakedNet, w.energy, w.assetNet, head)
  <2>1. ASSUME NEW x \in Accounts PROVE n[x].at <= head /\ NowAt(n[x], head) <= FreeNet
    <3>1. CASE x = a
      <4>1. c.at <= head
        BY <1>3, <1>4
      <4> QED
        BY <3>1, <4>1, <1>4, <1>5
    <3>2. CASE x # a
      BY <3>2, <1>1, <1>5 DEF QuotasOk
    <3> QED
      BY <3>1, <3>2
  <2> QED
    BY <1>1, <1>5, <2>1 DEF QuotasOk
<1>7. Good(v, head, params)
  BY <1>2, <1>6 DEF Good
<1>8. w.burned \in Nat
  BY DEF Good, SunOk
<1> QED
  BY <1>2, <1>7, <1>8 DEF Pays

LEMMA BandwidthPays ==
    ASSUME NEW w, Good(w, head, params), NEW a \in Accounts, NEW creates, NEW id,
           creates \/ id = 0 \/ id \in DOMAIN w.assets, NEW v \in Bandwidth(w, a, creates, id)
    PROVE  Pays(w, v)
<1>1. Fees["create"] \in Nat /\ Fees["bandwidth"] \in Nat
  BY FeesNat
<1>2. CASE v \in ConsumeStakedNet(w, a)
  BY <1>2, StakedPays
<1>3. CASE v \in Burn(w, a, Fees["create"])
  BY <1>1, <1>3, BurnPays
<1>4. CASE v \in Burn(w, a, Fees["bandwidth"])
  BY <1>1, <1>4, BurnPays
<1>5. CASE ~creates /\ id # 0 /\ v \in ConsumeAssetNet(w, a, id)
  BY <1>5, AssetPays
<1>6. CASE Now(w.net[a]) + 1 <= FreeNet /\ v = [w EXCEPT !.net[a] = Charged(@, 1)]
  BY <1>6, FreePays
<1> QED
  BY <1>2, <1>3, <1>4, <1>5, <1>6 DEF Bandwidth, ConsumeBandwidth

\* What the rules of the contract judge is a world like the one before.
LEMMA BilledPays ==
    ASSUME Good(world, head, params), NEW a \in Accounts, NEW type, NEW e, NEW creates, NEW id,
           creates \/ id = 0 \/ id \in DOMAIN world.assets, NEW v \in Billed(a, type, e, creates, id)
    PROVE  Pays(world, v) /\ a \in v.exists
<1>1. PICK u \in Bandwidth(world, a, creates, id) :
         \E w \in Burn(u, a, IF Len(e.signers) > 1 THEN Fees["multiSign"] ELSE 0) :
            v \in Burn(w, a, IF e.memo THEN Fees["memo"] ELSE 0)
  BY DEF Billed, Then
<1>2. PICK w \in Burn(u, a, IF Len(e.signers) > 1 THEN Fees["multiSign"] ELSE 0) :
         v \in Burn(w, a, IF e.memo THEN Fees["memo"] ELSE 0)
  BY <1>1
<1>3. Fees["multiSign"] \in Nat /\ Fees["memo"] \in Nat /\ 0 \in Nat
  BY FeesNat
<1>4. Pays(world, u)
  BY BandwidthPays
<1>5. Pays(u, w)
  <2>1. Good(u, head, params)
    BY <1>4 DEF Pays
  <2> QED
    BY <1>3, <2>1, BurnPays
<1>6. Pays(w, v) /\ a \in w.exists
  <2>1. Good(w, head, params)
    BY <1>5 DEF Pays
  <2> QED
    BY <1>2, <1>3, <2>1, BurnPays
<1>7. Pays(world, w)
  BY <1>4, <1>5, PaysOn
<1>8. Pays(world, v)
  BY <1>6, <1>7, PaysOn
<1> QED
  BY <1>6, <1>8 DEF Pays

(***************************************************************************)
(* What each transaction leaves.                                           *)
(***************************************************************************)

\* Whatever a transaction does, its world is good, and the accounts it opens have
\* been paid for.
Upheld(v) ==
    /\ Good(v, head, params)
    /\ (v.exists \ Contracts) # (world.exists \ Contracts)
          => v.burned >= world.burned + Fees["newAccount"]

\* A transaction that opens no account.
LEMMA SoundSame ==
    ASSUME NEW v, Good(v, head, params), v.exists \ Contracts = world.exists \ Contracts
    PROVE  Upheld(v)
BY DEF Upheld

\* Sun from one account to another.
LEMMA MoveGood ==
    ASSUME NEW w, Good(w, head, params), NEW a \in w.exists, NEW b \in Accounts, a # b,
           NEW x \in Nat, x <= w.balance[a], b \notin Contracts => w.balance[b] + x <= IntMax
    PROVE  LET v == MoveBalance(w, a, b, x)
           IN /\ Good(v, head, params) /\ v.exists = w.exists \cup {b} /\ v.burned = w.burned
              /\ v.balance[a] = w.balance[a] - x /\ v.energy = w.energy
              /\ v.assets = w.assets /\ v.holding = w.holding /\ v.contracts = w.contracts
<1> DEFINE v == MoveBalance(w, a, b, x)
<1>1. IsWorld(w) /\ SunOk(w.balance, w.burned, w.exists) /\ TitlesOk(w.assets, w.exists, params)
  BY DEF Good
<1>2. /\ IsWorld(v) /\ v.balance = [[w.balance EXCEPT ![a] = @ - x] EXCEPT ![b] = @ + x]
      /\ v.burned = w.burned
      /\ v.exists = w.exists \cup {b} /\ v.net = w.net /\ v.stakedNet = w.stakedNet /\ v.energy = w.energy
      /\ v.assets = w.assets /\ v.holding = w.holding /\ v.assetNet = w.assetNet /\ v.frozen = w.frozen
      /\ v.permissions = w.permissions /\ v.name = w.name /\ v.names = w.names /\ v.ids = w.ids
      /\ v.contracts = w.contracts
  BY <1>1 DEF IsWorld, MoveBalance
<1> HIDE DEF v
<1>3. a \in Accounts /\ w.balance \in [Accounts -> Nat]
  BY <1>1 DEF SunOk
<1>4. SunOk(v.balance, v.burned, v.exists)
  BY <1>1, <1>2, <1>3, SunMoves
<1>5. TitlesOk(v.assets, v.exists, params)
  BY <1>1, <1>2 DEF TitlesOk
<1>6. Good(v, head, params)
  BY <1>2, <1>4, <1>5 DEF Good
<1>7. v.balance[a] = w.balance[a] - x
  BY <1>2, <1>3
<1> QED
  BY <1>2, <1>6, <1>7 DEF v

\* The fee for the account that a transfer opened.
LEMMA ExtraFeeIs ==
    ASSUME NEW w, Good(w, head, params), NEW a \in w.exists, NEW creates,
           creates => w.balance[a] >= Fees["newAccount"]
    PROVE  LET v == ExtraFee(w, a, creates)
           IN /\ Good(v, head, params) /\ v.exists = w.exists
              /\ creates => v.burned = w.burned + Fees["newAccount"]
<1>1. Fees["newAccount"] \in Nat
  BY FeesNat
<1>2. CASE creates
  <2> DEFINE B == Burn(w, a, Fees["newAccount"])
             v == CHOOSE v \in B : TRUE
  <2>1. B # {}
    BY <1>2 DEF Burn
  <2>2. v \in B
    BY <2>1
  <2>3. ExtraFee(w, a, creates) = v
    BY <1>2, <2>1 DEF ExtraFee
  <2> HIDE DEF v
  <2> DEFINE fee == Fees["newAccount"]
  <2>5. fee \in Nat /\ v \in Burn(w, a, fee)
    BY <1>1, <2>2
  <2> HIDE DEF fee, B
  <2>6. Pays(w, v)
    BY <2>5, BurnPays
  <2>4. v.burned = w.burned + fee
    BY <2>5, BurnIs
  <2> QED
    BY <1>2, <2>3, <2>4, <2>6 DEF Pays, fee
<1>3. CASE ~creates
  BY <1>3 DEF ExtraFee
<1> QED
  BY <1>2, <1>3

\* Sun, and perhaps an account.
LEMMA TransferSound ==
    ASSUME WalletInv, NEW a \in Callers, NEW b \in Accounts, NEW x \in Amounts, NEW e,
           TransferContract(a, b, x, e)
    PROVE  Upheld(world') /\ UNCHANGED <<params, head>>
<1> DEFINE creates == b \notin world.exists
           fee == Fees["newAccount"]
<1>1. Good(world, head, params) /\ a \in Accounts
  BY Finite DEF WalletInv
<1>2. PICK w \in Billed(a, "transfer", e, creates, 0) :
         /\ TransferOk(w, a, b, x)
         /\ Accepted(ExtraFee(MoveBalance(w, a, b, x), a, creates))
  BY DEF TransferContract
<1>3. Pays(world, w) /\ a \in w.exists
  <2>1. Billed(a, "transfer", e, creates, 0) = Billed(a, "transfer", e, b \notin world.exists, 0)
    OBVIOUS
  <2> QED
    BY <1>1, <1>2, BilledPays
<1>4. Good(w, head, params) /\ w.exists = world.exists /\ w.burned \in Nat /\ world.burned \in Nat
      /\ w.burned >= world.burned
  BY <1>1, <1>3 DEF Pays, Good, SunOk
<1>5. /\ x \in Nat /\ x <= IntMax /\ IntMax \in Nat /\ fee \in Nat
      /\ a # b /\ w.balance \in [Accounts -> Nat]
      /\ creates => w.balance[a] >= x + fee
      /\ ~creates => w.balance[a] >= x /\ w.balance[b] + x <= IntMax
      /\ creates => w.balance[b] = 0
  <2>1. x \in Nat /\ x <= IntMax /\ IntMax \in Nat /\ fee \in Nat
    BY WalletAssumption, FeesNat
  <2>2. w.balance \in [Accounts -> Nat] /\ (creates => w.balance[b] = 0)
    BY <1>4 DEF Good, SunOk
  <2>3. w.balance[a] \in Nat
    BY <1>1, <2>2
  <2> QED
    BY <1>2, <1>4, <2>1, <2>2, <2>3 DEF TransferOk
<1>6. w.balance[a] \in Nat /\ x <= w.balance[a] /\ w.balance[b] + x <= IntMax
  BY <1>1, <1>5
<1> DEFINE v == MoveBalance(w, a, b, x)
<1>7. /\ Good(v, head, params) /\ v.exists = w.exists \cup {b} /\ v.burned = w.burned
      /\ v.balance[a] = w.balance[a] - x
  BY <1>3, <1>4, <1>5, <1>6, MoveGood
<1> HIDE DEF v
<1>8. a \in v.exists /\ (creates => v.balance[a] >= fee)
  BY <1>3, <1>5, <1>6, <1>7
<1> DEFINE z == ExtraFee(v, a, creates)
<1>9. /\ Good(z, head, params) /\ z.exists = v.exists
      /\ creates => z.burned = v.burned + fee
  BY <1>7, <1>8, ExtraFeeIs
<1>10. world' = z /\ UNCHANGED <<params, head>>
  BY <1>2 DEF Accepted, v
<1> HIDE DEF z
<1>11. CASE creates
  <2>1. z.burned >= world.burned + fee
    BY <1>4, <1>5, <1>7, <1>9, <1>11
  <2> QED
    BY <1>9, <1>10, <2>1 DEF Upheld
<1>12. CASE ~creates
  <2>1. z.exists = world.exists
    BY <1>4, <1>7, <1>9, <1>12
  <2> QED
    BY <1>9, <1>10, <2>1 DEF Upheld
<1> QED
  BY <1>11, <1>12

LEMMA AccountCreateSound ==
    ASSUME WalletInv, NEW a \in Callers, NEW b \in Fresh, NEW e, AccountCreateContract(a, b, e)
    PROVE  Upheld(world') /\ UNCHANGED <<params, head>>
<1>1. Good(world, head, params) /\ a \in Accounts /\ b \in Accounts
  BY Finite DEF WalletInv, Callers
<1>2. PICK w \in Billed(a, "account", e, b \notin world.exists, 0) :
         \E v \in Burn(w, a, Fees["newAccount"]) : Accepted([v EXCEPT !.exists = @ \cup {b}])
  BY DEF AccountCreateContract
<1>3. PICK v \in Burn(w, a, Fees["newAccount"]) : Accepted([v EXCEPT !.exists = @ \cup {b}])
  BY <1>2
<1>4. Pays(world, w)
  BY <1>1, <1>2, BilledPays
<1>5. Fees["newAccount"] \in Nat
  BY FeesNat
<1>6. Good(w, head, params)
  BY <1>4 DEF Pays
<1>7. Pays(w, v) /\ v.burned = w.burned + Fees["newAccount"]
  <2> DEFINE fee == Fees["newAccount"]
  <2>1. fee \in Nat /\ v \in Burn(w, a, fee)
    BY <1>5
  <2> HIDE DEF fee
  <2>2. Pays(w, v)
    BY <1>6, <2>1, BurnPays
  <2>3. v.burned = w.burned + fee
    BY <1>6, <2>1, BurnIs
  <2> QED
    BY <2>2, <2>3 DEF fee
<1>8. Good(v, head, params)
  BY <1>7 DEF Pays
<1> DEFINE z == [v EXCEPT !.exists = @ \cup {b}]
<1>9. /\ IsWorld(z) /\ z.exists = v.exists \cup {b} /\ z.balance = v.balance /\ z.burned = v.burned
      /\ z.net = v.net /\ z.stakedNet = v.stakedNet /\ z.energy = v.energy
      /\ z.assets = v.assets /\ z.holding = v.holding /\ z.assetNet = v.assetNet /\ z.frozen = v.frozen
      /\ z.permissions = v.permissions /\ z.name = v.name /\ z.names = v.names /\ z.ids = v.ids
      /\ z.contracts = v.contracts
  <2>1. IsWorld(v)
    BY <1>8 DEF Good
  <2> QED
    BY <2>1 DEF IsWorld
<1> HIDE DEF z
<1>10. SunOk(z.balance, z.burned, z.exists) /\ TitlesOk(z.assets, z.exists, params)
  BY <1>1, <1>8, <1>9 DEF Good, SunOk, TitlesOk
<1>11. Good(z, head, params)
  BY <1>8, <1>9, <1>10 DEF Good
<1>12. z.burned >= world.burned + Fees["newAccount"]
  <2>1. world.burned \in Nat /\ w.burned \in Nat /\ w.burned >= world.burned
    BY <1>1, <1>4, <1>6 DEF Pays, Good, SunOk
  <2> QED
    BY <1>5, <1>7, <1>9, <2>1
<1>13. world' = z /\ UNCHANGED <<params, head>>
  BY <1>3 DEF Accepted, z
<1> QED
  BY <1>11, <1>12, <1>13 DEF Upheld

\* One entry of the ledgers of holdings, and the columns it changes.
Moved(hs, gs, a, id, y) ==
    /\ gs \in [Accounts -> [TokenIds -> Nat]] /\ gs[a][id] = y /\ hs[a][id] \in Nat
    /\ \A z \in Accounts : \A i \in TokenIds : (z # a \/ i # id) => gs[z][i] = hs[z][i]
    /\ Total(Column(gs, id)) = Total(Column(hs, id)) - hs[a][id] + y
    /\ Total(Column(hs, id)) \in Nat
    /\ hs[a][id] <= Total(Column(hs, id))
    /\ \A i \in TokenIds : i # id => Column(gs, i) = Column(hs, i)

LEMMA HoldingMoves ==
    ASSUME NEW hs \in [Accounts -> [TokenIds -> Nat]], NEW a \in Accounts, NEW id \in TokenIds,
           NEW y \in Nat, NEW gs, gs = [hs EXCEPT ![a][id] = y]
    PROVE  Moved(hs, gs, a, id, y)
<1> DEFINE f == Column(hs, id)
           h == Column(gs, id)
<1>1. gs \in [Accounts -> [TokenIds -> Nat]]
  BY SMTT(30)
<1>2. gs[a][id] = y /\ \A z \in Accounts : \A i \in TokenIds : (z # a \/ i # id) => gs[z][i] = hs[z][i]
  OBVIOUS
<1>3. /\ f \in [Accounts -> Nat] /\ DOMAIN h = Accounts /\ f[a] = hs[a][id]
      /\ \A z \in Accounts : h[z] = [f EXCEPT ![a] = y][z]
  BY <1>1, <1>2 DEF Column
<1>4. h = [f EXCEPT ![a] = y]
  BY <1>3 DEF Column
<1> HIDE DEF f, h
<1>5. Total(h) = Total(f) - f[a] + y
  BY <1>3, <1>4, BalanceMoves
<1>6. LedgerOf(f) /\ Total(f) \in Nat /\ f[a] <= Total(f) /\ f[a] \in Nat
  <2>1. DOMAIN f = Accounts /\ \A z \in Accounts : f[z] \in Nat
    BY <1>3
  <2>2. LedgerOf(f)
    BY <2>1, Finite DEF LedgerOf
  <2> QED
    BY <2>1, <2>2, TotalNat
<1>7. \A i \in TokenIds : i # id => Column(gs, i) = Column(hs, i)
  BY <1>2 DEF Column
<1>8. /\ Total(Column(gs, id)) = Total(Column(hs, id)) - hs[a][id] + y
      /\ Total(Column(hs, id)) \in Nat
      /\ hs[a][id] <= Total(Column(hs, id)) /\ hs[a][id] \in Nat
  BY <1>3, <1>5, <1>6 DEF f, h
<1> QED
  BY <1>1, <1>2, <1>7, <1>8 DEF Moved

\* Issuers' tranches are lists of amounts.
LEMMA TranchesNat ==
    ASSUME NEW t \in Seq(Tranche)
    PROVE  Amounted(Tranche) /\ Sum(t) \in Nat
<1>1. Amounted(Tranche)
  BY DEF Amounted, Tranche
<1> QED
  BY <1>1, SumNat

\* A holding never exceeds the supply.
LEMMA HeldOfSupply ==
    ASSUME NEW ts, NEW hs, NEW fs, TokensOk(ts, hs, fs), NEW a \in Accounts, NEW id \in TokenIds
    PROVE  hs[a][id] \in 0..IntMax
<1>1. /\ hs \in [Accounts -> [TokenIds -> Nat]] /\ IntMax \in Nat
      /\ ts \in Seq(Asset) /\ fs \in [Accounts -> Seq(Tranche)]
  BY WalletAssumption DEF TokensOk
<1>2. /\ Total(Column(hs, id)) \in Nat /\ hs[a][id] \in Nat
      /\ hs[a][id] <= Total(Column(hs, id))
  <2> DEFINE gs == [hs EXCEPT ![a][id] = 0]
  <2>1. 0 \in Nat /\ gs = [hs EXCEPT ![a][id] = 0]
    OBVIOUS
  <2> HIDE DEF gs
  <2>2. Moved(hs, gs, a, id, 0)
    BY <1>1, <2>1, HoldingMoves
  <2> QED
    BY <2>2 DEF Moved
<1>3. CASE id \notin DOMAIN ts
  <2>1. hs[a][id] = 0
    <3>1. id \in TokenIds \ DOMAIN ts
      BY <1>3
    <3> QED
      BY <3>1 DEF TokensOk
  <2> QED
    BY <1>1, <2>1
<1>4. CASE id \in DOMAIN ts
  <2>2. ts[id] \in Asset
    BY <1>1, <1>4, Listed
  <2>3. ts[id].owner \in Accounts /\ ts[id].supply \in 0..IntMax
    BY <2>2, Finite DEF Asset
  <2>4. Sum(fs[ts[id].owner]) \in Nat
    BY <1>1, <2>3, TranchesNat
  <2>5. Total(Column(hs, id)) + Sum(fs[ts[id].owner]) = ts[id].supply
    BY <1>4 DEF TokensOk, Backing
  <2> DEFINE x == hs[a][id]
             y == Total(Column(hs, id))
             z == Sum(fs[ts[id].owner])
             s == ts[id].supply
  <2>6. x \in Nat /\ x <= y /\ y \in Nat /\ z \in Nat /\ y + z = s /\ s \in 0..IntMax /\ IntMax \in Nat
    BY <1>1, <1>2, <2>3, <2>4, <2>5
  <2> HIDE DEF x, y, z, s
  <2>7. x \in 0..IntMax
    BY <2>6
  <2> QED
    BY <2>7 DEF x
<1> QED
  BY <1>3, <1>4

\* Tokens from one account to another.
LEMMA TokensMove ==
    ASSUME NEW ts, NEW hs, NEW fs, TokensOk(ts, hs, fs), NEW a \in Accounts, NEW b \in Accounts, a # b,
           NEW id \in DOMAIN ts, NEW x \in Nat, x <= hs[a][id]
    PROVE  TokensOk(ts, [[hs EXCEPT ![a][id] = @ - x] EXCEPT ![b][id] = @ + x], fs)
<1> DEFINE y == hs[a][id] - x
           gs == [hs EXCEPT ![a][id] = y]
           u == gs[b][id] + x
           ks == [gs EXCEPT ![b][id] = u]
<1>10. ks = [[hs EXCEPT ![a][id] = @ - x] EXCEPT ![b][id] = @ + x]
  OBVIOUS
<1>1. hs \in [Accounts -> [TokenIds -> Nat]] /\ id \in TokenIds
  BY DEF TokensOk
<1>2. hs[a][id] \in Nat /\ y \in Nat /\ y = hs[a][id] - x
  BY <1>1
<1>11. gs = [hs EXCEPT ![a][id] = y]
  OBVIOUS
<1>12. ks = [gs EXCEPT ![b][id] = u] /\ u = gs[b][id] + x
  OBVIOUS
<1> HIDE DEF y, gs, u, ks
<1>3. /\ gs \in [Accounts -> [TokenIds -> Nat]] /\ gs[a][id] = y
      /\ \A z \in Accounts : \A i \in TokenIds : (z # a \/ i # id) => gs[z][i] = hs[z][i]
      /\ Total(Column(gs, id)) = Total(Column(hs, id)) - hs[a][id] + y
      /\ Total(Column(hs, id)) \in Nat
      /\ \A i \in TokenIds : i # id => Column(gs, i) = Column(hs, i)
  <2>1. Moved(hs, gs, a, id, y)
    BY <1>1, <1>2, <1>11, HoldingMoves
  <2> QED
    BY <2>1 DEF Moved
<1>4. gs[b][id] \in Nat /\ u \in Nat
  BY <1>1, <1>3, <1>12
<1>5. /\ ks \in [Accounts -> [TokenIds -> Nat]] /\ ks[b][id] = u
      /\ \A z \in Accounts : \A i \in TokenIds : (z # b \/ i # id) => ks[z][i] = gs[z][i]
      /\ Total(Column(ks, id)) = Total(Column(gs, id)) - gs[b][id] + u
      /\ Total(Column(gs, id)) \in Nat
      /\ \A i \in TokenIds : i # id => Column(ks, i) = Column(gs, i)
  <2>1. Moved(gs, ks, b, id, u)
    BY <1>1, <1>3, <1>4, <1>12, HoldingMoves
  <2> QED
    BY <2>1 DEF Moved
<1>6. Total(Column(ks, id)) = Total(Column(hs, id))
  BY <1>2, <1>3, <1>4, <1>5, <1>12
<1>7. ASSUME NEW i \in TokenIds \ DOMAIN ts, NEW z \in Accounts PROVE ks[z][i] = 0
  <2>1. i # id /\ i \in TokenIds
    OBVIOUS
  <2>2. hs[z][i] = 0
    BY DEF TokensOk
  <2> QED
    BY <1>3, <1>5, <2>1, <2>2
<1>8. ASSUME NEW i \in DOMAIN ts
      PROVE  Backing(ks, fs, i, ts[i].owner) = ts[i].supply
  <2>0. i \in TokenIds
    BY DEF TokensOk
  <2>1. Column(ks, i) = Column(hs, i) \/ i = id
    BY <1>3, <1>5, <2>0
  <2>2. Total(Column(ks, i)) = Total(Column(hs, i))
    BY <1>6, <2>1
  <2> QED
    BY <2>2 DEF TokensOk, Backing
<1>9. TokensOk(ts, ks, fs)
  BY <1>5, <1>7, <1>8 DEF TokensOk
<1> QED
  BY <1>9, <1>10

LEMMA TokensGood ==
    ASSUME NEW w, Good(w, head, params), NEW a \in Accounts, NEW b \in Accounts, a # b,
           NEW id \in DOMAIN w.assets, NEW x \in Nat, x <= w.holding[a][id]
    PROVE  LET v == TransferAsset(w, a, b, id, x)
           IN /\ Good(v, head, params) /\ v.exists = w.exists \cup {b} /\ v.burned = w.burned
              /\ v.balance = w.balance
<1> DEFINE v == TransferAsset(w, a, b, id, x)
<1>1. IsWorld(w) /\ TokensOk(w.assets, w.holding, w.frozen) /\ TitlesOk(w.assets, w.exists, params)
      /\ SunOk(w.balance, w.burned, w.exists)
  BY DEF Good
<1>2. /\ IsWorld(v) /\ v.holding = [[w.holding EXCEPT ![a][id] = @ - x] EXCEPT ![b][id] = @ + x]
      /\ v.burned = w.burned /\ v.balance = w.balance
      /\ v.exists = w.exists \cup {b} /\ v.net = w.net /\ v.stakedNet = w.stakedNet /\ v.energy = w.energy
      /\ v.assets = w.assets /\ v.assetNet = w.assetNet /\ v.frozen = w.frozen
      /\ v.permissions = w.permissions /\ v.name = w.name /\ v.names = w.names /\ v.ids = w.ids
      /\ v.contracts = w.contracts
  BY <1>1 DEF IsWorld, TransferAsset
<1> HIDE DEF v
<1>3. TokensOk(v.assets, v.holding, v.frozen)
  BY <1>1, <1>2, TokensMove
<1>4. TitlesOk(v.assets, v.exists, params) /\ SunOk(v.balance, v.burned, v.exists)
  BY <1>1, <1>2 DEF TitlesOk, SunOk
<1>5. Good(v, head, params)
  BY <1>2, <1>3, <1>4 DEF Good
<1> QED
  BY <1>2, <1>5 DEF v

\* What a bill leaves, for the rules of the contract.
LEMMA BilledIs ==
    ASSUME WalletInv, NEW a \in Callers, NEW type, NEW e, NEW creates, NEW id,
           creates \/ id = 0 \/ id \in DOMAIN world.assets, NEW w \in Billed(a, type, e, creates, id)
    PROVE  /\ Good(w, head, params) /\ w.exists = world.exists /\ w.contracts = world.contracts
           /\ a \in w.exists /\ a \in Accounts /\ a \notin Contracts
           /\ w.burned \in Nat /\ world.burned \in Nat /\ w.burned >= world.burned
<1>1. Good(world, head, params) /\ a \in Accounts /\ a \notin Contracts
  BY Finite DEF WalletInv
<1>2. Pays(world, w) /\ a \in w.exists
  BY <1>1, BilledPays
<1> QED
  BY <1>1, <1>2 DEF Pays, Good, SunOk

LEMMA TransferAssetSound ==
    ASSUME WalletInv, NEW a \in Callers, NEW b \in Callers, NEW id \in TokenIds, NEW x \in Amounts, NEW e,
           TransferAssetContract(a, b, id, x, e)
    PROVE  Upheld(world') /\ UNCHANGED <<params, head>>
<1> DEFINE creates == b \notin world.exists
           fee == Fees["newAccount"]
           of == IF creates THEN 0 ELSE id
<1>1. creates \/ AssetNamed(world, id)
  BY DEF TransferAssetContract
<1>2. PICK w \in Billed(a, "asset", e, creates, of) :
         /\ TransferAssetOk(w, a, b, id, x, creates)
         /\ Accepted(ExtraFee(TransferAsset(w, a, b, id, x), a, creates))
  BY DEF TransferAssetContract
<1>3. creates \/ of = 0 \/ of \in DOMAIN world.assets
  BY <1>1 DEF AssetNamed
<1> HIDE DEF of, creates
<1>4. /\ Good(w, head, params) /\ w.exists = world.exists /\ w.contracts = world.contracts
      /\ a \in w.exists /\ a \in Accounts /\ a \notin Contracts
      /\ w.burned \in Nat /\ world.burned \in Nat /\ w.burned >= world.burned
  BY <1>2, <1>3, BilledIs
<1>5. /\ x \in Nat /\ fee \in Nat /\ a # b /\ b \in Accounts /\ id \in DOMAIN w.assets
      /\ x <= w.holding[a][id]
      /\ creates => w.balance[a] >= fee
  <2>1. x \in Nat /\ fee \in Nat /\ b \in Accounts
    BY WalletAssumption, FeesNat, Finite
  <2> QED
    BY <1>2, <2>1 DEF TransferAssetOk, AssetNamed
<1> DEFINE v == TransferAsset(w, a, b, id, x)
<1>6. Good(v, head, params) /\ v.exists = w.exists \cup {b} /\ v.burned = w.burned /\ v.balance = w.balance
  BY <1>4, <1>5, TokensGood
<1> HIDE DEF v
<1>7. a \in v.exists /\ (creates => v.balance[a] >= fee)
  BY <1>4, <1>5, <1>6
<1> DEFINE z == ExtraFee(v, a, creates)
<1>8. /\ Good(z, head, params) /\ z.exists = v.exists
      /\ creates => z.burned = v.burned + fee
  BY <1>6, <1>7, ExtraFeeIs
<1>9. world' = z /\ UNCHANGED <<params, head>>
  BY <1>2 DEF Accepted, v
<1> HIDE DEF z
<1>10. CASE creates
  <2>1. z.burned >= world.burned + fee
    BY <1>4, <1>5, <1>6, <1>8, <1>10
  <2> QED
    BY <1>8, <1>9, <2>1 DEF Upheld
<1>11. CASE ~creates
  <2>1. z.exists = world.exists
    BY <1>4, <1>6, <1>8, <1>11 DEF creates
  <2> QED
    BY <1>8, <1>9, <2>1 DEF Upheld
<1> QED
  BY <1>10, <1>11

LEMMA ParticipateSound ==
    ASSUME WalletInv, NEW a \in Callers, NEW id \in TokenIds, NEW sun \in Amounts, NEW e,
           ParticipateAssetIssueContract(a, id, sun, e)
    PROVE  Upheld(world') /\ UNCHANGED <<params, head>>
<1>1. PICK w \in Billed(a, "asset", e, FALSE, 0) :
         /\ AssetNamed(w, id)
         /\ LET meta == w.assets[id]
                tokens == Bought(meta, sun)
            IN /\ meta.owner # a /\ w.balance[a] >= sun
               /\ meta.start <= head /\ head < meta.end
               /\ sun * meta.num <= IntMax /\ tokens > 0
               /\ w.holding[meta.owner][id] >= tokens
               /\ w.balance[meta.owner] + sun <= IntMax
               /\ Accepted(TransferAsset(MoveBalance(w, a, meta.owner, sun), meta.owner, a, id, tokens))
  BY DEF ParticipateAssetIssueContract
<1>2. /\ Good(w, head, params) /\ w.exists = world.exists /\ w.contracts = world.contracts
      /\ a \in w.exists /\ a \in Accounts /\ a \notin Contracts
      /\ w.burned \in Nat /\ world.burned \in Nat /\ w.burned >= world.burned
  BY <1>1, BilledIs
<1> DEFINE o == w.assets[id].owner
           tokens == Bought(w.assets[id], sun)
<1>3. /\ id \in DOMAIN w.assets /\ o # a /\ w.balance[a] >= sun /\ w.balance[o] + sun <= IntMax
      /\ w.holding[o][id] >= tokens
      /\ world' = TransferAsset(MoveBalance(w, a, o, sun), o, a, id, tokens)
      /\ UNCHANGED <<params, head>>
  BY <1>1 DEF AssetNamed, Accepted
<1>4. /\ w.assets \in Seq(Asset) /\ w.holding \in [Accounts -> [TokenIds -> Nat]]
      /\ w.balance \in [Accounts -> Nat] /\ o \in w.exists
  BY <1>2, <1>3 DEF Good, TokensOk, SunOk, TitlesOk
<1>5. w.assets[id] \in Asset
  BY <1>3, <1>4, Listed
<1>6. o \in Accounts /\ w.assets[id].num \in Nat /\ w.assets[id].trxNum \in Nat \ {0}
  BY <1>5, Finite DEF Asset
<1>7. sun \in Nat
  BY WalletAssumption
<1>8. tokens \in Nat
  <2> DEFINE p == sun * w.assets[id].num
             q == w.assets[id].trxNum
  <2>1. p \in Nat /\ q \in Nat \ {0}
    BY <1>6, <1>7, Product
  <2>2. tokens = p \div q
    BY DEF Bought
  <2> HIDE DEF p, q, tokens
  <2> QED
    BY <2>1, <2>2, Divides
<1>9. sun <= w.balance[a] /\ tokens <= w.holding[o][id]
  <2>1. w.balance[a] \in Nat /\ w.holding[o][id] \in Nat
    BY <1>2, <1>4, <1>6
  <2> HIDE DEF o, tokens
  <2> QED
    BY <1>3, <1>7, <1>8, <2>1
<1> HIDE DEF o, tokens
<1> DEFINE u == MoveBalance(w, a, o, sun)
<1>10. /\ Good(u, head, params) /\ u.exists = w.exists \cup {o}
       /\ u.assets = w.assets /\ u.holding = w.holding
  BY <1>2, <1>3, <1>6, <1>7, <1>9, MoveGood
<1>11. id \in DOMAIN u.assets /\ tokens <= u.holding[o][id] /\ o # a /\ world' = TransferAsset(u, o, a, id, tokens)
  BY <1>3, <1>9, <1>10
<1> HIDE DEF u
<1> DEFINE v == TransferAsset(u, o, a, id, tokens)
<1>12. Good(v, head, params) /\ v.exists = u.exists \cup {a}
  BY <1>2, <1>6, <1>8, <1>10, <1>11, TokensGood
<1> HIDE DEF v
<1>13. v.exists = world.exists
  BY <1>2, <1>4, <1>10, <1>12
<1>14. Upheld(v)
  BY <1>12, <1>13 DEF Upheld
<1> QED
  BY <1>3, <1>11, <1>14 DEF v

LEMMA AccountUpdateSound ==
    ASSUME WalletInv, NEW a \in Callers, NEW n \in Names, NEW e, AccountUpdateContract(a, n, e)
    PROVE  Upheld(world') /\ UNCHANGED <<params, head>>
<1>1. PICK w \in Billed(a, "account", e, FALSE, 0) :
         /\ NameFree(w, a, n)
         /\ Accepted([w EXCEPT !.name[a] = n, !.names = With(@, n, a)])
  BY DEF AccountUpdateContract
<1>2. Good(w, head, params) /\ w.exists = world.exists /\ a \in Accounts
  BY <1>1, BilledIs
<1> DEFINE v == [w EXCEPT !.name[a] = n, !.names = With(@, n, a)]
<1>3. /\ IsWorld(v) /\ v.name = [w.name EXCEPT ![a] = n] /\ v.names = With(w.names, n, a)
      /\ v.exists = w.exists /\ v.balance = w.balance /\ v.burned = w.burned
      /\ v.net = w.net /\ v.stakedNet = w.stakedNet /\ v.energy = w.energy
      /\ v.assets = w.assets /\ v.holding = w.holding /\ v.assetNet = w.assetNet /\ v.frozen = w.frozen
      /\ v.permissions = w.permissions /\ v.ids = w.ids /\ v.contracts = w.contracts
  <2>1. IsWorld(w)
    BY <1>2 DEF Good
  <2> QED
    BY <2>1 DEF IsWorld
<1>4. world' = v /\ UNCHANGED <<params, head>>
  BY <1>1 DEF Accepted
<1> HIDE DEF v
<1> DEFINE names == With(w.names, n, a)
<1>5. DOMAIN names = DOMAIN w.names \cup {n}
  BY DEF With
<1>6. NamesOk(w.name, w.names, w.ids, params)
  BY <1>2 DEF Good
<1> DEFINE name == [w.name EXCEPT ![a] = n]
<1>7. /\ name \in [Accounts -> Names \cup {""}] /\ name[a] = n
      /\ \A z \in Accounts : z # a => name[z] = w.name[z]
  BY <1>2, <1>6 DEF NamesOk
<1> HIDE DEF names, name
<1>8. ASSUME NEW z \in Accounts, ~params.updateAccountName, name[z] # ""
      PROVE  name[z] \in DOMAIN names /\ \A b \in Accounts : name[b] = name[z] => z = b
  <2>1. n \notin DOMAIN w.names
    BY <1>1, <1>8 DEF NameFree
  <2>2. \A y \in Accounts : w.name[y] # "" =>
           w.name[y] \in DOMAIN w.names /\ \A b \in Accounts : w.name[b] = w.name[y] => y = b
    BY <1>6, <1>8 DEF NamesOk
  <2>3. CASE z = a
    <3>1. ASSUME NEW b \in Accounts, name[b] = name[z] PROVE z = b
      BY <1>7, <1>8, <2>1, <2>2, <2>3, <3>1
    <3> QED
      BY <1>5, <1>7, <2>3, <3>1
  <2>4. CASE z # a
    <3>1. name[z] = w.name[z] /\ w.name[z] \in DOMAIN w.names
      BY <1>7, <1>8, <2>2, <2>4
    <3>2. ASSUME NEW b \in Accounts, name[b] = name[z] PROVE z = b
      BY <1>7, <1>8, <2>1, <2>2, <3>1, <3>2
    <3> QED
      BY <1>5, <3>1, <3>2
  <2> QED
    BY <2>3, <2>4
<1>9. NamesOk(v.name, v.names, v.ids, params)
  <2>1. IdsOk(v.ids)
    BY <1>3, <1>6 DEF NamesOk
  <2>2. v.name = name /\ v.names = names
    BY <1>3 DEF name, names
  <2> QED
    BY <1>7, <1>8, <2>1, <2>2 DEF NamesOk
<1>10. Good(v, head, params)
  BY <1>2, <1>3, <1>9 DEF Good
<1>11. Upheld(v)
  BY <1>2, <1>3, <1>10 DEF Upheld
<1> QED
  BY <1>4, <1>11

LEMMA SetAccountIdSound ==
    ASSUME WalletInv, NEW a \in Callers, NEW id, NEW e, SetAccountIdContract(a, id, e)
    PROVE  Upheld(world') /\ UNCHANGED <<params, head>>
<1>1. PICK w \in Billed(a, "account", e, FALSE, 0) :
         /\ \A i \in DOMAIN w.ids : w.ids[i] # a /\ IdKey(i) # IdKey(id)
         /\ Accepted([w EXCEPT !.ids = With(@, id, a)])
  BY DEF SetAccountIdContract
<1>2. Good(w, head, params) /\ w.exists = world.exists /\ a \in Accounts
  BY BilledIs
<1> DEFINE v == [w EXCEPT !.ids = With(@, id, a)]
<1>3. /\ IsWorld(v) /\ v.ids = With(w.ids, id, a) /\ v.name = w.name /\ v.names = w.names
      /\ v.exists = w.exists /\ v.balance = w.balance /\ v.burned = w.burned
      /\ v.net = w.net /\ v.stakedNet = w.stakedNet /\ v.energy = w.energy
      /\ v.assets = w.assets /\ v.holding = w.holding /\ v.assetNet = w.assetNet /\ v.frozen = w.frozen
      /\ v.permissions = w.permissions /\ v.contracts = w.contracts
  <2>1. IsWorld(w)
    BY <1>2 DEF Good
  <2> QED
    BY <2>1 DEF IsWorld
<1>4. world' = v /\ UNCHANGED <<params, head>>
  BY <1>1 DEF Accepted
<1> HIDE DEF v
<1> DEFINE ids == With(w.ids, id, a)
<1>5. DOMAIN ids = DOMAIN w.ids \cup {id} /\ ids[id] = a /\ \A i \in DOMAIN w.ids : i # id => ids[i] = w.ids[i]
  BY DEF With
<1>6. NamesOk(w.name, w.names, w.ids, params)
  BY <1>2 DEF Good
<1>7. \A i, j \in DOMAIN w.ids : i # j => w.ids[i] # w.ids[j] /\ IdKey(i) # IdKey(j)
  BY <1>6 DEF NamesOk, IdsOk
<1> HIDE DEF ids
<1>8. IdsOk(ids)
  BY <1>1, <1>5, <1>7 DEF IdsOk
<1>9. NamesOk(v.name, v.names, v.ids, params)
  BY <1>3, <1>6, <1>8 DEF NamesOk, ids
<1>10. Good(v, head, params)
  BY <1>2, <1>3, <1>9 DEF Good
<1>11. Upheld(v)
  BY <1>2, <1>3, <1>10 DEF Upheld
<1> QED
  BY <1>4, <1>11

LEMMA PermissionUpdateSound ==
    ASSUME WalletInv, NEW a \in Callers, NEW ps \in PermissionSets, NEW e,
           AccountPermissionUpdateContract(a, ps, e)
    PROVE  Upheld(world') /\ UNCHANGED <<params, head>>
<1>1. PICK w \in Billed(a, "permission", e, FALSE, 0) :
         /\ \A id \in DOMAIN ps : PermissionOk(ps[id])
         /\ \E v \in Burn(w, a, Fees["permission"]) : Accepted([v EXCEPT !.permissions[a] = ps])
  BY DEF AccountPermissionUpdateContract
<1>2. PICK v \in Burn(w, a, Fees["permission"]) : Accepted([v EXCEPT !.permissions[a] = ps])
  BY <1>1
<1>3. Good(w, head, params) /\ w.exists = world.exists /\ a \in Accounts
  BY <1>1, BilledIs
<1>4. Pays(w, v)
  BY <1>2, <1>3, FeesNat, BurnPays
<1>5. Good(v, head, params) /\ v.exists = world.exists
  BY <1>3, <1>4 DEF Pays
<1> DEFINE z == [v EXCEPT !.permissions[a] = ps]
<1>6. /\ IsWorld(z) /\ z.exists = v.exists /\ z.balance = v.balance /\ z.burned = v.burned
      /\ z.net = v.net /\ z.stakedNet = v.stakedNet /\ z.energy = v.energy
      /\ z.assets = v.assets /\ z.holding = v.holding /\ z.assetNet = v.assetNet /\ z.frozen = v.frozen
      /\ z.permissions = [v.permissions EXCEPT ![a] = ps]
      /\ z.name = v.name /\ z.names = v.names /\ z.ids = v.ids /\ z.contracts = v.contracts
  <2>1. IsWorld(v)
    BY <1>5 DEF Good
  <2> QED
    BY <2>1 DEF IsWorld
<1>7. world' = z /\ UNCHANGED <<params, head>>
  BY <1>2 DEF Accepted
<1> HIDE DEF z
<1>8. PermissionsOk(z.permissions)
  <2>1. PermissionsOk(v.permissions)
    BY <1>5 DEF Good
  <2> QED
    BY <1>1, <1>6, <2>1 DEF PermissionsOk
<1>9. Good(z, head, params)
  BY <1>5, <1>6, <1>8 DEF Good
<1>10. Upheld(z)
  BY <1>5, <1>6, <1>9 DEF Upheld
<1> QED
  BY <1>7, <1>10

\* An issuer issues once: there is an id for everybody.
LEMMA IdsSuffice ==
    ASSUME NEW ts \in Seq(Asset), NEW a \in Callers,
           \A i, j \in DOMAIN ts : ts[i].owner = ts[j].owner => i = j,
           \A i \in DOMAIN ts : ts[i].owner # a
    PROVE  Len(ts) + 1 \in TokenIds
<1> DEFINE n == Len(ts)
           f == [i \in 1..(n + 1) |-> IF i = n + 1 THEN a ELSE ts[i].owner]
<1>1. DOMAIN ts = 1..n /\ n \in Nat
  BY LenProperties
<1>2. \A i \in 1..n : ts[i].owner \in Callers
  <2>1. ASSUME NEW i \in 1..n PROVE ts[i].owner \in Callers
    <3>1. ts[i] \in Asset
      BY ElementOfSeq
    <3> QED
      BY <3>1 DEF Asset
  <2> QED
    BY <2>1
<1> HIDE DEF n
<1>3. \A i \in 1..(n + 1) : i = n + 1 \/ i \in 1..n
  BY <1>1
<1>4. f \in [1..(n + 1) -> Callers]
  BY <1>2, <1>3
<1>5. ASSUME NEW i \in 1..(n + 1), NEW j \in 1..(n + 1), f[i] = f[j] PROVE i = j
  BY <1>1, <1>3, <1>5
<1> HIDE DEF f
<1>6. f \in Injection(1..(n + 1), Callers)
  BY <1>4, <1>5 DEF Injection, IsInjective
<1>7. Cardinality(1..(n + 1)) <= Cardinality(Callers)
  BY <1>6, Finite, FS_Injection
<1>8. Cardinality(1..(n + 1)) = n + 1
  <2> DEFINE k == n + 1
  <2>1. 1 \in Int /\ k \in Int /\ ~(1 > k) /\ k - 1 + 1 = k
    BY <1>1
  <2> HIDE DEF k
  <2>2. Cardinality(1..k) = IF 1 > k THEN 0 ELSE k - 1 + 1
    BY <2>1, FS_Interval
  <2>3. Cardinality(1..k) = k
    BY <2>1, <2>2
  <2> QED
    BY <2>3 DEF k
<1>9. Cardinality(Callers) \in Nat
  BY Finite, FS_CardinalityType
<1>10. n + 1 \in 1..Cardinality(Callers)
  BY <1>1, <1>7, <1>8, <1>9
<1> QED
  BY <1>10 DEF TokenIds, Callers, n

\* One more asset, what of it is not locked held by its issuer.
LEMMA TokensIssued ==
    ASSUME NEW ts, NEW hs, NEW fs, TokensOk(ts, hs, fs), NEW m \in Asset,
           \A i \in DOMAIN ts : ts[i].owner # m.owner,
           NEW y \in Nat, NEW tr \in Seq(Tranche), y + Sum(tr) = m.supply
    PROVE  TokensOk(Append(ts, m), [hs EXCEPT ![m.owner][Len(ts) + 1] = y], [fs EXCEPT ![m.owner] = tr])
<1> DEFINE o == m.owner
           id == Len(ts) + 1
           bs == Append(ts, m)
           gs == [hs EXCEPT ![o][id] = y]
           es == [fs EXCEPT ![o] = tr]
<1>1. /\ ts \in Seq(Asset) /\ hs \in [Accounts -> [TokenIds -> Nat]]
      /\ fs \in [Accounts -> Seq(Tranche)] /\ DOMAIN ts \subseteq TokenIds
      /\ \A i, j \in DOMAIN ts : ts[i].owner = ts[j].owner => i = j
      /\ \A i \in TokenIds \ DOMAIN ts : \A z \in Accounts : hs[z][i] = 0
      /\ \A i \in DOMAIN ts : Backing(hs, fs, i, ts[i].owner) = ts[i].supply
  BY DEF TokensOk
<1>2. o \in Callers /\ o \in Accounts
  BY Finite DEF Asset
<1>3. id \in TokenIds
  BY <1>1, <1>2, IdsSuffice
<1>4. /\ bs \in Seq(Asset) /\ DOMAIN bs = DOMAIN ts \cup {id} /\ id \notin DOMAIN ts
      /\ bs[id] = m /\ \A i \in DOMAIN ts : bs[i] = ts[i]
  <2>1. Len(ts) \in Nat /\ DOMAIN ts = 1..Len(ts)
    BY <1>1, LenProperties
  <2>2. bs \in Seq(Asset) /\ Len(bs) = id /\ bs[id] = m /\ \A i \in 1..Len(ts) : bs[i] = ts[i]
    BY <1>1, AppendProperties
  <2>3. DOMAIN bs = 1..id
    BY <2>2, LenProperties
  <2> HIDE DEF bs
  <2> QED
    BY <2>1, <2>2, <2>3
<1>9. gs = [hs EXCEPT ![o][id] = y]
  OBVIOUS
<1> HIDE DEF bs, id, gs, o
<1>5. Moved(hs, gs, o, id, y)
  BY <1>1, <1>2, <1>3, <1>9, HoldingMoves
<1>6. es \in [Accounts -> Seq(Tranche)] /\ es[o] = tr /\ \A z \in Accounts : z # o => es[z] = fs[z]
  BY <1>1, <1>2
<1> HIDE DEF es
<1>7. \A i, j \in DOMAIN bs : bs[i].owner = bs[j].owner => i = j
  BY <1>1, <1>4 DEF o
<1>8. ASSUME NEW i \in TokenIds \ DOMAIN bs, NEW z \in Accounts PROVE gs[z][i] = 0
  <2>1. i \in TokenIds \ DOMAIN ts /\ i # id
    BY <1>4
  <2>2. gs[z][i] = hs[z][i]
    BY <1>5, <2>1 DEF Moved
  <2> QED
    BY <1>1, <2>1, <2>2
<1>10. ASSUME NEW i \in DOMAIN bs PROVE Backing(gs, es, i, bs[i].owner) = bs[i].supply
  <2>1. CASE i = id
    <3>1. \A z \in Accounts : hs[z][id] = 0
      BY <1>1, <1>3, <1>4
    <3>2. Total(Column(hs, id)) = 0
      <4>1. DOMAIN Column(hs, id) = Accounts /\ \A z \in Accounts : Column(hs, id)[z] = 0
        BY <3>1 DEF Column
      <4>2. LedgerOf(Column(hs, id))
        BY <4>1, Finite DEF LedgerOf
      <4> QED
        BY <4>1, <4>2, TotalZero
    <3>3. hs[o][id] = 0
      BY <1>2, <3>1
    <3>4. Total(Column(gs, id)) = y
      BY <1>5, <3>2, <3>3 DEF Moved
    <3>5. bs[i].owner = o /\ bs[i].supply = m.supply
      BY <1>4, <2>1 DEF o
    <3> QED
      BY <2>1, <3>4, <3>5, <1>6 DEF Backing
  <2>2. CASE i # id
    <3>1. i \in DOMAIN ts /\ bs[i] = ts[i]
      BY <1>4, <2>2
    <3>2. ts[i] \in Asset
      BY <1>1, <3>1, Listed
    <3>3. ts[i].owner \in Accounts /\ ts[i].owner # o
      BY <3>1, <3>2, Finite DEF Asset, o
    <3>4. Column(gs, i) = Column(hs, i)
      BY <1>1, <1>5, <2>2, <3>1 DEF Moved
    <3> QED
      BY <1>1, <1>6, <3>1, <3>3, <3>4 DEF Backing
  <2> QED
    BY <2>1, <2>2
<1>11. gs \in [Accounts -> [TokenIds -> Nat]]
  BY <1>5 DEF Moved
<1>12. DOMAIN bs \subseteq TokenIds
  BY <1>1, <1>3, <1>4
<1>13. TokensOk(bs, gs, es)
  BY <1>4, <1>6, <1>7, <1>8, <1>10, <1>11, <1>12 DEF TokensOk
<1> QED
  BY <1>13 DEF bs, gs, es, id, o

\* What an issuer's tranches add up to.
LEMMA TranchesAre ==
    ASSUME NEW i \in Issues
    PROVE  /\ Tranches(i) \in Seq(Tranche) /\ Sum(Tranches(i)) = Sum(i.frozen)
           /\ Sum(i.frozen) \in Nat
<1> DEFINE D == DOMAIN i.frozen
<1>1. i.frozen \in Seq([amount : Nat, days : Nat]) /\ i.start \in Nat
  BY WalletAssumption
<1>2. D = 1..Len(i.frozen) /\ Len(i.frozen) \in Nat
  BY <1>1, LenProperties
<1>3. \A t \in D : i.frozen[t].amount \in Nat /\ i.frozen[t].days \in Nat
  <2>1. \A t \in D : i.frozen[t] \in [amount : Nat, days : Nat]
    BY <1>1, Listed
  <2> QED
    BY <2>1
<1>4. \A t \in D : [amount |-> i.frozen[t].amount, expire |-> i.start + i.frozen[t].days] \in Tranche
  <2>1. ASSUME NEW t \in D
        PROVE  [amount |-> i.frozen[t].amount, expire |-> i.start + i.frozen[t].days] \in Tranche
    <3> DEFINE x == i.frozen[t].amount
               y == i.start + i.frozen[t].days
    <3>1. x \in Nat /\ y \in Nat
      BY <1>1, <1>3
    <3> HIDE DEF x, y
    <3>2. [amount |-> x, expire |-> y] \in Tranche
      BY <3>1 DEF Tranche
    <3> QED
      BY <3>2 DEF x, y
  <2> QED
    BY <2>1
<1>5. Tranches(i) \in [1..Len(i.frozen) -> Tranche]
  BY <1>2, <1>4 DEF Tranches
<1>6. Tranches(i) \in Seq(Tranche)
  BY <1>2, <1>5, SeqDef
<1>7. [t \in DOMAIN Tranches(i) |-> Tranches(i)[t].amount] = [t \in D |-> i.frozen[t].amount]
  BY DEF Tranches
<1>8. Amounted([amount : Nat, days : Nat])
  BY DEF Amounted
<1>9. Sum(i.frozen) \in Nat
  BY <1>1, <1>8, SumNat
<1> QED
  BY <1>6, <1>7, <1>9 DEF Sum

\* The asset an issuance makes.
Issued(a, i) == [owner |-> a, name |-> i.name, supply |-> i.supply,
                 num |-> i.num, trxNum |-> i.trxNum, start |-> i.start,
                 end |-> i.end, freeLimit |-> i.freeLimit,
                 publicLimit |-> i.publicLimit, pool |-> Unused]

LEMMA IssuedIs ==
    ASSUME NEW a \in Callers, NEW i \in Issues
    PROVE  /\ Issued(a, i) \in Asset /\ Issued(a, i).owner = a /\ Issued(a, i).name = i.name
           /\ Issued(a, i).supply = i.supply /\ Issued(a, i).pool = Unused /\ i.supply \in Nat
<1>1. /\ i.supply \in 0..IntMax /\ i.num \in Nat /\ i.trxNum \in Nat \ {0} /\ i.start \in Nat /\ i.end \in Nat
      /\ i.freeLimit \in Nat /\ i.publicLimit \in Nat
  BY WalletAssumption
<1>2. i.name \in IssueNames
  BY DEF IssueNames
<1>3. Unused \in Usage
  BY DEF Unused, Usage
<1>4. i.supply \in Nat
  BY <1>1, WalletAssumption
<1> QED
  BY <1>1, <1>2, <1>3, <1>4 DEF Issued, Asset

LEMMA AssetIssueSound ==
    ASSUME WalletInv, NEW a \in Callers, NEW i \in Issues, NEW e, AssetIssueContract(a, i, e)
    PROVE  Upheld(world') /\ UNCHANGED <<params, head>>
<1>1. PICK w \in Billed(a, "asset", e, FALSE, 0) :
         /\ IssueOk(w, a, i)
         /\ \E v \in Burn(w, a, Fees["issue"]) :
               LET id == Len(v.assets) + 1
               IN Accepted([v EXCEPT !.assets = Append(@, Issued(a, i)),
                                     !.holding[a][id] = UnfrozenSupply(i), !.frozen[a] = Tranches(i)])
  BY DEF AssetIssueContract, Issued
<1>2. PICK v \in Burn(w, a, Fees["issue"]) :
         LET id == Len(v.assets) + 1
         IN Accepted([v EXCEPT !.assets = Append(@, Issued(a, i)),
                               !.holding[a][id] = UnfrozenSupply(i), !.frozen[a] = Tranches(i)])
  BY <1>1
<1>3. Good(w, head, params) /\ w.exists = world.exists /\ a \in Accounts /\ a \in w.exists
  BY BilledIs
<1>4. Pays(w, v) /\ v.assets = w.assets
  <2>1. Pays(w, v)
    BY <1>3, FeesNat, BurnPays
  <2>2. v.assets = w.assets
    BY <1>3 DEF Burn, Good, IsWorld
  <2> QED
    BY <2>1, <2>2
<1>5. Good(v, head, params) /\ v.exists = world.exists /\ a \in v.exists
  BY <1>3, <1>4 DEF Pays
<1> DEFINE m == Issued(a, i)
           id == Len(v.assets) + 1
           y == UnfrozenSupply(i)
           tr == Tranches(i)
           z == [v EXCEPT !.assets = Append(@, m), !.holding[a][id] = y, !.frozen[a] = tr]
<1>6. world' = z /\ UNCHANGED <<params, head>>
  BY <1>2 DEF Accepted
<1>7. /\ m \in Asset /\ m.owner = a /\ m.name = i.name /\ m.supply = i.supply /\ m.pool = Unused
      /\ i.supply \in Nat
  BY IssuedIs
<1>8. tr \in Seq(Tranche) /\ Sum(tr) \in Nat /\ Sum(tr) = Sum(i.frozen)
  BY TranchesAre
<1>9. y \in Nat /\ y + Sum(tr) = m.supply
  <2>1. Sum(i.frozen) <= i.supply /\ y = i.supply - Sum(i.frozen)
    BY <1>1 DEF IssueOk, UnfrozenSupply
  <2> HIDE DEF y, tr, m
  <2> QED
    BY <1>7, <1>8, <2>1
<1> HIDE DEF m, y, tr, id
<1>10. /\ IsWorld(z) /\ z.assets = Append(v.assets, m) /\ z.holding = [v.holding EXCEPT ![a][id] = y]
       /\ z.frozen = [v.frozen EXCEPT ![a] = tr]
       /\ z.exists = v.exists /\ z.balance = v.balance /\ z.burned = v.burned
       /\ z.net = v.net /\ z.stakedNet = v.stakedNet /\ z.energy = v.energy /\ z.assetNet = v.assetNet
       /\ z.permissions = v.permissions /\ z.name = v.name /\ z.names = v.names /\ z.ids = v.ids
       /\ z.contracts = v.contracts
  <2>1. IsWorld(v)
    BY <1>5 DEF Good
  <2> QED
    BY <2>1 DEF IsWorld
<1> HIDE DEF z
<1>11. /\ TokensOk(v.assets, v.holding, v.frozen) /\ TitlesOk(v.assets, v.exists, params)
       /\ PoolsOk(v.assets, v.stakedNet, head) /\ v.assets \in Seq(Asset)
       /\ v.stakedNet \in [Accounts -> Usage] /\ head \in Nat
  BY <1>5 DEF Good, TokensOk, QuotasOk
<1>12. \A j \in DOMAIN v.assets : v.assets[j].owner # m.owner
  BY <1>1, <1>4, <1>7 DEF IssueOk, IssuedBy
<1>13. TokensOk(z.assets, z.holding, z.frozen)
  <2>1. TokensOk(Append(v.assets, m), [v.holding EXCEPT ![m.owner][Len(v.assets) + 1] = y],
                 [v.frozen EXCEPT ![m.owner] = tr])
    BY <1>7, <1>8, <1>9, <1>11, <1>12, TokensIssued
  <2> QED
    BY <1>7, <1>10, <2>1 DEF id
<1> DEFINE bs == Append(v.assets, m)
<1>14. /\ DOMAIN bs = DOMAIN v.assets \cup {id} /\ id \notin DOMAIN v.assets
       /\ bs[id] = m /\ \A j \in DOMAIN v.assets : bs[j] = v.assets[j]
  <2> DEFINE ts == v.assets
  <2>0. ts \in Seq(Asset)
    BY <1>11
  <2> HIDE DEF ts
  <2>1. Len(ts) \in Nat /\ DOMAIN ts = 1..Len(ts)
    BY <2>0, LenProperties
  <2> DEFINE k == Len(ts) + 1
             cs == Append(ts, m)
  <2>2. cs \in Seq(Asset) /\ Len(cs) = k /\ cs[k] = m /\ \A j \in 1..Len(ts) : cs[j] = ts[j]
    BY <1>7, <2>0, AppendProperties
  <2>3. DOMAIN cs = 1..k
    BY <2>2, LenProperties
  <2> HIDE DEF cs
  <2>4. /\ DOMAIN cs = DOMAIN ts \cup {k} /\ k \notin DOMAIN ts
        /\ cs[k] = m /\ \A j \in DOMAIN ts : cs[j] = ts[j]
    BY <2>1, <2>2, <2>3
  <2> QED
    BY <2>4 DEF cs, ts, id
<1>15. z.assets = bs
  BY <1>10
<1> HIDE DEF bs
<1>16. TitlesOk(z.assets, z.exists, params)
  <2>1. \A j \in DOMAIN bs : bs[j].owner \in v.exists
    BY <1>5, <1>7, <1>11, <1>14 DEF TitlesOk
  <2>2. params.sameTokenName \/ \A j, k \in DOMAIN bs : bs[j].name = bs[k].name => j = k
    <3>1. params.sameTokenName \/ \A j \in DOMAIN v.assets : v.assets[j].name # m.name
      BY <1>1, <1>4, <1>7 DEF IssueOk, Named
    <3> QED
      BY <1>11, <1>14, <3>1 DEF TitlesOk
  <2> QED
    BY <1>10, <1>15, <2>1, <2>2 DEF TitlesOk
<1>17. PoolsOk(z.assets, z.stakedNet, head)
  <2>1. ASSUME NEW j \in DOMAIN bs
        PROVE  bs[j].pool.at <= head /\ NowAt(bs[j].pool, head) <= NowAt(v.stakedNet[bs[j].owner], head)
    <3>1. CASE j = id
      <4>1. bs[j].pool = Unused /\ bs[j].owner = a
        BY <1>7, <1>14, <3>1
      <4>2. v.stakedNet[a] \in Usage
        BY <1>3, <1>11
      <4>3. NowAt(v.stakedNet[a], head) \in Nat
        BY <1>11, <4>2, ChargedIs
      <4>4. Unused.at <= head /\ NowAt(Unused, head) = 0
        BY <1>11 DEF Unused, NowAt
      <4> QED
        BY <4>1, <4>3, <4>4
    <3>2. CASE j # id
      BY <3>2, <1>11, <1>14 DEF PoolsOk
    <3> QED
      BY <3>1, <3>2
  <2> QED
    BY <1>10, <1>15, <2>1 DEF PoolsOk
<1>18. Good(z, head, params)
  BY <1>5, <1>10, <1>13, <1>16, <1>17 DEF Good
<1>19. Upheld(z)
  BY <1>5, <1>10, <1>18 DEF Upheld
<1> QED
  BY <1>6, <1>19

\* Tranches of an issuer turn into holdings.
LEMMA TokensUnlocked ==
    ASSUME NEW ts, NEW hs, NEW fs, TokensOk(ts, hs, fs), NEW id \in DOMAIN ts, NEW a, a = ts[id].owner,
           NEW x \in Nat, NEW tr \in Seq(Tranche), x + Sum(tr) = Sum(fs[a])
    PROVE  TokensOk(ts, [hs EXCEPT ![a][id] = @ + x], [fs EXCEPT ![a] = tr])
<1> DEFINE y == hs[a][id] + x
           gs == [hs EXCEPT ![a][id] = y]
           es == [fs EXCEPT ![a] = tr]
<1>1. /\ ts \in Seq(Asset) /\ hs \in [Accounts -> [TokenIds -> Nat]]
      /\ fs \in [Accounts -> Seq(Tranche)] /\ DOMAIN ts \subseteq TokenIds
      /\ \A i, j \in DOMAIN ts : ts[i].owner = ts[j].owner => i = j
      /\ \A i \in TokenIds \ DOMAIN ts : \A z \in Accounts : hs[z][i] = 0
      /\ \A i \in DOMAIN ts : Backing(hs, fs, i, ts[i].owner) = ts[i].supply
  BY DEF TokensOk
<1>2. a \in Accounts /\ id \in TokenIds
  <2>1. ts[id] \in Asset
    BY <1>1, Listed
  <2> QED
    BY <1>1, <2>1, Finite DEF Asset
<1>3. y \in Nat /\ hs[a][id] \in Nat
  BY <1>1, <1>2
<1>4. gs = [hs EXCEPT ![a][id] = y] /\ gs = [hs EXCEPT ![a][id] = @ + x]
  OBVIOUS
<1>9. y = hs[a][id] + x
  OBVIOUS
<1> HIDE DEF gs, y
<1>5. Moved(hs, gs, a, id, y)
  BY <1>1, <1>2, <1>3, <1>4, HoldingMoves
<1>6. es \in [Accounts -> Seq(Tranche)] /\ es[a] = tr /\ \A z \in Accounts : z # a => es[z] = fs[z]
  BY <1>1, <1>2
<1> HIDE DEF es
<1>8. ASSUME NEW i \in TokenIds \ DOMAIN ts, NEW z \in Accounts PROVE gs[z][i] = 0
  <2>1. i # id
    OBVIOUS
  <2>2. gs[z][i] = hs[z][i]
    BY <1>5, <2>1 DEF Moved
  <2> QED
    BY <1>1, <2>1, <2>2
<1>10. ASSUME NEW i \in DOMAIN ts PROVE Backing(gs, es, i, ts[i].owner) = ts[i].supply
  <2>1. CASE i = id
    <3>1. Total(Column(gs, id)) = Total(Column(hs, id)) - hs[a][id] + y /\ Total(Column(hs, id)) \in Nat
      BY <1>5 DEF Moved
    <3>2. Total(Column(hs, id)) + Sum(fs[a]) = ts[id].supply
      BY <1>1 DEF Backing
    <3>3. Sum(tr) \in Nat /\ Sum(fs[a]) \in Nat
      BY <1>1, <1>2, TranchesNat
    <3>4. Total(Column(gs, id)) + Sum(tr) = ts[id].supply
      BY <1>3, <1>9, <3>1, <3>2, <3>3
    <3> QED
      BY <1>6, <2>1, <3>4 DEF Backing
  <2>2. CASE i # id
    <3>2. ts[i] \in Asset
      BY <1>1, Listed
    <3>3. ts[i].owner \in Accounts /\ ts[i].owner # a
      BY <1>1, <2>2, <3>2, Finite DEF Asset
    <3>4. Column(gs, i) = Column(hs, i)
      BY <1>1, <1>5, <2>2 DEF Moved
    <3> QED
      BY <1>1, <1>6, <3>3, <3>4 DEF Backing
  <2> QED
    BY <2>1, <2>2
<1>11. gs \in [Accounts -> [TokenIds -> Nat]]
  BY <1>5 DEF Moved
<1>13. TokensOk(ts, gs, es)
  BY <1>1, <1>6, <1>8, <1>10, <1>11 DEF TokensOk
<1> QED
  BY <1>4, <1>13 DEF es

LEMMA UnfreezeSound ==
    ASSUME WalletInv, NEW a \in Callers, NEW e, UnfreezeAssetContract(a, e)
    PROVE  Upheld(world') /\ UNCHANGED <<params, head>>
<1>1. PICK w \in Billed(a, "asset", e, FALSE, 0) : \E id \in IssuedBy(w, a) :
         Accepted([w EXCEPT !.holding[a][id] = @ + Sum(MaturedT(w.frozen[a])),
                            !.frozen[a] = Remaining(@)])
  BY DEF UnfreezeAssetContract
<1>2. PICK id \in IssuedBy(w, a) :
         Accepted([w EXCEPT !.holding[a][id] = @ + Sum(MaturedT(w.frozen[a])),
                            !.frozen[a] = Remaining(@)])
  BY <1>1
<1>3. Good(w, head, params) /\ w.exists = world.exists /\ a \in Accounts
  BY BilledIs
<1> DEFINE x == Sum(MaturedT(w.frozen[a]))
           tr == Remaining(w.frozen[a])
           v == [w EXCEPT !.holding[a][id] = @ + x, !.frozen[a] = tr]
<1>4. world' = v /\ UNCHANGED <<params, head>>
  BY <1>2 DEF Accepted
<1>5. TokensOk(w.assets, w.holding, w.frozen) /\ w.frozen[a] \in Seq(Tranche) /\ head \in Nat
  BY <1>3 DEF Good, TokensOk, QuotasOk
<1>6. id \in DOMAIN w.assets /\ a = w.assets[id].owner
  BY DEF IssuedBy
<1>7. x \in Nat /\ tr \in Seq(Tranche) /\ x + Sum(tr) = Sum(w.frozen[a])
  <2> DEFINE s == w.frozen[a]
             A == {t \in Range(s) : t.expire <= head}
             B == {t \in Range(s) : t.expire > head}
  <2>1. s \in Seq(Tranche) /\ Amounted(Tranche)
    BY <1>5, TranchesNat
  <2>2. \A i \in DOMAIN s : s[i] \in A <=> s[i] \notin B
    <3>1. \A i \in DOMAIN s : s[i] \in Tranche /\ s[i] \in Range(s)
      <4>1. \A i \in DOMAIN s : s[i] \in Tranche
        BY <2>1, Listed
      <4>2. \A i \in DOMAIN s : s[i] \in Range(s)
        BY DEF Range
      <4> QED
        BY <4>1, <4>2
    <3>2. \A i \in DOMAIN s : s[i].expire \in Nat
      BY <3>1 DEF Tranche
    <3> QED
      BY <1>5, <3>1, <3>2
  <2>3. MaturedT(s) = Within(s, A) /\ Remaining(s) = Within(s, B)
    BY DEF MaturedT, Remaining
  <2> HIDE DEF A, B, s
  <2>4. Sum(Within(s, A)) + Sum(Within(s, B)) = Sum(s)
    BY <2>1, <2>2, WithinSplits
  <2>5. Within(s, A) \in Seq(Tranche) /\ Within(s, B) \in Seq(Tranche)
    BY <2>1, WithinKeeps
  <2>6. Sum(Within(s, A)) \in Nat
    BY <2>5, TranchesNat
  <2> QED
    BY <2>3, <2>4, <2>5, <2>6 DEF s
<1> HIDE DEF x, tr
<1>8. /\ IsWorld(v) /\ v.holding = [w.holding EXCEPT ![a][id] = @ + x]
      /\ v.frozen = [w.frozen EXCEPT ![a] = tr] /\ v.assets = w.assets
      /\ v.exists = w.exists /\ v.balance = w.balance /\ v.burned = w.burned
      /\ v.net = w.net /\ v.stakedNet = w.stakedNet /\ v.energy = w.energy /\ v.assetNet = w.assetNet
      /\ v.permissions = w.permissions /\ v.name = w.name /\ v.names = w.names /\ v.ids = w.ids
      /\ v.contracts = w.contracts
  <2>1. IsWorld(w)
    BY <1>3 DEF Good
  <2> QED
    BY <2>1 DEF IsWorld
<1> HIDE DEF v
<1>9. TokensOk(v.assets, v.holding, v.frozen)
  <2>1. TokensOk(w.assets, [w.holding EXCEPT ![a][id] = @ + x], [w.frozen EXCEPT ![a] = tr])
    BY <1>5, <1>6, <1>7, TokensUnlocked
  <2> QED
    BY <1>8, <2>1
<1>10. Good(v, head, params)
  BY <1>3, <1>8, <1>9 DEF Good
<1>11. Upheld(v)
  BY <1>3, <1>8, <1>10 DEF Upheld
<1> QED
  BY <1>4, <1>11

LEMMA UpdateAssetSound ==
    ASSUME WalletInv, NEW a \in Callers, NEW limit \in Limits, NEW e, UpdateAssetContract(a, limit, e)
    PROVE  Upheld(world') /\ UNCHANGED <<params, head>>
<1>1. PICK w \in Billed(a, "asset", e, FALSE, 0) : \E id \in IssuedBy(w, a) :
         Accepted([w EXCEPT !.assets[id].freeLimit = limit, !.assets[id].publicLimit = limit])
  BY DEF UpdateAssetContract
<1>2. PICK id \in IssuedBy(w, a) :
         Accepted([w EXCEPT !.assets[id].freeLimit = limit, !.assets[id].publicLimit = limit])
  BY <1>1
<1>3. Good(w, head, params) /\ w.exists = world.exists
  BY BilledIs
<1> DEFINE ts == w.assets
           m == [ts[id] EXCEPT !.freeLimit = limit, !.publicLimit = limit]
           bs == [ts EXCEPT ![id] = m]
           v == [w EXCEPT !.assets[id].freeLimit = limit, !.assets[id].publicLimit = limit]
<1>4. world' = v /\ UNCHANGED <<params, head>>
  BY <1>2 DEF Accepted
<1>5. /\ TokensOk(ts, w.holding, w.frozen) /\ ts \in Seq(Asset) /\ id \in DOMAIN ts
      /\ TitlesOk(ts, w.exists, params) /\ PoolsOk(ts, w.stakedNet, head)
  BY <1>3 DEF Good, TokensOk, IssuedBy
<1>6. ts[id] \in Asset
  BY <1>5, Listed
<1>7. limit \in Nat
  BY WalletAssumption
<1>8. /\ m \in Asset /\ m.owner = ts[id].owner /\ m.supply = ts[id].supply /\ m.name = ts[id].name
      /\ m.pool = ts[id].pool
  BY <1>6, <1>7 DEF Asset
<1>9. /\ IsWorld(v) /\ v.assets = bs /\ v.holding = w.holding /\ v.frozen = w.frozen
      /\ v.exists = w.exists /\ v.balance = w.balance /\ v.burned = w.burned
      /\ v.net = w.net /\ v.stakedNet = w.stakedNet /\ v.energy = w.energy /\ v.assetNet = w.assetNet
      /\ v.permissions = w.permissions /\ v.name = w.name /\ v.names = w.names /\ v.ids = w.ids
      /\ v.contracts = w.contracts
  <2>1. IsWorld(w)
    BY <1>3 DEF Good
  <2> QED
    BY <1>5, <2>1 DEF IsWorld
<1> HIDE DEF v, m, ts
<1>10. bs \in Seq(Asset) /\ DOMAIN bs = DOMAIN ts /\ bs[id] = m /\ \A i \in DOMAIN ts : i # id => bs[i] = ts[i]
  BY <1>5, <1>8
<1> HIDE DEF bs
<1>11. \A i \in DOMAIN ts : /\ bs[i].owner = ts[i].owner /\ bs[i].supply = ts[i].supply
                            /\ bs[i].name = ts[i].name /\ bs[i].pool = ts[i].pool
  BY <1>8, <1>10
<1>12. TokensOk(bs, w.holding, w.frozen) /\ TitlesOk(bs, w.exists, params)
  BY <1>5, <1>10, <1>11, AssetsEdited
<1>13. PoolsOk(bs, w.stakedNet, head)
  BY <1>5, <1>10, <1>11 DEF PoolsOk
<1>14. Good(v, head, params)
  BY <1>3, <1>9, <1>12, <1>13 DEF Good
<1>15. Upheld(v)
  BY <1>3, <1>9, <1>14 DEF Upheld
<1> QED
  BY <1>4, <1>15

\* What a stake's ledger of energy holds.
LEMMA EnergyIs ==
    ASSUME NEW w, Good(w, head, params), NEW a \in Accounts
    PROVE  /\ head \in Nat /\ w.energy \in [Accounts -> Usage] /\ w.energy[a] \in Usage
           /\ NowAt(w.energy[a], head) \in Nat
           /\ EnergyLeft(w, a) \in Nat
           /\ NowAt(w.energy[a], head) + EnergyLeft(w, a) <= StakedEnergy
           /\ StakedEnergy \in Nat
<1>1. head \in Nat /\ w.energy \in [Accounts -> Usage] /\ NowAt(w.energy[a], head) <= StakedEnergy
  BY DEF Good, QuotasOk
<1>2. w.energy[a] \in Usage
  BY <1>1
<1>3. NowAt(w.energy[a], head) \in Nat
  BY <1>1, <1>2, ChargedIs
<1>4. StakedEnergy \in Nat
  BY WalletAssumption
<1> QED
  BY <1>1, <1>2, <1>3, <1>4, LimitsAre

\* A stake is charged for no more than it has left.
LEMMA EnergyPays ==
    ASSUME NEW w, Good(w, head, params), NEW a \in Accounts, NEW units \in Nat, units <= EnergyLeft(w, a),
           NEW v, v = ChargeEnergy(w, a, units)
    PROVE  /\ Pays(w, v) /\ v.balance = w.balance /\ v.burned = w.burned
           /\ \A x \in Accounts : x # a => v.energy[x] = w.energy[x]
<1> DEFINE c == Charged(w.energy[a], units)
           n == [w.energy EXCEPT ![a] = c]
<1>1. IsWorld(w) /\ QuotasOk(w.net, w.stakedNet, w.energy, w.assetNet, head)
  BY DEF Good
<1>2. /\ IsWorld(v) /\ v.balance = w.balance /\ v.burned = w.burned
      /\ v.exists = w.exists /\ v.net = w.net /\ v.stakedNet = w.stakedNet /\ v.energy = n
      /\ v.assets = w.assets /\ v.holding = w.holding /\ v.assetNet = w.assetNet /\ v.frozen = w.frozen
      /\ v.permissions = w.permissions /\ v.name = w.name /\ v.names = w.names /\ v.ids = w.ids
      /\ v.contracts = w.contracts
  BY <1>1 DEF IsWorld, ChargeEnergy
<1>3. /\ head \in Nat /\ w.energy \in [Accounts -> Usage] /\ w.energy[a] \in Usage
      /\ NowAt(w.energy[a], head) \in Nat /\ EnergyLeft(w, a) \in Nat
      /\ NowAt(w.energy[a], head) + EnergyLeft(w, a) <= StakedEnergy /\ StakedEnergy \in Nat
  BY EnergyIs
<1>4. c \in Usage /\ c.at = head /\ NowAt(c, head) = NowAt(w.energy[a], head) + units
  BY <1>3, ChargedIs
<1>5. NowAt(c, head) <= StakedEnergy
  <2> HIDE DEF c
  <2> QED
    BY <1>3, <1>4
<1> HIDE DEF c
<1>6. n \in [Accounts -> Usage] /\ n[a] = c /\ \A x \in Accounts : x # a => n[x] = w.energy[x]
  BY <1>3, <1>4
<1> HIDE DEF n
<1>7. QuotasOk(w.net, w.stakedNet, n, w.assetNet, head)
  <2>1. ASSUME NEW x \in Accounts PROVE n[x].at <= head /\ NowAt(n[x], head) <= StakedEnergy
    <3>1. CASE x = a
      <4>1. c.at <= head
        BY <1>3, <1>4
      <4> QED
        BY <3>1, <4>1, <1>5, <1>6
    <3>2. CASE x # a
      BY <3>2, <1>1, <1>6 DEF QuotasOk
    <3> QED
      BY <3>1, <3>2
  <2> QED
    BY <1>1, <1>6, <2>1 DEF QuotasOk
<1>8. Good(v, head, params)
  BY <1>2, <1>7 DEF Good
<1>9. w.burned \in Nat
  BY DEF Good, SunOk
<1> QED
  BY <1>2, <1>6, <1>8, <1>9 DEF Pays

\* Stake, then sun, of which the caller has enough.
LEMMA SettledPays ==
    ASSUME NEW w, Good(w, head, params), NEW a \in w.exists, a \in Accounts, NEW meta \in Meta,
           NEW used \in Nat, NEW left, left = EnergyLeft(w, a),
           NEW byOrigin \in Nat, byOrigin = OriginUsage(w, a, meta, used), byOrigin <= EnergyLeft(w, meta.origin),
           meta.origin = a => byOrigin = 0,
           NEW fromStake \in Nat, fromStake = Min({used - byOrigin, left}), fromStake <= left,
           NEW sun \in Nat, sun = (used - byOrigin - fromStake) * Fees["energy"], sun <= w.balance[a]
    PROVE  Pays(w, Settled(w, a, meta, used, left))
<1> DEFINE u == IF meta.origin = a THEN w ELSE ChargeEnergy(w, meta.origin, byOrigin)
           charged == IF used = 0 THEN w ELSE ChargeEnergy(u, a, fromStake)
           v == [charged EXCEPT !.balance[a] = @ - sun, !.burned = @ + sun]
<1>1. Settled(w, a, meta, used, left) = v
  BY DEF Settled
<1>2. meta.origin \in Accounts
  BY DEF Meta
<1>3. Pays(w, w)
  BY PaysNone
<1>4. Pays(w, u) /\ u.balance = w.balance /\ EnergyLeft(u, a) = left
  <2>1. CASE meta.origin = a
    BY <1>3, <2>1
  <2>2. CASE meta.origin # a
    <3>1. u = ChargeEnergy(w, meta.origin, byOrigin)
      BY <2>2
    <3> HIDE DEF u
    <3>2. /\ Pays(w, u) /\ u.balance = w.balance
          /\ \A x \in Accounts : x # meta.origin => u.energy[x] = w.energy[x]
      BY <1>2, <3>1, EnergyPays
    <3>3. u.energy[a] = w.energy[a]
      BY <2>2, <3>2
    <3>4. EnergyLeft(u, a) = EnergyLeft(w, a)
      BY <3>3 DEF EnergyLeft
    <3> QED
      BY <3>2, <3>4
  <2> QED
    BY <2>1, <2>2
<1> HIDE DEF u
<1>5. Good(u, head, params)
  BY <1>4 DEF Pays
<1>6. Pays(w, charged) /\ charged.balance = w.balance
  <2>1. CASE used = 0
    BY <1>3, <2>1
  <2>2. CASE used # 0
    <3>1. charged = ChargeEnergy(u, a, fromStake)
      BY <2>2
    <3> HIDE DEF charged
    <3>2. fromStake <= EnergyLeft(u, a)
      BY <1>4
    <3>3. Pays(u, charged) /\ charged.balance = u.balance
      BY <1>5, <3>1, <3>2, EnergyPays
    <3>4. Pays(w, charged)
      BY <1>4, <3>3, PaysOn
    <3> QED
      BY <1>4, <3>3, <3>4
  <2> QED
    BY <2>1, <2>2
<1> HIDE DEF charged
<1>7. Good(charged, head, params) /\ charged.exists = w.exists
  BY <1>6 DEF Pays
<1>8. v \in Burn(charged, a, sun)
  <2>1. w.balance[a] >= sun
    <3>1. w.balance[a] \in Nat
      BY DEF Good, SunOk
    <3> QED
      BY <3>1
  <2> QED
    BY <1>6, <1>7, <2>1 DEF Burn
<1>9. Pays(charged, v)
  BY <1>7, <1>8, BurnPays
<1> QED
  BY <1>1, <1>6, <1>9, PaysOn

\* A budget that both sides pay: what is used is settled.
LEMMA ExecutionPays ==
    ASSUME NEW w, Good(w, head, params), NEW a \in w.exists, a \in Accounts, NEW meta \in Meta,
           NEW value \in Nat, NEW used \in Nat,
           used <= CallerLimit(w, a, value) + CreatorLimit(w, a, meta, CallerLimit(w, a, value)),
           value <= w.balance[a],
           NEW u, Good(u, head, params), u.energy = w.energy, a \in u.exists, u.balance[a] >= w.balance[a] - value
    PROVE  Pays(u, Settled(u, a, meta, used, EnergyLeft(w, a)))
<1> DEFINE byOrigin == OriginUsage(w, a, meta, used)
           left == EnergyLeft(w, a)
           fromStake == Min({used - byOrigin, left})
           sun == (used - byOrigin - fromStake) * Fees["energy"]
<1>1. meta.origin \in Accounts
  BY DEF Meta
<1>2. NowAt(w.energy[a], head) \in Nat /\ NowAt(w.energy[meta.origin], head) \in Nat
  BY <1>1, EnergyIs
<1>3. w.balance[a] \in Nat /\ u.balance[a] \in Nat
  BY DEF Good, SunOk
<1>4. /\ byOrigin \in Nat /\ (meta.origin = a => byOrigin = 0) /\ byOrigin <= EnergyLeft(w, meta.origin)
      /\ fromStake \in Nat /\ fromStake <= left
      /\ sun \in Nat /\ sun <= Max({0, w.balance[a] - value})
  BY <1>2, <1>3, Budget
<1>5. \A x : EnergyLeft(u, x) = EnergyLeft(w, x)
  BY DEF EnergyLeft
<1>6. OriginUsage(u, a, meta, used) = byOrigin
  BY <1>5 DEF OriginUsage, OriginBound
<1>7. sun <= u.balance[a]
  <2> DEFINE d == w.balance[a] - value
  <2>1. 0 \in Int /\ d \in Int /\ d >= 0 /\ u.balance[a] >= d
    BY <1>3
  <2> HIDE DEF d
  <2>2. Max({0, d}) = IF 0 >= d THEN 0 ELSE d
    BY <2>1, OfTwo
  <2>3. sun <= Max({0, d})
    BY <1>4 DEF d
  <2> HIDE DEF sun
  <2> QED
    BY <1>3, <1>4, <2>1, <2>2, <2>3
<1>8. left = EnergyLeft(u, a) /\ byOrigin <= EnergyLeft(u, meta.origin) /\ byOrigin = OriginUsage(u, a, meta, used)
  BY <1>4, <1>5, <1>6
<1>9. fromStake = Min({used - byOrigin, left}) /\ sun = (used - byOrigin - fromStake) * Fees["energy"]
  OBVIOUS
<1> HIDE DEF byOrigin, left, fromStake, sun
<1>10. Pays(u, Settled(u, a, meta, used, left))
  BY <1>4, <1>7, <1>8, <1>9, SettledPays
<1> QED
  BY <1>10 DEF left

LEMMA TriggerSound ==
    ASSUME WalletInv, NEW a \in Callers, NEW c \in Contracts, NEW value \in Amounts \cup {0}, NEW used \in Uses,
           NEW ok, NEW e, TriggerSmartContract(a, c, value, used, ok, e)
    PROVE  Upheld(world') /\ UNCHANGED <<params, head>>
<1>1. IsContract(world, c)
  BY DEF TriggerSmartContract
<1>2. PICK w \in Billed(a, "trigger", e, FALSE, 0) :
         LET meta == w.contracts[c]
             limit == CallerLimit(w, a, value)
         IN /\ w.balance[a] >= value
            /\ used <= limit + CreatorLimit(w, a, meta, limit)
            /\ Accepted(Settled(IF ok THEN Endowed(w, a, c, value) ELSE w,
                                a, meta, used, EnergyLeft(w, a)))
  BY DEF TriggerSmartContract
<1>3. /\ Good(w, head, params) /\ w.exists = world.exists /\ w.contracts = world.contracts
      /\ a \in w.exists /\ a \in Accounts /\ a \notin Contracts
      /\ w.burned \in Nat /\ world.burned \in Nat /\ w.burned >= world.burned
  BY BilledIs
<1> DEFINE meta == w.contracts[c]
           u == IF ok THEN Endowed(w, a, c, value) ELSE w
           v == Settled(u, a, meta, used, EnergyLeft(w, a))
<1>4. /\ w.balance[a] >= value /\ world' = v /\ UNCHANGED <<params, head>>
      /\ used <= CallerLimit(w, a, value) + CreatorLimit(w, a, meta, CallerLimit(w, a, value))
  BY <1>2 DEF Accepted
<1>5. meta \in Meta
  <2>1. ContractsOk(w.contracts) /\ c \in DOMAIN w.contracts
    BY <1>1, <1>3 DEF Good, IsContract
  <2> QED
    BY <2>1 DEF ContractsOk
<1>6. value \in Nat /\ used \in Nat /\ w.balance[a] \in Nat /\ value <= w.balance[a]
  <2>1. value \in Nat /\ used \in Nat
    BY WalletAssumption
  <2>2. w.balance[a] \in Nat
    BY <1>3 DEF Good, SunOk
  <2> QED
    BY <1>4, <2>1, <2>2
<1>7. /\ Good(u, head, params) /\ u.energy = w.energy /\ u.exists \ Contracts = w.exists \ Contracts
      /\ a \in u.exists /\ u.balance[a] >= w.balance[a] - value
  <2>1. CASE ~ok \/ value = 0
    <3>1. u = w
      BY <2>1 DEF Endowed
    <3> HIDE DEF u
    <3> QED
      BY <1>3, <1>6, <3>1
  <2>2. CASE ok /\ value # 0
    <3>1. u = MoveBalance(w, a, c, value)
      BY <2>2 DEF Endowed
    <3> HIDE DEF u
    <3>2. c \in Accounts /\ c # a
      BY <1>3, Finite
    <3>3. /\ Good(u, head, params) /\ u.exists = w.exists \cup {c}
          /\ u.balance[a] = w.balance[a] - value /\ u.energy = w.energy
      BY <1>3, <1>6, <3>1, <3>2, MoveGood
    <3> QED
      BY <1>3, <1>6, <3>3
  <2> QED
    BY <2>1, <2>2
<1> HIDE DEF u, meta
<1>8. Pays(u, v)
  BY <1>3, <1>4, <1>5, <1>6, <1>7, ExecutionPays
<1> HIDE DEF v
<1>9. Good(v, head, params) /\ v.exists \ Contracts = world.exists \ Contracts
  BY <1>3, <1>7, <1>8 DEF Pays
<1> QED
  BY <1>4, <1>9, SoundSame

LEMMA CreateSound ==
    ASSUME WalletInv, NEW a \in Callers, NEW c \in Contracts, NEW percent \in Percents, NEW used \in Uses,
           NEW ok, NEW e, CreateSmartContract(a, c, percent, used, ok, e)
    PROVE  Upheld(world') /\ UNCHANGED <<params, head>>
<1> DEFINE meta == [origin |-> a, percent |-> percent, limit |-> OriginLimit]
<1>1. PICK w \in Billed(a, "trigger", e, FALSE, 0) :
         LET paid == Settled(w, a, meta, used, EnergyLeft(w, a))
         IN /\ used <= CallerLimit(w, a, 0)
            /\ Accepted(IF ok THEN [paid EXCEPT !.exists = @ \cup {c}, !.contracts = With(@, c, meta)]
                        ELSE paid)
  BY DEF CreateSmartContract
<1>2. /\ Good(w, head, params) /\ w.exists = world.exists /\ w.contracts = world.contracts
      /\ a \in w.exists /\ a \in Accounts /\ a \notin Contracts
      /\ w.burned \in Nat /\ world.burned \in Nat /\ w.burned >= world.burned
  BY BilledIs
<1>3. meta \in Meta /\ meta.origin = a
  BY <1>2, WalletAssumption DEF Meta
<1>4. 0 \in Nat /\ used \in Nat /\ w.balance[a] \in Nat /\ 0 <= w.balance[a] /\ w.balance[a] >= w.balance[a] - 0
  <2>1. used \in Nat
    BY WalletAssumption
  <2>2. w.balance[a] \in Nat
    BY <1>2 DEF Good, SunOk
  <2> QED
    BY <2>1, <2>2
<1> HIDE DEF meta
<1>5. used <= CallerLimit(w, a, 0) + CreatorLimit(w, a, meta, CallerLimit(w, a, 0))
  <2>1. CreatorLimit(w, a, meta, CallerLimit(w, a, 0)) = 0
    BY <1>3 DEF CreatorLimit
  <2>2. CallerLimit(w, a, 0) \in Nat
    <3>1. NowAt(w.energy[a], head) \in Nat /\ NowAt(w.energy[meta.origin], head) \in Nat
      BY <1>2, <1>3, EnergyIs
    <3>2. FeeLimit \in Nat /\ Fees["energy"] \in Nat \ {0}
      BY WalletAssumption
    <3> DEFINE rest == Max({0, w.balance[a] - 0})
               x == EnergyLeft(w, a) + (rest \div Fees["energy"])
    <3>3. rest \in Nat
      <4> DEFINE d == w.balance[a] - 0
      <4>1. 0 \in Int /\ d \in Int
        BY <1>4
      <4> HIDE DEF d
      <4>2. Max({0, d}) = IF 0 >= d THEN 0 ELSE d
        BY <4>1, OfTwo
      <4>3. Max({0, d}) \in Nat
        BY <4>1, <4>2
      <4> QED
        BY <4>3 DEF d
    <3> HIDE DEF rest
    <3>4. x \in Nat
      <4>1. rest \div Fees["energy"] \in Nat
        BY <3>2, <3>3, Divides
      <4> QED
        BY <1>2, <4>1, EnergyIs
    <3>5. CallerLimit(w, a, 0) = Min({FeeLimit, x})
      BY DEF CallerLimit, rest
    <3> HIDE DEF x
    <3> QED
      BY <3>2, <3>4, <3>5, OfTwo
  <2>3. used <= CallerLimit(w, a, 0)
    BY <1>1
  <2> QED
    BY <1>4, <2>1, <2>2, <2>3
<1> DEFINE paid == Settled(w, a, meta, used, EnergyLeft(w, a))
           v == IF ok THEN [paid EXCEPT !.exists = @ \cup {c}, !.contracts = With(@, c, meta)] ELSE paid
<1>6. Pays(w, paid)
  BY <1>2, <1>3, <1>4, <1>5, ExecutionPays
<1>7. world' = v /\ UNCHANGED <<params, head>>
  BY <1>1 DEF Accepted, meta
<1> HIDE DEF paid
<1>8. Good(paid, head, params) /\ paid.exists = w.exists
  BY <1>6 DEF Pays
<1>9. Good(v, head, params) /\ v.exists \ Contracts = world.exists \ Contracts
  <2>1. CASE ok
    <3>1. /\ IsWorld(v) /\ v.exists = paid.exists \cup {c} /\ v.contracts = With(paid.contracts, c, meta)
          /\ v.balance = paid.balance /\ v.burned = paid.burned
          /\ v.net = paid.net /\ v.stakedNet = paid.stakedNet /\ v.energy = paid.energy
          /\ v.assets = paid.assets /\ v.holding = paid.holding /\ v.assetNet = paid.assetNet
          /\ v.frozen = paid.frozen
          /\ v.permissions = paid.permissions /\ v.name = paid.name /\ v.names = paid.names /\ v.ids = paid.ids
      <4>1. IsWorld(paid)
        BY <1>8 DEF Good
      <4> QED
        BY <2>1, <4>1 DEF IsWorld
    <3> HIDE DEF v
    <3>2. SunOk(v.balance, v.burned, v.exists) /\ TitlesOk(v.assets, v.exists, params)
      <4>1. c \in Accounts
        BY Finite
      <4> QED
        BY <1>8, <3>1, <4>1 DEF Good, SunOk, TitlesOk
    <3>3. ContractsOk(v.contracts)
      <4>1. ContractsOk(paid.contracts)
        BY <1>8 DEF Good
      <4> QED
        BY <1>3, <3>1, <4>1 DEF ContractsOk, With
    <3>4. Good(v, head, params)
      BY <1>8, <3>1, <3>2, <3>3 DEF Good
    <3> QED
      BY <1>2, <1>8, <3>1, <3>4
  <2>2. CASE ~ok
    BY <1>2, <1>8, <2>2
  <2> QED
    BY <2>1, <2>2
<1> QED
  BY <1>7, <1>9, SoundSame

\* What the origin changes of its contract.
LEMMA ContractEdited ==
    ASSUME NEW w, Good(w, head, params), NEW c \in DOMAIN w.contracts, NEW m \in Meta,
           w.exists = world.exists, NEW v, v = [w EXCEPT !.contracts[c] = m]
    PROVE  Upheld(v)
<1>1. /\ IsWorld(v) /\ v.contracts = [w.contracts EXCEPT ![c] = m]
      /\ v.exists = w.exists /\ v.balance = w.balance /\ v.burned = w.burned
      /\ v.net = w.net /\ v.stakedNet = w.stakedNet /\ v.energy = w.energy
      /\ v.assets = w.assets /\ v.holding = w.holding /\ v.assetNet = w.assetNet /\ v.frozen = w.frozen
      /\ v.permissions = w.permissions /\ v.name = w.name /\ v.names = w.names /\ v.ids = w.ids
  <2>1. IsWorld(w)
    BY DEF Good
  <2> QED
    BY <2>1 DEF IsWorld
<1>2. ContractsOk(v.contracts)
  <2>1. ContractsOk(w.contracts)
    BY DEF Good
  <2> QED
    BY <1>1, <2>1 DEF ContractsOk
<1>3. Good(v, head, params)
  BY <1>1, <1>2 DEF Good
<1> QED
  BY <1>1, <1>3, SoundSame

LEMMA UpdateSettingSound ==
    ASSUME WalletInv, NEW a \in Callers, NEW c \in Contracts, NEW percent \in Percents, NEW e,
           UpdateSettingContract(a, c, percent, e)
    PROVE  Upheld(world') /\ UNCHANGED <<params, head>>
<1>1. PICK w \in Billed(a, "trigger", e, FALSE, 0) :
         IsContract(w, c) /\ Accepted([w EXCEPT !.contracts[c].percent = percent])
  BY DEF UpdateSettingContract
<1>2. Good(w, head, params) /\ w.exists = world.exists
  BY BilledIs
<1> DEFINE m == [w.contracts[c] EXCEPT !.percent = percent]
           v == [w EXCEPT !.contracts[c] = m]
<1>3. c \in DOMAIN w.contracts /\ w.contracts[c] \in Meta
  BY <1>1, <1>2 DEF IsContract, Good, ContractsOk
<1>4. m \in Meta
  BY <1>3, WalletAssumption DEF Meta
<1>5. world' = v /\ UNCHANGED <<params, head>>
  BY <1>1 DEF Accepted
<1> HIDE DEF m
<1>6. Upheld(v)
  BY <1>2, <1>3, <1>4, ContractEdited
<1> QED
  BY <1>5, <1>6

LEMMA UpdateEnergyLimitSound ==
    ASSUME WalletInv, NEW a \in Callers, NEW c \in Contracts, NEW limit \in Limits, NEW e,
           UpdateEnergyLimitContract(a, c, limit, e)
    PROVE  Upheld(world') /\ UNCHANGED <<params, head>>
<1>1. PICK w \in Billed(a, "trigger", e, FALSE, 0) :
         IsContract(w, c) /\ Accepted([w EXCEPT !.contracts[c].limit = limit])
  BY DEF UpdateEnergyLimitContract
<1>2. Good(w, head, params) /\ w.exists = world.exists
  BY BilledIs
<1> DEFINE m == [w.contracts[c] EXCEPT !.limit = limit]
           v == [w EXCEPT !.contracts[c] = m]
<1>3. c \in DOMAIN w.contracts /\ w.contracts[c] \in Meta
  BY <1>1, <1>2 DEF IsContract, Good, ContractsOk
<1>4. m \in Meta
  BY <1>3, WalletAssumption DEF Meta
<1>5. world' = v /\ UNCHANGED <<params, head>>
  BY <1>1 DEF Accepted
<1> HIDE DEF m
<1>6. Upheld(v)
  BY <1>2, <1>3, <1>4, ContractEdited
<1> QED
  BY <1>5, <1>6

(***************************************************************************)
(* The invariant.                                                          *)
(***************************************************************************)

\* The next day nothing has been used.
LEMMA DayGood ==
    ASSUME NEW w, Good(w, head, params)
    PROVE  Good(w, head + 1, params)
<1>1. QuotasOk(w.net, w.stakedNet, w.energy, w.assetNet, head) /\ PoolsOk(w.assets, w.stakedNet, head)
      /\ TokensOk(w.assets, w.holding, w.frozen)
  BY DEF Good
<1>2. /\ head \in Nat /\ w.net \in [Accounts -> Usage] /\ w.stakedNet \in [Accounts -> Usage]
      /\ w.energy \in [Accounts -> Usage]
  BY <1>1 DEF QuotasOk
<1>3. ASSUME NEW u \in Usage, u.at <= head PROVE u.at <= head + 1 /\ NowAt(u, head + 1) = 0
  <2>1. u.at \in Nat
    BY DEF Usage
  <2>2. u.at <= head + 1 /\ u.at # head + 1
    BY <1>2, <1>3, <2>1
  <2> QED
    BY <2>2 DEF NowAt
<1>4. FreeNet \in Nat /\ StakedEnergy \in Nat /\ \A a : NetLimit(a) \in Nat
  BY WalletAssumption DEF NetLimit
<1>5. QuotasOk(w.net, w.stakedNet, w.energy, w.assetNet, head + 1)
  <2>1. ASSUME NEW a \in Accounts
        PROVE  /\ w.net[a].at <= head + 1 /\ w.stakedNet[a].at <= head + 1 /\ w.energy[a].at <= head + 1
               /\ NowAt(w.net[a], head + 1) = 0 /\ NowAt(w.stakedNet[a], head + 1) = 0
               /\ NowAt(w.energy[a], head + 1) = 0
    <3>1. w.net[a] \in Usage /\ w.stakedNet[a] \in Usage /\ w.energy[a] \in Usage
      BY <1>2
    <3>2. w.net[a].at <= head /\ w.stakedNet[a].at <= head /\ w.energy[a].at <= head
      BY <1>1 DEF QuotasOk
    <3> QED
      BY <1>3, <3>1, <3>2
  <2>2. head + 1 \in Nat
    BY <1>2
  <2>3. ASSUME NEW a \in Accounts
        PROVE  /\ NowAt(w.net[a], head + 1) <= FreeNet /\ NowAt(w.stakedNet[a], head + 1) <= NetLimit(a)
               /\ NowAt(w.energy[a], head + 1) <= StakedEnergy
    BY <1>4, <2>1
  <2> QED
    BY <1>1, <2>1, <2>2, <2>3 DEF QuotasOk
<1>6. PoolsOk(w.assets, w.stakedNet, head + 1)
  <2>1. ASSUME NEW id \in DOMAIN w.assets
        PROVE  /\ w.assets[id].pool.at <= head + 1
               /\ NowAt(w.assets[id].pool, head + 1) <= NowAt(w.stakedNet[w.assets[id].owner], head + 1)
    <3>1. w.assets[id] \in Asset
      BY <1>1, Listed DEF TokensOk
    <3>2. w.assets[id].pool \in Usage /\ w.assets[id].owner \in Accounts
      BY <3>1, Finite DEF Asset
    <3>3. w.assets[id].pool.at <= head
      BY <1>1 DEF PoolsOk
    <3>4. w.assets[id].pool.at <= head + 1 /\ NowAt(w.assets[id].pool, head + 1) = 0
      BY <1>3, <3>2, <3>3
    <3>5. w.stakedNet[w.assets[id].owner] \in Usage /\ w.stakedNet[w.assets[id].owner].at <= head
      BY <1>1, <1>2, <3>2 DEF QuotasOk
    <3>6. NowAt(w.stakedNet[w.assets[id].owner], head + 1) = 0
      BY <1>3, <3>5
    <3> QED
      BY <3>4, <3>6
  <2> QED
    BY <2>1 DEF PoolsOk
<1> QED
  BY <1>5, <1>6 DEF Good

\* The world of the genesis block.
LEMMA GenesisGood ==
    ASSUME NEW p
    PROVE  Good(Genesis, 0, p)
<1> DEFINE w == Genesis
<1>1. /\ IsWorld(w) /\ w.exists = Holders
      /\ w.balance = [a \in Accounts |-> IF a \in Holders THEN Funds ELSE 0] /\ w.burned = 0
      /\ w.net = [a \in Accounts |-> Unused] /\ w.stakedNet = [a \in Accounts |-> Unused]
      /\ w.energy = [a \in Accounts |-> Unused]
      /\ w.assets = << >> /\ w.holding = [a \in Accounts |-> [i \in TokenIds |-> 0]]
      /\ w.assetNet = [a \in Accounts |-> [i \in TokenIds |-> Unused]]
      /\ w.frozen = [a \in Accounts |-> << >>]
      /\ w.permissions = [a \in Accounts |-> << >>] /\ w.name = [a \in Accounts |-> ""]
      /\ w.names = << >> /\ w.ids = << >> /\ w.contracts = << >>
  BY DEF Genesis, IsWorld
<1> HIDE DEF w
<1>2. Funds \in Nat /\ IntMax \in Nat /\ Funds <= IntMax
  BY WalletAssumption
<1>3. SunOk(w.balance, w.burned, w.exists)
  <2> DEFINE b == [a \in Accounts |-> IF a \in Holders THEN Funds ELSE 0]
  <2>1. Total(b) = Cardinality(Holders) * Funds
    BY <1>2, Finite, TotalEqual
  <2>2. Cardinality(Holders) * Funds \in Nat
    BY <1>2, WalletAssumption, FS_CardinalityType, Product
  <2>3. b \in [Accounts -> Nat] /\ \A a \in Accounts : b[a] <= IntMax /\ (a \notin Holders => b[a] = 0)
    BY <1>2
  <2>4. w.balance = b
    BY <1>1
  <2> HIDE DEF b
  <2>5. Total(b) + 0 = Cardinality(Holders) * Funds
    BY <2>1, <2>2
  <2>6. w.exists = Holders /\ w.burned = 0 /\ Holders \in SUBSET Accounts /\ 0 \in Nat
    BY <1>1, Finite
  <2>7. /\ b \in [Accounts -> Nat]
        /\ \A a \in Accounts : /\ a \notin Contracts => b[a] <= IntMax
                               /\ a \notin Holders => b[a] = 0
    BY <2>3
  <2>8. Total(b) + w.burned = Cardinality(Holders) * Funds /\ w.burned \in Nat
    BY <2>5, <2>6
  <2>9. SunOk(b, w.burned, Holders)
    BY <2>6, <2>7, <2>8 DEF SunOk
  <2> QED
    BY <2>4, <2>6, <2>9
<1>4. Unused \in Usage /\ Unused.at = 0 /\ NowAt(Unused, 0) = 0
  BY DEF Unused, Usage, NowAt
<1>5. QuotasOk(w.net, w.stakedNet, w.energy, w.assetNet, 0)
  <2>1. FreeNet \in Nat /\ StakedEnergy \in Nat /\ \A a : NetLimit(a) \in Nat
    BY WalletAssumption DEF NetLimit
  <2>2. \A a \in Accounts : w.net[a] = Unused /\ w.stakedNet[a] = Unused /\ w.energy[a] = Unused
    BY <1>1
  <2>3. /\ w.net \in [Accounts -> Usage] /\ w.stakedNet \in [Accounts -> Usage]
        /\ w.energy \in [Accounts -> Usage] /\ w.assetNet \in [Accounts -> [TokenIds -> Usage]]
    <3>1. [a \in Accounts |-> Unused] \in [Accounts -> Usage]
      BY <1>4
    <3>2. [a \in Accounts |-> [i \in TokenIds |-> Unused]] \in [Accounts -> [TokenIds -> Usage]]
      BY <1>4
    <3> QED
      BY <1>1, <3>1, <3>2, Zenon
  <2> QED
    BY <1>4, <2>1, <2>2, <2>3 DEF QuotasOk
<1>6. DOMAIN << >> = {} /\ << >> \in Seq(Asset) /\ << >> \in Seq(Tranche)
  OBVIOUS
<1>7. TokensOk(w.assets, w.holding, w.frozen)
  <2> DEFINE hs == [a \in Accounts |-> [i \in TokenIds |-> 0]]
  <2>5. hs \in [Accounts -> [TokenIds -> Nat]]
    OBVIOUS
  <2>6. \A a \in Accounts : \A i \in TokenIds : hs[a][i] = 0
    OBVIOUS
  <2>7. w.holding = hs
    BY <1>1, Zenon
  <2> HIDE DEF hs
  <2>1. w.holding \in [Accounts -> [TokenIds -> Nat]]
    BY <2>5, <2>7
  <2>2. \A a \in Accounts : \A i \in TokenIds : w.holding[a][i] = 0
    BY <2>6, <2>7
  <2>3. w.frozen \in [Accounts -> Seq(Tranche)]
    <3>1. [a \in Accounts |-> << >>] \in [Accounts -> Seq(Tranche)]
      BY <1>6
    <3> QED
      BY <1>1, <3>1, Zenon
  <2>4. w.assets = << >>
    BY <1>1
  <2> QED
    BY <1>6, <2>1, <2>2, <2>3, <2>4 DEF TokensOk
<1>8. TitlesOk(w.assets, w.exists, p) /\ PoolsOk(w.assets, w.stakedNet, 0)
  BY <1>1, <1>6 DEF TitlesOk, PoolsOk
<1>9. NamesOk(w.name, w.names, w.ids, p)
  BY <1>1, <1>6 DEF NamesOk, IdsOk
<1>10. PermissionsOk(w.permissions)
  BY <1>1 DEF PermissionsOk
<1>11. ContractsOk(w.contracts)
  <2>1. << >> \in [DOMAIN << >> -> Meta]
    BY <1>6
  <2> QED
    BY <1>1, <1>6, <2>1 DEF ContractsOk
<1>12. Good(w, 0, p)
  BY <1>1, <1>3, <1>5, <1>7, <1>8, <1>9, <1>10, <1>11 DEF Good
<1> QED
  BY <1>12 DEF w

LEMMA StartWallet ==
    ASSUME Init
    PROVE  WalletInv
<1>1. params \in Params /\ world = Genesis /\ head = 0 /\ txs = 0
  BY DEF Init
<1>2. MaxDay \in Nat /\ MaxTxs \in Nat
  BY WalletAssumption
<1>3. Good(world, head, params)
  BY <1>1, GenesisGood
<1> QED
  BY <1>1, <1>2, <1>3 DEF WalletInv

\* Every transaction is one of these.
LEMMA TxSound ==
    ASSUME WalletInv, NEW a \in Callers, NEW e, AccountTx(a, e) \/ AssetTx(a, e) \/ ContractTx(a, e)
    PROVE  Upheld(world') /\ UNCHANGED <<params, head>>
<1>1. CASE AccountTx(a, e)
  <2>1. CASE \E b \in Accounts, x \in Amounts : TransferContract(a, b, x, e)
    BY <2>1, TransferSound
  <2>2. CASE \E b \in Fresh : AccountCreateContract(a, b, e)
    BY <2>2, AccountCreateSound
  <2>3. CASE \E n \in Names : AccountUpdateContract(a, n, e)
    BY <2>3, AccountUpdateSound
  <2>4. CASE \E id \in Ids : SetAccountIdContract(a, id, e)
    BY <2>4, SetAccountIdSound
  <2>5. CASE \E ps \in PermissionSets : AccountPermissionUpdateContract(a, ps, e)
    BY <2>5, PermissionUpdateSound
  <2> QED
    BY <1>1, <2>1, <2>2, <2>3, <2>4, <2>5 DEF AccountTx
<1>2. CASE AssetTx(a, e)
  <2>1. CASE \E i \in Issues : AssetIssueContract(a, i, e)
    BY <2>1, AssetIssueSound
  <2>2. CASE UnfreezeAssetContract(a, e)
    BY <2>2, UnfreezeSound
  <2>3. CASE \E limit \in Limits : UpdateAssetContract(a, limit, e)
    BY <2>3, UpdateAssetSound
  <2>4. CASE \E id \in TokenIds, x \in Amounts, b \in Callers : TransferAssetContract(a, b, id, x, e)
    BY <2>4, TransferAssetSound
  <2>5. CASE \E id \in TokenIds, x \in Amounts : ParticipateAssetIssueContract(a, id, x, e)
    BY <2>5, ParticipateSound
  <2> QED
    BY <1>2, <2>1, <2>2, <2>3, <2>4, <2>5 DEF AssetTx, Callers
<1>3. CASE ContractTx(a, e)
  <2>1. PICK c \in Contracts :
           \/ \E used \in Uses, ok \in BOOLEAN :
                 \/ \E value \in Amounts \cup {0} : TriggerSmartContract(a, c, value, used, ok, e)
                 \/ \E p \in Percents : CreateSmartContract(a, c, p, used, ok, e)
           \/ \E p \in Percents : UpdateSettingContract(a, c, p, e)
           \/ \E limit \in Limits : UpdateEnergyLimitContract(a, c, limit, e)
    BY <1>3 DEF ContractTx
  <2>2. CASE \E used \in Uses, ok \in BOOLEAN, value \in Amounts \cup {0} :
                TriggerSmartContract(a, c, value, used, ok, e)
    BY <2>2, TriggerSound
  <2>3. CASE \E used \in Uses, ok \in BOOLEAN, p \in Percents : CreateSmartContract(a, c, p, used, ok, e)
    BY <2>3, CreateSound
  <2>4. CASE \E p \in Percents : UpdateSettingContract(a, c, p, e)
    BY <2>4, UpdateSettingSound
  <2>5. CASE \E limit \in Limits : UpdateEnergyLimitContract(a, c, limit, e)
    BY <2>5, UpdateEnergyLimitSound
  <2> QED
    BY <2>1, <2>2, <2>3, <2>4, <2>5
<1> QED
  BY <1>1, <1>2, <1>3

LEMMA StepWallet ==
    ASSUME WalletInv, [Next]_vars
    PROVE  /\ WalletInv'
           /\ (world'.exists \ Contracts) # (world.exists \ Contracts)
                 => world'.burned >= world.burned + Fees["newAccount"]
<1>1. CASE txs < MaxTxs /\ txs' = txs + 1
           /\ \E a \in Callers, e \in Envelopes : AccountTx(a, e) \/ AssetTx(a, e) \/ ContractTx(a, e)
  <2>1. PICK a \in Callers, e \in Envelopes : AccountTx(a, e) \/ AssetTx(a, e) \/ ContractTx(a, e)
    BY <1>1
  <2>2. Upheld(world') /\ UNCHANGED <<params, head>>
    BY <2>1, TxSound
  <2>3. txs' \in 0..MaxTxs
    BY <1>1, WalletAssumption DEF WalletInv
  <2> QED
    BY <2>2, <2>3 DEF Upheld, WalletInv
<1>2. CASE NextDay
  <2>1. Good(world, head + 1, params)
    BY DayGood DEF WalletInv
  <2>2. head' \in 0..MaxDay
    BY <1>2, WalletAssumption DEF WalletInv, NextDay
  <2> QED
    BY <1>2, <2>1, <2>2 DEF WalletInv, NextDay
<1>3. CASE UNCHANGED vars
  BY <1>3 DEF WalletInv, vars
<1> QED
  BY <1>1, <1>2, <1>3 DEF Next, Callers

LEMMA WalletInvariant == Spec => []WalletInv
<1>1. Init => WalletInv
  BY StartWallet
<1>2. WalletInv /\ [Next]_vars => WalletInv'
  BY StepWallet
<1> QED
  BY <1>1, <1>2, PTL DEF Spec

\* What an execution may use.
LEMMA LimitsNat ==
    ASSUME NEW w, NEW a, NEW meta \in Meta, NEW value \in Nat,
           NowAt(w.energy[a], head) \in Nat, NowAt(w.energy[meta.origin], head) \in Nat,
           w.balance[a] \in Nat
    PROVE  /\ CallerLimit(w, a, value) \in Nat
           /\ CreatorLimit(w, a, meta, CallerLimit(w, a, value)) \in Nat
<1> DEFINE limit == CallerLimit(w, a, value)
           fee == Fees["energy"]
           bound == OriginBound(w, meta)
           p == meta.percent
<1>1. fee \in Nat \ {0} /\ FeeLimit \in Nat /\ p \in 0..100 /\ meta.limit \in Nat
  BY WalletAssumption DEF Meta
<1>2. EnergyLeft(w, a) \in Nat /\ EnergyLeft(w, meta.origin) \in Nat
  BY LimitsAre
<1>3. limit \in Nat
  <2> DEFINE d == w.balance[a] - value
             rest == Max({0, d})
             x == EnergyLeft(w, a) + (rest \div fee)
  <2>1. 0 \in Int /\ d \in Int
    OBVIOUS
  <2>2. limit = Min({FeeLimit, x})
    BY DEF CallerLimit
  <2> HIDE DEF d, limit
  <2>3. rest = IF 0 >= d THEN 0 ELSE d
    BY <2>1, OfTwo
  <2>4. rest \in Nat
    BY <2>1, <2>3
  <2> HIDE DEF rest, fee
  <2>5. x \in Nat
    <3>1. rest \div fee \in Nat
      BY <1>1, <2>4, Divides
    <3> QED
      BY <1>2, <3>1
  <2> HIDE DEF x
  <2> QED
    BY <1>1, <2>2, <2>5, OfTwo
<1> HIDE DEF limit
<1>4. bound \in Nat
  <2>1. bound = Min({EnergyLeft(w, meta.origin), meta.limit})
    BY DEF OriginBound
  <2> HIDE DEF bound
  <2> QED
    BY <1>1, <1>2, <2>1, OfTwo
<1>5. CreatorLimit(w, a, meta, limit) \in Nat
  <2>1. CASE meta.origin = a \/ p = 100
    BY <2>1 DEF CreatorLimit
  <2>2. CASE meta.origin # a /\ p = 0
    BY <2>2, <1>4 DEF CreatorLimit
  <2>3. CASE meta.origin # a /\ p # 0 /\ p # 100
    <3> DEFINE give == (limit * (100 - p)) \div p
    <3>1. CreatorLimit(w, a, meta, limit) = Min({bound, give})
      BY <2>3 DEF CreatorLimit
    <3>2. give \in Nat
      <4>1. 100 - p \in Nat /\ p \in Nat \ {0}
        BY <1>1, <2>3
      <4>2. limit * (100 - p) \in Nat
        BY <1>3, <4>1, Product
      <4> HIDE DEF p
      <4> QED
        BY <4>1, <4>2, Divides
    <3> HIDE DEF bound, give
    <3> QED
      BY <1>4, <3>1, <3>2, OfTwo
  <2> QED
    BY <2>1, <2>2, <2>3
<1> QED
  BY <1>3, <1>5 DEF limit

(***************************************************************************)
(* What the invariant says of the ledgers and of the accounts.             *)
(***************************************************************************)

LEMMA TypesHold ==
    ASSUME WalletInv
    PROVE  TypeOK
<1>1. /\ SunOk(world.balance, world.burned, world.exists) /\ TokensOk(world.assets, world.holding, world.frozen)
      /\ QuotasOk(world.net, world.stakedNet, world.energy, world.assetNet, head)
      /\ Good(world, head, params)
  BY DEF WalletInv, Good
<1>2. ASSUME NEW a \in Accounts
      PROVE  /\ world.balance[a] \in IF a \in Contracts THEN Nat ELSE Amount
             /\ Now(world.net[a]) <= FreeNet /\ Now(world.stakedNet[a]) <= NetLimit(a)
             /\ Now(world.energy[a]) \in 0..StakedEnergy
  <2>1. world.balance[a] \in Nat /\ (a \notin Contracts => world.balance[a] <= IntMax) /\ IntMax \in Nat
    BY <1>1, WalletAssumption DEF SunOk
  <2>2. world.balance[a] \in IF a \in Contracts THEN Nat ELSE Amount
    BY <2>1 DEF Amount
  <2>3. \A u : Now(u) = NowAt(u, head)
    BY DEF Now, NowAt
  <2>4. /\ NowAt(world.net[a], head) <= FreeNet /\ NowAt(world.stakedNet[a], head) <= NetLimit(a)
        /\ NowAt(world.energy[a], head) <= StakedEnergy
    BY <1>1 DEF QuotasOk
  <2>5. NowAt(world.energy[a], head) \in Nat /\ StakedEnergy \in Nat
    BY <1>1, EnergyIs
  <2>6. NowAt(world.energy[a], head) \in 0..StakedEnergy
    BY <2>4, <2>5
  <2> QED
    BY <2>2, <2>3, <2>4, <2>6
<1>3. \A a \in Accounts : \A id \in TokenIds : world.holding[a][id] \in Amount
  BY <1>1, HeldOfSupply DEF Amount
<1>4. world.exists \subseteq Accounts /\ world.burned \in Nat
  BY <1>1 DEF SunOk
<1> QED
  BY <1>2, <1>3, <1>4 DEF TypeOK, WalletInv

LEMMA BudgetHolds ==
    ASSUME WalletInv
    PROVE  WithinBudget
<1> SUFFICES ASSUME NEW c \in DOMAIN world.contracts, NEW a \in world.exists \ Contracts,
                    NEW value \in Amounts \cup {0},
                    NEW used \in 0..(CallerLimit(world, a, value)
                                       + CreatorLimit(world, a, world.contracts[c], CallerLimit(world, a, value)))
             PROVE  LET meta == world.contracts[c]
                        mine == used - OriginUsage(world, a, meta, used)
                    IN /\ mine <= CallerLimit(world, a, value)
                       /\ (mine - Min({mine, EnergyLeft(world, a)})) * Fees["energy"]
                             <= Max({0, world.balance[a] - value})
  BY DEF WithinBudget
<1> DEFINE meta == world.contracts[c]
           limit == CallerLimit(world, a, value)
           more == CreatorLimit(world, a, meta, limit)
<1>1. Good(world, head, params) /\ a \in Accounts /\ world.balance[a] \in Nat
  BY DEF WalletInv, Good, SunOk
<1>2. meta \in Meta
  BY <1>1 DEF Good, ContractsOk
<1>3. meta.origin \in Accounts /\ value \in Nat
  <2>1. value \in Nat
    BY WalletAssumption
  <2> HIDE DEF meta
  <2>2. meta.origin \in Accounts
    BY <1>2 DEF Meta
  <2> QED
    BY <2>1, <2>2
<1>4. /\ NowAt(world.energy[a], head) \in Nat /\ NowAt(world.energy[meta.origin], head) \in Nat
      /\ EnergyLeft(world, meta.origin) \in Nat
  BY <1>1, <1>3, EnergyIs
<1>5. limit \in Nat /\ more \in Nat
  BY <1>1, <1>2, <1>3, <1>4, LimitsNat
<1>6. used \in Nat /\ used <= limit + more
  <2> HIDE DEF limit, more
  <2>1. used \in 0..(limit + more)
    BY DEF limit, more, meta
  <2> QED
    BY <1>5, <2>1
<1> HIDE DEF meta
<1>7. /\ used - OriginUsage(world, a, meta, used) <= limit
      /\ (used - OriginUsage(world, a, meta, used)
             - Min({used - OriginUsage(world, a, meta, used), EnergyLeft(world, a)})) * Fees["energy"]
           <= Max({0, world.balance[a] - value})
  BY <1>1, <1>2, <1>3, <1>4, <1>6, Budget
<1> QED
  BY <1>7 DEF meta

LEMMA LedgersHold ==
    ASSUME WalletInv
    PROVE  LedgerSound
<1>1. TypeOK /\ WithinBudget
  BY TypesHold, BudgetHolds
<1>2. TrxConserved
  BY DEF WalletInv, Good, SunOk, TrxConserved
<1>3. SupplyConserved
  <2>1. TokensOk(world.assets, world.holding, world.frozen)
    BY DEF WalletInv, Good
  <2> QED
    BY <2>1 DEF TokensOk, SupplyConserved, Backing, Column
<1>4. PoolBacked
  <2>1. \A u : Now(u) = NowAt(u, head)
    BY DEF Now, NowAt
  <2>2. PoolsOk(world.assets, world.stakedNet, head)
    BY DEF WalletInv, Good
  <2> QED
    BY <2>1, <2>2 DEF PoolsOk, PoolBacked
<1> QED
  BY <1>1, <1>2, <1>3, <1>4 DEF LedgerSound

\* Signatures of all keys weigh what the keys do.
LEMMA AllSign ==
    ASSUME NEW p, NEW n \in Nat \ {0}, n <= TotalSignNum, DOMAIN p.keys = 1..n, Len(p.keys) = n,
           \A i, j \in 1..n : p.keys[i].address = p.keys[j].address => i = j,
           \A i \in 1..n : p.keys[i].weight \in Int /\ p.keys[i].weight > 0,
           p.threshold <= WeightSum(p)
    PROVE  \E S \in SUBSET {p.keys[i].address : i \in DOMAIN p.keys} :
              /\ Cardinality(S) <= TotalSignNum
              /\ SignatureWeight(p, SetToSeq(S)) >= p.threshold
<1> DEFINE A(i) == p.keys[i].address
           S == {A(i) : i \in 1..n}
           q == SetToSeq(S)
           w == [z \in S |-> WeightOf(p, z)]
<1>1. IsFiniteSet(1..n) /\ Cardinality(1..n) = n
  <2>1. 1 \in Int /\ n \in Int /\ ~(1 > n) /\ n - 1 + 1 = n
    OBVIOUS
  <2>2. IsFiniteSet(1..n) /\ Cardinality(1..n) = IF 1 > n THEN 0 ELSE n - 1 + 1
    BY <2>1, FS_Interval
  <2> QED
    BY <2>1, <2>2
<1> DEFINE f == [i \in 1..n |-> A(i)]
<1>2. f \in Surjection(1..n, S) /\ f \in Injection(1..n, S)
  <2>1. f \in [1..n -> S] /\ \A z \in S : \E i \in 1..n : f[i] = z
    OBVIOUS
  <2>2. \A i, j \in 1..n : f[i] = f[j] => i = j
    OBVIOUS
  <2> HIDE DEF f, S
  <2> QED
    BY <2>1, <2>2 DEF Surjection, Injection, IsInjective
<1>3. IsFiniteSet(S) /\ Cardinality(S) = n
  <2> HIDE DEF f, S
  <2>1. IsFiniteSet(S) /\ (Cardinality(S) = Cardinality(1..n) <=> f \in Injection(1..n, S))
    BY <1>1, <1>2, FS_Surjection
  <2> QED
    BY <1>1, <1>2, <2>1
<1> HIDE DEF f
<1>4. q \in [1..n -> S] /\ IsInjective(q)
  <2> DEFINE g == CHOOSE e \in [1..n -> S] : IsInjective(e)
  <2>1. \E e \in [1..n -> S] : IsInjective(e)
    <3>1. f \in [1..n -> S] /\ DOMAIN f = 1..n /\ \A i, j \in 1..n : f[i] = f[j] => i = j
      BY DEF f
    <3> HIDE DEF S
    <3>2. IsInjective(f)
      BY <3>1 DEF IsInjective
    <3> QED
      BY <3>1, <3>2
  <2>2. g \in [1..n -> S] /\ IsInjective(g)
    BY <2>1
  <2>3. q = g
    BY <1>3 DEF SetToSeq
  <2> QED
    BY <2>2, <2>3
<1>5. q \in Surjection(1..n, S)
  <2> HIDE DEF q, S
  <2>1. q \in Injection(1..n, S)
    BY <1>4 DEF Injection, IsInjective
  <2>2. Cardinality(1..n) = Cardinality(S) <=> q \in Surjection(1..n, S)
    BY <1>3, <2>1, FS_Injection
  <2> QED
    BY <1>1, <1>3, <2>2
<1>6. \A i \in 1..n : WeightOf(p, A(i)) = p.keys[i].weight
  <2> SUFFICES ASSUME NEW i \in 1..n PROVE WeightOf(p, A(i)) = p.keys[i].weight
    OBVIOUS
  <2> DEFINE mine == {j \in DOMAIN p.keys : p.keys[j].address = A(i)}
  <2>1. mine = {i}
    OBVIOUS
  <2>2. Min({i}) = i
    BY DEF Min
  <2>3. {i} # {}
    OBVIOUS
  <2>4. WeightOf(p, A(i)) = IF mine = {} THEN 0 ELSE p.keys[Min(mine)].weight
    BY DEF WeightOf
  <2> HIDE DEF mine
  <2> QED
    BY <2>1, <2>2, <2>3, <2>4
<1>7. \A z \in S : w[z] \in Int /\ w[z] > 0 /\ w[z] = WeightOf(p, z)
  BY <1>6
<1>8. DOMAIN q = 1..n /\ Len(q) = n /\ \A i \in 1..n : q[i] \in S
  <2> HIDE DEF q, S
  <2>1. DOMAIN q = 1..n /\ \A i \in 1..n : q[i] \in S
    BY <1>4
  <2>2. q \in Seq(S)
    BY <1>4, SeqDef
  <2>3. Len(q) \in Nat /\ DOMAIN q = 1..Len(q)
    BY <2>2, LenProperties
  <2>4. Len(q) = n
    BY <2>1, <2>3
  <2> QED
    BY <2>1, <2>4
<1>9. \A z \in S : \E i \in DOMAIN q : q[i] = z
  <2> HIDE DEF q, S
  <2> QED
    BY <1>5, <1>8 DEF Surjection
<1>10. Total([i \in DOMAIN q |-> w[q[i]]]) = Total([z \in S |-> w[z]])
  <2>1. \A i, j \in DOMAIN q : q[i] = q[j] => i = j
    BY <1>4 DEF IsInjective
  <2>2. DOMAIN w = S /\ \A z \in S : w[z] \in Int
    BY <1>7
  <2> DEFINE e == [i \in DOMAIN q |-> w[q[i]]]
             h == [z \in S |-> w[z]]
  <2>3. e = [i \in DOMAIN q |-> w[q[i]]] /\ h = [z \in S |-> w[z]]
    OBVIOUS
  <2> HIDE DEF q, S, w, e, h
  <2>4. IsFiniteSet(DOMAIN q) /\ \A i \in DOMAIN q : q[i] \in S
    BY <1>1, <1>8
  <2>5. Total(e) = Total(h)
    BY <1>9, <2>1, <2>2, <2>3, <2>4, TotalThrough
  <2> QED
    BY <2>3, <2>5
<1>11. Total([i \in 1..n |-> w[f[i]]]) = Total([z \in S |-> w[z]])
  <2>1. DOMAIN f = 1..n /\ \A i \in 1..n : f[i] = A(i) /\ f[i] \in S
    BY DEF f
  <2>2. DOMAIN w = S /\ \A z \in S : w[z] \in Int
    BY <1>7
  <2>3. \A i, j \in DOMAIN f : f[i] = f[j] => i = j
    BY <2>1
  <2>4. \A z \in S : \E i \in DOMAIN f : f[i] = z
    <3> HIDE DEF S
    <3> QED
      BY <1>2, <2>1 DEF Surjection
  <2> DEFINE e == [i \in DOMAIN f |-> w[f[i]]]
             h == [z \in S |-> w[z]]
  <2>5. e = [i \in DOMAIN f |-> w[f[i]]] /\ h = [z \in S |-> w[z]]
    OBVIOUS
  <2> HIDE DEF S, w, e, h
  <2>6. IsFiniteSet(DOMAIN f) /\ \A i \in DOMAIN f : f[i] \in S
    BY <1>1, <2>1
  <2>7. Total(e) = Total(h)
    BY <2>2, <2>3, <2>4, <2>5, <2>6, TotalThrough
  <2> QED
    BY <2>1, <2>5, <2>7
<1>12. Total([i \in 1..n |-> w[f[i]]]) = WeightSum(p)
  <2>1. \A i \in 1..n : w[f[i]] = p.keys[i].weight
    BY <1>6, <1>7 DEF f
  <2>2. [i \in 1..n |-> w[f[i]]] = [i \in DOMAIN p.keys |-> p.keys[i].weight]
    BY <2>1
  <2> QED
    BY <2>2 DEF WeightSum
<1>13. SignatureWeight(p, q) = Total([i \in DOMAIN q |-> WeightOf(p, q[i])])
  <2>1. ~(Len(q) > Len(p.keys))
    BY <1>8
  <2>2. ASSUME NEW i \in DOMAIN q PROVE WeightOf(p, q[i]) # 0
    <3> HIDE DEF q, S, w
    <3>1. q[i] \in S
      BY <1>8
    <3> QED
      BY <1>7, <3>1
  <2> HIDE DEF q
  <2> QED
    BY <1>4, <2>1, <2>2 DEF SignatureWeight
<1>14. [i \in DOMAIN q |-> WeightOf(p, q[i])] = [i \in DOMAIN q |-> w[q[i]]]
  BY <1>7, <1>8
<1>15. SignatureWeight(p, q) = WeightSum(p)
  BY <1>10, <1>11, <1>12, <1>13, <1>14
<1>16. S \in SUBSET {p.keys[i].address : i \in DOMAIN p.keys}
  OBVIOUS
<1>17. WeightSum(p) >= p.threshold /\ Cardinality(S) <= TotalSignNum
  BY <1>3
<1> QED
  BY <1>15, <1>16, <1>17

\* Nobody is locked out.
LEMMA NobodyLockedOut ==
    ASSUME WalletInv
    PROVE  NeverLockedOut
<1> SUFFICES ASSUME NEW a \in world.exists, NEW id \in DOMAIN PermissionsOf(world, a)
             PROVE  LET p == PermissionsOf(world, a)[id]
                    IN \E S \in SUBSET {p.keys[i].address : i \in DOMAIN p.keys} :
                          /\ Cardinality(S) <= TotalSignNum
                          /\ SignatureWeight(p, SetToSeq(S)) >= p.threshold
  BY DEF NeverLockedOut
<1> DEFINE p == PermissionsOf(world, a)[id]
<1>1. PermissionsOk(world.permissions) /\ a \in Accounts
  BY DEF WalletInv, Good, SunOk
<1>2. TotalSignNum \in Nat \ {0}
  BY WalletAssumption
<1>3. CASE world.permissions[a] = << >>
  <2>1. p.keys = <<Key(a, 1)>> /\ p.threshold = 1
    BY <1>3 DEF PermissionsOf, DefaultPermissions
  <2>2. Key(a, 1).address = a /\ Key(a, 1).weight = 1
    BY DEF Key
  <2> HIDE DEF p
  <2>3. /\ DOMAIN p.keys = 1..1 /\ Len(p.keys) = 1
        /\ \A i \in 1..1 : p.keys[i].address = a /\ p.keys[i].weight = 1 /\ i = 1
    BY <2>1, <2>2
  <2>4. WeightSum(p) = 1
    <3> DEFINE f == [i \in DOMAIN p.keys |-> p.keys[i].weight]
    <3>1. DOMAIN f = {1} /\ f[1] = 1 /\ f = [x \in {1} |-> IF x \in {1} THEN 1 ELSE 0]
      BY <2>3
    <3>2. IsFiniteSet({1}) /\ Cardinality({1}) = 1
      BY FS_Singleton
    <3>3. Total([x \in {1} |-> IF x \in {1} THEN 1 ELSE 0]) = Cardinality({1}) * 1
      BY <3>2, TotalEqual
    <3> HIDE DEF f
    <3>4. Total(f) = 1
      BY <3>1, <3>2, <3>3
    <3> QED
      BY <3>4 DEF f, WeightSum
  <2>5. 1 \in Nat \ {0} /\ 1 <= TotalSignNum /\ p.threshold <= WeightSum(p)
    BY <1>2, <2>1, <2>4
  <2>6. /\ \A i, j \in 1..1 : p.keys[i].address = p.keys[j].address => i = j
        /\ \A i \in 1..1 : p.keys[i].weight \in Int /\ p.keys[i].weight > 0
    BY <2>3
  <2>7. \E S \in SUBSET {p.keys[i].address : i \in DOMAIN p.keys} :
           /\ Cardinality(S) <= TotalSignNum
           /\ SignatureWeight(p, SetToSeq(S)) >= p.threshold
    BY <2>3, <2>5, <2>6, AllSign
  <2> QED
    BY <2>7 DEF p
<1>4. CASE world.permissions[a] # << >>
  <2>1. /\ world.permissions[a] \in PermissionSets /\ id \in DOMAIN world.permissions[a]
        /\ p = world.permissions[a][id] /\ PermissionOk(p)
    BY <1>1, <1>4 DEF PermissionsOk, PermissionsOf
  <2>2. p.keys \in Seq([address : Holders \cup Fresh, weight : Int])
    BY <2>1, WalletAssumption
  <2> HIDE DEF p
  <2> DEFINE n == Len(p.keys)
  <2>3. DOMAIN p.keys = 1..n /\ n \in Nat
    BY <2>2, LenProperties
  <2>4. n \in 1..TotalSignNum
    BY <2>1 DEF PermissionOk
  <2>5. \A i \in 1..n : p.keys[i] \in [address : Holders \cup Fresh, weight : Int]
    BY <2>2, ElementOfSeq
  <2>6. \A i \in 1..n : p.keys[i].weight \in Int /\ p.keys[i].weight > 0
    BY <2>1, <2>3, <2>5 DEF PermissionOk
  <2>7. \A i, j \in 1..n : p.keys[i].address = p.keys[j].address => i = j
    <3> DEFINE T == {p.keys[i].address : i \in DOMAIN p.keys}
               f == [i \in 1..n |-> p.keys[i].address]
    <3>1. Cardinality(T) = n
      BY <2>1 DEF PermissionOk
    <3>2. f \in [1..n -> T] /\ \A z \in T : \E i \in 1..n : f[i] = z
      BY <2>3
    <3>3. \A i \in 1..n : f[i] = p.keys[i].address
      OBVIOUS
    <3> HIDE DEF T, f, n
    <3>4. f \in Surjection(1..n, T)
      BY <3>2 DEF Surjection
    <3>5. IsFiniteSet(1..n) /\ Cardinality(1..n) = n
      <4>1. 1 \in Int /\ n \in Int /\ ~(1 > n) /\ n - 1 + 1 = n
        BY <1>2, <2>3, <2>4
      <4>2. IsFiniteSet(1..n) /\ Cardinality(1..n) = IF 1 > n THEN 0 ELSE n - 1 + 1
        BY <4>1, FS_Interval
      <4> QED
        BY <4>1, <4>2
    <3>6. f \in Injection(1..n, T)
      BY <3>1, <3>4, <3>5, FS_Surjection
    <3>7. \A i, j \in 1..n : f[i] = f[j] => i = j
      BY <3>2, <3>6 DEF Injection, IsInjective
    <3> QED
      BY <3>3, <3>7
  <2>8. p.threshold <= WeightSum(p)
    BY <2>1 DEF PermissionOk
  <2>9. n \in Nat \ {0} /\ n <= TotalSignNum /\ Len(p.keys) = n
    BY <1>2, <2>4
  <2> HIDE DEF n
  <2>10. \E S \in SUBSET {p.keys[i].address : i \in DOMAIN p.keys} :
            /\ Cardinality(S) <= TotalSignNum
            /\ SignatureWeight(p, SetToSeq(S)) >= p.threshold
    BY <2>3, <2>6, <2>7, <2>8, <2>9, AllSign
  <2> QED
    BY <2>10 DEF p
<1> QED
  BY <1>3, <1>4

\* Unique is read off the invariant's parts.
LEMMA AccountsHold ==
    ASSUME WalletInv
    PROVE  AccountsSound
<1>1. Unique
  <2>1. /\ TokensOk(world.assets, world.holding, world.frozen) /\ TitlesOk(world.assets, world.exists, params)
        /\ NamesOk(world.name, world.names, world.ids, params)
    BY DEF WalletInv, Good
  <2>2. \A i, j \in DOMAIN world.assets :
           i # j => /\ world.assets[i].owner # world.assets[j].owner
                    /\ params.sameTokenName \/ world.assets[i].name # world.assets[j].name
    BY <2>1 DEF TokensOk, TitlesOk
  <2>3. \A a, b \in Accounts : a # b /\ world.name[a] # "" /\ ~params.updateAccountName
           => world.name[a] # world.name[b]
    BY <2>1 DEF NamesOk
  <2>4. \A i, j \in DOMAIN world.ids : i # j => world.ids[i] # world.ids[j] /\ IdKey(i) # IdKey(j)
    BY <2>1 DEF NamesOk, IdsOk
  <2> QED
    BY <2>2, <2>3, <2>4 DEF Unique
<1> QED
  BY <1>1, NobodyLockedOut DEF AccountsSound

\* Sun and tokens are conserved through every fee, sale and tranche, the pools
\* of assets are backed by their issuers' stakes, and no execution costs its
\* caller more than its budget.
THEOREM WalletLedgers == Spec => []LedgerSound
<1>1. WalletInv => LedgerSound
  BY LedgersHold
<1> QED
  BY <1>1, WalletInvariant, PTL

\* Names, ids and issuers stay unique, and each account's permissions can be
\* met by signatures that the chain admits.
THEOREM WalletAccounts == Spec => []AccountsSound
<1>1. WalletInv => AccountsSound
  BY AccountsHold
<1> QED
  BY <1>1, WalletInvariant, PTL

\* No native transaction opens an account that nobody pays for.
THEOREM WalletCreations == Spec => CreationPaid
<1>1. WalletInv /\ [Next]_vars =>
         [(world'.exists \ Contracts) # (world.exists \ Contracts)
             => world'.burned >= world.burned + Fees["newAccount"]]_vars
  BY StepWallet
<1> QED
  BY <1>1, WalletInvariant, PTL DEF Spec, CreationPaid
=============================================================================
