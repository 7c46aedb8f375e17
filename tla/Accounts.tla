------------------------------ MODULE Accounts -------------------------------
(***************************************************************************)
(* The bytes that reach the state trie and the hash function: the RLP of   *)
(* an account with its TRC-10 balances and permissions, its partial and    *)
(* slim forms, and the preimages of the addresses of new contracts         *)
(* (packages/util/src/account.ts).  RLP itself is module Rlp, here with    *)
(* the layout the code has; byte strings have their real lengths.          *)
(***************************************************************************)
EXTENDS Integers, Sequences, SequencesExt, FiniteSets

CONSTANTS Nonces,       \* values of nonce and balance
          Hashes,       \* storage roots and code hashes besides the empty ones
          TokenIds, TokenBalances,
          IndexLimit,   \* property names below it are listed in numeric order
          PermissionLists,
          CreatorIds, CreatorNonces,  \* who creates contracts, and its counters
          MaxCreated    \* bound: contracts created in a behaviour

VARIABLES acct,         \* an Account object
          created       \* the creations so far: what each address was made from

accountVars == <<acct, created>>

R == INSTANCE Rlp WITH Single <- 128, Short <- 55, LengthBytes <- 8

\* A field that was not loaded.
Null == -1
NullBytes == <<-1>>

Fill(byte, n) == [i \in 1..n |-> byte]
KECCAK256_NULL == Fill(197, 32)
KECCAK256_RLP == Fill(86, 32)

bigIntToUnpaddedBytes(n) == R!Str(R!numberToBytes(n))
bytesToBigInt(item) == R!bytesToNumber(item.str)

(***************************************************************************)
(* The object.  asset is the sequence of [id, balance] in the order the    *)
(* properties were added.                                                  *)
(***************************************************************************)
isContractOf(code, size) == (code # NullBytes /\ code # KECCAK256_NULL) \/ (size # Null /\ size # 0)

Account(nonce, balance, root, code, size, version, asset, perms) ==
    [nonce |-> nonce, balance |-> balance, root |-> root, code |-> code,
     size |-> IF size = Null /\ code # NullBytes /\ ~isContractOf(code, Null) THEN 0 ELSE size,
     version |-> version, asset |-> asset, perms |-> perms]

NewAccount == Account(0, 0, KECCAK256_RLP, KECCAK256_NULL, 0, 0, << >>, << >>)

\* isContract and isEmpty, with what is thrown when too little is loaded.
isContract(a) ==
    IF a.code = NullBytes /\ a.size = Null THEN "throws"
    ELSE IF isContractOf(a.code, a.size) THEN "yes" ELSE "no"

Held(a) == \E i \in DOMAIN a.asset : a.asset[i].balance # 0

isEmpty(a) ==
    IF \/ a.balance \notin {Null, 0} \/ a.nonce \notin {Null, 0}
       \/ a.code \notin {NullBytes, KECCAK256_NULL} \/ Held(a) THEN "no"
    ELSE IF a.balance = Null \/ a.nonce = Null \/ a.code = NullBytes THEN "throws" ELSE "yes"

\* tokenIdToKey as a property: a known key keeps its place, a new one is last.
WithToken(asset, id, balance) ==
    IF \E i \in DOMAIN asset : asset[i].id = id
    THEN [i \in DOMAIN asset |-> IF asset[i].id = id THEN [id |-> id, balance |-> balance] ELSE asset[i]]
    ELSE Append(asset, [id |-> id, balance |-> balance])

ById(one, other) == one.id < other.id

\* Object.keys: the names that are array indices first, in numeric order.
ObjectKeys(asset) ==
    SortSeq(SelectSeq(asset, LAMBDA t : t.id < IndexLimit), ById)
    \o SelectSeq(asset, LAMBDA t : t.id >= IndexLimit)

(***************************************************************************)
(* The encoded account.                                                    *)
(***************************************************************************)
permissionToRlp(p) ==
    R!List(<<bigIntToUnpaddedBytes(p.type), bigIntToUnpaddedBytes(p.id), R!Str(p.name),
             bigIntToUnpaddedBytes(p.threshold), bigIntToUnpaddedBytes(p.parent), R!Str(p.operations),
             R!List([i \in DOMAIN p.keys |->
                       R!List(<<R!Str(p.keys[i].address), bigIntToUnpaddedBytes(p.keys[i].weight)>>)])>>)

permissionFromRlp(item) ==
    [type |-> bytesToBigInt(item.list[1]), id |-> bytesToBigInt(item.list[2]), name |-> item.list[3].str,
     threshold |-> bytesToBigInt(item.list[4]), parent |-> bytesToBigInt(item.list[5]),
     operations |-> item.list[6].str,
     keys |-> [i \in DOMAIN item.list[7].list |->
                 [address |-> item.list[7].list[i].list[1].str,
                  weight |-> bytesToBigInt(item.list[7].list[i].list[2])]]]


\* raw's list of balances, in the order of compareTokenIdKeys.
assetToRlp(asset) ==
    LET sorted == SortSeq(ObjectKeys(asset), ById)
    IN R!List(FlattenSeq([i \in 1..Len(sorted) |->
             <<bigIntToUnpaddedBytes(sorted[i].id), bigIntToUnpaddedBytes(sorted[i].balance)>>]))

RECURSIVE assetFromRlp(_, _)
\* createAccountFromBytesArray's loop: a name seen again is assigned again.
assetFromRlp(items, asset) ==
    IF items = << >> THEN asset
    ELSE assetFromRlp(SubSeq(items, 3, Len(items)),
                      WithToken(asset, bytesToBigInt(items[1]), bytesToBigInt(items[2])))

body(a) == <<bigIntToUnpaddedBytes(a.nonce), bigIntToUnpaddedBytes(a.balance), R!Str(a.root), R!Str(a.code)>>

raw(a) == R!List(body(a) \o <<assetToRlp(a.asset),
                              R!List([i \in DOMAIN a.perms |-> permissionToRlp(a.perms[i])])>>)

serialize(a) == R!encode(raw(a))

createAccountFromBytesArray(values) ==
    Account(bytesToBigInt(values[1]), bytesToBigInt(values[2]), values[3].str, values[4].str, 0, 0,
            IF Len(values) > 4 THEN assetFromRlp(values[5].list, << >>) ELSE << >>,
            IF Len(values) > 5 THEN [i \in DOMAIN values[6].list |-> permissionFromRlp(values[6].list[i])]
                               ELSE << >>)

createAccountFromRLP(serialized) == createAccountFromBytesArray(R!decode(serialized).list)

(***************************************************************************)
(* Partial accounts: every field behind an indicator.                      *)
(***************************************************************************)
Indicated(null, item) ==
    R!List(IF null THEN <<bigIntToUnpaddedBytes(0)>> ELSE <<bigIntToUnpaddedBytes(1), item>>)

serializeWithPartialInfo(a) ==
    R!encode(R!List(<<Indicated(a.nonce = Null, bigIntToUnpaddedBytes(a.nonce)),
                      Indicated(a.balance = Null, bigIntToUnpaddedBytes(a.balance)),
                      Indicated(a.root = NullBytes, R!Str(a.root)),
                      Indicated(a.code = NullBytes, R!Str(a.code)),
                      Indicated(a.size = Null, bigIntToUnpaddedBytes(a.size)),
                      Indicated(a.version = Null, bigIntToUnpaddedBytes(a.version))>>))

handleNullIndicator(values) ==
    IF values.list = << >> \/ bytesToBigInt(Head(values.list)) = 0 THEN R!Str(NullBytes)
    ELSE values.list[2]

PartialNumber(item) == IF item.str = NullBytes THEN Null ELSE bytesToBigInt(item)

createPartialAccount(nonce, balance, root, code, size, version) ==
    Account(nonce, balance, root, code, size, version, << >>, << >>)

AllNull(a) == /\ a.nonce = Null /\ a.balance = Null /\ a.root = NullBytes /\ a.code = NullBytes
              /\ a.size = Null /\ a.version = Null

createPartialAccountFromRLP(serialized) ==
    LET items == R!decode(serialized).list
        v == [i \in DOMAIN items |-> handleNullIndicator(items[i])]
    IN createPartialAccount(PartialNumber(v[1]), PartialNumber(v[2]), v[3].str, v[4].str,
                            PartialNumber(v[5]), PartialNumber(v[6]))

(***************************************************************************)
(* Slim bodies: the empty root and the empty code hash are left out.       *)
(***************************************************************************)
accountBodyToSlim(b) ==
    <<b[1], b[2], IF b[3].str = KECCAK256_RLP THEN R!Str(<< >>) ELSE b[3],
      IF b[4].str = KECCAK256_NULL THEN R!Str(<< >>) ELSE b[4]>>

accountBodyFromSlim(b) ==
    <<b[1], b[2], IF b[3].str = << >> THEN R!Str(KECCAK256_RLP) ELSE b[3],
      IF b[4].str = << >> THEN R!Str(KECCAK256_NULL) ELSE b[4]>>

accountBodyToRLP(b) == R!encode(R!List(accountBodyFromSlim(b)))

(***************************************************************************)
(* What is hashed for the address of a new contract.                       *)
(***************************************************************************)
Creator(id) == Fill(id, 20)
TransactionId(id) == Fill(id, 32)

generateAddress(c) ==
    R!encode(R!List(<<R!Str(Creator(c.from)),
                      IF c.nonce = 0 THEN R!Str(<< >>) ELSE bigIntToUnpaddedBytes(c.nonce)>>))

\* The nonce in eight bytes.
generateTronCreateAddress(c) ==
    LET digits == R!numberToBytes(c.nonce)
    IN TransactionId(c.from) \o Fill(0, 8 - Len(digits)) \o digits

generateTronContractAddress(c) == TransactionId(c.from) \o <<65>> \o Creator(c.nonce % 256)

generateAddress2WithPrefix(prefix, c) == <<prefix>> \o Creator(c.from) \o Fill(c.nonce % 256, 32) \o Fill(1, 32)
generateAddress2(c) == generateAddress2WithPrefix(255, c)
generateTronAddress2(c) == generateAddress2WithPrefix(65, c)

Preimage(c) == CASE c.by = "create" -> generateAddress(c)
                 [] c.by = "tron create" -> generateTronCreateAddress(c)
                 [] c.by = "deploy" -> generateTronContractAddress(c)
                 [] c.by = "create2" -> generateAddress2(c)
                 [] c.by = "tron create2" -> generateTronAddress2(c)

Creations == [by : {"create", "tron create"}, from : CreatorIds, nonce : CreatorNonces]
             \cup [by : {"deploy", "create2", "tron create2"}, from : CreatorIds, nonce : CreatorIds]

(***************************************************************************)
(* The operations.                                                         *)
(***************************************************************************)
Set(a) == acct' = a /\ UNCHANGED created

SetNumber == \E n \in Nonces : Set([acct EXCEPT !.nonce = n]) \/ Set([acct EXCEPT !.balance = n])
SetHash == \E h \in Hashes : Set([acct EXCEPT !.root = h]) \/ Set([acct EXCEPT !.code = h])
SetToken == \E id \in TokenIds, b \in TokenBalances : Set([acct EXCEPT !.asset = WithToken(@, id, b)])
updatePermissions == \E p \in PermissionLists : Set([acct EXCEPT !.perms = p])
Create == /\ Cardinality(created) < MaxCreated
          /\ acct = NewAccount
          /\ \E c \in Creations : created' = created \cup {c}
          /\ UNCHANGED acct

\* A new account, or one of which some fields were not loaded.
AccountInit ==
    /\ created = {}
    /\ \/ acct = NewAccount
       \/ \E nonce, balance \in Nonces \cup {Null}, root \in {NullBytes, KECCAK256_RLP},
             code \in Hashes \cup {NullBytes, KECCAK256_NULL}, size \in {Null, 1}, version \in {Null, 0} :
            acct = createPartialAccount(nonce, balance, root, code, size, version)

AccountNext == \/ Create
               \/ created = {} /\ (SetNumber \/ SetHash \/ SetToken \/ updatePermissions)

(***************************************************************************)
(* Properties.                                                             *)
(***************************************************************************)
Loaded(a) == Null \notin {a.nonce, a.balance} /\ NullBytes \notin {a.root, a.code}
Amounts(a) == {a.asset[i] : i \in DOMAIN a.asset}

\* The fields hold numbers, byte strings of 32 bytes and lists, and a token
\* appears once among the balances.
AccountTypeOK ==
    /\ acct.nonce \in Nat \cup {Null} /\ acct.balance \in Nat \cup {Null}
    /\ acct.root = NullBytes \/ Len(acct.root) = 32
    /\ acct.code = NullBytes \/ Len(acct.code) = 32
    /\ Cardinality({t.id : t \in Amounts(acct)}) = Len(acct.asset)
    /\ created \subseteq Creations

\* An account read back from the trie is the one that was written: nonce,
\* balance, root, code, every token balance and every permission.  Whether it
\* is empty or a contract by its code does not change either.  (The code's
\* size and version are not part of the encoding.)
ReloadExact ==
    Loaded(acct) =>
      LET back == createAccountFromRLP(serialize(acct))
      IN /\ back.nonce = acct.nonce /\ back.balance = acct.balance
         /\ back.root = acct.root /\ back.code = acct.code /\ back.perms = acct.perms
         /\ Amounts(back) = Amounts(acct)
         /\ isEmpty(back) = isEmpty(acct)

\* Accounts with the same content have the same bytes, whatever the order in
\* which their tokens were received: the state root depends on nothing else.
OneEncoding ==
    Loaded(acct) => serialize(acct) = serialize(createAccountFromRLP(serialize(acct)))
                    /\ serialize(acct) = serialize([acct EXCEPT !.asset = Reverse(@)])

\* A partial account read back has the same fields loaded, with the same
\* values; a code size that was not loaded is zero where the code hash shows
\* that there is no code.  Only an account of which nothing is loaded cannot
\* be read back.
PartialExact ==
    ~AllNull(acct) =>
      LET back == createPartialAccountFromRLP(serializeWithPartialInfo(acct))
      IN /\ [back EXCEPT !.size = 0] = [acct EXCEPT !.size = 0, !.asset = << >>, !.perms = << >>]
         /\ \/ back.size = acct.size
            \/ acct.size = Null /\ acct.code = KECCAK256_NULL /\ back.size = 0
         /\ acct.code # NullBytes \/ acct.size # Null => isContract(back) = isContract(acct)

\* Leaving the empty root and code hash out loses nothing, and the RLP made
\* of a slim body is the one of the account without tokens and permissions.
SlimExact ==
    Loaded(acct) =>
      /\ accountBodyFromSlim(accountBodyToSlim(body(acct))) = body(acct)
      /\ LET back == createAccountFromRLP(accountBodyToRLP(accountBodyToSlim(body(acct))))
         IN back = [acct EXCEPT !.asset = << >>, !.perms = << >>, !.size = 0, !.version = 0]

\* Two creations never hash the same bytes: contracts made in different ways,
\* by different creators or with different counters have different addresses.
CreationsDistinct ==
    \A c, d \in created : c # d => Preimage(c) # Preimage(d)

=============================================================================
