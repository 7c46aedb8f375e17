------------------------------ MODULE Envelope ------------------------------
(***************************************************************************)
(* The wire forms of a transaction.  One signed message reaches the node   *)
(* as JSON with hexadecimal bytes, as JSON with readable addresses and     *)
(* names ("visible"), or as protobuf.  The JSON forms are packed into a    *)
(* canonical JSON transaction and encoded, the protobuf form is decoded    *)
(* into one, and what is identified, signed and executed must be the same  *)
(* message in every case (client/src/dialect/tron/wallet/broadcast.ts,     *)
(* pack.ts, encode.ts, builders.ts, print.ts).  The chain checks of        *)
(* admission are made again when a block is produced.                      *)
(*                                                                         *)
(* Bytes are sequences of octets of 0..2*Group-1, an address is Prefix and *)
(* one more octet.  A JSON token is a record: a text "hex", "HEX", "0xhex",*)
(* "base58" or "text" of bytes, a "number" or a "bigint", a "name" of an   *)
(* enumeration, a "list".  The identity of a transaction is the hash of    *)
(* its raw protobuf, here the protobuf itself.                             *)
(***************************************************************************)
EXTENDS Integers, Sequences, SequencesExt, FiniteSets

CONSTANTS Contracts,    \* the contract messages a client may want to send
          MaxExact,     \* the widest integer a JavaScript number states
          IntBits,      \* width of the protobuf's signed integers
          RefModulus,   \* how many blocks the reference field tells apart
          MaxHeight, MaxTime, MaxPending, MaxSent

ASSUME EnvelopeAssumption == RefModulus \in Nat \ {0} /\ MaxTime \in Nat

VARIABLES content,      \* the contract message this client sends
          blocks,       \* the chain: the time of every block, genesis first
          pending,      \* admitted transactions, in order
          executed,     \* executed transactions
          reply,        \* the last transaction built here for the client
          last,         \* the last submission and its answer
          sent          \* number of submissions

vars == <<content, blocks, pending, executed, reply, last, sent>>

Interval == 1           \* BLOCK_INTERVAL_MS
MaxExpiration == 4      \* MAX_EXPIRATION_MS
BuildWindow == 3        \* the minute a built transaction is given
Group == 4              \* values of one varint group, 2^7 in the code
Prefix == 4             \* the network byte of an address

-----------------------------------------------------------------------------
\* Protobuf integers and messages.

Varint[n \in Nat] ==
    IF n < Group THEN <<n>> ELSE <<Group + (n % Group)>> \o Varint[n \div Group]

VarintOf(n) == Varint[IF n < 0 THEN n + 2^IntBits ELSE n]

Signed(n) == IF (n % 2^IntBits) >= 2^(IntBits - 1) THEN (n % 2^IntBits) - 2^IntBits ELSE n % 2^IntBits

Broken == [at |-> 0]

\* The varint at position at: its value and the position after it.
ReadVarint(bytes, at) ==
    LET read[i \in 0..Len(bytes)] ==
            IF at + i > Len(bytes) \/ 2 * i > IntBits - 1 THEN Broken
            ELSE IF bytes[at + i] < Group THEN [at |-> at + i + 1, value |-> bytes[at + i]]
            ELSE LET rest == read[i + 1]
                 IN IF rest = Broken THEN Broken
                    ELSE [rest EXCEPT !.value = @ * Group + (bytes[at + i] - Group)]
    IN read[0]

\* Every field of a message in order, or Broken.
ProtobufFields(bytes) ==
    LET from[at \in 1..(Len(bytes) + 1)] ==
            IF at > Len(bytes) THEN << >>
            ELSE LET key == ReadVarint(bytes, at)
                     wire == key.value % 8
                     head == ReadVarint(bytes, key.at)
                     end == CASE wire = 0 -> head.at
                              [] wire = 2 -> IF head = Broken THEN 0 ELSE head.at + head.value
                              [] wire = 1 -> key.at + 8
                              [] wire = 5 -> key.at + 4
                              [] OTHER -> 0
                     value == IF wire = 0 THEN head.value
                              ELSE SubSeq(bytes, IF wire = 2 THEN head.at ELSE key.at, end - 1)
                 IN IF key = Broken THEN <<Broken>>
                    ELSE IF end = 0 \/ end > Len(bytes) + 1 THEN <<Broken>>
                    ELSE <<[field |-> key.value \div 8, wire |-> wire, value |-> value]>> \o from[end]
    IN from[1]

IntField(f, n) == IF n = 0 THEN << >> ELSE Varint[f * 8] \o VarintOf(n)
BytesField(f, b) == IF b = << >> THEN << >> ELSE Varint[f * 8 + 2] \o Varint[Len(b)] \o b

\* Field numbers are small here so that a key fits the narrow integers.
AssetIssueBytes(v) ==
    LET tranche(n) == LET row == IntField(1, n) IN Varint[5 * 8 + 2] \o Varint[Len(row)] \o row
    IN BytesField(1, v.owner_address) \o BytesField(2, v.name) \o IntField(4, v.total_supply)
       \o FlattenSeq([i \in DOMAIN v.frozen_supply |-> tranche(v.frozen_supply[i])])

-----------------------------------------------------------------------------
\* What the messages declare, and how a field's text is spelled.

MESSAGE_FIELDS ==
    [TransferContract |-> [owner_address |-> "bytes", to_address |-> "bytes", amount |-> "int64"],
     AssetIssueContract |-> [owner_address |-> "bytes", name |-> "bytes", total_supply |-> "int64",
                             frozen_supply |-> "message[]"],
     UnfreezeAssetContract |-> [owner_address |-> "bytes"],
     AccountCreateContract |-> [owner_address |-> "bytes", account_address |-> "bytes", type |-> "enum"],
     FreezeBalanceContract |-> [owner_address |-> "bytes", frozen_balance |-> "int64", resource |-> "enum"],
     TriggerSmartContract |-> [owner_address |-> "bytes", contract_address |-> "bytes", data |-> "bytes"],
     VoteAssetContract |-> [owner_address |-> "bytes", count |-> "int64"]]

PACKABLE_CONTRACT_TYPES == DOMAIN MESSAGE_FIELDS \ {"VoteAssetContract"}
CanEncodeLocally(type) == type \in {"UnfreezeAssetContract", "AssetIssueContract"}

SelfFormat(f) ==
    CASE f \in {"owner_address", "to_address", "account_address", "contract_address"} -> "address"
      [] f = "name" -> "name"
      [] OTHER -> "raw"

Enums == [type |-> <<"Normal", "AssetIssue", "Contract">>, resource |-> <<"BANDWIDTH", "ENERGY">>]
\* An identifier in small letters is capitalised before it is looked up.
Capitalised(s) == IF s = "contract" THEN "Contract" ELSE s
EnumNumber(f, name) == CHOOSE i \in 0..2 : i < Len(Enums[f]) /\ Enums[f][i + 1] = name

Default(kind) == CASE kind = "bytes" -> << >> [] kind = "message[]" -> << >> [] OTHER -> 0

IsAddress(b) == Len(b) = 2 /\ b[1] = Prefix
IsHex(v) == v.form \in {"hex", "HEX", "0xhex"}
Quoted(v) == v.form \in {"hex", "HEX", "0xhex", "base58", "text", "name", "quoted"}
Hex(b) == [form |-> "hex", of |-> b]
Number(n) == [form |-> IF n \in (-MaxExact)..MaxExact THEN "number" ELSE "bigint", of |-> n]
InRange(n) == n \in (-(2^(IntBits - 1)))..(2^(IntBits - 1) - 1)

\* The bytes of a text read as a name: its characters, whatever they spell.
Characters(v) ==
    IF v.form = "text" THEN v.of
    ELSE FlattenSeq([i \in DOMAIN v.of |-> <<v.of[i] \div Group, v.of[i] % Group>>])

\* checkMergeField: what one token may be, by the field's type.
CheckMergeField(f, kind, v, visible) ==
    \/ v.form = "null"
    \/ /\ kind = "bytes" /\ Quoted(v)
       /\ \/ v.of = << >>
          \/ visible /\ SelfFormat(f) = "name"
          \/ visible /\ SelfFormat(f) = "address" /\ v.form = "base58"
          \/ ~(visible /\ SelfFormat(f) \in {"address", "name"}) /\ IsHex(v)
    \/ /\ kind = "int64" /\ v.form \in {"number", "bigint"} /\ InRange(v.of)
    \/ /\ kind = "enum"
       /\ \/ v.form = "number" /\ v.of \in 0..(Len(Enums[f]) - 1)
          \/ v.form = "name" /\ Capitalised(v.of) \in Range(Enums[f])
    \/ /\ kind = "message[]" /\ v.form = "list"
       /\ \A i \in DOMAIN v.of : v.of[i].form \in {"number", "bigint"} /\ InRange(v.of[i].of)

-----------------------------------------------------------------------------
\* Packing: the canonical JSON of a contract and of its envelope.

CanonicalBytes(f, v, visible) ==
    Hex(IF visible /\ SelfFormat(f) = "name" THEN Characters(v) ELSE v.of)

CanonicalInteger(v) == Number(v.of)

CanonicalEnum(f, v) ==
    [form |-> "name", of |-> IF v.form = "number" THEN Enums[f][v.of + 1] ELSE Capitalised(v.of)]

CanonicalMessage(type, value, visible) ==
    LET fields == MESSAGE_FIELDS[type]
        stated == {f \in DOMAIN value \cap DOMAIN fields : value[f].form # "null"}
        kept == stated \cup {f \in DOMAIN fields : fields[f] = "bytes"}
    IN [f \in kept |->
          CASE f \notin stated -> Hex(<< >>)
            [] fields[f] = "bytes" /\ f \in stated -> CanonicalBytes(f, value[f], visible)
            [] fields[f] = "int64" -> CanonicalInteger(value[f])
            [] fields[f] = "enum" -> CanonicalEnum(f, value[f])
            [] OTHER -> [value[f] EXCEPT !.of = [i \in DOMAIN @ |-> CanonicalInteger(@[i])]]]

\* Every declared field merges; names the message does not declare are skipped.
Merges(c, visible) ==
    \A f \in DOMAIN c.value \cap DOMAIN MESSAGE_FIELDS[c.type] :
        CheckMergeField(f, MESSAGE_FIELDS[c.type][f], c.value[f], visible)

\* A contract that does not merge under the request's wire form is dropped.
Kept(c, visible) == c.type \in PACKABLE_CONTRACT_TYPES /\ Merges(c, visible)

\* An empty readable address passes the merge and then stops the packing.
Unreadable(c, visible) ==
    /\ visible /\ Kept(c, visible)
    /\ \E f \in DOMAIN c.value \cap DOMAIN MESSAGE_FIELDS[c.type] :
          SelfFormat(f) = "address" /\ c.value[f].form # "null" /\ ~IsAddress(c.value[f].of)

CanonicalContract(c, visible) ==
    [c EXCEPT !.value = CanonicalMessage(c.type, @, visible), !.provider = Hex(@.of)]

PackContracts(contracts, visible) ==
    LET kept == SelectSeq(contracts, LAMBDA c : Kept(c, visible))
    IN [i \in DOMAIN kept |-> CanonicalContract(kept[i], visible)]

EnvelopeOk(raw) ==
    \A f \in {"expiration", "timestamp", "fee_limit", "ref_block_num"} :
        raw[f].form \in {"number", "bigint", "quoted"} /\ raw[f].of \in (-MaxExact)..MaxExact

PackAuthority(a, visible) ==
    [permission_name |-> Hex(IF visible THEN Characters(a.permission_name) ELSE a.permission_name.of),
     address |-> Hex(a.address.of)]

PackEnvelope(raw, visible) ==
    [raw EXCEPT !.expiration = Number(@.of), !.timestamp = Number(@.of), !.fee_limit = Number(@.of),
                !.ref_block_num = Number(@.of), !.ref_block_hash = Hex(@.of), !.data = Hex(@.of),
                !.auths = [i \in DOMAIN @ |-> PackAuthority(@[i], visible)]]

PackTransaction(raw, visible) ==
    PackEnvelope([raw EXCEPT !.contract = PackContracts(@, visible)], visible)

-----------------------------------------------------------------------------
\* Encoding.

\* A figure past MaxExact becomes a neighbour of itself in a JavaScript number.
Rounded(n) == IF n \in (-MaxExact)..MaxExact THEN n ELSE n - (n % 2)

Plain(f, v) ==
    CASE v.form = "name" -> EnumNumber(f, v.of)
      [] v.form = "list" -> [i \in DOMAIN v.of |-> v.of[i].of]
      [] OTHER -> v.of

\* What the code that executes a contract reads in its canonical JSON.
Reading(c) ==
    [f \in DOMAIN MESSAGE_FIELDS[c.type] |->
        IF f \in DOMAIN c.value THEN Plain(f, c.value[f]) ELSE Default(MESSAGE_FIELDS[c.type][f])]

Message(type, v) == IF type = "AssetIssueContract" THEN AssetIssueBytes(v) ELSE v

Protobuf(raw, contracts) ==
    [ref_block_bytes |-> raw.ref_block_bytes, ref_block_hash |-> raw.ref_block_hash.of,
     ref_block_num |-> 0, expiration |-> raw.expiration.of, timestamp |-> raw.timestamp.of,
     fee_limit |-> raw.fee_limit.of, data |-> raw.data.of, auths |-> << >>, contract |-> contracts]

\* The bundled helper: integers as numbers, the account type left at its default.
TxJsonToPb(raw) ==
    LET c == raw.contract[1]
        narrowed == [f \in DOMAIN Reading(c) |->
                       CASE MESSAGE_FIELDS[c.type][f] = "int64" -> Rounded(Reading(c)[f])
                         [] f = "type" -> 0
                         [] OTHER -> Reading(c)[f]]
    IN Protobuf(raw, <<[type |-> c.type, value |-> narrowed, Permission_id |-> c.Permission_id,
                        provider |-> << >>]>>)

EncodeLocally(raw) ==
    LET c == raw.contract[1]
    IN Protobuf(raw, <<[type |-> c.type, value |-> Message(c.type, Reading(c)),
                        Permission_id |-> c.Permission_id, provider |-> << >>]>>)

EncodeEnvelope(raw) == Protobuf(raw, << >>)

EnvelopeFieldsNoRef(raw, pb) ==
    IF pb.contract = << >> THEN pb
    ELSE [pb EXCEPT !.contract[1].provider = raw.contract[1].provider.of]

\* canonicalEnvelopeFields: what neither encoder puts into the envelope.
EnvelopeFields(raw, pb) ==
    LET auths == [i \in DOMAIN raw.auths |-> [permission_name |-> raw.auths[i].permission_name.of,
                                              address |-> raw.auths[i].address.of]]
        whole == [pb EXCEPT !.ref_block_num = raw.ref_block_num.of, !.auths = auths]
    IN IF pb.contract = << >> THEN whole
       ELSE [whole EXCEPT !.contract[1].provider = raw.contract[1].provider.of]

\* canonicalContractFields: the account type the bundled helper omits.
ContractFields(raw, pb) ==
    IF pb.contract # << >> /\ pb.contract[1].type = "AccountCreateContract"
    THEN [pb EXCEPT !.contract[1].value.type = Reading(raw.contract[1]).type]
    ELSE pb

Encoded(raw) ==
    LET pb == IF raw.contract = << >> THEN EncodeEnvelope(raw)
              ELSE IF CanEncodeLocally(raw.contract[1].type) THEN EncodeLocally(raw)
              ELSE TxJsonToPb(raw)
    IN ContractFields(raw, EnvelopeFields(raw, pb))

\* The element of a singleton: {F(x) : x \in {e}} evaluates e once.
Only(S) == CHOOSE x \in S : TRUE

TransactionToPb(tx) ==
    IF tx.bound # {} THEN Only(tx.bound)
    ELSE Only({Encoded(raw) : raw \in {PackTransaction(tx.raw_data, tx.visible)}})

-----------------------------------------------------------------------------
\* Decoding: the JSON projection of a protobuf transaction.

\* assetIssueValue: integers whole, fields at their default left out.
AssetIssueValue(bytes) ==
    LET fields == ProtobufFields(bytes)
        at(n) == SelectSeq(fields, LAMBDA r : r.field = n)
        amount(row) == LET own == SelectSeq(ProtobufFields(row), LAMBDA r : r.field = 1)
                       IN Number(IF own = << >> THEN 0 ELSE Signed(Last(own).value))
        given == {f \in {"owner_address", "name", "total_supply", "frozen_supply"} :
                    at(CASE f = "owner_address" -> 1 [] f = "name" -> 2 [] f = "total_supply" -> 4
                         [] OTHER -> 5) # << >>}
    IN [f \in given |->
          CASE f = "owner_address" -> Hex(Last(at(1)).value)
            [] f = "name" -> Hex(Last(at(2)).value)
            [] f = "total_supply" -> Number(Signed(Last(at(4)).value))
            [] OTHER -> [form |-> "list", of |-> [i \in DOMAIN at(5) |-> amount(at(5)[i].value)]]]

Readable(pb) ==
    /\ pb.contract # << >>
    /\ pb.contract[1].type = "AssetIssueContract" =>
         \A i \in DOMAIN ProtobufFields(pb.contract[1].value) :
             ProtobufFields(pb.contract[1].value)[i] # Broken

\* The bundled deserializer: numbers, bytes in capitals, no account type.
DeserializeTransaction(c) ==
    [f \in {g \in DOMAIN c.value : g # "type"} |->
        CASE MESSAGE_FIELDS[c.type][f] = "int64" -> [form |-> "number", of |-> Rounded(c.value[f])]
          [] MESSAGE_FIELDS[c.type][f] = "enum" -> [form |-> "number", of |-> 0]
          [] OTHER -> [form |-> "HEX", of |-> c.value[f]]]

LowerHexFields(value) ==
    [f \in DOMAIN value |-> IF value[f].form = "HEX" THEN Hex(value[f].of) ELSE value[f]]

EnumFields(c) ==
    [f \in {g \in DOMAIN c.value : MESSAGE_FIELDS[c.type][g] = "enum"} |->
        [form |-> "name", of |-> Enums[f][c.value[f] + 1]]]

DecodedValueNoEnums(c) ==
    IF c.type = "AssetIssueContract" THEN AssetIssueValue(c.value)
    ELSE LowerHexFields(DeserializeTransaction(c))

DecodedValue(c) ==
    IF c.type = "AssetIssueContract" THEN AssetIssueValue(c.value)
    ELSE EnumFields(c) @@ LowerHexFields(DeserializeTransaction(c))

\* decodeHexTransaction: contracts after the first keep only their type.
DecodeHexTransaction(pb, signature) ==
    LET contract == [i \in DOMAIN pb.contract |->
                       [type |-> pb.contract[i].type, Permission_id |-> pb.contract[i].Permission_id,
                        provider |-> Hex(pb.contract[i].provider),
                        value |-> IF i = 1 THEN DecodedValue(pb.contract[i]) ELSE << >>]]
        envelope(n) == [form |-> "number", of |-> n]
    IN [visible |-> FALSE, bound |-> {pb}, signature |-> signature,
        raw_data |-> [ref_block_bytes |-> pb.ref_block_bytes, ref_block_hash |-> Hex(pb.ref_block_hash),
                      ref_block_num |-> envelope(pb.ref_block_num), expiration |-> envelope(pb.expiration),
                      timestamp |-> envelope(pb.timestamp), fee_limit |-> envelope(pb.fee_limit),
                      data |-> Hex(pb.data), contract |-> contract,
                      auths |-> [i \in DOMAIN pb.auths |->
                                   [permission_name |-> Hex(pb.auths[i].permission_name),
                                    address |-> Hex(pb.auths[i].address)]]]]

-----------------------------------------------------------------------------
\* Preparation and the checks of admission and of block production.

Height == Len(blocks) - 1
HeadTime == blocks[Len(blocks)]

\* widestInt: only a bigint shows that it was not narrowed on its way here.
WidestInt(raw) ==
    \E i \in DOMAIN raw.contract : \E f \in DOMAIN raw.contract[i].value :
        \/ raw.contract[i].value[f].form = "bigint"
        \/ /\ raw.contract[i].value[f].form = "list"
           /\ \E k \in DOMAIN raw.contract[i].value[f].of : raw.contract[i].value[f].of[k].form = "bigint"

Packed(tx) ==
    [tx EXCEPT !.visible = FALSE,
               !.raw_data = IF tx.bound # {} THEN PackEnvelope(@, FALSE)
                            ELSE PackTransaction(@, tx.visible)]

PrepareTransaction(tx) ==
    IF tx.bound = {} /\ \E i \in DOMAIN tx.raw_data.contract :
                            Unreadable(tx.raw_data.contract[i], tx.visible) THEN "Error"
    ELSE IF ~EnvelopeOk(tx.raw_data) THEN "CONTRACT_VALIDATE_ERROR"
    ELSE IF \E raw \in {Packed(tx).raw_data} :
               /\ \E i \in DOMAIN raw.contract : ~CanEncodeLocally(raw.contract[i].type)
               /\ WidestInt(raw) THEN "CONTRACT_VALIDATE_ERROR"
    ELSE "ok"

ValidateExpiration(raw) == raw.expiration.of >= HeadTime + Interval

\* The reference block, from the low bits of its height.
ValidateTapos(raw) ==
    LET near == (Height - (Height % RefModulus)) + raw.ref_block_bytes
        refHeight == IF near > Height THEN near - RefModulus ELSE near
    IN refHeight >= 0 /\ raw.ref_block_hash.of = <<refHeight, blocks[refHeight + 1]>>

ValidateCommon(raw) == raw.expiration.of \in (HeadTime + 1)..(HeadTime + MaxExpiration)

SingleContract(raw) == Len(raw.contract) = 1

ValidateTransaction(tx) ==
    LET raw == tx.raw_data
        value == raw.contract[1].value
    IN IF raw.contract = << >> THEN "CONTRACT_VALIDATE_ERROR"
       ELSE IF ~ValidateExpiration(raw) THEN "TRANSACTION_EXPIRATION_ERROR"
       ELSE IF \/ "owner_address" \notin DOMAIN value
               \/ \E f \in {"owner_address", "to_address", "contract_address"} \cap DOMAIN value :
                    ~IsAddress(value[f].of) THEN "CONTRACT_VALIDATE_ERROR"
       ELSE IF tx.signature # <<value.owner_address.of, TransactionToPb(tx)>>
            THEN "SIGERROR"
       ELSE IF ~SingleContract(raw) THEN "CONTRACT_VALIDATE_ERROR"
       ELSE IF ~ValidateTapos(raw) THEN "TAPOS_ERROR"
       ELSE IF ~ValidateCommon(raw) THEN "TRANSACTION_EXPIRATION_ERROR"
       ELSE "ok"

Known(id) == \/ \E i \in DOMAIN pending : pending[i].id = id
             \/ \E e \in executed : e.id = id

Judged(tx) ==
    LET admission(packed) == IF Known(TransactionToPb(packed)) THEN "DUP_TRANSACTION_ERROR"
                             ELSE ValidateTransaction(packed)
    IN IF PrepareTransaction(tx) # "ok" THEN PrepareTransaction(tx)
       ELSE Only({admission(packed) : packed \in {Packed(tx)}})

-----------------------------------------------------------------------------
\* Building: the reply prints the message it identifies.

\* The printer's own tables of readable fields.
Readables == [address |-> {"owner_address", "to_address", "account_address", "contract_address"},
              name |-> {"name"}]

\* printTransaction and formatTransaction: defaults left out, enumerations by
\* name, and under visible addresses and names in readable form.
PrintedToken(f, v, visible) ==
    IF v.form = "hex" /\ visible /\ f \in Readables.address /\ IsAddress(v.of)
    THEN [form |-> "base58", of |-> v.of]
    ELSE IF v.form = "hex" /\ visible /\ f \in Readables.name THEN [form |-> "text", of |-> v.of]
    ELSE v

FormatTransaction(value, visible) == [f \in DOMAIN value |-> PrintedToken(f, value[f], visible)]

PrintTransaction(type, value, visible) ==
    LET default(f) == Plain(f, value[f]) = Default(MESSAGE_FIELDS[type][f])
    IN FormatTransaction([f \in {g \in DOMAIN value : ~default(g)} |-> value[f]], visible)

\* buildUnsignedTx: the head is the reference block, the window a minute.
BuildUnsignedTx(type, value, permission, memo) ==
    [visible |-> FALSE, bound |-> {}, signature |-> << >>,
     raw_data |-> [ref_block_bytes |-> Height % RefModulus, ref_block_hash |-> Hex(<<Height, HeadTime>>),
                   ref_block_num |-> Number(0), expiration |-> Number(HeadTime + BuildWindow),
                   timestamp |-> Number(HeadTime), auths |-> << >>, data |-> Hex(memo),
                   fee_limit |-> Number(IF type = "TriggerSmartContract" THEN 1 ELSE 0),
                   contract |-> <<[type |-> type, value |-> value, Permission_id |-> permission,
                                   provider |-> Hex(<< >>)]>>]]

Printed(tx, visible) ==
    [tx EXCEPT !.visible = visible,
               !.raw_data.contract[1].value =
                   PrintTransaction(tx.raw_data.contract[1].type, @, visible)]

-----------------------------------------------------------------------------
\* The client: one contract message in any spelling, signed by its owner.

Styles == {"plain", "HEX", "0xhex", "terse", "quoted", "mixed", "twice"}

Token(f, kind, x, style, visible) ==
    CASE kind = "bytes" ->
           IF visible /\ style # "mixed" /\ SelfFormat(f) = "address" /\ IsAddress(x)
           THEN [form |-> "base58", of |-> x]
           ELSE IF visible /\ style # "mixed" /\ SelfFormat(f) = "name" THEN [form |-> "text", of |-> x]
           ELSE [form |-> IF style \in {"HEX", "0xhex"} THEN style ELSE "hex", of |-> x]
      [] kind = "int64" -> IF style = "quoted" THEN [form |-> "quoted", of |-> x] ELSE Number(x)
      [] kind = "enum" ->
           IF style = "HEX" THEN [form |-> "number", of |-> x]
           ELSE [form |-> "name", of |-> IF style = "0xhex" /\ Enums[f][x + 1] = "Contract" THEN "contract"
                                         ELSE Enums[f][x + 1]]
      [] OTHER -> [form |-> "list", of |-> [i \in DOMAIN x |-> Number(x[i])]]

SpelledValue(c, style, visible) ==
    LET fields == MESSAGE_FIELDS[c.type]
    IN [f \in {g \in DOMAIN fields : style # "terse" \/ c.value[g] # Default(fields[g])} |->
           Token(f, fields[f], c.value[f], style, visible)]
       @@ (IF style = "HEX" THEN [foreign |-> Number(1)] ELSE << >>)

\* The protobuf of the content, as its sender means and signs it.
Meant(c, ref, expiration) ==
    [ref_block_bytes |-> ref % RefModulus, ref_block_hash |-> <<ref, blocks[ref + 1]>>,
     ref_block_num |-> c.ref_block_num, expiration |-> expiration, timestamp |-> 0, fee_limit |-> 0,
     data |-> c.data, auths |-> c.auths,
     contract |-> <<[type |-> c.type, value |-> Message(c.type, c.value),
                     Permission_id |-> c.Permission_id, provider |-> c.provider]>>]

Spelled(c, pb, style, visible) ==
    LET figure(n) == [form |-> IF style = "quoted" THEN "quoted" ELSE Number(n).form, of |-> n]
        bytes(b) == [form |-> IF style \in {"HEX", "0xhex"} THEN style ELSE "hex", of |-> b]
    IN [visible |-> visible, bound |-> {}, signature |-> <<c.value.owner_address, pb>>,
        raw_data |-> [ref_block_bytes |-> pb.ref_block_bytes, ref_block_hash |-> bytes(pb.ref_block_hash),
                      ref_block_num |-> figure(pb.ref_block_num), expiration |-> figure(pb.expiration),
                      timestamp |-> figure(pb.timestamp), fee_limit |-> figure(pb.fee_limit),
                      data |-> bytes(pb.data),
                      auths |-> [i \in DOMAIN pb.auths |->
                                   [permission_name |-> [form |-> IF visible THEN "text" ELSE "hex",
                                                         of |-> pb.auths[i].permission_name],
                                    address |-> [form |-> IF visible THEN "base58" ELSE "hex",
                                                 of |-> pb.auths[i].address]]],
                      contract |-> [i \in 1..(IF style = "twice" THEN 2 ELSE 1) |->
                                      [type |-> c.type, value |-> SpelledValue(c, style, visible),
                                       Permission_id |-> c.Permission_id, provider |-> bytes(c.provider)]]]]

Figures(c) == {f \in DOMAIN MESSAGE_FIELDS[c.type] : MESSAGE_FIELDS[c.type][f] = "int64"}
Wide(c) == ~CanEncodeLocally(c.type) /\ \E f \in Figures(c) : c.value[f] \notin (-MaxExact)..MaxExact
Misaddressed(c) == \E f \in {"owner_address", "to_address", "contract_address"} \cap DOMAIN c.value :
                      ~IsAddress(c.value[f])

\* A spelling the wire admits for this content.
Legal(c, style, visible) ==
    /\ c.type \in PACKABLE_CONTRACT_TYPES
    /\ ~Wide(c) /\ style # "twice"
    /\ style = "quoted" => Figures(c) = {}
    /\ visible => style # "mixed" /\ ~Misaddressed(c)

\* What the chain alone says of a message.
Expected(c, pb, ref) ==
    IF \E i \in DOMAIN pending : pending[i].meant = pb THEN "DUP_TRANSACTION_ERROR"
    ELSE IF \E e \in executed : e.meant = pb THEN "DUP_TRANSACTION_ERROR"
    ELSE IF pb.expiration < HeadTime + Interval THEN "TRANSACTION_EXPIRATION_ERROR"
    ELSE IF Misaddressed(c) THEN "CONTRACT_VALIDATE_ERROR"
    ELSE IF Height - ref >= RefModulus THEN "TAPOS_ERROR"
    ELSE IF pb.expiration > HeadTime + MaxExpiration THEN "TRANSACTION_EXPIRATION_ERROR"
    ELSE "ok"

-----------------------------------------------------------------------------
\* Actions.

Nothing == [answer |-> "ok", expected |-> "ok", legal |-> TRUE]

EnvelopeInit ==
    /\ content \in Contracts
    /\ blocks = <<0>> /\ pending = << >> /\ executed = {} /\ reply = {} /\ last = Nothing /\ sent = 0

Admit(tx, meant, form, answer) ==
    pending' = IF answer # "ok" THEN pending
               ELSE Append(pending, [tx |-> Packed(tx), id |-> TransactionToPb(Packed(tx)), meant |-> meant, form |-> form])

CanSend == sent < MaxSent /\ Len(pending) < MaxPending

\* broadcastTransaction
Broadcast(style, visible, ref, expiration) ==
    /\ CanSend
    /\ \E pb \in {Meant(content, ref, expiration)} : \E tx \in {Spelled(content, pb, style, visible)} :
       \E answer \in {Judged(tx)} :
          /\ Admit(tx, pb, "json", answer)
          /\ last' = [answer |-> answer, expected |-> Expected(content, pb, ref),
                   legal |-> Legal(content, style, visible)]
          /\ sent' = sent + 1
          /\ UNCHANGED <<content, blocks, executed, reply>>

\* broadcastHex
BroadcastHex(ref, expiration) ==
    /\ CanSend
    /\ \E pb \in {Meant(content, ref, expiration)} :
       \E tx \in {DecodeHexTransaction(pb, <<content.value.owner_address, pb>>)} :
       \E answer \in {Judged(tx)} :
          /\ Admit(tx, pb, "hex", answer)
          /\ last' = [answer |-> answer, expected |-> Expected(content, pb, ref), legal |-> TRUE]
          /\ sent' = sent + 1
          /\ UNCHANGED <<content, blocks, executed, reply>>

\* broadcastHex of a message that was cut short
BroadcastCut(pb) ==
    /\ CanSend /\ content.type = "AssetIssueContract"
    /\ last' = [answer |-> IF Readable([pb EXCEPT !.contract[1].value = Front(@)]) THEN "ok" ELSE "Error",
                expected |-> "Error", legal |-> TRUE]
    /\ sent' = sent + 1
    /\ UNCHANGED <<content, blocks, pending, executed, reply>>

\* buildTransaction: merge, decode, the contract's own rules, build, print
BuildTransaction(style, visible) ==
    /\ sent < MaxSent
    /\ \E request \in {[type |-> content.type, value |-> SpelledValue(content, style, visible)]} :
          /\ Kept(request, visible) /\ ~Unreadable(request, visible) /\ ~Misaddressed(content)
          /\ \E tx \in {BuildUnsignedTx(content.type, CanonicalMessage(content.type, request.value, visible),
                                     content.Permission_id, content.data)} :
                /\ CanEncodeLocally(content.type) \/ ~WidestInt(tx.raw_data)
                /\ reply' = {[tx |-> Printed(tx, visible), txID |-> TransactionToPb(tx), at |-> Height]}
          /\ sent' = sent + 1
          /\ UNCHANGED <<content, blocks, pending, executed, last>>

\* The client signs the id of the reply and sends the reply back.
SignedReply(r) == [r.tx EXCEPT !.signature = <<content.value.owner_address, r.txID>>]

BroadcastReply ==
    \E r \in reply :
       /\ CanSend
       /\ Admit(SignedReply(r), r.txID, "json", Judged(SignedReply(r)))
       /\ reply' = {} /\ last' = Nothing /\ sent' = sent + 1
       /\ UNCHANGED <<content, blocks, executed>>

\* produceBlock over a batch of the queue: every transaction is judged again at
\* the committed head and leaves the queue once the block is there.
StillValid(p) == ValidateTransaction(p.tx) = "ok"

Requeued(queue, batch) == queue
Left(queue, batch) == SubSeq(queue, batch + 1, Len(queue))

ProduceBlock(batch, allowEmpty, time) ==
    LET good == {i \in 1..batch : StillValid(pending[i])}
    IN /\ executed' = executed \cup
             {[id |-> pending[i].id, meant |-> pending[i].meant, form |-> pending[i].form,
               reading |-> Reading(pending[i].tx.raw_data.contract[1]), height |-> Height,
               time |-> HeadTime] : i \in good}
       /\ blocks' = IF good = {} /\ ~allowEmpty THEN blocks ELSE Append(blocks, time)
       /\ pending' = Left(pending, batch) /\ last' = Nothing
       /\ UNCHANGED <<content, reply, sent>>

\* A tick of the interval takes the whole queue.
Mine(time) == Height < MaxHeight /\ time > HeadTime /\ ProduceBlock(Len(pending), TRUE, time)

\* Without an interval the queue drains one transaction to a block.
MineIndividually(time) ==
    Height < MaxHeight /\ pending # << >> /\ ProduceBlock(1, FALSE, time)

EnvelopeNext ==
    \/ \E ref \in 0..Height, expiration \in {HeadTime, HeadTime + 2, HeadTime + MaxExpiration + 1} :
          \/ \E style \in Styles, visible \in BOOLEAN : Broadcast(style, visible, ref, expiration)
          \/ BroadcastHex(ref, expiration)
    \/ BroadcastCut(Meant(content, Height, HeadTime + 2))
    \/ \E style \in {"plain", "HEX"}, visible \in BOOLEAN : BuildTransaction(style, visible)
    \/ BroadcastReply
    \/ \E time \in HeadTime..MaxTime : Mine(time) \/ MineIndividually(time)

EnvelopeSpec == EnvelopeInit /\ [][EnvelopeNext]_vars

-----------------------------------------------------------------------------
\* Type correctness of the chain, of the queue and of what was executed.
EnvelopeTypeOK ==
    /\ content \in Contracts
    /\ blocks \in Seq(0..MaxTime) /\ Len(blocks) \in 1..(MaxHeight + 1)
    /\ Len(pending) \in 0..MaxPending /\ sent \in 0..MaxSent
    /\ \A i \in DOMAIN pending : ~pending[i].tx.visible /\ Len(pending[i].tx.raw_data.contract) = 1
    /\ \A e \in executed : DOMAIN e.reading = DOMAIN MESSAGE_FIELDS[content.type]

\* Whatever wire form and spelling a message arrives in, the answer is the one
\* the chain alone dictates: broadcastTransaction and broadcastHex neither
\* refuse a legal spelling nor take one for another message.
Understood == last.legal => last.answer = last.expected

\* What a block executes is what was signed: encoding the fields the contract
\* code read gives back the signed protobuf.  A figure past MaxExact in a
\* protobuf of a bundled type is read as its neighbour (widestInt sees only
\* bigints) and is the exception.
ExecutedAsSigned ==
    \A e \in executed :
        \/ Message(content.type, e.reading) = e.meant.contract[1].value /\ e.id = e.meant
        \/ e.form = "hex" /\ Wide(content)

\* No message is executed twice, whatever forms and signatures it came with,
\* and none waits in the queue that was already executed.
ExecutedOnce ==
    /\ \A e, g \in executed : e.meant = g.meant => e = g
    /\ \A i \in DOMAIN pending : \A e \in executed : e.meant # pending[i].meant

\* At the head it was executed on, a message was within its window and its
\* reference block was one of the last RefModulus blocks of this chain, however
\* long it had waited since validateTransaction admitted it.
ExecutedFresh ==
    \A e \in executed :
        /\ e.meant.expiration \in (e.time + Interval)..(e.time + MaxExpiration)
        /\ \E ref \in 0..e.height : /\ e.height - ref < RefModulus
                                    /\ e.meant.ref_block_hash = <<ref, blocks[ref + 1]>>

\* A built reply, printed in either form, encodes to the id it states, and can
\* be broadcast as it is while the head it was built on is the head.
BuiltIsBroadcastable ==
    \A r \in reply :
        /\ TransactionToPb(r.tx) = r.txID
        /\ r.at = Height => Judged(SignedReply(r)) \in {"ok", "DUP_TRANSACTION_ERROR"}

\* Every spelling of a message that is accepted means the same, and what is
\* built here is accepted back.
EnvelopeSound == EnvelopeTypeOK /\ Understood /\ BuiltIsBroadcastable

\* Admission and block production together: a message runs once, on whatever
\* node state it is judged again, and only while it is fresh.
ExecutedTimely == ExecutedOnce /\ ExecutedFresh
=============================================================================
