-------------------------------- MODULE Rlp ---------------------------------
(***************************************************************************)
(* packages/rlp/src/index.ts, on values that are byte strings or lists.    *)
(* A byte string is a sequence of numbers below Bytes, a list is a record  *)
(* [list |-> items].  The layout of the first byte keeps its shape and is  *)
(* given by three numbers (the code's are 128, 55 and 8):                  *)
(*   [0, Single)               the byte itself                             *)
(*   Single + 0..Short         a string of that length                     *)
(*   then LengthBytes values   a string whose length takes so many bytes   *)
(* and the same two ranges again for lists.                                *)
(***************************************************************************)
EXTENDS Integers, Sequences, SequencesExt

CONSTANTS Single, Short, LengthBytes

ASSUME RlpAssumption == Single \in Nat \ {0} /\ Short \in Nat \ {0} /\ LengthBytes \in Nat \ {0}

\* The values of the first byte at which each form begins, and the radix.
StringOffset == Single
LongString == StringOffset + Short          \* 0xb7
ListOffset == LongString + LengthBytes + 1  \* 0xc0
LongList == ListOffset + Short              \* 0xf7
Bytes == LongList + LengthBytes + 1         \* 256

\* Items of the encoding, and a thrown error.
Str(bytes) == [str |-> bytes]
List(items) == [list |-> items]
IsList(item) == "list" \in DOMAIN item
Fail == [fault |-> TRUE]
Failed(result) == "fault" \in DOMAIN result

\* The digits of a number without leading zeros: numberToHex and hexToBytes.
RECURSIVE numberToBytes(_)
numberToBytes(n) == IF n = 0 THEN << >> ELSE Append(numberToBytes(n \div Bytes), n % Bytes)

RECURSIVE bytesToNumber(_)
bytesToNumber(b) == IF b = << >> THEN 0 ELSE bytesToNumber(Front(b)) * Bytes + Last(b)

\* Faulty variant: the boundary between the two forms is one too high.
encodeLengthLate(len, offset) ==
    IF len <= Short + 1 THEN <<len + offset>>
    ELSE <<offset + Short + Len(numberToBytes(len))>> \o numberToBytes(len)

encodeLength(len, offset) ==
    IF len <= Short THEN <<len + offset>>
    ELSE <<offset + Short + Len(numberToBytes(len))>> \o numberToBytes(len)

RECURSIVE encode(_)
encode(item) ==
    IF IsList(item)
    THEN LET output == FlattenSeq([i \in 1..Len(item.list) |-> encode(item.list[i])])
         IN encodeLength(Len(output), ListOffset) \o output
    ELSE IF Len(item.str) = 1 /\ item.str[1] < Single THEN item.str
    ELSE encodeLength(Len(item.str), StringOffset) \o item.str

\* The bytes from start to end, counted from zero with the end excluded as
\* slice and subarray count them; out of bounds is an error.
safeSlice(input, start, end) ==
    IF end > Len(input) THEN Fail ELSE Str(SubSeq(input, start + 1, end))
Rest(input, start) == SubSeq(input, start + 1, Len(input))

decodeLength(b) ==
    IF Failed(b) THEN Fail
    ELSE IF b.str[1] = 0 THEN Fail ELSE [length |-> bytesToNumber(b.str)]

Decoded(data, remainder) == [data |-> data, remainder |-> remainder]

\* A short string.  A byte that stands for itself may not carry a prefix.
decodeShort(input) ==
    LET length == input[1] - StringOffset + 1
        data == IF length = 1 THEN Str(<< >>) ELSE safeSlice(input, 1, length)
    IN IF Failed(data) THEN Fail
       ELSE IF length = 2 /\ data.str[1] < Single THEN Fail
       ELSE Decoded(data, Rest(input, length))

\* A long string: its length must need the long form.
decodeLong(input) ==
    LET lLength == input[1] - LongString + 1
        size == decodeLength(safeSlice(input, 1, lLength))
        data == safeSlice(input, lLength, size.length + lLength)
    IN IF Failed(size) THEN Fail
       ELSE IF size.length <= Short THEN Fail
       ELSE IF Failed(data) THEN Fail
       ELSE Decoded(data, Rest(input, size.length + lLength))

RECURSIVE _decode(_), decodeItems(_)

\* The items of a list's payload, one after the other.
decodeItems(payload) ==
    IF payload = << >> THEN List(<< >>)
    ELSE LET d == _decode(payload)
             more == decodeItems(d.remainder)
         IN IF Failed(d) THEN Fail
            ELSE IF Failed(more) THEN Fail
            ELSE List(<<d.data>> \o more.list)

decodeList(payload, remainder) ==
    IF Failed(payload) THEN Fail
    ELSE LET inner == decodeItems(payload.str)
         IN IF Failed(inner) THEN Fail ELSE Decoded(inner, remainder)

decodeLongList(input) ==
    LET lLength == input[1] - LongList + 1
        size == decodeLength(safeSlice(input, 1, lLength))
        total == lLength + size.length
    IN IF Failed(size) THEN Fail
       ELSE IF size.length <= Short \/ total > Len(input) THEN Fail
       ELSE decodeList(safeSlice(input, lLength, total), Rest(input, total))

_decode(input) ==
    LET first == input[1]
        length == first - ListOffset + 1
    IN CASE first < StringOffset -> Decoded(Str(<<first>>), Rest(input, 1))
         [] first \in StringOffset..LongString -> decodeShort(input)
         [] first \in (LongString + 1)..(ListOffset - 1) -> decodeLong(input)
         [] first \in ListOffset..LongList ->
              decodeList(safeSlice(input, 1, length), Rest(input, length))
         [] OTHER -> decodeLongList(input)

\* decode: the data of an input that holds one item and nothing more.
decode(input) ==
    IF input = << >> THEN Str(<< >>)
    ELSE LET d == _decode(input)
         IN IF Failed(d) THEN Fail ELSE IF d.remainder # << >> THEN Fail ELSE d.data
=============================================================================
