----------------------------- MODULE RlpStream ------------------------------
(***************************************************************************)
(* Every byte string up to a length is decoded as it comes in, or every    *)
(* value up to a size is encoded as it is put together.                    *)
(***************************************************************************)
EXTENDS Rlp

CONSTANTS MaxWire,     \* bound: bytes received
          MaxString,   \* bound: length of a string that is put together
          MaxEncoded   \* bound: bytes of the encoded value

VARIABLES wire,        \* the bytes received
          item         \* the value put together

rlpVars == <<wire, item>>

NoItem == Str(<< >>)

\* One more byte arrives.
Receive == /\ item = NoItem /\ Len(wire) < MaxWire
           /\ \E b \in 0..(Bytes - 1) : wire' = Append(wire, b)
           /\ UNCHANGED item

\* A value grows: a byte more, or it becomes the first or the last of a list.
Grown == (IF IsList(item) \/ Len(item.str) >= MaxString THEN {}
          ELSE {Str(Append(item.str, b)) : b \in {0, Single - 1, Single}})
         \cup {List(<<item>>)} \cup {List(<<item, s>>) : s \in {NoItem, Str(<<0>>), List(<< >>)}}
         \cup {List(<<Str(<<Single>>), item>>)}

Put == /\ wire = << >>
       /\ \E i \in Grown : Len(encode(i)) <= MaxEncoded /\ item' = i
       /\ UNCHANGED wire

RlpInit == wire = << >> /\ item = NoItem
RlpNext == Receive \/ Put

\* Bytes that decode are the encoding of what they decode to, so that a value
\* has one encoding and one hash; only the empty input, which is read as the
\* empty string, is not.
DecodesCanonical ==
    LET d == decode(wire)
    IN ~Failed(d) => encode(d) = wire \/ wire = << >>

\* What encode writes, decode reads back.
EncodesExact == decode(encode(item)) = item

\* One item never begins with another: once an item is complete a further byte
\* is an error for decode, and with `stream` it is the remainder, the item
\* before it unchanged.
SelfDelimiting ==
    wire # << >> /\ ~Failed(decode(wire)) =>
       \A b \in {0, Single, Bytes - 1} :
          /\ Failed(decode(Append(wire, b)))
          /\ _decode(Append(wire, b)) = Decoded(decode(wire), <<b>>)

\* RLP: one encoding for every value, which a decoder reads back to its end.
RlpSound == DecodesCanonical /\ EncodesExact /\ SelfDelimiting
=============================================================================
