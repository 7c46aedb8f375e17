------------------------------- MODULE Words -------------------------------
(***************************************************************************)
(* The words of the TVM and what the arithmetic, comparison and bit opcodes *)
(* compute on them (tvm/src/opcodes/functions.ts, util.ts).  A word has     *)
(* WordBytes bytes of ByteBits bits; the code has 32 bytes of 8.            *)
(* The BigInt operations of the code are exact; where it shifts by a        *)
(* negative amount, the shift goes the other way, as BigInt's does.         *)
(***************************************************************************)
EXTENDS Integers, Sequences, Bitwise

CONSTANTS ByteBits, WordBytes

ASSUME WordsAssumption == ByteBits \in Nat \ {0} /\ WordBytes \in Nat \ {0}

WordBits == ByteBits * WordBytes
TWO_POW256 == 2^WordBits
MAX_INTEGER == TWO_POW256 - 1
Word == 0..MAX_INTEGER
ByteMax == 2^ByteBits - 1

\* a % b of BigInt truncates towards zero.
Quotient(a, b) ==
    IF (a < 0) = (b < 0) THEN (IF a < 0 THEN -a ELSE a) \div (IF b < 0 THEN -b ELSE b)
    ELSE -((IF a < 0 THEN -a ELSE a) \div (IF b < 0 THEN -b ELSE b))
Remainder(a, b) == a - Quotient(a, b) * b

mod(a, b) == LET r == Remainder(a, b) IN IF r < 0 THEN b + r ELSE r

fromTwos(a) == IF a >= 2^(WordBits - 1) THEN a - TWO_POW256 ELSE a
toTwos(a) == a % TWO_POW256

ShiftRight(x, n) == IF n >= 0 THEN x \div 2^n ELSE x * 2^(-n)

\* Square and multiply.
exponentiation(bas, exp) ==
    LET step[t \in Word, b \in Word, e \in 0..TWO_POW256] ==
            IF e = 0 THEN t
            ELSE step[IF e % 2 # 0 THEN (t * b) % TWO_POW256 ELSE t,
                      (b * b) % TWO_POW256, e \div 2]
    IN step[1, bas, exp]

divCeil(a, b) == LET d == Quotient(a, b)
                 IN IF mod(a, b) = 0 THEN d ELSE IF d < 0 THEN d - 1 ELSE d + 1
-----------------------------------------------------------------------------
Truth(b) == IF b THEN 1 ELSE 0

ADD(a, b) == mod(a + b, TWO_POW256)
MUL(a, b) == mod(a * b, TWO_POW256)
SUB(a, b) == mod(a - b, TWO_POW256)
DIV(a, b) == IF b = 0 THEN 0 ELSE mod(Quotient(a, b), TWO_POW256)
SDIV(a, b) == IF b = 0 THEN 0 ELSE toTwos(Quotient(fromTwos(a), fromTwos(b)))
MOD(a, b) == IF b = 0 THEN b ELSE mod(a, b)

SMOD(a, b) == toTwos(IF b = 0 THEN b ELSE Remainder(fromTwos(a), fromTwos(b)))
ADDMOD(a, b, c) == IF c = 0 THEN 0 ELSE mod(a + b, c)
MULMOD(a, b, c) == IF c = 0 THEN 0 ELSE mod(a * b, c)
EXP(base, exponent) ==
    CASE exponent = 0 -> 1
      [] base = 0 /\ exponent # 0 -> base
      [] OTHER -> exponentiation(base, exponent)

SIGNEXTEND(k, val) ==
    IF k >= WordBytes - 1 THEN val
    ELSE LET signBit == k * ByteBits + (ByteBits - 1)
             mask == 2^signBit - 1
         IN IF ShiftRight(val, signBit) % 2 = 1 THEN val | (MAX_INTEGER - mask) ELSE val & mask

LT(a, b) == Truth(a < b)
GT(a, b) == Truth(a > b)
SLT(a, b) == Truth(fromTwos(a) < fromTwos(b))
SGT(a, b) == Truth(fromTwos(a) > fromTwos(b))
EQ(a, b) == Truth(a = b)
ISZERO(a) == Truth(a = 0)
AND(a, b) == a & b
OR(a, b) == a | b
XOR(a, b) == a ^^ b
NOT(a) == MAX_INTEGER - a

BYTE(pos, word) ==
    IF pos > WordBytes THEN 0
    ELSE ShiftRight(word, (WordBytes - 1 - pos) * ByteBits) % (ByteMax + 1)

SHL(a, b) == IF a > WordBits THEN 0 ELSE (b * 2^a) % TWO_POW256
SHR(a, b) == IF a > WordBits THEN 0 ELSE ShiftRight(b, a)
SAR(a, b) ==
    LET isSigned == fromTwos(b) < 0
        shiftedOutWidth == WordBits - 1 - a
        mask == ShiftRight(ShiftRight(MAX_INTEGER, shiftedOutWidth), -shiftedOutWidth)
    IN IF a > WordBits THEN (IF isSigned THEN MAX_INTEGER ELSE 0)
       ELSE IF isSigned THEN ShiftRight(b, a) | mask
       ELSE ShiftRight(b, a)

\* The length of x in binary is counted.
CLZ(x) == IF x = 0 THEN WordBits
          ELSE WordBits - (CHOOSE n \in 1..WordBits : 2^(n - 1) <= x /\ x < 2^n)

\* The bytes of an exponent that are charged for.
ExponentBytes(exponent) == divCeil(WordBits - CLZ(exponent), ByteBits)
=============================================================================
