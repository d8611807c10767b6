----------------------------- MODULE WireFormat -----------------------------
(***************************************************************************)
(* The primitives that every generated codec of x/td and                   *)
(* x/validatorregistry repeats: varints, tags, length-delimited payloads,  *)
(* and the size and the bytes of each kind of field.  A buffer is a        *)
(* sequence of bytes; an index is Go's iNdEx, so the byte at index i is    *)
(* data[i + 1].  Machine integers have WordBits bits instead of 64 and     *)
(* field numbers 2 * FieldHalf values instead of 2^32.                     *)
(***************************************************************************)
EXTENDS Integers, Sequences, SequencesExt

CONSTANTS
  WordBits,   \* the width of uint64 and int
  Half,       \* 2^(WordBits - 1), the first value that is negative as an int
  FieldHalf   \* the same of int32, the type of a field number

ASSUME WireAssumption ==
  /\ WordBits \in Nat \ {0}
  /\ Half \in Nat
  /\ Half > 8
  /\ FieldHalf \in Nat \ {0}

(* 1 << n, for the shifts of a word and one group of seven bits more.       *)
Power2[n \in 0..(WordBits + 6)] == IF n = 0 THEN 1 ELSE 2 * Power2[n - 1]

ASSUME HalfAssumption == Half = Power2[WordBits - 1]

(* The tags of the code, of one byte each, fit a word, and the numbers of  *)
(* its fields an int32.                                                    *)
ASSUME TagAssumption == Half >= 64 /\ FieldHalf >= 8

Word == 2 * Half
Byte == 0..255

(* A Go int from a machine word, and the sum of two ints.                  *)
Signed(w) == IF w < Half THEN w ELSE w - Word
Add(i, j) == Signed((i + j) % Word)

-----------------------------------------------------------------------------
(* Reading.  An error is its name; "nil" is no error.                     *)

(* The loop stops at the first byte below 0x80 and gives up when the shift *)
(* reaches the width of a word or the buffer ends.                         *)
MaxVarint == (WordBits + 6) \div 7
VarintEnds(data, i) ==
  {k \in 1..MaxVarint :
     /\ i + k <= Len(data)
     /\ data[i + k] < 128
     /\ \A j \in 1..(k - 1) : data[i + j] >= 128}

VarintError(data, i) ==
  IF VarintEnds(data, i) # {} THEN "nil"
  ELSE IF i + MaxVarint <= Len(data) THEN "ErrIntOverflow"
  ELSE "io.ErrUnexpectedEOF"

VarintNext(data, i) == i + CHOOSE k \in VarintEnds(data, i) : TRUE

(* The low seven bits of each byte, shifted; bits past the word are lost.  *)
VarintValue(data, i) ==
  LET n == VarintNext(data, i) - i
      value[k \in 0..n] ==
        IF k = 0 THEN 0
        ELSE value[k - 1] + (data[i + k] % 128) * Power2[7 * (k - 1)]
  IN value[n] % Word

(* int32(wire >> 3) and wire & 7.                                          *)
FieldNumber(wire) ==
  LET n == (wire \div 8) % (2 * FieldHalf)
  IN IF n < FieldHalf THEN n ELSE n - 2 * FieldHalf
WireType(wire) == wire % 8

(* What Go does at dAtA[i:j].                                              *)
SliceError(data, i, j) == IF i <= j /\ j <= Len(data) THEN "nil" ELSE "panic"

(* A length and as many bytes.  The length read is negative as an int when *)
(* it is no less than Half; adding it to the index may wrap around.        *)
PayloadStart(data, i) == VarintNext(data, i)
\* A faulty variant: what is missing at the end is left out.
PayloadEndClipped(data, i) ==
  LET end == Add(VarintNext(data, i), VarintValue(data, i))
  IN IF end > Len(data) THEN Len(data) ELSE end
PayloadEnd(data, i) == Add(PayloadStart(data, i), VarintValue(data, i))
\* A faulty variant: the end is not compared with the buffer's.
PayloadErrorUnbounded(data, i) ==
  IF VarintError(data, i) # "nil" THEN VarintError(data, i)
  ELSE IF \/ VarintValue(data, i) \notin 0..(Half - 1)
          \/ PayloadEnd(data, i) < 0 THEN "ErrInvalidLength"
  ELSE SliceError(data, PayloadStart(data, i), PayloadEnd(data, i))
PayloadError(data, i) ==
  IF VarintError(data, i) # "nil" THEN VarintError(data, i)
  ELSE IF \/ VarintValue(data, i) \notin 0..(Half - 1)
          \/ PayloadEnd(data, i) < 0 THEN "ErrInvalidLength"
  ELSE IF PayloadEnd(data, i) > Len(data) THEN "io.ErrUnexpectedEOF"
  ELSE SliceError(data, PayloadStart(data, i), PayloadEnd(data, i))
Payload(data, i) == SubSeq(data, PayloadStart(data, i) + 1, PayloadEnd(data, i))

-----------------------------------------------------------------------------
(* cosmossdk.io/math's LegacyDec as a field: its digits, none when nil.    *)

DecBytes(d) == IF d = << >> THEN <<48>> ELSE d
IsDecText(text) == \A k \in DOMAIN text : text[k] \in 48..57
DecValue(text) ==
  LET zeros == {k \in DOMAIN text : \A j \in 1..k : text[j] = 48}
      rest == {k \in DOMAIN text : k \notin zeros}
  IN IF rest = {} THEN <<48>>
     ELSE SubSeq(text, CHOOSE k \in rest : \A j \in rest : k <= j, Len(text))
(* An empty payload leaves the decimal as it was.                          *)
DecRead(old, text) == IF text = << >> THEN old ELSE DecValue(text)

-----------------------------------------------------------------------------
(* Writing.  The code fills the buffer from its end; the fields it writes  *)
(* appear in the order of their tags.                                      *)

(* (bits.Len64(v|1) + 6) / 7: the groups of seven bits of v.               *)
\* A faulty variant, rejected by a run: 128 in one byte.
SovOffByOne(v) == CHOOSE n \in 1..MaxVarint : v <= Power2[7 * n] /\ (n > 1 => v > Power2[7 * (n - 1)])
Sov(v) == CHOOSE n \in 1..MaxVarint : v < Power2[7 * n] /\ (n > 1 => v >= Power2[7 * (n - 1)])

EncodeVarint(v) ==
  [k \in 1..Sov(v) |->
     ((v \div Power2[7 * (k - 1)]) % 128) + (IF k < Sov(v) THEN 128 ELSE 0)]

Put(tag, bytes) == <<tag>> \o EncodeVarint(Len(bytes)) \o bytes
PutText(tag, text) == IF text = << >> THEN << >> ELSE Put(tag, text)
PutNumber(tag, v) == IF v = 0 THEN << >> ELSE <<tag>> \o EncodeVarint(v % Word)

SizePut(n) == 1 + n + Sov(n)
SizeText(text) == IF text = << >> THEN 0 ELSE SizePut(Len(text))
SizeNumber(v) == IF v = 0 THEN 0 ELSE 1 + Sov(v % Word)

(* make([]byte, Size()), filled from its end and returned as dAtA[:n].  A   *)
(* size too small is an index out of range, so nothing is returned; one    *)
(* too large leaves zeros in front and cuts the end off.                   *)
SizedBuffer(size, bytes) ==
  LET n == Len(bytes)
  IN IF size < n THEN << >> ELSE SubSeq([k \in 1..(size - n) |-> 0] \o bytes, 1, n)

-----------------------------------------------------------------------------
(* The fields of a message, in the order of their numbers: what the switch *)
(* of its Unmarshal does for each, the value of a new message, and the     *)
(* message a nested one is decoded into.                                   *)

Field(name, kind, zero, of, fresh) ==
  [name |-> name, kind |-> kind, zero |-> zero, of |-> of, fresh |-> fresh]
Zero(fields) ==
  [n \in {fields[k].name : k \in DOMAIN fields} |->
     fields[CHOOSE k \in DOMAIN fields : fields[k].name = n].zero]

Text(name) == Field(name, "text", << >>, "", << >>)
Uint64(name) == Field(name, "uint64", 0, "", << >>)
Int64(name) == Field(name, "int64", 0, "", << >>)
Dec(name) == Field(name, "dec", << >>, "", << >>)
Embedded(name, of, fields) == Field(name, "embedded", Zero(fields), of, << >>)
Pointer(name, of, fields) == Field(name, "pointer", << >>, of, Zero(fields))
Repeated(name, of, fields) == Field(name, "repeated", << >>, of, Zero(fields))

(* uint64 and int64 are read with wire type 0, the rest with 2.            *)
WireTypeOf(kind) == IF kind \in {"uint64", "int64"} THEN 0 ELSE 2
=============================================================================
