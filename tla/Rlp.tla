--------------------------------- MODULE Rlp ---------------------------------
(***************************************************************************)
(* The RLP encoder of the SDK, sdk/rlp/boatrlp.c, and the conversions of   *)
(* integers it rests on, sdk/utilities/boatutility.c.                      *)
(*                                                                         *)
(* A string object is a sequence of bytes and a list object a sequence of  *)
(* strings: no protocol of the SDK nests lists.  The encoder computes the  *)
(* length of the stream first (RlpRecursiveCalcEncodingSize), allocates    *)
(* that many bytes and then writes, with a computation of its own.         *)
(* Decode is the reference: the strict decoder of a node.                  *)
(***************************************************************************)
EXTENDS Integers, Sequences

CONSTANT MaxDesc  \* MAX_RLP_LIST_DESC_NUM

Byte == 0..255

-----------------------------------------------------------------------------
(* Integers *)

(* UtilityUint32ToBigend with TRIMBIN_LEFTTRIM; a zero is one byte.        *)
Big(n) ==
    IF n < 256 THEN <<n>>
    ELSE IF n < 65536 THEN <<n \div 256, n % 256>>
    ELSE IF n < 16777216 THEN <<n \div 65536, (n \div 256) % 256, n % 256>>
    ELSE <<n \div 16777216, (n \div 65536) % 256, (n \div 256) % 256, n % 256>>

(* Mutant: leading zeros stay.                                             *)
TrimNothing(b) == b

(* UtilityTrimBin with TRIMBIN_LEFTTRIM and zero_as_null.                  *)
Trim(b) ==
    IF \A i \in DOMAIN b : b[i] = 0 THEN <<>>
    ELSE LET first == CHOOSE i \in DOMAIN b :
                         b[i] # 0 /\ \A j \in 1..(i - 1) : b[j] = 0
         IN  SubSeq(b, first, Len(b))

(* The integer that at most four bytes stand for (reference).              *)
Num(b) ==
    LET Digit(k) == IF k <= Len(b) THEN b[Len(b) + 1 - k] ELSE 0
    IN  Digit(1) + 256 * Digit(2) + 65536 * Digit(3) + 16777216 * Digit(4)

-----------------------------------------------------------------------------
(* The list: RlpEncoderAppendObjectToList, RlpEncoderReplaceObjectInList   *)

HasRoom(list) == Len(list) < MaxDesc

(* Without room the list stays as it is and the index is an error.         *)
AppendObject(list, b) == IF HasRoom(list) THEN Append(list, b) ELSE list

ReplaceObject(list, index, b) ==
    IF index \in DOMAIN list THEN [list EXCEPT ![index] = b] ELSE list

-----------------------------------------------------------------------------
(* The length: RlpRecursiveCalcEncodingSize                                *)

IsLowByte(b) == Len(b) = 1 /\ b[1] <= 127

HeadSize(n) == IF n <= 55 THEN 1 ELSE 1 + Len(Big(n))

(* Mutant: 55 is taken for the first length with bytes of its own.         *)
StringSizeEarly(b) ==
    IF IsLowByte(b) THEN 1
    ELSE (IF Len(b) < 55 THEN 1 ELSE 1 + Len(Big(Len(b)))) + Len(b)

StringSize(b) == IF IsLowByte(b) THEN 1 ELSE HeadSize(Len(b)) + Len(b)

(* The loop over the descriptors: sum_of_sub_field_len after i of them.    *)
SizeUpTo(list) ==
    LET sum[i \in 0..Len(list)] ==
            IF i = 0 THEN 0 ELSE sum[i - 1] + StringSize(list[i])
    IN  sum

FieldsSize(list) == SizeUpTo(list)[Len(list)]

ListSize(list) == HeadSize(FieldsSize(list)) + FieldsSize(list)

-----------------------------------------------------------------------------
(* The bytes: RlpEncode                                                    *)

(* Mutant: a length of 56 in the prefix byte.                              *)
PrefixLate(base, n) ==
    IF n <= 56 THEN <<base + n>> ELSE <<base + 55 + Len(Big(n))>> \o Big(n)

Prefix(base, n) ==
    IF n <= 55 THEN <<base + n>> ELSE <<base + 55 + Len(Big(n))>> \o Big(n)

EncodeString(b) == IF IsLowByte(b) THEN b ELSE Prefix(128, Len(b)) \o b

(* The loop over the descriptors: what is written after i of them.         *)
BytesUpTo(list) ==
    LET bytes[i \in 0..Len(list)] ==
            IF i = 0 THEN <<>> ELSE bytes[i - 1] \o EncodeString(list[i])
    IN  bytes

(* What was allocated, and what is written there.                          *)
Encode(list) ==
    [size  |-> ListSize(list),
     bytes |-> Prefix(192, FieldsSize(list)) \o BytesUpTo(list)[Len(list)]]

-----------------------------------------------------------------------------
(* The decoder of the node (reference)                                     *)

Malformed == <<-1>>

(* The length of the field behind a head with the short base "base", and   *)
(* that of the head.                                                       *)
HeadLen(base, byte) == IF byte <= base + 55 THEN 1 ELSE 1 + byte - base - 55
FieldLen(base, s, at) ==
    LET h == HeadLen(base, s[at])
    IN  IF h = 1 THEN s[at] - base
        ELSE IF at + h - 1 > Len(s) THEN 0
        ELSE Num(SubSeq(s, at + 1, at + h - 1))

(* A head is as short as possible, a low byte has none, and the field does *)
(* not go beyond the stream.                                               *)
Strict(base, s, at) ==
    LET h == HeadLen(base, s[at])
        n == FieldLen(base, s, at)
    IN  /\ at + h + n - 1 <= Len(s)
        /\ h > 1 => n > 55 /\ s[at + 1] # 0
        /\ base = 128 /\ n = 1 => s[at + h] > 127

(* The string at a position, and the position behind it.                   *)
Behind(s, at) == at + HeadLen(128, s[at]) + FieldLen(128, s, at)
Content(s, at) == SubSeq(s, at + HeadLen(128, s[at]), Behind(s, at) - 1)

(* From each position, the strings up to the end of the stream.            *)
Strings(s) ==
    LET strings[at \in 1..(Len(s) + 1)] ==
            IF at = Len(s) + 1 THEN <<>>
            ELSE IF s[at] < 128 THEN <<<<s[at]>>>> \o strings[at + 1]
            ELSE IF s[at] >= 192 \/ ~Strict(128, s, at) THEN <<Malformed>>
            ELSE <<Content(s, at)>> \o strings[Behind(s, at)]
    IN  strings

Decode(s) ==
    IF s = <<>> \/ s[1] < 192 \/ ~Strict(192, s, 1)
       \/ HeadLen(192, s[1]) + FieldLen(192, s, 1) # Len(s)
    THEN <<Malformed>>
    ELSE Strings(s)[1 + HeadLen(192, s[1])]
=============================================================================
