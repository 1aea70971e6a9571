------------------------------ MODULE RawTxProofs ------------------------------
(***************************************************************************)
(* Proofs about the RLP encoder, for lists of any strings, and about raw   *)
(* transactions, for any wallets, any fields that the application may set, *)
(* any signatures and any allocations that fail.  The loops over a list    *)
(* are recursive functions; what they compute is proved by the smallest    *)
(* length for which it would be wrong.                                     *)
(***************************************************************************)
EXTENDS RawTxs, SequenceTheorems, WellFoundedInduction, TLAPS

-----------------------------------------------------------------------------
(* Part 1: the encoder *)

Bytes == Seq(Byte)

(* Lengths are BUINT32.                                                    *)
Limit == 4294967296

-----------------------------------------------------------------------------
(* Induction *)

LEMMA Smallest ==
    ASSUME NEW T \in SUBSET Nat, T # {}
    PROVE  \E x \in T : \A y \in T : x <= y
<1> DEFINE Less == {ss \in Nat \X Nat : ss[1] < ss[2]}
<1>1. IsWellFoundedOn(Less, Nat)
  BY NatLessThanWellFounded DEF OpToRel
<1>2. PICK x \in T : \A y \in T : <<y, x>> \notin Less
  <2> HIDE DEF Less
  <2> QED
    BY <1>1, WFMin
<1>3. ASSUME NEW y \in T PROVE x <= y
  <2>1. <<y, x>> \notin Less
    BY <1>2
  <2> QED
    BY <2>1
<1> QED
  BY <1>2, <1>3

(* A set that has 0 and with each number the next one has them all.        *)
LEMMA Induction ==
    ASSUME NEW S, 0 \in S, \A i \in Nat : i \in S => i + 1 \in S
    PROVE  Nat \subseteq S
<1> SUFFICES ASSUME Nat \ S # {} PROVE FALSE
  OBVIOUS
<1>1. PICK x \in Nat \ S : \A y \in Nat \ S : x <= y
  BY Smallest, Nat \ S \in SUBSET Nat
<1>2. x # 0 /\ x - 1 \in Nat
  BY <1>1
<1>3. x - 1 \in S
  BY <1>1, <1>2
<1> QED
  BY <1>1, <1>2, <1>3, (x - 1) + 1 = x

-----------------------------------------------------------------------------
(* Integers *)

LEMMA BigFacts ==
    ASSUME NEW n \in Nat, n < Limit
    PROVE  /\ Big(n) \in Bytes
           /\ Len(Big(n)) \in 1..4
           /\ Num(Big(n)) = n
           /\ n # 0 => Big(n)[1] # 0
<1>1. CASE n < 256
  <2>1. Big(n) = <<n>>
    BY <1>1, SMT DEF Big
  <2> QED
    BY <1>1, <2>1, SMT DEF Num, Byte, Bytes
<1>2. CASE n >= 256 /\ n < 65536
  <2>1. Big(n) = <<n \div 256, n % 256>>
    BY <1>2, SMT DEF Big
  <2>2. n \div 256 \in 1..255 /\ n % 256 \in 0..255
        /\ n = 256 * (n \div 256) + (n % 256)
    BY <1>2, SMT
  <2> QED
    BY <1>2, <2>1, <2>2, SMT DEF Num, Byte, Bytes
<1>3. CASE n >= 65536 /\ n < 16777216
  <2>1. Big(n) = <<n \div 65536, (n \div 256) % 256, n % 256>>
    BY <1>3, SMT DEF Big
  <2>2. /\ n \div 65536 \in 1..255
        /\ (n \div 256) % 256 \in 0..255 /\ n % 256 \in 0..255
        /\ n = 65536 * (n \div 65536) + 256 * ((n \div 256) % 256) + (n % 256)
    BY <1>3, SMT
  <2> QED
    BY <1>3, <2>1, <2>2, SMT DEF Num, Byte, Bytes
<1>4. CASE n >= 16777216
  <2> DEFINE a == n \div 16777216
             b == (n \div 65536) % 256
             c == (n \div 256) % 256
             d == n % 256
  <2>1. Big(n) = <<a, b, c, d>>
    BY <1>4, SMT DEF Big
  <2>2. a \in 1..255
    BY <1>4, SMT DEF Limit
  <2>3. b \in 0..255 /\ c \in 0..255 /\ d \in 0..255
    BY SMT
  <2>4. n = 16777216 * a + 65536 * b + 256 * c + d
    <3>1. n = 256 * (n \div 256) + d
      BY SMT
    <3>2. n \div 256 = 256 * (n \div 65536) + c
      BY SMT
    <3>3. n \div 65536 = 256 * a + b
      BY SMT
    <3> QED
      BY <3>1, <3>2, <3>3, SMT
  <2> HIDE DEF a, b, c, d
  <2>5. Num(<<a, b, c, d>>) = 16777216 * a + 65536 * b + 256 * c + d
    BY <2>2, <2>3, SMT DEF Num
  <2>6. <<a, b, c, d>> \in Bytes /\ Len(<<a, b, c, d>>) \in 1..4
    BY <2>2, <2>3, SMT DEF Bytes, Byte
  <2> QED
    BY <2>1, <2>2, <2>4, <2>5, <2>6, SMT
<1> QED
  BY <1>1, <1>2, <1>3, <1>4, SMT

LEMMA BigLen ==
    ASSUME NEW n \in Nat
    PROVE  Big(n) \in Seq(Nat) /\ Len(Big(n)) \in 1..4
BY SMT DEF Big

-----------------------------------------------------------------------------
(* The loops over the strings of a list *)

LEMMA ConcatNat ==
    ASSUME NEW p \in Seq(Nat), NEW q \in Seq(Nat)
    PROVE  /\ p \o q \in Seq(Nat)
           /\ Len(p) \in Nat /\ Len(q) \in Nat
           /\ Len(p \o q) = Len(p) + Len(q)
BY ConcatProperties, LenProperties

LEMMA HeadFacts ==
    ASSUME NEW n \in Nat, NEW base \in Nat
    PROVE  /\ Prefix(base, n) \in Seq(Nat)
           /\ HeadSize(n) \in 1..5
           /\ Len(Prefix(base, n)) = HeadSize(n)
<1>1. Big(n) \in Seq(Nat) /\ Len(Big(n)) \in 1..4
  BY BigLen
<1>2. \A k \in Nat : <<k>> \in Seq(Nat) /\ Len(<<k>>) = 1
  BY SMT
<1>3. <<base + 55 + Len(Big(n))>> \o Big(n) \in Seq(Nat)
      /\ Len(<<base + 55 + Len(Big(n))>> \o Big(n)) = 1 + Len(Big(n))
  BY <1>1, <1>2, ConcatProperties, SMT
<1>4. CASE n <= 55
  BY <1>2, <1>4, SMT DEF Prefix, HeadSize
<1>5. CASE ~(n <= 55)
  <2>1. Prefix(base, n) = <<base + 55 + Len(Big(n))>> \o Big(n)
    BY <1>5 DEF Prefix
  <2>2. HeadSize(n) = 1 + Len(Big(n))
    BY <1>5 DEF HeadSize
  <2>3. HeadSize(n) \in 1..5
    <3>1. PICK k \in 1..4 : k = Len(Big(n))
      BY <1>1, Zenon
    <3>2. HeadSize(n) = 1 + k
      BY <2>2, <3>1, Zenon
    <3> QED
      BY <3>2
  <2>4. Prefix(base, n) \in Seq(Nat)
    BY <1>3, <2>1, Zenon
  <2>5. Len(Prefix(base, n)) = HeadSize(n)
    BY <1>3, <2>1, <2>2, Zenon
  <2> QED
    BY <2>3, <2>4, <2>5
<1> QED
  BY <1>4, <1>5

LEMMA BytesAreNat == ASSUME NEW b \in Bytes
                     PROVE  b \in Seq(Nat) /\ Len(b) \in Nat
BY SeqMonotonic, LenProperties, Byte \subseteq Nat DEF Bytes, Byte

LEMMA SizeFacts ==
    ASSUME NEW b \in Bytes
    PROVE  /\ StringSize(b) \in Nat
           /\ EncodeString(b) \in Seq(Nat)
           /\ Len(EncodeString(b)) = StringSize(b)
<1>1. b \in Seq(Nat) /\ Len(b) \in Nat
  BY BytesAreNat
<1>2. Prefix(128, Len(b)) \o b \in Seq(Nat)
      /\ Len(Prefix(128, Len(b)) \o b) = HeadSize(Len(b)) + Len(b)
  <2>1. Prefix(128, Len(b)) \in Seq(Nat)
        /\ Len(Prefix(128, Len(b))) = HeadSize(Len(b))
    BY <1>1, HeadFacts, 128 \in Nat
  <2> QED
    BY <1>1, <2>1, ConcatNat
<1>3. HeadSize(Len(b)) \in Nat
  BY <1>1, HeadFacts, 128 \in Nat
<1>4. CASE IsLowByte(b)
  BY <1>1, <1>4, SMT DEF StringSize, EncodeString, IsLowByte
<1>5. CASE ~IsLowByte(b)
  BY <1>1, <1>2, <1>3, <1>5, SMT DEF StringSize, EncodeString
<1> QED
  BY <1>4, <1>5

-----------------------------------------------------------------------------
(* The loops over the strings of a list *)

(* The recursive functions exist.                                          *)
LEMMA SizeDefined ==
    ASSUME NEW items
    PROVE  \A n \in Nat : \E f : f =
               [i \in 0..n |->
                   IF i = 0 THEN 0 ELSE f[i - 1] + StringSize(items[i])]
<1> DEFINE Sums(f, n) ==
        f = [i \in 0..n |-> IF i = 0 THEN 0 ELSE f[i - 1] + StringSize(items[i])]
           S == {n \in Nat : \E f : Sums(f, n)}
<1>1. 0 \in S
  <2>1. Sums([i \in 0..0 |-> 0], 0)
    OBVIOUS
  <2> QED
    BY <2>1
<1>2. ASSUME NEW n \in Nat, n \in S PROVE n + 1 \in S
  <2>1. PICK f : Sums(f, n)
    BY <1>2
  <2> DEFINE g == [i \in 0..(n + 1) |->
                      IF i = n + 1 THEN f[n] + StringSize(items[n + 1]) ELSE f[i]]
  <2>2. \A i \in 0..n : f[i] = IF i = 0 THEN 0
                               ELSE f[i - 1] + StringSize(items[i])
    BY <2>1
  <2>3. \A i \in 0..(n + 1) : g[i] = IF i = 0 THEN 0
                                     ELSE g[i - 1] + StringSize(items[i])
    BY <2>2
  <2>4. Sums(g, n + 1)
    BY <2>3
  <2> QED
    <3> HIDE DEF g
    <3> QED
      BY <2>4
<1> QED
  <2> HIDE DEF S
  <2>1. Nat \subseteq S
    BY <1>1, <1>2, Induction
  <2> QED
    BY <2>1 DEF S

LEMMA SizeUpToDef ==
    ASSUME NEW items, Len(items) \in Nat
    PROVE  \A i \in 0..Len(items) : SizeUpTo(items)[i] =
               IF i = 0 THEN 0 ELSE SizeUpTo(items)[i - 1] + StringSize(items[i])
<1> DEFINE Sums(f) ==
        f = [i \in 0..Len(items) |->
                IF i = 0 THEN 0 ELSE f[i - 1] + StringSize(items[i])]
<1>1. \E f : Sums(f)
  BY SizeDefined
<1>2. SizeUpTo(items) = CHOOSE f : Sums(f)
  BY DEF SizeUpTo
<1>3. Sums(SizeUpTo(items))
  <2> HIDE DEF Sums
  <2> QED
    BY <1>1, <1>2
<1> QED
  BY <1>3


LEMMA BytesDefined ==
    ASSUME NEW items
    PROVE  \A n \in Nat : \E f : f =
               [i \in 0..n |->
                   IF i = 0 THEN <<>> ELSE f[i - 1] \o EncodeString(items[i])]
<1> DEFINE Joins(f, n) ==
        f = [i \in 0..n |->
                IF i = 0 THEN <<>> ELSE f[i - 1] \o EncodeString(items[i])]
           S == {n \in Nat : \E f : Joins(f, n)}
<1>1. 0 \in S
  <2>1. Joins([i \in 0..0 |-> <<>>], 0)
    OBVIOUS
  <2> QED
    BY <2>1
<1>2. ASSUME NEW n \in Nat, n \in S PROVE n + 1 \in S
  <2>1. PICK f : Joins(f, n)
    BY <1>2
  <2> DEFINE g == [i \in 0..(n + 1) |->
                      IF i = n + 1 THEN f[n] \o EncodeString(items[n + 1])
                      ELSE f[i]]
  <2>2. \A i \in 0..n : f[i] = IF i = 0 THEN <<>>
                               ELSE f[i - 1] \o EncodeString(items[i])
    BY <2>1
  <2>3. \A i \in 0..(n + 1) : g[i] = IF i = 0 THEN <<>>
                                     ELSE g[i - 1] \o EncodeString(items[i])
    BY <2>2
  <2>4. Joins(g, n + 1)
    BY <2>3
  <2> QED
    <3> HIDE DEF g
    <3> QED
      BY <2>4
<1> QED
  <2> HIDE DEF S
  <2>1. Nat \subseteq S
    BY <1>1, <1>2, Induction
  <2> QED
    BY <2>1 DEF S

LEMMA BytesUpToDef ==
    ASSUME NEW items, Len(items) \in Nat
    PROVE  \A i \in 0..Len(items) : BytesUpTo(items)[i] =
               IF i = 0 THEN <<>>
               ELSE BytesUpTo(items)[i - 1] \o EncodeString(items[i])
<1> DEFINE Joins(f) ==
        f = [i \in 0..Len(items) |->
                IF i = 0 THEN <<>> ELSE f[i - 1] \o EncodeString(items[i])]
<1>1. \E f : Joins(f)
  BY BytesDefined
<1>2. BytesUpTo(items) = CHOOSE f : Joins(f)
  BY DEF BytesUpTo
<1>3. Joins(BytesUpTo(items))
  <2> HIDE DEF Joins
  <2> QED
    BY <1>1, <1>2
<1> QED
  BY <1>3

(* After i strings as much is written as was counted.                      *)
LEMMA LoopsAgree ==
    ASSUME NEW items \in Seq(Bytes), NEW i \in 0..Len(items)
    PROVE  /\ SizeUpTo(items)[i] \in Nat
           /\ BytesUpTo(items)[i] \in Seq(Nat)
           /\ Len(BytesUpTo(items)[i]) = SizeUpTo(items)[i]
<1> DEFINE Agree(k) ==
        /\ SizeUpTo(items)[k] \in Nat
        /\ BytesUpTo(items)[k] \in Seq(Nat)
        /\ Len(BytesUpTo(items)[k]) = SizeUpTo(items)[k]
           S == {k \in Nat : k \in 0..Len(items) => Agree(k)}
<1>1. Len(items) \in Nat /\ \A k \in 1..Len(items) : items[k] \in Bytes
  BY LenProperties, ElementOfSeq
<1>2. 0 \in S
  <2>1. SizeUpTo(items)[0] = 0 /\ BytesUpTo(items)[0] = <<>>
    BY <1>1, SizeUpToDef, BytesUpToDef
  <2>2. <<>> \in Seq(Nat) /\ Len(<<>>) = 0
    BY EmptySeq
  <2>3. SizeUpTo(items)[0] \in Nat
    BY <2>1
  <2>4. BytesUpTo(items)[0] \in Seq(Nat)
        /\ Len(BytesUpTo(items)[0]) = SizeUpTo(items)[0]
    BY <2>1, <2>2, Zenon
  <2> QED
    BY <2>3, <2>4
<1>3. ASSUME NEW k \in Nat, k \in S PROVE k + 1 \in S
  <2> SUFFICES ASSUME k + 1 \in 0..Len(items) PROVE Agree(k + 1)
    OBVIOUS
  <2>1. Agree(k)
    BY <1>1, <1>3
  <2>2. k + 1 # 0 /\ (k + 1) - 1 = k /\ k + 1 \in 1..Len(items)
    BY <1>1
  <2>3. SizeUpTo(items)[k + 1] = SizeUpTo(items)[k] + StringSize(items[k + 1])
    BY <1>1, <2>2, SizeUpToDef
  <2>4. BytesUpTo(items)[k + 1] = BytesUpTo(items)[k] \o EncodeString(items[k + 1])
    BY <1>1, <2>2, BytesUpToDef
  <2>5. /\ StringSize(items[k + 1]) \in Nat
        /\ EncodeString(items[k + 1]) \in Seq(Nat)
        /\ Len(EncodeString(items[k + 1])) = StringSize(items[k + 1])
    BY <1>1, <2>2, SizeFacts
  <2>6. /\ BytesUpTo(items)[k] \o EncodeString(items[k + 1]) \in Seq(Nat)
        /\ Len(BytesUpTo(items)[k] \o EncodeString(items[k + 1]))
               = Len(BytesUpTo(items)[k]) + Len(EncodeString(items[k + 1]))
    BY <2>1, <2>5, ConcatNat
  <2> QED
    BY <2>1, <2>3, <2>4, <2>5, <2>6
<1> QED
  <2>1. Nat \subseteq S
    <3> HIDE DEF S
    <3> QED
      BY <1>2, <1>3, Induction
  <2>2. i \in Nat /\ i \in 0..Len(items)
    BY <1>1
  <2> QED
    BY <2>1, <2>2

(* For any list of strings the encoder writes exactly the bytes that it    *)
(* allocated (RlpEncode, RlpRecursiveCalcEncodingSize).                    *)
THEOREM EncoderIsExact ==
    ASSUME NEW items \in Seq(Bytes)
    PROVE  /\ Encode(items).size \in Nat
           /\ Encode(items).bytes \in Seq(Nat)
           /\ Len(Encode(items).bytes) = Encode(items).size
<1> DEFINE size == FieldsSize(items)
           body == BytesUpTo(items)[Len(items)]
<1>1. Len(items) \in 0..Len(items)
  BY LenProperties
<1>2. size \in Nat /\ body \in Seq(Nat) /\ Len(body) = size
  BY <1>1, LoopsAgree DEF FieldsSize
<1>3. /\ Prefix(192, size) \in Seq(Nat)
      /\ HeadSize(size) \in Nat
      /\ Len(Prefix(192, size)) = HeadSize(size)
  <2> HIDE DEF size, body
  <2>1. HeadSize(size) \in 1..5
    BY <1>2, HeadFacts, 192 \in Nat, Zenon
  <2>2. HeadSize(size) \in Nat
    BY <2>1
  <2> QED
    BY <1>2, <2>2, HeadFacts, 192 \in Nat, Zenon
<1>4. /\ Prefix(192, size) \o body \in Seq(Nat)
      /\ Len(Prefix(192, size) \o body) = HeadSize(size) + size
  <2> HIDE DEF size, body
  <2>1. /\ Prefix(192, size) \o body \in Seq(Nat)
        /\ Len(Prefix(192, size) \o body) = Len(Prefix(192, size)) + Len(body)
    BY <1>2, <1>3, ConcatNat, Zenon
  <2> QED
    BY <1>2, <1>3, <2>1, Zenon
<1>5. Encode(items).size = HeadSize(size) + size
      /\ Encode(items).bytes = Prefix(192, size) \o body
  BY DEF Encode, ListSize
<1> QED
  <2> HIDE DEF size, body
  <2>1. HeadSize(size) + size \in Nat
    BY <1>2, <1>3
  <2> QED
    BY <1>4, <1>5, <2>1

-----------------------------------------------------------------------------
(* The decoder of the node *)

(* A head that the encoder wrote is read as it was meant.                  *)
LEMMA HeadRead ==
    ASSUME NEW base \in {128, 192}, NEW n \in Nat, n < Limit,
           NEW s \in Seq(Nat), NEW at \in Nat \ {0},
           at + HeadSize(n) + n - 1 <= Len(s),
           \A j \in 1..HeadSize(n) : s[at - 1 + j] = Prefix(base, n)[j]
    PROVE  /\ s[at] \in base..(base + 59)
           /\ HeadLen(base, s[at]) = HeadSize(n)
           /\ FieldLen(base, s, at) = n
           /\ HeadSize(n) > 1 => n > 55 /\ s[at + 1] # 0
<1> base \in Nat
  OBVIOUS
<1>0. at - 1 + 1 = at /\ at - 1 + 2 = at + 1 /\ Len(s) \in Nat
  BY LenProperties
<1>1. CASE n <= 55
  <2>1. HeadSize(n) = 1 /\ Prefix(base, n) = <<base + n>>
    BY <1>1 DEF HeadSize, Prefix
  <2>2. s[at] = base + n
    <3>1. s[at - 1 + 1] = <<base + n>>[1]
      BY <2>1
    <3> QED
      BY <3>1, <1>0
  <2>3. HeadLen(base, s[at]) = 1
    BY <1>1, <2>2 DEF HeadLen
  <2>4. FieldLen(base, s, at) = n
    BY <2>2, <2>3 DEF FieldLen
  <2> QED
    BY <1>1, <2>1, <2>2, <2>3, <2>4
<1>2. CASE ~(n <= 55)
  <2> DEFINE b == Big(n)
  <2>1. /\ b \in Bytes /\ Len(b) \in 1..4 /\ Num(b) = n
        /\ n # 0 => b[1] # 0
    BY BigFacts
  <2>2. PICK k \in 1..4 : k = Len(b)
    BY <2>1
  <2>3. HeadSize(n) = 1 + k /\ Prefix(base, n) = <<base + 55 + k>> \o b
    BY <1>2, <2>2 DEF HeadSize, Prefix
  <2> HIDE DEF b
  <2>4. b \in Seq(Nat)
    BY <2>1, BytesAreNat
  <2>5. /\ (<<base + 55 + k>> \o b)[1] = base + 55 + k
        /\ \A j \in 1..k : (<<base + 55 + k>> \o b)[1 + j] = b[j]
    <3>1. <<base + 55 + k>> \in Seq(Nat) /\ Len(<<base + 55 + k>>) = 1
          /\ <<base + 55 + k>>[1] = base + 55 + k
      OBVIOUS
    <3> DEFINE c == <<base + 55 + k>> \o b
    <3>2. \A i \in 1..(1 + k) : c[i] =
              IF i <= 1 THEN <<base + 55 + k>>[i] ELSE b[i - 1]
      BY <2>2, <2>4, <3>1, ConcatProperties
    <3> HIDE DEF c
    <3>3. c[1] = <<base + 55 + k>>[1]
      BY <3>2
    <3>4. \A j \in 1..k : c[1 + j] = b[j]
      <4> TAKE j \in 1..k
      <4>1. 1 + j \in 1..(1 + k) /\ ~(1 + j <= 1) /\ (1 + j) - 1 = j
        OBVIOUS
      <4>2. c[1 + j] = b[(1 + j) - 1]
        BY <3>2, <4>1, Zenon
      <4> QED
        BY <4>1, <4>2, Zenon
    <3> QED
      BY <3>1, <3>3, <3>4 DEF c
  <2>6. s[at] = base + 55 + k
    <3>1. s[at - 1 + 1] = (<<base + 55 + k>> \o b)[1]
      BY <2>3
    <3> QED
      BY <3>1, <2>5, <1>0
  <2>7. \A j \in 1..k : s[at + j] = b[j]
    <3> TAKE j \in 1..k
    <3>1. 1 + j \in 1..HeadSize(n) /\ at - 1 + (1 + j) = at + j
      BY <2>3
    <3>2. s[at - 1 + (1 + j)] = (<<base + 55 + k>> \o b)[1 + j]
      BY <2>3, <3>1
    <3> QED
      BY <3>1, <3>2, <2>5
  <2>8. HeadLen(base, s[at]) = 1 + k
    BY <2>6 DEF HeadLen
  <2>9. SubSeq(s, at + 1, at + (1 + k) - 1) = b
    <3> DEFINE t == SubSeq(s, at + 1, at + k)
    <3>1. \A i \in (at + 1)..(at + k) : s[i] \in Nat
      <4> TAKE i \in (at + 1)..(at + k)
      <4>1. i \in 1..Len(s)
        BY <1>0, <2>3
      <4> QED
        BY <4>1, ElementOfSeq
    <3>2. /\ t \in Seq(Nat)
          /\ Len(t) = IF at + 1 <= at + k THEN at + k - (at + 1) + 1 ELSE 0
          /\ \A i \in 1..(at + k - (at + 1) + 1) : t[i] = s[at + 1 + i - 1]
      BY <3>1, SubSeqProperties
    <3>3. Len(t) = k /\ \A i \in 1..k : t[i] = s[at + i]
      <4>1. at + k - (at + 1) + 1 = k /\ \A i \in 1..k : at + 1 + i - 1 = at + i
        OBVIOUS
      <4> HIDE DEF t
      <4> QED
        BY <3>2, <4>1
    <3>4. t = b
      <4> HIDE DEF t
      <4>1. Len(t) = Len(b)
        BY <3>3, <2>2
      <4>2. \A i \in 1..Len(t) : t[i] = b[i]
        <5> TAKE i \in 1..Len(t)
        <5>1. i \in 1..k
          BY <3>3
        <5>2. t[i] = s[at + i]
          BY <3>3, <5>1
        <5>3. s[at + i] = b[i]
          BY <2>7, <5>1
        <5> QED
          BY <5>2, <5>3, Zenon
      <4> QED
        BY <3>2, <4>1, <4>2, <2>4, SeqEqual, Zenon
    <3> QED
      BY <3>4, at + (1 + k) - 1 = at + k
  <2>10. FieldLen(base, s, at) = n
    <3>1. ~(at + (1 + k) - 1 > Len(s)) /\ 1 + k # 1
      <4>1. HeadSize(n) = 1 + k /\ Len(s) \in Nat
        BY <2>3
      <4>2. at + (1 + k) + n - 1 <= Len(s)
        BY <4>1
      <4> QED
        BY <4>1, <4>2
    <3> QED
      BY <2>1, <2>8, <2>9, <3>1 DEF FieldLen
  <2>11. s[at + 1] # 0
    BY <1>2, <2>1, <2>7
  <2> QED
    BY <1>2, <2>3, <2>6, <2>8, <2>10, <2>11
<1> QED
  BY <1>1, <1>2

(* A string that the encoder wrote is read as it was put into the list.    *)
LEMMA StringRead ==
    ASSUME NEW b \in Bytes, Len(b) < Limit,
           NEW s \in Seq(Nat), NEW at \in Nat \ {0},
           at + StringSize(b) - 1 <= Len(s),
           \A j \in 1..StringSize(b) : s[at - 1 + j] = EncodeString(b)[j]
    PROVE  \/ s[at] < 128 /\ <<s[at]>> = b /\ StringSize(b) = 1
           \/ /\ s[at] \in 128..191
              /\ Strict(128, s, at)
              /\ Content(s, at) = b
              /\ Behind(s, at) = at + StringSize(b)
<1>0. /\ at - 1 + 1 = at /\ Len(s) \in Nat /\ Len(b) \in Nat
      /\ b \in Seq(Nat)
  BY LenProperties, BytesAreNat
<1>1. CASE IsLowByte(b)
  <2>1. StringSize(b) = 1 /\ EncodeString(b) = b /\ Len(b) = 1 /\ b[1] <= 127
    BY <1>1 DEF StringSize, EncodeString, IsLowByte
  <2>2. s[at - 1 + 1] = b[1]
    BY <2>1
  <2>3. s[at] = b[1]
    BY <1>0, <2>2
  <2>4. b[1] \in Nat
    BY <1>0, <2>1, ElementOfSeq, 1 \in 1..Len(b)
  <2>5. <<s[at]>> = b
    <3>1. <<b[1]>> \in Seq(Nat) /\ Len(<<b[1]>>) = 1 /\ <<b[1]>>[1] = b[1]
      BY <2>4
    <3>2. \A i \in 1..Len(<<b[1]>>) : <<b[1]>>[i] = b[i]
      BY <3>1
    <3>3. <<b[1]>> = b
      BY <1>0, <2>1, <3>1, <3>2, SeqEqual, Zenon
    <3> QED
      BY <2>3, <3>3
  <2> QED
    BY <2>1, <2>3, <2>4, <2>5
<1>2. CASE ~IsLowByte(b)
  <2> DEFINE n == Len(b)
             h == HeadSize(n)
             p == Prefix(128, n)
  <2>1. p \in Seq(Nat) /\ h \in 1..5 /\ Len(p) = h
    BY <1>0, HeadFacts, 128 \in Nat
  <2>2. StringSize(b) = h + n /\ EncodeString(b) = p \o b
    BY <1>2 DEF StringSize, EncodeString
  <2> HIDE DEF n, h, p
  <2>n. n \in Nat /\ n = Len(b)
    BY <1>0 DEF n
  <2>3. \A i \in 1..(h + n) : (p \o b)[i] = IF i <= h THEN p[i] ELSE b[i - h]
    BY <1>0, <2>1, <2>n, ConcatProperties
  <2>4. \A j \in 1..h : s[at - 1 + j] = p[j]
    <3> TAKE j \in 1..h
    <3>1. j \in 1..(h + n) /\ j <= h
      BY <2>1, <2>n
    <3>2. s[at - 1 + j] = (p \o b)[j]
      BY <2>2, <3>1
    <3>3. (p \o b)[j] = p[j]
      BY <2>3, <3>1, Zenon
    <3> QED
      BY <3>2, <3>3, Zenon
  <2>5. \A j \in 1..n : s[at + h + j - 1] = b[j]
    <3> TAKE j \in 1..n
    <3>1. /\ h + j \in 1..(h + n) /\ ~(h + j <= h) /\ (h + j) - h = j
          /\ at - 1 + (h + j) = at + h + j - 1
      BY <2>1, <2>n
    <3>2. s[at - 1 + (h + j)] = (p \o b)[h + j]
      BY <2>2, <3>1
    <3>3. (p \o b)[h + j] = b[(h + j) - h]
      BY <2>3, <3>1, Zenon
    <3> QED
      BY <3>1, <3>2, <3>3, Zenon
  <2>6. /\ s[at] \in 128..(128 + 59)
        /\ HeadLen(128, s[at]) = h
        /\ FieldLen(128, s, at) = n
        /\ h > 1 => n > 55 /\ s[at + 1] # 0
    <3>1. n < Limit /\ at + h + n - 1 <= Len(s)
      BY <1>0, <2>1, <2>2, <2>n
    <3>2. \A j \in 1..HeadSize(n) : s[at - 1 + j] = Prefix(128, n)[j]
      BY <2>4 DEF h, p
    <3>3. h = HeadSize(n)
      BY DEF h
    <3> QED
      BY <2>n, <3>1, <3>2, <3>3, HeadRead
  <2>7. Strict(128, s, at)
    <3>1. at + h + n - 1 <= Len(s)
      BY <1>0, <2>1, <2>2, <2>n
    <3>2. n = 1 => s[at + h] > 127
      <4> SUFFICES ASSUME n = 1 PROVE s[at + h] > 127
        OBVIOUS
      <4>1. s[at + h + 1 - 1] = b[1]
        BY <2>5
      <4>2. at + h + 1 - 1 = at + h
        BY <2>1
      <4>3. b[1] \in Nat
        <5>1. PICK m \in Nat : m = Len(b) /\ m = 1
          BY <2>n, Zenon
        <5>2. 1 \in 1..m
          BY <5>1
        <5> QED
          BY <1>0, <5>1, <5>2, ElementOfSeq, Zenon
      <4>4. ~(b[1] <= 127)
        BY <1>2, <2>n DEF IsLowByte
      <4> QED
        BY <4>1, <4>2, <4>3, <4>4
    <3> QED
      BY <2>6, <3>1, <3>2 DEF Strict
  <2>8. Behind(s, at) = at + h + n
    BY <2>6 DEF Behind
  <2>9. Content(s, at) = b
    <3> DEFINE t == SubSeq(s, at + h, at + h + n - 1)
    <3>1. \A i \in (at + h)..(at + h + n - 1) : s[i] \in Nat
      <4> TAKE i \in (at + h)..(at + h + n - 1)
      <4>1. i \in 1..Len(s)
        BY <1>0, <2>1, <2>2, <2>n
      <4> QED
        BY <4>1, ElementOfSeq
    <3>2. /\ t \in Seq(Nat)
          /\ Len(t) = IF at + h <= at + h + n - 1
                      THEN at + h + n - 1 - (at + h) + 1 ELSE 0
          /\ \A i \in 1..(at + h + n - 1 - (at + h) + 1) :
                 t[i] = s[at + h + i - 1]
      BY <2>1, <2>n, <3>1, SubSeqProperties
    <3> HIDE DEF t
    <3>3. Len(t) = Len(b)
      BY <2>1, <2>n, <3>2
    <3>4. \A i \in 1..Len(t) : t[i] = b[i]
      <4> TAKE i \in 1..Len(t)
      <4>1. i \in 1..n /\ i \in 1..(at + h + n - 1 - (at + h) + 1)
        BY <2>1, <2>n, <3>3
      <4>2. t[i] = s[at + h + i - 1]
        BY <3>2, <4>1
      <4>3. s[at + h + i - 1] = b[i]
        BY <2>5, <4>1
      <4> QED
        BY <4>2, <4>3, Zenon
    <3>5. t = b
      BY <1>0, <3>2, <3>3, <3>4, SeqEqual, Zenon
    <3>6. Content(s, at) = t
      <4>1. HeadLen(128, s[at]) = h
        BY <2>6
      <4>2. at + HeadLen(128, s[at]) = at + h
        BY <4>1, Zenon
      <4>3. Behind(s, at) - 1 = at + h + n - 1
        BY <2>1, <2>n, <2>8, SMT
      <4> QED
        BY <4>2, <4>3, Zenon DEF Content, t
    <3> QED
      BY <3>5, <3>6
  <2> QED
    BY <1>0, <2>1, <2>2, <2>n, <2>6, <2>7, <2>8, <2>9
<1> QED
  BY <1>1, <1>2

-----------------------------------------------------------------------------
(* The strings of a stream *)

LEMMA NumNat == ASSUME NEW t \in Seq(Nat) PROVE Num(t) \in Nat
<1> DEFINE D(k) == IF k <= Len(t) THEN t[Len(t) + 1 - k] ELSE 0
<1>1. Len(t) \in Nat /\ \A i \in 1..Len(t) : t[i] \in Nat
  BY LenProperties, ElementOfSeq
<1>2. \A k \in 1..4 : D(k) \in Nat
  <2> TAKE k \in 1..4
  <2>1. k <= Len(t) => Len(t) + 1 - k \in 1..Len(t)
    BY <1>1
  <2> QED
    BY <1>1, <2>1
<1>3. Num(t) = D(1) + 256 * D(2) + 65536 * D(3) + 16777216 * D(4)
  BY SMT DEF Num
<1>4. PICK a \in Nat, b \in Nat, c \in Nat, d \in Nat :
          a = D(1) /\ b = D(2) /\ c = D(3) /\ d = D(4)
  BY <1>2
<1> HIDE DEF D
<1>5. Num(t) = a + 256 * b + 65536 * c + 16777216 * d
  BY <1>3, <1>4, SMT
<1> QED
  BY <1>5, SMT

(* Behind a head that is strict the decoder goes on within the stream.     *)
LEMMA BehindAhead ==
    ASSUME NEW s \in Seq(Nat), NEW at \in 1..Len(s),
           s[at] >= 128, Strict(128, s, at)
    PROVE  Behind(s, at) \in (at + 1)..(Len(s) + 1)
<1>1. Len(s) \in Nat /\ s[at] \in Nat
  BY LenProperties, ElementOfSeq
<1>2. HeadLen(128, s[at]) \in Nat \ {0}
  BY <1>1 DEF HeadLen
<1>3. FieldLen(128, s, at) \in Nat
  <2> DEFINE h == HeadLen(128, s[at])
             t == SubSeq(s, at + 1, at + h - 1)
  <2>1. CASE h = 1
    BY <1>1, <2>1 DEF FieldLen
  <2>2. CASE h # 1 /\ at + h - 1 > Len(s)
    BY <2>2 DEF FieldLen
  <2>3. CASE h # 1 /\ ~(at + h - 1 > Len(s))
    <3> HIDE DEF h
    <3>1. \A i \in (at + 1)..(at + h - 1) : s[i] \in Nat
      <4> TAKE i \in (at + 1)..(at + h - 1)
      <4>1. i \in 1..Len(s)
        BY <1>1, <1>2, <2>3 DEF h
      <4> QED
        BY <4>1, ElementOfSeq
    <3>2. at + 1 \in Int /\ at + h - 1 \in Int
      BY <1>2 DEF h
    <3>3. t \in Seq(Nat)
      BY <3>1, <3>2, SubSeqProperties
    <3>4. Num(t) \in Nat
      BY <3>3, NumNat
    <3> QED
      BY <2>3, <3>4 DEF FieldLen, h
  <2> QED
    BY <2>1, <2>2, <2>3
<1>4. at + HeadLen(128, s[at]) + FieldLen(128, s, at) - 1 <= Len(s)
  BY DEF Strict
<1>5. PICK h \in Nat \ {0}, n \in Nat :
          h = HeadLen(128, s[at]) /\ n = FieldLen(128, s, at)
  BY <1>2, <1>3
<1>6. at + h + n - 1 <= Len(s) /\ Behind(s, at) = at + h + n
  BY <1>4, <1>5, Zenon DEF Behind
<1> QED
  BY <1>1, <1>6

(* One step of the decoder, with f for the rest of the stream.             *)
StringsAt(f, s, at) ==
    IF at = Len(s) + 1 THEN <<>>
    ELSE IF s[at] < 128 THEN <<<<s[at]>>>> \o f[at + 1]
    ELSE IF s[at] >= 192 \/ ~Strict(128, s, at) THEN <<Malformed>>
    ELSE <<Content(s, at)>> \o f[Behind(s, at)]

(* The decoder is defined on every stream, from its end to its beginning.  *)
LEMMA StringsDefined ==
    ASSUME NEW s \in Seq(Nat)
    PROVE  \A at \in 1..(Len(s) + 1) :
               Strings(s)[at] = StringsAt(Strings(s), s, at)
<1>0. Len(s) \in Nat /\ \A i \in 1..Len(s) : s[i] \in Nat
  BY LenProperties, ElementOfSeq
<1> DEFINE N == Len(s) + 1
           From(f, n) == \A at \in 1..N :
                             at >= N - n => f[at] = StringsAt(f, s, at)
           S == {n \in Nat : \E f : DOMAIN f = 1..N /\ From(f, n)}
<1>1. 0 \in S
  <2> DEFINE f == [at \in 1..N |-> <<>>]
  <2>1. From(f, 0)
    BY <1>0 DEF StringsAt
  <2> QED
    BY <2>1
<1>2. ASSUME NEW n \in Nat, n \in S PROVE n + 1 \in S
  <2>1. PICK f : DOMAIN f = 1..N /\ From(f, n)
    BY <1>2
  <2> DEFINE g == [at \in 1..N |->
                      IF at = N - (n + 1) THEN StringsAt(f, s, at) ELSE f[at]]
  <2>2. ASSUME NEW at \in 1..N, at >= N - (n + 1)
        PROVE  StringsAt(g, s, at) = StringsAt(f, s, at)
    <3>1. CASE at = N
      BY <3>1 DEF StringsAt
    <3>2. CASE at # N
      <4>1. at \in 1..Len(s) /\ s[at] \in Nat
        BY <1>0, <3>2
      <4>2. g[at + 1] = f[at + 1]
        BY <1>0, <4>1, <2>2
      <4>3. s[at] >= 128 /\ Strict(128, s, at) => g[Behind(s, at)] = f[Behind(s, at)]
        <5> SUFFICES ASSUME s[at] >= 128, Strict(128, s, at)
                     PROVE  g[Behind(s, at)] = f[Behind(s, at)]
          OBVIOUS
        <5>1. Behind(s, at) \in (at + 1)..N
          BY <4>1, BehindAhead
        <5> QED
          BY <1>0, <2>2, <5>1
      <4> QED
        <5> HIDE DEF g
        <5> QED
          BY <4>1, <4>2, <4>3 DEF StringsAt
    <3> QED
      BY <3>1, <3>2
  <2>3. From(g, n + 1)
    <3> TAKE at \in 1..N
    <3> HAVE at >= N - (n + 1)
    <3>1. CASE at = N - (n + 1)
      BY <2>2, <3>1
    <3>2. CASE at # N - (n + 1)
      <4>1. at >= N - n
        BY <1>0, <3>2
      <4>2. f[at] = StringsAt(f, s, at)
        BY <2>1, <4>1
      <4>3. g[at] = f[at]
        BY <3>2
      <4>4. StringsAt(g, s, at) = StringsAt(f, s, at)
        BY <2>2
      <4> QED
        BY <4>2, <4>3, <4>4
    <3> QED
      BY <3>1, <3>2
  <2>4. DOMAIN g = 1..N
    OBVIOUS
  <2> QED
    <3> HIDE DEF g, From
    <3> QED
      BY <2>3, <2>4
<1>3. \E f : f = [at \in 1..N |-> StringsAt(f, s, at)]
  <2>1. N \in S
    <3> HIDE DEF S
    <3>1. Nat \subseteq S
      BY <1>1, <1>2, Induction
    <3> QED
      BY <1>0, <3>1
  <2>2. PICK f : DOMAIN f = 1..N /\ From(f, N)
    BY <2>1
  <2> DEFINE g == [at \in 1..N |-> f[at]]
  <2>3. \A at \in 1..N : f[at] = StringsAt(f, s, at)
    BY <1>0, <2>2
  <2>4. \A at \in 1..N : StringsAt(g, s, at) = StringsAt(f, s, at)
    <3> TAKE at \in 1..N
    <3>1. CASE at = N
      BY <3>1 DEF StringsAt
    <3>2. CASE at # N
      <4>1. at \in 1..Len(s) /\ s[at] \in Nat
        BY <1>0, <3>2
      <4>2. g[at + 1] = f[at + 1]
        BY <1>0, <4>1
      <4>3. s[at] >= 128 /\ Strict(128, s, at) => g[Behind(s, at)] = f[Behind(s, at)]
        <5> SUFFICES ASSUME s[at] >= 128, Strict(128, s, at)
                     PROVE  g[Behind(s, at)] = f[Behind(s, at)]
          OBVIOUS
        <5>1. Behind(s, at) \in (at + 1)..N
          BY <4>1, BehindAhead
        <5> QED
          BY <1>0, <4>1, <5>1
      <4> QED
        <5> HIDE DEF g
        <5> QED
          BY <4>1, <4>2, <4>3 DEF StringsAt
    <3> QED
      BY <3>1, <3>2
  <2>5. g = [at \in 1..N |-> StringsAt(g, s, at)]
    BY <2>3, <2>4
  <2> QED
    <3> HIDE DEF g
    <3> QED
      BY <2>5
<1> DEFINE Decodes(f) == f = [at \in 1..N |-> StringsAt(f, s, at)]
<1>4. Strings(s) = CHOOSE f : Decodes(f)
  BY DEF Strings, StringsAt
<1>5. Decodes(Strings(s))
  <2> HIDE DEF Decodes
  <2>1. \E f : Decodes(f)
    BY <1>3 DEF Decodes
  <2> QED
    BY <1>4, <2>1
<1> QED
  <2> HIDE DEF N
  <2>1. \A at \in 1..N : Strings(s)[at] = StringsAt(Strings(s), s, at)
    BY <1>5
  <2> QED
    BY <2>1 DEF N

(* What is written first stays there.                                      *)
LEMMA BytesKept ==
    ASSUME NEW items \in Seq(Bytes), NEW i \in 0..Len(items),
           NEW j \in 1..Len(BytesUpTo(items)[i])
    PROVE  \A k \in Nat : k <= Len(items) /\ i <= k =>
               /\ j \in 1..Len(BytesUpTo(items)[k])
               /\ BytesUpTo(items)[k][j] = BytesUpTo(items)[i][j]
<1> DEFINE Kept(k) == /\ j \in 1..Len(BytesUpTo(items)[k])
                      /\ BytesUpTo(items)[k][j] = BytesUpTo(items)[i][j]
           S == {k \in Nat : k <= Len(items) /\ i <= k => Kept(k)}
<1>0. Len(items) \in Nat
  BY LenProperties
<1>1. 0 \in S
  <2>1. CASE i = 0
    BY <2>1
  <2>2. CASE i # 0
    BY <1>0, <2>2
  <2> QED
    BY <2>1, <2>2
<1>2. ASSUME NEW k \in Nat, k \in S PROVE k + 1 \in S
  <2> SUFFICES ASSUME k + 1 <= Len(items), i <= k + 1 PROVE Kept(k + 1)
    OBVIOUS
  <2>1. CASE i = k + 1
    BY <2>1
  <2>2. CASE i # k + 1
    <3>1. Kept(k)
      BY <1>0, <1>2, <2>2
    <3> DEFINE p == BytesUpTo(items)[k]
               e == EncodeString(items[k + 1])
    <3>2. k \in 0..Len(items) /\ k + 1 \in 1..Len(items) /\ k + 1 \in 0..Len(items)
      BY <1>0
    <3>3. p \in Seq(Nat)
      BY <3>2, LoopsAgree
    <3>4. e \in Seq(Nat)
      <4>1. items[k + 1] \in Bytes
        BY <3>2, ElementOfSeq
      <4> QED
        BY <4>1, SizeFacts
    <3>5. BytesUpTo(items)[k + 1] = p \o e
      <4>1. k + 1 # 0 /\ (k + 1) - 1 = k
        OBVIOUS
      <4> QED
        BY <1>0, <3>2, <4>1, BytesUpToDef
    <3> HIDE DEF p, e
    <3>6. j \in 1..Len(p) /\ p[j] = BytesUpTo(items)[i][j]
      BY <3>1 DEF p
    <3>7. Len(p) \in Nat /\ Len(e) \in Nat
      BY <3>3, <3>4, LenProperties
    <3>8. Len(p \o e) = Len(p) + Len(e)
          /\ \A n \in 1..(Len(p) + Len(e)) :
                 (p \o e)[n] = IF n <= Len(p) THEN p[n] ELSE e[n - Len(p)]
      BY <3>3, <3>4, ConcatProperties
    <3>9. j \in 1..(Len(p) + Len(e)) /\ j <= Len(p)
      BY <3>6, <3>7
    <3>10. (p \o e)[j] = p[j]
      BY <3>8, <3>9, Zenon
    <3> QED
      BY <3>5, <3>6, <3>8, <3>9, <3>10, Zenon
  <2> QED
    BY <2>1, <2>2
<1> QED
  <2> HIDE DEF S
  <2>1. Nat \subseteq S
    BY <1>1, <1>2, Induction
  <2> QED
    BY <2>1 DEF S

(* The position behind the first i strings in the stream of a list.        *)
Start(items, i) == HeadSize(FieldsSize(items)) + SizeUpTo(items)[i] + 1

(* Each string is where the strings before it end.                         *)
LEMMA StringPlaced ==
    ASSUME NEW items \in Seq(Bytes), NEW i \in 1..Len(items)
    PROVE  /\ Start(items, i - 1) \in Nat \ {0}
           /\ Start(items, i - 1) + StringSize(items[i]) = Start(items, i)
           /\ Start(items, i - 1) + StringSize(items[i]) - 1
                  <= Len(Encode(items).bytes)
           /\ \A j \in 1..StringSize(items[i]) :
                  Encode(items).bytes[Start(items, i - 1) - 1 + j]
                      = EncodeString(items[i])[j]
<1> DEFINE n == Len(items)
           h == HeadSize(FieldsSize(items))
           head == Prefix(192, FieldsSize(items))
           body == BytesUpTo(items)[n]
           before == BytesUpTo(items)[i - 1]
           from == SizeUpTo(items)[i - 1]
           b == items[i]
           e == EncodeString(b)
           size == StringSize(b)
           s == Encode(items).bytes
<1>0. n \in Nat /\ i \in 0..n /\ i - 1 \in 0..n /\ n \in 0..n /\ b \in Bytes
      /\ i # 0
  BY LenProperties, ElementOfSeq
<1>1. size \in Nat /\ e \in Seq(Nat) /\ Len(e) = size
  BY <1>0, SizeFacts
<1>2. from \in Nat /\ before \in Seq(Nat) /\ Len(before) = from
  BY <1>0, LoopsAgree
<1>3. FieldsSize(items) \in Nat /\ body \in Seq(Nat)
      /\ Len(body) = FieldsSize(items)
  BY <1>0, LoopsAgree DEF FieldsSize
<1>4. head \in Seq(Nat) /\ h \in 1..5 /\ Len(head) = h
  <2> HIDE DEF n, body
  <2>1. 192 \in Nat /\ FieldsSize(items) \in Nat
    BY <1>3
  <2> QED
    BY <2>1, HeadFacts, Zenon
<1>5. s = head \o body
  BY DEF Encode
<1>6. SizeUpTo(items)[i] = from + size
  BY <1>0, SizeUpToDef
<1>7. BytesUpTo(items)[i] = before \o e
  BY <1>0, BytesUpToDef
<1> HIDE DEF n, h, head, body, before, from, e, size, s
<1>8. Len(before \o e) = from + size
      /\ \A m \in 1..(from + size) :
             (before \o e)[m] = IF m <= from THEN before[m] ELSE e[m - from]
  BY <1>1, <1>2, ConcatProperties
<1>9. ASSUME NEW j \in 1..size
      PROVE  from + j \in 1..Len(body) /\ body[from + j] = e[j]
  <2>1. /\ from + j \in 1..(from + size) /\ ~(from + j <= from)
        /\ (from + j) - from = j
    BY <1>1, <1>2
  <2>2. (before \o e)[from + j] = e[j]
    <3>1. (before \o e)[from + j] = e[(from + j) - from]
      BY <1>8, <2>1, Zenon
    <3> QED
      BY <2>1, <3>1, Zenon
  <2>3. from + j \in 1..Len(BytesUpTo(items)[i])
    BY <1>7, <1>8, <2>1, Zenon
  <2>4. i <= n /\ n <= Len(items)
    BY <1>0 DEF n
  <2>5. from + j \in 1..Len(body)
        /\ body[from + j] = BytesUpTo(items)[i][from + j]
    BY <1>0, <2>3, <2>4, BytesKept DEF n, body
  <2> QED
    BY <1>7, <2>2, <2>5, Zenon
<1>10. \A m \in 1..(h + Len(body)) :
           (head \o body)[m] = IF m <= h THEN head[m] ELSE body[m - h]
  BY <1>3, <1>4, ConcatProperties
<1>11. ASSUME NEW j \in 1..size PROVE s[h + from + 1 - 1 + j] = e[j]
  <2>1. /\ h + (from + j) \in 1..(h + Len(body)) /\ ~(h + (from + j) <= h)
        /\ (h + (from + j)) - h = from + j
        /\ h + from + 1 - 1 + j = h + (from + j)
    BY <1>1, <1>2, <1>3, <1>4, <1>9
  <2>2. s[h + (from + j)] = body[(h + (from + j)) - h]
    BY <1>5, <1>10, <2>1, Zenon
  <2> QED
    BY <1>9, <2>1, <2>2, Zenon
<1>12. from + size <= Len(body)
  <2>1. CASE size = 0
    <3>1. CASE from = 0
      BY <1>3, <2>1, <3>1
    <3>2. CASE from # 0
      <4>1. from \in 1..Len(before) /\ i - 1 \in 0..Len(items)
            /\ i - 1 <= n /\ n <= Len(items) /\ n \in Nat
        BY <1>0, <1>2, <3>2 DEF n
      <4>2. from \in 1..Len(body)
        BY <4>1, BytesKept DEF n, body, before
      <4> QED
        BY <1>2, <2>1, <4>2
    <3> QED
      BY <3>1, <3>2
  <2>2. CASE size # 0
    <3>1. size \in 1..size
      BY <1>1, <2>2
    <3>2. from + size \in 1..Len(body)
      BY <1>9, <3>1
    <3> QED
      BY <3>2
  <2> QED
    BY <2>1, <2>2
<1>13. Len(s) = h + Len(body)
  BY <1>3, <1>4, <1>5, ConcatNat
<1>14. /\ h + from + 1 \in Nat \ {0}
       /\ h + from + 1 + size = h + SizeUpTo(items)[i] + 1
       /\ h + from + 1 + size - 1 <= Len(s)
  BY <1>1, <1>2, <1>3, <1>4, <1>6, <1>12, <1>13
<1>15. Start(items, i - 1) = h + from + 1
       /\ Start(items, i) = h + SizeUpTo(items)[i] + 1
  BY DEF Start, h, from
<1>16. \A j \in 1..size : s[Start(items, i - 1) - 1 + j] = e[j]
  <2> TAKE j \in 1..size
  <2>1. Start(items, i - 1) - 1 + j = h + from + 1 - 1 + j
    BY <1>1, <1>2, <1>4, <1>15
  <2> QED
    BY <1>11, <2>1, Zenon
<1>17. size = StringSize(items[i]) /\ e = EncodeString(items[i])
       /\ s = Encode(items).bytes
  BY DEF size, e, s
<1> QED
  BY <1>14, <1>15, <1>16, <1>17, Zenon

(* A strict decoder reads from a stream the strings that were encoded, for *)
(* any list whose length 32 bits can count (RlpEncode).                    *)
THEOREM DecoderInvertsEncoder ==
    ASSUME NEW items \in Seq(Bytes), FieldsSize(items) < Limit,
           \A i \in 1..Len(items) : Len(items[i]) < Limit
    PROVE  Decode(Encode(items).bytes) = items
<1> DEFINE n == Len(items)
           s == Encode(items).bytes
           size == FieldsSize(items)
           h == HeadSize(size)
           head == Prefix(192, size)
           body == BytesUpTo(items)[n]
<1>1. n \in Nat /\ \A i \in 1..n : items[i] \in Bytes
  BY LenProperties, ElementOfSeq
<1>2. s \in Seq(Nat) /\ Len(s) = Encode(items).size /\ Len(s) \in Nat
  BY EncoderIsExact
<1>3. size \in Nat /\ body \in Seq(Nat) /\ Len(body) = size
  <2>1. n \in 0..Len(items)
    BY <1>1
  <2> QED
    BY <2>1, LoopsAgree DEF FieldsSize
<1>4. head \in Seq(Nat) /\ h \in 1..5 /\ Len(head) = h
  <2> HIDE DEF size
  <2>1. 192 \in Nat
    OBVIOUS
  <2> QED
    BY <1>3, <2>1, HeadFacts, Zenon
<1>5. s = head \o body /\ Len(s) = h + size
  BY <1>2 DEF Encode, ListSize
<1>6. \A i \in 0..n : Start(items, i) = h + SizeUpTo(items)[i] + 1
  BY DEF Start
<1>7. Start(items, 0) = h + 1 /\ Start(items, n) = Len(s) + 1
  <2>1. SizeUpTo(items)[0] = 0 /\ SizeUpTo(items)[n] = size
    BY <1>1, SizeUpToDef DEF FieldsSize
  <2>2. 0 \in 0..n /\ n \in 0..n
    BY <1>1
  <2>3. h + 0 + 1 = h + 1
    BY <1>4
  <2> HIDE DEF n, s, size, h
  <2> QED
    BY <1>5, <1>6, <2>1, <2>2, <2>3, Zenon
<1>8. ASSUME NEW i \in 1..n
      PROVE  /\ Start(items, i - 1) \in 1..Len(s)
             /\ Strings(s)[Start(items, i - 1)]
                    = <<items[i]>> \o Strings(s)[Start(items, i)]
  <2> DEFINE b == items[i]
             at == Start(items, i - 1)
  <2>1. /\ at \in Nat \ {0}
        /\ at + StringSize(b) = Start(items, i)
        /\ at + StringSize(b) - 1 <= Len(s)
        /\ \A j \in 1..StringSize(b) : s[at - 1 + j] = EncodeString(b)[j]
    BY StringPlaced
  <2>2. b \in Bytes /\ Len(b) < Limit
    BY <1>1
  <2> HIDE DEF s, at, b
  <2>3. \/ s[at] < 128 /\ <<s[at]>> = b /\ StringSize(b) = 1
        \/ /\ s[at] \in 128..191
           /\ Strict(128, s, at)
           /\ Content(s, at) = b
           /\ Behind(s, at) = at + StringSize(b)
    BY <1>2, <2>1, <2>2, StringRead
  <2>4. StringSize(b) \in Nat \ {0}
    <3>1. Len(b) \in Nat /\ HeadSize(Len(b)) \in 1..5
      BY <2>2, BytesAreNat, HeadFacts, 128 \in Nat
    <3> QED
      BY <3>1 DEF StringSize
  <2>5. at \in 1..Len(s) /\ at # Len(s) + 1 /\ at \in 1..(Len(s) + 1)
    <3>1. PICK m \in Nat : m = Len(s)
      BY <1>2, BytesAreNat
    <3>2. PICK z \in Nat \ {0} : z = StringSize(b)
      BY <2>4
    <3>3. PICK a \in Nat \ {0} : a = at
      BY <2>1
    <3>4. a + z - 1 <= m
      BY <2>1, <3>1, <3>2, <3>3, Zenon
    <3>5. a \in 1..m /\ a # m + 1 /\ a \in 1..(m + 1)
      BY <3>4
    <3> QED
      BY <3>1, <3>3, <3>5, Zenon
  <2>6. Strings(s)[at] = StringsAt(Strings(s), s, at)
    BY <1>2, <2>5, StringsDefined
  <2>7. CASE s[at] < 128 /\ <<s[at]>> = b /\ StringSize(b) = 1
    <3>1. Strings(s)[at] = <<<<s[at]>>>> \o Strings(s)[at + 1]
      BY <2>5, <2>6, <2>7, Zenon DEF StringsAt
    <3> QED
      BY <2>1, <2>5, <2>7, <3>1, Zenon DEF at, b
  <2>8. CASE /\ s[at] \in 128..191
             /\ Strict(128, s, at)
             /\ Content(s, at) = b
             /\ Behind(s, at) = at + StringSize(b)
    <3>1. ~(s[at] < 128) /\ ~(s[at] >= 192)
      <4>1. PICK v \in 128..191 : v = s[at]
        BY <2>8, Zenon
      <4>2. ~(v < 128) /\ ~(v >= 192)
        OBVIOUS
      <4> QED
        BY <4>1, <4>2, Zenon
    <3>2. Strings(s)[at] = <<Content(s, at)>> \o Strings(s)[Behind(s, at)]
      BY <2>5, <2>6, <2>8, <3>1, Zenon DEF StringsAt
    <3> QED
      BY <2>1, <2>5, <2>8, <3>2, Zenon DEF at, b
  <2> QED
    BY <2>3, <2>7, <2>8
<1> DEFINE Rest(k) == Strings(s)[Start(items, n - k)] = SubSeq(items, n - k + 1, n)
           S == {k \in Nat : k <= n => Rest(k)}
<1> HIDE DEF n, s, size, h, head, body
<1>9. 0 \in S
  <2>1. Strings(s)[Len(s) + 1] = <<>>
    <3>1. Len(s) + 1 \in 1..(Len(s) + 1)
      BY <1>2
    <3> QED
      BY <1>2, <3>1, StringsDefined DEF StringsAt
  <2>2. n - 0 = n /\ n + 1 \in Int /\ n \in Int /\ n < n + 1
    BY <1>1
  <2>3. SubSeq(items, n + 1, n) = <<>>
    BY <2>2, SubSeqEmpty
  <2>4. Rest(0)
    BY <1>7, <2>1, <2>2, <2>3, Zenon
  <2> QED
    BY <2>4
<1>10. ASSUME NEW k \in Nat, k \in S PROVE k + 1 \in S
  <2> SUFFICES ASSUME k + 1 <= n PROVE Rest(k + 1)
    OBVIOUS
  <2> DEFINE i == n - k
  <2>1. i \in 1..n /\ n - (k + 1) = i - 1 /\ i - 1 + 1 = i
    BY <1>1
  <2>2. Strings(s)[Start(items, i)] = SubSeq(items, i + 1, n)
    BY <1>1, <1>10
  <2>3. Strings(s)[Start(items, i - 1)]
            = <<items[i]>> \o Strings(s)[Start(items, i)]
    BY <1>8, <2>1
  <2>4. SubSeq(items, i, n) = <<items[i]>> \o SubSeq(items, i + 1, n)
    <3>1. i \in 1..Len(items) /\ n \in i..Len(items)
      BY <1>1, <2>1 DEF n
    <3> QED
      BY <3>1, SubSeqRecursiveFirst
  <2> HIDE DEF i
  <2>5. Strings(s)[Start(items, i - 1)] = SubSeq(items, i - 1 + 1, n)
    BY <2>1, <2>2, <2>3, <2>4, Zenon
  <2> QED
    BY <2>1, <2>5, Zenon
<1>11. Strings(s)[h + 1] = items
  <2>1. Rest(n)
    <3> HIDE DEF S
    <3>1. Nat \subseteq S
      BY <1>9, <1>10, Induction
    <3>2. n \in S
      BY <1>1, <3>1
    <3> QED
      BY <1>1, <3>2 DEF S
  <2>2. n - n = 0 /\ 0 + 1 = 1
    BY <1>1
  <2>3. SubSeq(items, 1, n) = items
    BY SubSeqFull DEF n
  <2>4. Strings(s)[Start(items, 0)] = SubSeq(items, 0 + 1, n)
    BY <2>1, <2>2, Zenon
  <2> QED
    BY <1>7, <2>2, <2>3, <2>4, Zenon
<1>12. /\ s[1] \in 192..(192 + 59)
       /\ HeadLen(192, s[1]) = h
       /\ FieldLen(192, s, 1) = size
       /\ h > 1 => size > 55 /\ s[1 + 1] # 0
  <2>1. 1 \in Nat \ {0} /\ 192 \in {128, 192} /\ 1 + h + size - 1 <= Len(s)
    BY <1>3, <1>4, <1>5
  <2>2. \A j \in 1..h : s[1 - 1 + j] = head[j]
    <3> TAKE j \in 1..h
    <3>1. j \in 1..(h + size) /\ 1 - 1 + j = j /\ j <= h
      BY <1>3, <1>4
    <3>2. \A m \in 1..(h + size) :
              (head \o body)[m] = IF m <= h THEN head[m] ELSE body[m - h]
      BY <1>3, <1>4, ConcatProperties
    <3>3. (head \o body)[j] = head[j]
      BY <3>1, <3>2, Zenon
    <3> QED
      BY <1>5, <3>1, <3>3, Zenon
  <2>3. size < Limit
    BY DEF size
  <2>4. 1 + HeadSize(size) + size - 1 <= Len(s)
    BY <2>1 DEF h
  <2>5. \A j \in 1..HeadSize(size) : s[1 - 1 + j] = Prefix(192, size)[j]
    BY <2>2 DEF h, head
  <2>6. /\ s[1] \in 192..(192 + 59)
        /\ HeadLen(192, s[1]) = HeadSize(size)
        /\ FieldLen(192, s, 1) = size
        /\ HeadSize(size) > 1 => size > 55 /\ s[1 + 1] # 0
    BY <1>2, <1>3, <2>1, <2>3, <2>4, <2>5, HeadRead
  <2> QED
    BY <2>6, Zenon DEF h
<1>13. s # <<>> /\ ~(s[1] < 192) /\ h + size = Len(s)
  <2>1. Len(s) # 0
    BY <1>3, <1>4, <1>5
  <2>2. PICK v \in 192..(192 + 59) : v = s[1]
    BY <1>12, Zenon
  <2>3. ~(v < 192)
    OBVIOUS
  <2>4. Len(<<>>) = 0
    OBVIOUS
  <2> QED
    BY <1>5, <2>1, <2>2, <2>3, <2>4, Zenon
<1>14. Strict(192, s, 1)
  <2>1. 1 + h + size - 1 <= Len(s)
    BY <1>3, <1>4, <1>5
  <2> QED
    BY <1>12, <2>1 DEF Strict
<1>15. Decode(s) = Strings(s)[1 + h]
  BY <1>12, <1>13, <1>14, Zenon DEF Decode
<1>16. 1 + h = h + 1
  BY <1>4
<1> QED
  BY <1>11, <1>15, <1>16, Zenon DEF s

-----------------------------------------------------------------------------
(* Part 2: raw transactions *)

-----------------------------------------------------------------------------
(* What the conversions return *)

Short(l) == \A i \in 1..Len(l) : Len(l[i]) <= 16777216

LEMMA WordFacts == Word \in Nat /\ Word > 255 /\ Word <= Limit
BY RawAssumption, SMT DEF Limit

LEMMA BigWord ==
    ASSUME NEW n \in 0..(Word - 1)
    PROVE  /\ Big(n) \in Bytes
           /\ Len(Big(n)) \in 1..4
           /\ Num(Big(n)) = n
           /\ n # 0 => Big(n)[1] # 0
<1>1. n \in Nat /\ n < Limit
  BY WordFacts, SMT DEF Limit
<1> QED
  BY <1>1, BigFacts

(* Trimming loses no more than leading zeros: the integer of 32 bytes can  *)
(* be made again.                                                          *)
LEMMA TrimFacts ==
    ASSUME NEW b \in [1..32 -> Byte]
    PROVE  /\ Trim(b) \in Bytes
           /\ Len(Trim(b)) \in 0..32
           /\ Padded(Trim(b)) = b
           /\ Trim(b) = <<>> \/ Trim(b)[1] # 0
<1>1. CASE \A i \in DOMAIN b : b[i] = 0
  <2>1. Trim(b) = <<>>
    BY <1>1 DEF Trim
  <2>2. <<>> \in Bytes /\ Len(<<>>) = 0
    BY EmptySeq DEF Bytes
  <2>3. Padded(<<>>) = b
    <3>1. \A i \in 1..32 : b[i] = 0 /\ i <= 32 - 0
      BY <1>1
    <3>2. Padded(<<>>) = [i \in 1..32 |-> 0]
      BY <2>2, <3>1 DEF Padded
    <3>3. b = [i \in 1..32 |-> 0]
      BY <3>1
    <3> QED
      BY <3>2, <3>3
  <2>4. 0 \in 0..32
    OBVIOUS
  <2> QED
    BY <2>1, <2>2, <2>3, <2>4, Zenon
<1>2. CASE ~(\A i \in DOMAIN b : b[i] = 0)
  <2> DEFINE First(i) == b[i] # 0 /\ \A j \in 1..(i - 1) : b[j] = 0
             first == CHOOSE i \in DOMAIN b : First(i)
  <2>0. DOMAIN b = 1..32
    OBVIOUS
  <2>1. \E i \in DOMAIN b : First(i)
    <3> DEFINE T == {i \in 1..32 : b[i] # 0}
    <3>1. T \in SUBSET Nat /\ T # {}
      BY <1>2
    <3>2. PICK x \in T : \A y \in T : x <= y
      BY <3>1, Smallest
    <3>3. \A j \in 1..(x - 1) : b[j] = 0
      BY <3>2
    <3> QED
      BY <3>2, <3>3
  <2>2. first \in 1..32 /\ First(first)
    <3> HIDE DEF First
    <3> QED
      BY <2>0, <2>1
  <2>3. Trim(b) = SubSeq(b, first, Len(b))
    BY <1>2, Zenon DEF Trim
  <2> HIDE DEF first
  <2>4. Len(b) = 32 /\ b \in Seq(Byte)
    <3>1. b \in Seq(Byte)
      BY SeqDef, 32 \in Nat
    <3>2. Len(b) \in Nat /\ 1..Len(b) = 1..32
      BY <2>0, <3>1, LenProperties
    <3> QED
      BY <3>1, <3>2
  <2> DEFINE t == SubSeq(b, first, 32)
  <2>5. /\ t \in Seq(Byte)
        /\ Len(t) = 33 - first
        /\ \A i \in 1..(33 - first) : t[i] = b[first + i - 1]
    <3>1. first \in Int /\ 32 \in Int /\ \A i \in first..32 : b[i] \in Byte
      BY <2>2
    <3>2. /\ t \in Seq(Byte)
          /\ Len(t) = IF first <= 32 THEN 32 - first + 1 ELSE 0
          /\ \A i \in 1..(32 - first + 1) : t[i] = b[first + i - 1]
      BY <3>1, SubSeqProperties
    <3> HIDE DEF t
    <3>3. first <= 32 /\ 32 - first + 1 = 33 - first
      BY <2>2
    <3> QED
      BY <3>2, <3>3
  <2> HIDE DEF t
  <2>6. Trim(b) = t
    BY <2>3, <2>4 DEF t
  <2>7. Padded(t) = b
    <3>1. \A i \in 1..32 : (IF i <= 32 - Len(t) THEN 0 ELSE t[i - (32 - Len(t))])
                               = b[i]
      <4> TAKE i \in 1..32
      <4>1. 32 - Len(t) = first - 1
        BY <2>2, <2>5
      <4>2. CASE i <= first - 1
        <5>1. i <= 32 - Len(t) /\ i \in 1..(first - 1)
          <6>1. i <= 32 - Len(t)
            BY <4>1, <4>2, Zenon
          <6>2. PICK f \in 1..32 : f = first
            BY <2>2, Zenon
          <6>3. i <= f - 1
            BY <4>2, <6>2, Zenon
          <6>4. i \in 1..(f - 1)
            BY <6>3, SMT
          <6> QED
            BY <6>1, <6>2, <6>4, Zenon
        <5>2. b[i] = 0
          BY <2>2, <5>1
        <5> QED
          BY <5>1, <5>2
      <4>3. CASE ~(i <= first - 1)
        <5>1. i - (first - 1) \in 1..(33 - first)
              /\ first + (i - (first - 1)) - 1 = i
          BY <2>2, <4>3
        <5>2. t[i - (first - 1)] = b[first + (i - (first - 1)) - 1]
          BY <2>5, <5>1
        <5> QED
          BY <4>1, <4>3, <5>1, <5>2
      <4> QED
        BY <4>2, <4>3
    <3>2. b = [i \in 1..32 |-> b[i]]
      OBVIOUS
    <3> QED
      BY <3>1, <3>2 DEF Padded
  <2>8. t[1] # 0
    <3>1. 1 \in 1..(33 - first) /\ first + 1 - 1 = first
      BY <2>2
    <3>2. t[1] = b[first + 1 - 1]
      BY <2>5, <3>1
    <3> QED
      BY <2>2, <3>1, <3>2
  <2>9. Len(t) \in 0..32
    BY <2>2, <2>5
  <2> QED
    BY <2>5, <2>6, <2>7, <2>8, <2>9 DEF Bytes
<1> QED
  BY <1>1, <1>2

(* The length of a list of a few short strings fits into 32 bits.          *)
LEMMA ShortList ==
    ASSUME NEW l \in Seq(Bytes), Len(l) <= 13, Short(l)
    PROVE  FieldsSize(l) < Limit
<1> DEFINE S == {i \in Nat : i <= Len(l) =>
                                 SizeUpTo(l)[i] <= 16777221 * i}
<1>0. Len(l) \in Nat /\ \A i \in 1..Len(l) : l[i] \in Bytes
  BY LenProperties, ElementOfSeq
<1>1. 0 \in S
  BY <1>0, SizeUpToDef, SMT
<1>2. ASSUME NEW i \in Nat, i \in S PROVE i + 1 \in S
  <2> SUFFICES ASSUME i + 1 <= Len(l)
               PROVE  SizeUpTo(l)[i + 1] <= 16777221 * (i + 1)
    BY SMT
  <2>1. i \in 0..Len(l) /\ i + 1 \in 1..Len(l) /\ i + 1 \in 0..Len(l)
        /\ i + 1 # 0 /\ (i + 1) - 1 = i
    BY <1>0, SMT
  <2>2. SizeUpTo(l)[i + 1] = SizeUpTo(l)[i] + StringSize(l[i + 1])
    BY <1>0, <2>1, SizeUpToDef, SMT
  <2>3. StringSize(l[i + 1]) \in Nat /\ StringSize(l[i + 1]) <= 16777221
    <3>1. PICK b \in Bytes : b = l[i + 1] /\ Len(b) <= 16777216
      BY <1>0, <2>1, SMT DEF Short
    <3>2. PICK n \in Nat : n = Len(b) /\ n <= 16777216
      BY <3>1, BytesAreNat, SMT
    <3>3. PICK h \in 1..5 : h = HeadSize(n)
      BY <3>2, HeadFacts, 128 \in Nat, SMT
    <3>4. StringSize(b) = 1 \/ StringSize(b) = h + n
      BY <3>2, <3>3, SMT DEF StringSize
    <3> QED
      BY <3>1, <3>2, <3>4, SMT
  <2>4. SizeUpTo(l)[i] \in Nat /\ SizeUpTo(l)[i] <= 16777221 * i
    <3>1. SizeUpTo(l)[i] \in Nat
      BY <2>1, LoopsAgree, Zenon
    <3>2. SizeUpTo(l)[i] <= 16777221 * i
      BY <1>0, <1>2, <2>1, SMT
    <3> QED
      BY <3>1, <3>2, SMT
  <2> QED
    BY <2>2, <2>3, <2>4, SMT
<1> QED
  <2>1. Nat \subseteq S
    <3> HIDE DEF S
    <3> QED
      BY <1>1, <1>2, Induction, SMT
  <2>2. SizeUpTo(l)[Len(l)] <= 16777221 * Len(l)
    BY <1>0, <2>1, SMT
  <2>3. FieldsSize(l) \in Nat
    <3>1. Len(l) \in 0..Len(l)
      BY <1>0, SMT
    <3> QED
      BY <3>1, LoopsAgree, Zenon DEF FieldsSize
  <2> QED
    BY <1>0, <2>2, <2>3, SMT DEF FieldsSize, Limit

-----------------------------------------------------------------------------
(* The fields *)

CallOK == call \in Payload /\ Len(call.data) <= 16777216

ShortBytes == {b \in Bytes : Len(b) <= 16777216}

LEMMA ShortIs ==
    ASSUME NEW b \in Bytes, NEW n \in 0..100, Len(b) = n
    PROVE  b \in ShortBytes
BY SMT DEF ShortBytes

LEMMA LengthIs ==
    ASSUME NEW n \in Nat, NEW f \in [1..n -> Byte]
    PROVE  f \in Bytes /\ Len(f) = n
<1>1. f \in Bytes
  BY SeqDef DEF Bytes
<1>2. PICK m \in Nat : m = Len(f) /\ 1..m = 1..n
  BY <1>1, LenProperties DEF Bytes
<1>3. m = n
  BY <1>2
<1> QED
  BY <1>1, <1>2, <1>3

LEMMA Constants ==
    /\ Gas \in Bytes /\ Len(Gas) = 2 /\ Gas[1] # 0
    /\ Recipient \in Bytes /\ Len(Recipient) = 20
    /\ Value \in Bytes /\ Len(Value) = 0 /\ Value = <<>>
    /\ Filled \in Bytes /\ Len(Filled) = 64
    /\ BlockLimit \in Bytes /\ Len(BlockLimit) = 2 /\ BlockLimit[1] # 0
    /\ ChainId \in Bytes /\ Len(ChainId) = 1 /\ ChainId[1] # 0
    /\ GroupId \in Bytes /\ Len(GroupId) = 1 /\ GroupId[1] # 0
    /\ ExtraData \in Bytes /\ Len(ExtraData) = 0 /\ ExtraData = <<>>
<1>1. /\ Gas \in Bytes /\ Len(Gas) = 2 /\ Gas[1] # 0
      /\ BlockLimit \in Bytes /\ Len(BlockLimit) = 2 /\ BlockLimit[1] # 0
      /\ ChainId \in Bytes /\ Len(ChainId) = 1 /\ ChainId[1] # 0
      /\ GroupId \in Bytes /\ Len(GroupId) = 1 /\ GroupId[1] # 0
  BY DEF Gas, BlockLimit, ChainId, GroupId, Bytes, Byte
<1>2. /\ Value \in Bytes /\ Len(Value) = 0 /\ Value = <<>>
      /\ ExtraData \in Bytes /\ Len(ExtraData) = 0 /\ ExtraData = <<>>
  BY EmptySeq DEF Value, ExtraData, Bytes
<1>3. Recipient \in Bytes /\ Len(Recipient) = 20
  <2>1. Recipient \in [1..20 -> Byte] /\ 20 \in Nat
    BY DEF Recipient, Byte
  <2> QED
    BY <2>1, LengthIs, Zenon
<1>4. Filled \in Bytes /\ Len(Filled) = 64
  <2>1. Filled \in [1..64 -> Byte] /\ 64 \in Nat
    BY DEF Filled, Byte
  <2> QED
    BY <2>1, LengthIs, Zenon
<1> QED
  BY <1>1, <1>2, <1>3, <1>4

(* A string without a leading zero, or one of the excepted fields.         *)
Lean(b, i) ==
    \/ b \in {Recipient, call.data, Filled}
    \/ b = <<>>
    \/ b[1] # 0
    \/ i = 1 /\ ~call.auto /\ call.nonce = 0
    \/ i = 1 /\ call.auto /\ wallet.protocol = "fiscobcos"
    \/ i = 7 /\ wallet.protocol = "platone" /\ call.txtype = 0

LEMMA CallFacts ==
    ASSUME CallOK
    PROVE  /\ call.data \in ShortBytes
           /\ NonceField \in ShortBytes /\ Lean(NonceField, 1)
           /\ FiscobcosNonce \in ShortBytes
           /\ wallet.protocol = "fiscobcos" => Lean(FiscobcosNonce, 1)
           /\ Big(call.txtype) \in ShortBytes
           /\ call.txtype = 0 \/ Big(call.txtype)[1] # 0
<1>1. /\ call.nonce \in 0..(Word - 1) /\ call.txtype \in 0..(Word - 1)
      /\ call.data \in ShortBytes
  BY DEF CallOK, Payload, ShortBytes, Bytes
<1>2. \A n \in 0..(Word - 1) :
          Big(n) \in ShortBytes /\ (n = 0 \/ Big(n)[1] # 0)
  <2> TAKE n \in 0..(Word - 1)
  <2>1. Big(n) \in Bytes /\ Len(Big(n)) \in 1..4 /\ (n = 0 \/ Big(n)[1] # 0)
    BY BigWord
  <2> QED
    <3>1. PICK k \in 1..4 : Len(Big(n)) = k
      BY <2>1, Zenon
    <3>2. k \in 0..100
      OBVIOUS
    <3> QED
      BY <2>1, <3>1, <3>2, ShortIs, Zenon
<1>3. <<>> \in ShortBytes
  <2>1. <<>> \in Bytes /\ Len(<<>>) = 0 /\ 0 \in 0..100
    BY EmptySeq DEF Bytes
  <2> QED
    BY <2>1, ShortIs, Zenon
<1>4. NonceField \in ShortBytes /\ Lean(NonceField, 1)
  <2>1. CASE call.auto /\ call.nonce = 0
    BY <1>3, <2>1, Zenon DEF NonceField, Lean
  <2>2. CASE ~(call.auto /\ call.nonce = 0)
    <3>1. NonceField = Big(call.nonce)
      BY <2>2, Zenon DEF NonceField
    <3> QED
      BY <1>1, <1>2, <2>2, <3>1, Zenon DEF Lean
  <2> QED
    BY <2>1, <2>2
<1>5. /\ FiscobcosNonce \in ShortBytes
      /\ wallet.protocol = "fiscobcos" => Lean(FiscobcosNonce, 1)
  <2>1. CASE call.auto
    <3>1. FiscobcosNonce = call.random
      BY <2>1, Zenon DEF FiscobcosNonce
    <3>2. call.random \in [1..32 -> Byte] /\ 32 \in Nat /\ 32 \in 0..100
      BY DEF CallOK, Payload
    <3>3. call.random \in Bytes /\ Len(call.random) = 32
      BY <3>2, LengthIs, Zenon
    <3>4. call.random \in ShortBytes
      BY <3>2, <3>3, ShortIs, Zenon
    <3> QED
      BY <2>1, <3>1, <3>4, Zenon DEF Lean
  <2>2. CASE ~call.auto
    <3>1. FiscobcosNonce = Big(call.nonce)
      BY <2>2, Zenon DEF FiscobcosNonce
    <3> QED
      BY <1>1, <1>2, <2>2, <3>1, Zenon DEF Lean
  <2> QED
    BY <2>1, <2>2
<1> QED
  BY <1>1, <1>2, <1>4, <1>5, Zenon

LEMMA Six ==
    ASSUME NEW a \in ShortBytes, NEW b \in ShortBytes, NEW c \in ShortBytes,
           NEW d \in ShortBytes, NEW e \in ShortBytes, NEW f \in ShortBytes
    PROVE  LET l == <<a, b, c, d, e, f>>
           IN  /\ l \in Seq(ShortBytes) /\ Len(l) = 6
               /\ l[1] = a /\ l[2] = b /\ l[3] = c
               /\ l[4] = d /\ l[5] = e /\ l[6] = f
OBVIOUS

LEMMA Ten ==
    ASSUME NEW a \in ShortBytes, NEW b \in ShortBytes, NEW c \in ShortBytes,
           NEW d \in ShortBytes, NEW e \in ShortBytes, NEW f \in ShortBytes,
           NEW g \in ShortBytes, NEW h \in ShortBytes, NEW i \in ShortBytes,
           NEW j \in ShortBytes
    PROVE  LET l == <<a, b, c, d, e, f, g, h, i, j>>
           IN  /\ l \in Seq(ShortBytes) /\ Len(l) = 10
               /\ l[1] = a /\ l[2] = b /\ l[3] = c /\ l[4] = d /\ l[5] = e
               /\ l[6] = f /\ l[7] = g /\ l[8] = h /\ l[9] = i /\ l[10] = j
OBVIOUS

LEMMA OneMore ==
    ASSUME NEW l \in Seq(ShortBytes), NEW b \in ShortBytes
    PROVE  /\ Append(l, b) \in Seq(ShortBytes)
           /\ Len(Append(l, b)) = Len(l) + 1
           /\ Append(l, b)[Len(l) + 1] = b
           /\ \A i \in 1..Len(l) : Append(l, b)[i] = l[i]
OBVIOUS

(* What the fields of every protocol have in common.                       *)
Good(l) ==
    /\ l \in Seq(ShortBytes)
    /\ Len(l) \in 6..10
    /\ \A i \in 1..Len(l) : Lean(l[i], i)

LEMMA FieldsFacts ==
    ASSUME wallet \in Wallets, CallOK
    PROVE  /\ Good(Fields)
           /\ wallet.protocol = "quorum" => Len(Fields) = 6
<1>1. /\ Gas \in ShortBytes /\ Recipient \in ShortBytes /\ Value \in ShortBytes
      /\ Filled \in ShortBytes /\ BlockLimit \in ShortBytes
      /\ ChainId \in ShortBytes /\ GroupId \in ShortBytes
      /\ ExtraData \in ShortBytes
  <2>1. 0 \in 0..100 /\ 1 \in 0..100 /\ 2 \in 0..100 /\ 20 \in 0..100
        /\ 64 \in 0..100
    OBVIOUS
  <2> QED
    BY <2>1, Constants, ShortIs, Zenon
<1>2. \A i : /\ Lean(Gas, i) /\ Lean(Recipient, i) /\ Lean(Value, i)
             /\ Lean(Filled, i) /\ Lean(BlockLimit, i)
             /\ Lean(ChainId, i) /\ Lean(GroupId, i)
             /\ Lean(ExtraData, i) /\ Lean(call.data, i)
  BY Constants, Zenon DEF Lean
<1>3. Good(EthereumFields) /\ Len(EthereumFields) = 6
  <2>1. /\ EthereumFields \in Seq(ShortBytes) /\ Len(EthereumFields) = 6
        /\ EthereumFields[1] = NonceField /\ EthereumFields[2] = Gas
        /\ EthereumFields[3] = Gas /\ EthereumFields[4] = Recipient
        /\ EthereumFields[5] = Value /\ EthereumFields[6] = call.data
    BY <1>1, CallFacts, Six, Zenon DEF EthereumFields
  <2>2. \A i \in 1..6 : i = 1 \/ i = 2 \/ i = 3 \/ i = 4 \/ i = 5 \/ i = 6
    OBVIOUS
  <2>3. 6 \in 6..10
    OBVIOUS
  <2> QED
    BY <1>2, CallFacts, <2>1, <2>2, <2>3, Zenon DEF Good
<1>4. ASSUME wallet.protocol = "platone" PROVE Good(PlatoneFields)
  <2> DEFINE e == EthereumFields
             t == Big(call.txtype)
  <2>1. e \in Seq(ShortBytes) /\ Len(e) = 6 /\ t \in ShortBytes
    BY <1>3, CallFacts DEF Good
  <2> HIDE DEF e, t
  <2>2. /\ Append(e, t) \in Seq(ShortBytes)
        /\ Len(Append(e, t)) = 7
        /\ Append(e, t)[7] = t
        /\ \A i \in 1..6 : Append(e, t)[i] = e[i]
    <3>1. /\ Append(e, t) \in Seq(ShortBytes)
          /\ Len(Append(e, t)) = Len(e) + 1
          /\ Append(e, t)[Len(e) + 1] = t
          /\ \A i \in 1..Len(e) : Append(e, t)[i] = e[i]
      BY <2>1, OneMore, Zenon
    <3>2. 6 + 1 = 7
      OBVIOUS
    <3> QED
      BY <2>1, <3>1, <3>2, Zenon
  <2>3. \A i \in 1..6 : Lean(e[i], i)
    BY <1>3 DEF Good, e
  <2>4. Lean(t, 7)
    BY <1>4, CallFacts, Zenon DEF Lean, t
  <2>5. \A i \in 1..7 : i \in 1..6 \/ i = 7
    OBVIOUS
  <2>6. \A i \in 1..7 : Lean(Append(e, t)[i], i)
    BY <2>2, <2>3, <2>4, <2>5, Zenon
  <2>7. 7 \in 6..10 /\ PlatoneFields = Append(e, t)
    BY DEF PlatoneFields, e, t
  <2> QED
    BY <2>2, <2>6, <2>7, Zenon DEF Good
<1>5. Good(QuorumFields) /\ Len(QuorumFields) = 6
  <2>1. CASE wallet.private
    <3>1. /\ QuorumFields \in Seq(ShortBytes) /\ Len(QuorumFields) = 6
          /\ QuorumFields[1] = NonceField /\ QuorumFields[2] = Gas
          /\ QuorumFields[3] = Gas /\ QuorumFields[4] = Recipient
          /\ QuorumFields[5] = Value /\ QuorumFields[6] = Filled
      <4>1. QuorumFields = <<NonceField, Gas, Gas, Recipient, Value, Filled>>
        BY <2>1, Zenon DEF QuorumFields
      <4> QED
        BY <4>1, <1>1, CallFacts, Six, Zenon
    <3>2. \A i \in 1..6 : i = 1 \/ i = 2 \/ i = 3 \/ i = 4 \/ i = 5 \/ i = 6
      OBVIOUS
    <3>3. 6 \in 6..10
      OBVIOUS
    <3> QED
      BY <1>2, CallFacts, <3>1, <3>2, <3>3, Zenon DEF Good
  <2>2. CASE ~wallet.private
    BY <1>3, <2>2, Zenon DEF QuorumFields
  <2> QED
    BY <2>1, <2>2
<1>6. ASSUME wallet.protocol = "fiscobcos" PROVE Good(FiscobcosFields)
  <2>1. /\ FiscobcosFields \in Seq(ShortBytes) /\ Len(FiscobcosFields) = 10
        /\ FiscobcosFields[1] = FiscobcosNonce /\ FiscobcosFields[2] = Gas
        /\ FiscobcosFields[3] = Gas /\ FiscobcosFields[4] = BlockLimit
        /\ FiscobcosFields[5] = Recipient /\ FiscobcosFields[6] = Value
        /\ FiscobcosFields[7] = call.data /\ FiscobcosFields[8] = ChainId
        /\ FiscobcosFields[9] = GroupId /\ FiscobcosFields[10] = ExtraData
    BY <1>1, CallFacts, Ten, Zenon DEF FiscobcosFields
  <2>2. \A i \in 1..10 : \/ i = 1 \/ i = 2 \/ i = 3 \/ i = 4 \/ i = 5
                         \/ i = 6 \/ i = 7 \/ i = 8 \/ i = 9 \/ i = 10
    OBVIOUS
  <2>3. 10 \in 6..10
    OBVIOUS
  <2> QED
    BY <1>2, <1>6, CallFacts, <2>1, <2>2, <2>3, Zenon DEF Good
<1> QED
  <2>1. wallet.protocol \in Protocols
    BY RawAssumption DEF Wallet
  <2>2. CASE wallet.protocol = "platone"
    <3>1. Fields = PlatoneFields
      BY <2>2, Zenon DEF Fields
    <3> QED
      BY <1>4, <2>2, <3>1
  <2>3. CASE wallet.protocol = "quorum"
    <3>1. Fields = QuorumFields
      BY <2>3, Zenon DEF Fields
    <3> QED
      BY <1>5, <2>3, <3>1
  <2>4. CASE wallet.protocol = "fiscobcos"
    <3>1. Fields = FiscobcosFields
      BY <2>4, Zenon DEF Fields
    <3> QED
      BY <1>6, <2>4, <3>1, Zenon
  <2>5. CASE wallet.protocol \in {"ethereum", "platon", "venachain"}
    <3>1. Fields = EthereumFields
      BY <2>5, Zenon DEF Fields, PlatonFields, VenachainFields
    <3> QED
      BY <1>3, <2>5, <3>1
  <2> QED
    BY <2>1, <2>2, <2>3, <2>4, <2>5, Zenon DEF Protocols

-----------------------------------------------------------------------------
(* The list *)

LEMMA Room ==
    ASSUME NEW l \in Seq(ShortBytes), NEW b \in ShortBytes, Len(l) <= 12
    PROVE  HasRoom(l) /\ AppendObject(l, b) = Append(l, b)
<1>1. PICK n \in Nat : n = Len(l)
  BY LenProperties
<1>2. n < MaxDesc
  BY <1>1, RawAssumption, SMT
<1> QED
  BY <1>1, <1>2, Zenon DEF HasRoom, AppendObject

LEMMA NextField ==
    ASSUME NEW f \in Seq(ShortBytes), Len(f) \in 6..10,
           NEW l \in Seq(ShortBytes), Len(l) < Len(f),
           \A i \in 1..Len(l) : l[i] = f[i]
    PROVE  LET t == AppendObject(l, f[Len(l) + 1])
           IN  /\ HasRoom(l)
               /\ t \in Seq(ShortBytes)
               /\ Len(t) = Len(l) + 1
               /\ \A i \in 1..Len(t) : t[i] = f[i]
<1>1. PICK n \in Nat : n = Len(l)
  BY LenProperties
<1>2. n <= 12 /\ n + 1 \in 1..Len(f)
  BY <1>1, SMT
<1> DEFINE b == f[n + 1]
           t == Append(l, b)
<1>3. b \in ShortBytes
  BY <1>2, ElementOfSeq
<1> HIDE DEF b
<1>4. HasRoom(l) /\ AppendObject(l, b) = t
  BY <1>1, <1>2, <1>3, Room, Zenon
<1>5. /\ t \in Seq(ShortBytes) /\ Len(t) = Len(l) + 1 /\ t[Len(l) + 1] = b
      /\ \A i \in 1..Len(l) : t[i] = l[i]
  BY <1>3, OneMore, Zenon
<1> HIDE DEF t
<1>6. \A i \in 1..(n + 1) : i \in 1..n \/ i = n + 1
  OBVIOUS
<1>7. \A i \in 1..Len(t) : t[i] = f[i]
  BY <1>1, <1>5, <1>6, Zenon DEF b
<1> QED
  BY <1>1, <1>4, <1>5, <1>7, Zenon DEF b

LEMMA Whole ==
    ASSUME NEW f \in Seq(ShortBytes), NEW l \in Seq(ShortBytes),
           Len(l) = Len(f), \A i \in 1..Len(l) : l[i] = f[i]
    PROVE  l = f
BY SeqEqual

Joined(l, a, b, c) == l \o <<a, b, c>>

LEMMA Three ==
    ASSUME NEW l \in Seq(ShortBytes), NEW a \in ShortBytes,
           NEW b \in ShortBytes, NEW c \in ShortBytes
    PROVE  /\ Joined(l, a, b, c) \in Seq(ShortBytes)
           /\ Len(Joined(l, a, b, c)) = Len(l) + 3
           /\ \A i \in 1..Len(l) : Joined(l, a, b, c)[i] = l[i]
           /\ Joined(l, a, b, c)[Len(l) + 1] = a
           /\ Joined(l, a, b, c)[Len(l) + 2] = b
           /\ Joined(l, a, b, c)[Len(l) + 3] = c
<1> DEFINE e == <<a, b, c>>
<1>1. /\ e \in Seq(ShortBytes) /\ Len(e) = 3
      /\ e[1] = a /\ e[2] = b /\ e[3] = c
  OBVIOUS
<1> HIDE DEF e
<1>2. /\ l \o e \in Seq(ShortBytes)
      /\ Len(l \o e) = Len(l) + Len(e)
      /\ \A i \in 1..(Len(l) + Len(e)) :
             (l \o e)[i] = IF i <= Len(l) THEN l[i] ELSE e[i - Len(l)]
  BY <1>1, ConcatProperties
<1>3. PICK n \in Nat : n = Len(l)
  BY LenProperties
<1>4. \A i \in 1..n : (l \o e)[i] = l[i]
  <2> TAKE i \in 1..n
  <2>1. i \in 1..(n + 3) /\ i <= n
    BY SMT
  <2> QED
    BY <1>1, <1>2, <1>3, <2>1, Zenon
<1>5. \A k \in 1..3 : (l \o e)[n + k] = e[k]
  <2> TAKE k \in 1..3
  <2>1. n + k \in 1..(n + 3) /\ ~(n + k <= n) /\ (n + k) - n = k
    BY SMT
  <2> QED
    BY <1>1, <1>2, <1>3, <2>1, Zenon
<1>6. (l \o e)[n + 1] = a /\ (l \o e)[n + 2] = b /\ (l \o e)[n + 3] = c
  <2>1. 1 \in 1..3 /\ 2 \in 1..3 /\ 3 \in 1..3
    OBVIOUS
  <2> QED
    BY <1>1, <1>5, <2>1, Zenon
<1> QED
  BY <1>1, <1>2, <1>3, <1>4, <1>6, Zenon DEF Joined, e

LEMMA AppendThree ==
    ASSUME NEW l \in Seq(ShortBytes), NEW a \in ShortBytes,
           NEW b \in ShortBytes, NEW c \in ShortBytes, Len(l) <= 10
    PROVE  Appended(l, a, b, c) = Joined(l, a, b, c)
<1>1. PICK n \in Nat : n = Len(l) /\ n <= 10
  BY LenProperties
<1> DEFINE l1 == Append(l, a)
           l2 == Append(l1, b)
           l3 == Append(l2, c)
<1>2. l1 \in Seq(ShortBytes) /\ Len(l1) = n + 1
      /\ l1[n + 1] = a /\ \A i \in 1..n : l1[i] = l[i]
  BY <1>1, OneMore, Zenon
<1> HIDE DEF l1
<1>3. l2 \in Seq(ShortBytes) /\ Len(l2) = (n + 1) + 1
      /\ l2[(n + 1) + 1] = b /\ \A i \in 1..(n + 1) : l2[i] = l1[i]
  <2>1. /\ l2 \in Seq(ShortBytes) /\ Len(l2) = Len(l1) + 1
        /\ l2[Len(l1) + 1] = b /\ \A i \in 1..Len(l1) : l2[i] = l1[i]
    BY <1>2, OneMore, Zenon
  <2>2. Len(l1) = n + 1
    BY <1>2, Zenon
  <2> HIDE DEF l2
  <2> QED
    BY <2>1, <2>2, Zenon
<1> HIDE DEF l2
<1>4. l3 \in Seq(ShortBytes) /\ Len(l3) = ((n + 1) + 1) + 1
      /\ l3[((n + 1) + 1) + 1] = c /\ \A i \in 1..((n + 1) + 1) : l3[i] = l2[i]
  <2>1. /\ l3 \in Seq(ShortBytes) /\ Len(l3) = Len(l2) + 1
        /\ l3[Len(l2) + 1] = c /\ \A i \in 1..Len(l2) : l3[i] = l2[i]
    BY <1>3, OneMore, Zenon
  <2>2. Len(l2) = (n + 1) + 1
    BY <1>3, Zenon
  <2> HIDE DEF l3
  <2> QED
    BY <2>1, <2>2, Zenon
<1> HIDE DEF l3
<1>5. n <= 12 /\ n + 1 <= 12 /\ (n + 1) + 1 <= 12
  BY <1>1, SMT
<1>6. /\ AppendObject(l, a) = l1
      /\ AppendObject(l1, b) = l2
      /\ AppendObject(l2, c) = l3
  BY <1>1, <1>2, <1>3, <1>5, Room, Zenon DEF l1, l2, l3
<1>7. l3 = Joined(l, a, b, c)
  <2> DEFINE t == Joined(l, a, b, c)
  <2>1. /\ t \in Seq(ShortBytes) /\ Len(t) = n + 3
        /\ \A i \in 1..n : t[i] = l[i]
        /\ t[n + 1] = a /\ t[n + 2] = b /\ t[n + 3] = c
    <3>1. /\ t \in Seq(ShortBytes) /\ Len(t) = Len(l) + 3
          /\ \A i \in 1..Len(l) : t[i] = l[i]
          /\ t[Len(l) + 1] = a /\ t[Len(l) + 2] = b /\ t[Len(l) + 3] = c
      BY Three
    <3> HIDE DEF t
    <3> QED
      BY <1>1, <3>1, Zenon
  <2> HIDE DEF t
  <2>2. (n + 1) + 1 = n + 2 /\ ((n + 1) + 1) + 1 = n + 3
    OBVIOUS
  <2>3. \A i \in 1..(n + 3) :
            \/ i \in 1..n /\ i \in 1..(n + 1) /\ i \in 1..(n + 2)
            \/ i = n + 1 /\ i \in 1..(n + 1) /\ i \in 1..(n + 2)
            \/ i = n + 2 /\ i \in 1..(n + 2)
            \/ i = n + 3
    BY SMT
  <2>4. \A i \in 1..(n + 3) : l3[i] = t[i]
    BY <1>2, <1>3, <1>4, <2>1, <2>2, <2>3, Zenon
  <2>5. Len(l3) = n + 3
    BY <1>4, <2>2, Zenon
  <2> QED
    BY <1>4, <2>1, <2>4, <2>5, Whole, Zenon DEF t
<1> QED
  BY <1>6, <1>7, Zenon DEF Appended

(* The three strings at the end of the list are replaced one by one.       *)
LEMMA ReplaceThree ==
    ASSUME NEW l \in Seq(ShortBytes),
           NEW x \in ShortBytes, NEW y \in ShortBytes, NEW z \in ShortBytes,
           NEW a \in ShortBytes, NEW b \in ShortBytes, NEW c \in ShortBytes
    PROVE  Replaced(Joined(l, x, y, z), Len(l) + 1, a, b, c)
               = Joined(l, a, b, c)
<1>1. PICK n \in Nat : n = Len(l)
  BY LenProperties
<1> DEFINE t0 == Joined(l, x, y, z)
           t1 == [t0 EXCEPT ![n + 1] = a]
           t2 == [t1 EXCEPT ![n + 2] = b]
           t3 == [t2 EXCEPT ![n + 3] = c]
           t == Joined(l, a, b, c)
<1>2. /\ t0 \in Seq(ShortBytes) /\ Len(t0) = n + 3
      /\ \A i \in 1..n : t0[i] = l[i]
  <2>1. /\ t0 \in Seq(ShortBytes) /\ Len(t0) = Len(l) + 3
        /\ \A i \in 1..Len(l) : t0[i] = l[i]
        /\ t0[Len(l) + 1] = x /\ t0[Len(l) + 2] = y /\ t0[Len(l) + 3] = z
    BY Three
  <2> HIDE DEF t0
  <2> QED
    BY <1>1, <2>1, Zenon
<1>3. /\ t \in Seq(ShortBytes) /\ Len(t) = n + 3
      /\ \A i \in 1..n : t[i] = l[i]
      /\ t[n + 1] = a /\ t[n + 2] = b /\ t[n + 3] = c
  <2>1. /\ t \in Seq(ShortBytes) /\ Len(t) = Len(l) + 3
        /\ \A i \in 1..Len(l) : t[i] = l[i]
        /\ t[Len(l) + 1] = a /\ t[Len(l) + 2] = b /\ t[Len(l) + 3] = c
    BY Three
  <2> HIDE DEF t
  <2> QED
    BY <1>1, <2>1, Zenon
<1> HIDE DEF t0, t
<1>4. /\ t0 \in [1..(n + 3) -> ShortBytes] /\ DOMAIN t0 = 1..(n + 3)
      /\ t \in [1..(n + 3) -> ShortBytes]
  BY <1>2, <1>3, LenProperties
<1>5. n + 1 \in 1..(n + 3) /\ n + 2 \in 1..(n + 3) /\ n + 3 \in 1..(n + 3)
  BY SMT
<1>6. /\ t1 \in [1..(n + 3) -> ShortBytes]
      /\ t2 \in [1..(n + 3) -> ShortBytes]
      /\ t3 \in [1..(n + 3) -> ShortBytes]
  BY <1>4, <1>5
<1>7. /\ ReplaceObject(t0, n + 1, a) = t1
      /\ ReplaceObject(t1, n + 2, b) = t2
      /\ ReplaceObject(t2, n + 3, c) = t3
  <2>1. DOMAIN t0 = 1..(n + 3) /\ DOMAIN t1 = 1..(n + 3) /\ DOMAIN t2 = 1..(n + 3)
    BY <1>4, <1>6
  <2> QED
    BY <1>5, <2>1, Zenon DEF ReplaceObject
<1>8. t3 = t
  <2>1. \A i \in 1..(n + 3) : t3[i] = t[i]
    <3> TAKE i \in 1..(n + 3)
    <3>1. CASE i \in 1..n
      <4>1. i # n + 1 /\ i # n + 2 /\ i # n + 3
        BY <3>1, SMT
      <4>2. t3[i] = t0[i]
        BY <1>4, <1>6, <4>1
      <4> QED
        BY <1>2, <1>3, <3>1, <4>2, Zenon
    <3>2. CASE i = n + 1
      <4>1. i # n + 2 /\ i # n + 3
        BY <3>2, SMT
      <4> QED
        BY <1>3, <1>4, <1>6, <3>2, <4>1
    <3>3. CASE i = n + 2
      <4>1. i # n + 3
        BY <3>3, SMT
      <4> QED
        BY <1>3, <1>4, <1>6, <3>3, <4>1
    <3>4. CASE i = n + 3
      BY <1>3, <1>4, <1>6, <3>4
    <3> QED
      BY <3>1, <3>2, <3>3, <3>4, SMT
  <2> HIDE DEF t3
  <2> QED
    BY <1>4, <1>6, <2>1
<1>9. (n + 1) + 1 = n + 2 /\ (n + 1) + 2 = n + 3
  OBVIOUS
<1> HIDE DEF t1, t2, t3
<1> QED
  BY <1>1, <1>7, <1>8, <1>9, Zenon DEF Replaced, t0, t

(* A node can take the three strings off again.                            *)
LEMMA TakeOff ==
    ASSUME NEW l \in Seq(ShortBytes), NEW a \in ShortBytes,
           NEW b \in ShortBytes, NEW c \in ShortBytes
    PROVE  LET t == Joined(l, a, b, c)
           IN  /\ Unsigned(t) = l
               /\ t[Len(t) - 2] = a /\ t[Len(t) - 1] = b /\ t[Len(t)] = c
<1>1. PICK n \in Nat : n = Len(l)
  BY LenProperties
<1> DEFINE t == Joined(l, a, b, c)
           u == SubSeq(t, 1, n)
<1>2. /\ t \in Seq(ShortBytes) /\ Len(t) = n + 3
      /\ \A i \in 1..n : t[i] = l[i]
      /\ t[n + 1] = a /\ t[n + 2] = b /\ t[n + 3] = c
  <2>1. /\ t \in Seq(ShortBytes) /\ Len(t) = Len(l) + 3
        /\ \A i \in 1..Len(l) : t[i] = l[i]
        /\ t[Len(l) + 1] = a /\ t[Len(l) + 2] = b /\ t[Len(l) + 3] = c
    BY Three
  <2> HIDE DEF t
  <2> QED
    BY <1>1, <2>1, Zenon
<1> HIDE DEF t
<1>3. (n + 3) - 3 = n /\ (n + 3) - 2 = n + 1 /\ (n + 3) - 1 = n + 2
  OBVIOUS
<1>4. u = l
  <2>1. \A i \in 1..n : t[i] \in ShortBytes
    <3> TAKE i \in 1..n
    <3>1. l[i] \in ShortBytes
      BY <1>1, ElementOfSeq
    <3> QED
      BY <1>2, <3>1, Zenon
  <2>2. /\ u \in Seq(ShortBytes)
        /\ Len(u) = IF 1 <= n THEN n - 1 + 1 ELSE 0
        /\ \A i \in 1..(n - 1 + 1) : u[i] = t[1 + i - 1]
    BY <1>1, <2>1, SubSeqProperties, 1 \in Int
  <2> HIDE DEF u
  <2>3. Len(u) = n /\ \A i \in 1..n : u[i] = t[i]
    BY <2>2, SMT
  <2> QED
    BY <1>1, <1>2, <2>2, <2>3, Whole, Zenon
<1> QED
  BY <1>1, <1>2, <1>3, <1>4, Zenon DEF Unsigned, t

-----------------------------------------------------------------------------
(* The inductive invariant: what the list, the digest, the stream and the  *)
(* heap are at each step of a call.                                        *)

(* No call runs, or the running one has not begun its list.                *)
Outside == {"idle", "fill", "init", "unset", "undefined"}

ToSign ==
    IF wallet.eip155 THEN Joined(Fields, Big(wallet.chain), <<>>, <<>>)
    ELSE Fields
ToSend == Joined(Fields, Big(V), sig.r, sig.s)

ListInv ==
    /\ list \in Seq(ShortBytes)
    /\ Len(list) <= 13
    /\ pc \in Outside => list = <<>>
    /\ pc = "append" => /\ Len(list) <= Len(Fields)
                        /\ \A i \in 1..Len(list) : list[i] = Fields[i]
    /\ pc \in {"encode", "sign", "put"} => list = ToSign
    /\ pc \in {"reencode", "send"} => list = ToSend

SignedInv ==
    pc \in {"put", "reencode", "send"} =>
        /\ digest = Encode(ToSign).bytes
        /\ sig.r = Trim(signature.r)
        /\ sig.s = Trim(signature.s)

Streams == {Encode(l) : l \in Seq(ShortBytes)}

StreamInv ==
    /\ stream \in {NoStream} \cup Streams
    /\ pc \in {"sign", "put", "send"} => stream = Encode(list)
    /\ pc = "append" => stream \in {NoStream, Encode(list)}
    /\ pc = "append" /\ list = <<>> => stream = NoStream
    /\ pc \in {"append", "encode"} /\ wallet.protocol # "quorum" =>
           stream = NoStream

(* How many blocks the running call may still lose.                        *)
OfData == IF wallet.private /\ Len(list) <= 5 THEN 1 ELSE 0
OfFields == IF list = <<>> THEN 6 ELSE 7 - Len(list)
Left ==
    IF wallet.protocol # "quorum" THEN 0
    ELSE IF pc = "fill" THEN 9
    ELSE IF pc = "init" THEN 6 + OfData
    ELSE IF pc = "append" THEN OfFields + OfData
    ELSE IF pc = "encode" THEN 1
    ELSE 0

HeapInv ==
    /\ pc \in Outside => stream = NoStream /\ held = {}
    /\ pc = "fill" => wallet.private
    /\ lost + Left <= LostPerCall * calls

Phases ==
    {"idle", "fill", "init", "append", "encode", "sign", "put", "reencode",
     "send", "cleanup", "unset", "undefined"}
SigType == [r : Seq(Byte), s : Seq(Byte)]

Types ==
    /\ wallet \in Wallets
    /\ CallOK
    /\ sig \in SigType
    /\ pc \in Phases
    /\ signature \in Signature
    /\ held \subseteq {"descriptors", "hex"}
    /\ lost \in Nat
    /\ calls \in 0..MaxCalls

RawInv == Types /\ ListInv /\ SignedInv /\ StreamInv /\ HeapInv

LEMMA WalletFacts ==
    ASSUME wallet \in Wallets
    PROVE  /\ wallet.chain \in 0..(Word - 1)
           /\ wallet.eip155 \in BOOLEAN /\ wallet.private \in BOOLEAN
           /\ wallet.private => wallet.protocol = "quorum" /\ ~wallet.eip155
BY RawAssumption DEF Wallet

LEMMA Empty == <<>> \in ShortBytes /\ <<>> \in Seq(ShortBytes) /\ Len(<<>>) = 0
<1>1. <<>> \in Bytes /\ Len(<<>>) = 0 /\ 0 \in 0..100
  BY EmptySeq DEF Bytes
<1> QED
  BY <1>1, ShortIs, EmptySeq

LEMMA BigShort ==
    ASSUME NEW n \in 0..(Word - 1)
    PROVE  Big(n) \in ShortBytes
<1>1. Big(n) \in Bytes /\ Len(Big(n)) \in 1..4
  BY BigWord
<1>2. PICK k \in 1..4 : Len(Big(n)) = k
  BY <1>1, Zenon
<1>3. k \in 0..100
  OBVIOUS
<1> QED
  BY <1>1, <1>2, <1>3, ShortIs, Zenon

LEMMA TrimShort ==
    ASSUME NEW b \in [1..32 -> Byte]
    PROVE  Trim(b) \in ShortBytes
<1>1. Trim(b) \in Bytes /\ Len(Trim(b)) \in 0..32
  BY TrimFacts
<1>2. PICK k \in 0..32 : Len(Trim(b)) = k
  BY <1>1, Zenon
<1>3. k \in 0..100
  OBVIOUS
<1> QED
  BY <1>1, <1>2, <1>3, ShortIs, Zenon

LEMMA SignatureFacts ==
    ASSUME NEW g \in Signature
    PROVE  /\ g.parity \in 0..1
           /\ g.r \in [1..32 -> Byte] /\ g.s \in [1..32 -> Byte]
           /\ Trim(g.r) \in ShortBytes /\ Trim(g.s) \in ShortBytes
           /\ [r |-> Trim(g.r), s |-> Trim(g.s)] \in SigType
<1>1. /\ g.parity \in 0..1
      /\ g.r \in [1..32 -> Byte] /\ g.s \in [1..32 -> Byte]
  BY DEF Signature
<1>2. Trim(g.r) \in ShortBytes /\ Trim(g.s) \in ShortBytes
  BY <1>1, TrimShort, Zenon
<1>3. Trim(g.r) \in Seq(Byte) /\ Trim(g.s) \in Seq(Byte)
  BY <1>2 DEF ShortBytes, Bytes
<1> QED
  BY <1>1, <1>2, <1>3 DEF SigType

(* What no call changes of the fields, and what their lengths are.         *)
LEMMA Same ==
    ASSUME wallet' = wallet, call' = call
    PROVE  Fields' = Fields /\ ToSign' = ToSign
<1>1. /\ EthereumFields' = EthereumFields
      /\ NonceField' = NonceField /\ FiscobcosNonce' = FiscobcosNonce
  BY Zenon DEF EthereumFields, NonceField, FiscobcosNonce
<1>2. /\ PlatoneFields' = PlatoneFields
      /\ QuorumFields' = QuorumFields
      /\ FiscobcosFields' = FiscobcosFields
  BY <1>1, Zenon DEF PlatoneFields, QuorumFields, FiscobcosFields
<1>3. Fields' = Fields
  BY <1>1, <1>2, Zenon DEF Fields, PlatonFields, VenachainFields
<1> QED
  BY <1>3, Zenon DEF ToSign

LEMMA SameSend ==
    ASSUME wallet' = wallet, call' = call, sig' = sig, signature' = signature
    PROVE  ToSend' = ToSend
<1>1. V' = V
  BY Zenon DEF V
<1> QED
  BY <1>1, Same, Zenon DEF ToSend

LEMMA FieldsShort ==
    ASSUME wallet \in Wallets, CallOK
    PROVE  Fields \in Seq(ShortBytes) /\ Len(Fields) \in 6..10
BY FieldsFacts, Zenon DEF Good

LEMMA JoinedShort ==
    ASSUME NEW l \in Seq(ShortBytes), Len(l) \in 6..10,
           NEW a \in ShortBytes, NEW b \in ShortBytes, NEW c \in ShortBytes
    PROVE  /\ Joined(l, a, b, c) \in Seq(ShortBytes)
           /\ Len(Joined(l, a, b, c)) \in 9..13
<1>1. PICK n \in 6..10 : n = Len(l)
  OBVIOUS
<1>2. /\ Joined(l, a, b, c) \in Seq(ShortBytes)
      /\ Len(Joined(l, a, b, c)) = Len(l) + 3
  BY Three
<1>3. n + 3 \in 9..13
  OBVIOUS
<1> QED
  BY <1>1, <1>2, <1>3, Zenon

LEMMA UpTo13 == \A n : n \in 6..10 \/ n \in 9..13 => n <= 13
OBVIOUS

LEMMA ToSignShort ==
    ASSUME wallet \in Wallets, CallOK
    PROVE  ToSign \in Seq(ShortBytes) /\ Len(ToSign) <= 13
<1>1. Fields \in Seq(ShortBytes) /\ Len(Fields) \in 6..10
  BY FieldsShort
<1>2. CASE wallet.eip155
  <2> DEFINE t == Joined(Fields, Big(wallet.chain), <<>>, <<>>)
  <2>1. Big(wallet.chain) \in ShortBytes
    BY WalletFacts, BigShort
  <2>2. t \in Seq(ShortBytes) /\ Len(t) \in 9..13
    BY <1>1, <2>1, Empty, JoinedShort, Zenon
  <2> HIDE DEF t
  <2>3. Len(t) <= 13
    BY <2>2, UpTo13, Zenon
  <2> QED
    BY <1>2, <2>2, <2>3, Zenon DEF ToSign, t
<1>3. CASE ~wallet.eip155
  <2>1. Len(Fields) <= 13
    BY <1>1, UpTo13, Zenon
  <2> QED
    BY <1>1, <1>3, <2>1, Zenon DEF ToSign
<1> QED
  BY <1>2, <1>3

LEMMA VFacts ==
    ASSUME wallet \in Wallets, signature \in Signature
    PROVE  V \in 0..(Word - 1) /\ Big(V) \in ShortBytes
<1>1. PICK p \in 0..1 : p = signature.parity
  BY SignatureFacts
<1>2. PICK c \in 0..(Word - 1) : c = wallet.chain
  BY WalletFacts
<1>3. Word \in Nat /\ Word > 255
  BY WordFacts
<1>4. /\ (2 * c + p + 35) % Word \in 0..(Word - 1)
      /\ p + 37 \in 0..(Word - 1)
      /\ p + 27 \in 0..(Word - 1)
  BY <1>3, SMT
<1>5. V \in 0..(Word - 1)
  BY <1>1, <1>2, <1>4, Zenon DEF V
<1> QED
  BY <1>5, BigShort

LEMMA ToSendShort ==
    ASSUME Types, SignedInv, pc \in {"put", "reencode", "send"}
    PROVE  /\ sig.r \in ShortBytes /\ sig.s \in ShortBytes
           /\ ToSend \in Seq(ShortBytes) /\ Len(ToSend) <= 13
<1>1. Fields \in Seq(ShortBytes) /\ Len(Fields) \in 6..10
  BY FieldsShort DEF Types
<1>2. sig.r \in ShortBytes /\ sig.s \in ShortBytes
  BY SignatureFacts, Zenon DEF Types, SignedInv
<1>3. Big(V) \in ShortBytes
  BY VFacts DEF Types
<1>4. ToSend \in Seq(ShortBytes) /\ Len(ToSend) \in 9..13
  BY <1>1, <1>2, <1>3, JoinedShort, Zenon DEF ToSend
<1>5. Len(ToSend) <= 13
  BY <1>4, UpTo13, Zenon
<1> QED
  BY <1>2, <1>4, <1>5, Zenon

LEMMA LossFacts ==
    ASSUME Types
    PROVE  /\ wallet.protocol # "quorum" => LostPerCall = 0
           /\ wallet.protocol = "quorum" /\ ~wallet.private => LostPerCall = 6
           /\ wallet.private => LostPerCall = 9
           /\ LostPerCall \in {0, 6, 9} /\ calls \in Nat
           /\ LostPerCall * calls \in Nat
<1>1. wallet.private \in BOOLEAN
      /\ (wallet.private => wallet.protocol = "quorum")
  BY WalletFacts DEF Types
<1>2. /\ wallet.protocol # "quorum" => LostPerCall = 0
      /\ wallet.protocol = "quorum" /\ ~wallet.private => LostPerCall = 6
      /\ wallet.private => LostPerCall = 9
      /\ LostPerCall \in {0, 6, 9}
  BY <1>1, Zenon DEF LostPerCall
<1>3. calls \in Nat
  BY RawAssumption DEF Types
<1>4. PICK k \in {0, 6, 9} : k = LostPerCall
  BY <1>2
<1>5. k * calls \in Nat
  BY <1>3, SMT
<1> QED
  BY <1>2, <1>3, <1>4, <1>5, Zenon

(* A step that loses k blocks, when m may still be lost and then n.        *)
LEMMA HeapStep ==
    ASSUME Types, HeapInv, wallet' = wallet, calls' = calls,
           NEW k \in Nat, NEW m \in Nat, NEW n \in Nat, k + n <= m,
           lost' = lost + k, Left = m, Left' = n
    PROVE  lost' \in Nat /\ lost' + Left' <= (LostPerCall * calls)'
<1>1. LostPerCall' = LostPerCall
  BY Zenon DEF LostPerCall
<1>2. PICK most \in Nat : most = LostPerCall * calls
  BY LossFacts
<1>3. lost \in Nat /\ lost + m <= most
  BY <1>2, Zenon DEF Types, HeapInv
<1>4. lost + k \in Nat /\ (lost + k) + n <= most
  BY <1>3, SMT
<1>5. (LostPerCall * calls)' = most
  BY <1>1, <1>2, Zenon
<1> QED
  BY <1>4, <1>5, Zenon

(* Most steps of a call that is past its fields lose nothing.              *)
LEMMA NoneLeft ==
    ASSUME Types, HeapInv, wallet' = wallet, calls' = calls, lost' = lost,
           pc \notin {"fill", "init", "append", "encode"},
           pc' \notin {"fill", "init", "append", "encode"}
    PROVE  lost' \in Nat /\ lost' + Left' <= (LostPerCall * calls)'
<1>1. Left = 0 /\ Left' = 0
  BY Zenon DEF Left
<1>2. lost' = lost + 0 /\ 0 \in Nat /\ 0 + 0 <= 0
  BY DEF Types
<1> QED
  BY <1>1, <1>2, HeapStep, Zenon

(* What is left when the next field is appended to six of a private or     *)
(* public transaction.                                                     *)
LEMMA LeftAppend ==
    ASSUME Types, ListInv, wallet.protocol = "quorum", pc = "append",
           NEW n \in 0..6, n = Len(list), list = <<>> <=> n = 0
    PROVE  Left = (IF n = 0 THEN 6 ELSE 7 - n)
                      + (IF wallet.private /\ n <= 5 THEN 1 ELSE 0)
BY Zenon DEF Left, OfFields, OfData

-----------------------------------------------------------------------------
(* The steps *)

LEMMA CallKeeps ==
    ASSUME RawInv, NEW p \in Payloads, Call(p)
    PROVE  RawInv'
<1> USE DEF Call, signing, heap
<1>1. /\ wallet' = wallet /\ signature' = signature /\ sig' = sig
      /\ list' = list /\ stream' = stream /\ held' = held /\ lost' = lost
      /\ pc = "idle" /\ list = <<>> /\ stream = NoStream /\ held = {}
      /\ pc' = IF wallet.private THEN "fill" ELSE "init"
      /\ pc' \in {"fill", "init"}
  BY DEF RawInv, ListInv, HeapInv, Outside
<1>2. Types'
  <2>1. CallOK'
    BY RawAssumption DEF CallOK
  <2>2. calls' \in 0..MaxCalls
    BY RawAssumption DEF RawInv, Types
  <2> QED
    BY <1>1, <2>1, <2>2 DEF RawInv, Types, Phases
<1>3. ListInv'
  <2>1. Len(<<>>) <= 13
    BY Empty, SMT
  <2> QED
    BY <1>1, <2>1, Empty DEF ListInv
<1>4. SignedInv'
  BY <1>1 DEF SignedInv
<1>5. StreamInv'
  BY <1>1 DEF StreamInv
<1>6. HeapInv'
  <2>1. PICK most \in Nat : most = LostPerCall * calls /\ lost <= most
    <3>1. Left = 0
      BY <1>1, Zenon DEF Left
    <3>2. PICK most \in Nat : most = LostPerCall * calls
      BY LossFacts DEF RawInv
    <3>3. lost \in Nat /\ lost + 0 <= most
      BY <3>1, <3>2, Zenon DEF RawInv, Types, HeapInv
    <3> QED
      BY <3>2, <3>3, SMT
  <2>2. (LostPerCall * calls)' = most + LostPerCall
    <3>1. LostPerCall' = LostPerCall
      BY <1>1, Zenon DEF LostPerCall
    <3>2. PICK k \in {0, 6, 9} : k = LostPerCall
      BY LossFacts DEF RawInv
    <3>3. calls \in Nat /\ calls' = calls + 1
      BY LossFacts DEF RawInv
    <3>4. k * (calls + 1) = k * calls + k
      BY <3>2, <3>3, SMT
    <3> QED
      BY <2>1, <3>1, <3>2, <3>3, <3>4, Zenon
  <2>3. Left' <= LostPerCall /\ Left' \in Nat /\ LostPerCall \in Nat
    <3>1. CASE wallet.private
      <4>1. Left' = 9 /\ LostPerCall = 9
        <5>1. wallet.protocol = "quorum"
          BY <3>1, WalletFacts DEF RawInv, Types
        <5> QED
          BY <1>1, <3>1, <5>1, LossFacts, Zenon DEF RawInv, Left
      <4> QED
        BY <4>1, SMT
    <3>2. CASE ~wallet.private /\ wallet.protocol = "quorum"
      <4>1. Left' = 6 + 0 /\ LostPerCall = 6
        BY <1>1, <3>2, LossFacts, Zenon DEF RawInv, Left, OfData
      <4> QED
        BY <4>1, SMT
    <3>3. CASE wallet.protocol # "quorum"
      <4>1. Left' = 0 /\ LostPerCall = 0
        BY <1>1, <3>3, LossFacts, Zenon DEF RawInv, Left
      <4> QED
        BY <4>1, SMT
    <3> QED
      BY <3>1, <3>2, <3>3, WalletFacts DEF RawInv, Types
  <2>4. lost' + Left' <= (LostPerCall * calls)'
    <3>1. PICK left \in Nat : left = Left'
      BY <2>3
    <3>2. PICK k \in Nat : k = LostPerCall
      BY <2>3
    <3>3. lost \in Nat
      BY DEF RawInv, Types
    <3>4. lost <= most /\ left <= k
      BY <2>1, <2>3, <3>1, <3>2, Zenon
    <3>5. lost + left <= most + k
      BY <3>3, <3>4, SMT
    <3> QED
      BY <1>1, <2>2, <3>1, <3>2, <3>5, Zenon
  <2> QED
    BY <1>1, <2>4 DEF HeapInv
<1> QED
  BY <1>2, <1>3, <1>4, <1>5, <1>6 DEF RawInv

LEMMA FillKeeps ==
    ASSUME RawInv, Fill
    PROVE  RawInv'
<1> USE DEF Fill, signing
<1>1. /\ wallet' = wallet /\ signature' = signature /\ sig' = sig
      /\ list' = list /\ stream' = stream /\ held' = held /\ calls' = calls
      /\ pc = "fill" /\ list = <<>> /\ stream = NoStream /\ held = {}
      /\ pc' \in {"idle", "init"} /\ wallet.private
  BY DEF RawInv, ListInv, HeapInv, Outside
<1>2. lost' = lost + 2
  OBVIOUS
<1>3. CallOK'
  <2>1. NoCall \in Payload /\ Len(NoCall.data) <= 16777216
    <3>1. 0 \in 0..(Word - 1)
      BY WordFacts
    <3>2. Len(<<>>) <= 16777216 /\ <<>> \in Seq(Byte)
      BY Empty, SMT
    <3> QED
      BY <3>1, <3>2 DEF NoCall, Payload, Zero, Byte
  <2> QED
    BY <2>1 DEF RawInv, Types, CallOK
<1>4. lost' \in Nat /\ lost' + Left' <= (LostPerCall * calls)'
  <2>1. wallet.protocol = "quorum"
    BY <1>1, WalletFacts DEF RawInv, Types
  <2>2. Left = 9
    BY <1>1, <2>1, Zenon DEF Left
  <2>3. PICK n \in Nat : n = Left' /\ 2 + n <= 9
    <3>1. CASE pc' = "idle"
      <4>1. Left' = 0 /\ 0 \in Nat /\ 2 + 0 <= 9
        BY <1>1, <2>1, <3>1 DEF Left
      <4> QED
        BY <4>1, Zenon
    <3>2. CASE pc' = "init"
      <4>1. Left' = 6 + OfData' /\ OfData' \in 0..1
        BY <1>1, <2>1, <3>2 DEF Left, OfData
      <4>2. PICK d \in 0..1 : d = OfData'
        BY <4>1
      <4>3. 6 + d \in Nat /\ 2 + (6 + d) <= 9
        BY SMT
      <4> QED
        BY <4>1, <4>2, <4>3, Zenon
    <3> QED
      BY <1>1, <3>1, <3>2
  <2>4. 2 \in Nat /\ 9 \in Nat
    OBVIOUS
  <2> QED
    BY <1>1, <1>2, <2>2, <2>3, <2>4, HeapStep, Zenon DEF RawInv
<1>5. Types'
  BY <1>1, <1>3, <1>4 DEF RawInv, Types, Phases
<1>6. ListInv'
  <2>1. Len(<<>>) <= 13
    BY Empty, SMT
  <2> QED
    BY <1>1, <2>1, Empty DEF ListInv
<1>7. SignedInv' /\ StreamInv'
  BY <1>1 DEF SignedInv, StreamInv
<1>8. HeapInv'
  BY <1>1, <1>4 DEF HeapInv
<1> QED
  BY <1>5, <1>6, <1>7, <1>8 DEF RawInv

LEMMA InitListKeeps ==
    ASSUME RawInv, InitList
    PROVE  RawInv'
<1> USE DEF InitList, signing
<1>1. /\ wallet' = wallet /\ call' = call /\ signature' = signature
      /\ sig' = sig /\ list' = list /\ stream' = stream /\ lost' = lost
      /\ calls' = calls
      /\ pc = "init" /\ list = <<>> /\ stream = NoStream /\ held = {}
      /\ pc' \in {"append", "unset"}
      /\ held' \subseteq {"descriptors"} /\ (pc' = "unset" => held' = {})
  BY DEF RawInv, ListInv, HeapInv, Outside
<1>2. Types'
  BY <1>1 DEF RawInv, Types, Phases, CallOK
<1>3. ListInv'
  <2>1. Len(<<>>) <= 13
    BY Empty, SMT
  <2>2. 0 <= Len(Fields') /\ \A i \in 1..0 : list[i] = Fields'[i]
    <3>1. Fields' = Fields /\ Len(Fields) \in 6..10
      BY <1>1, Same, FieldsShort, Zenon DEF RawInv, Types
    <3>2. \A n \in 6..10 : 0 <= n
      OBVIOUS
    <3>3. 0 <= Len(Fields')
      BY <3>1, <3>2, Zenon
    <3> QED
      BY <3>3, SMT
  <2> QED
    BY <1>1, <2>1, <2>2, Empty, Zenon DEF ListInv, Outside
<1>4. SignedInv' /\ StreamInv'
  BY <1>1 DEF SignedInv, StreamInv
<1>5. HeapInv'
  <2>1. PICK m \in Nat : Left = m
    <3>1. OfData \in 0..1
      BY DEF OfData
    <3>2. 6 + OfData \in Nat
      BY <3>1, SMT
    <3> QED
      BY <1>1, <3>2, Zenon DEF Left
  <2>2. PICK n \in Nat : Left' = n /\ 0 + n <= m
    <3>1. CASE pc' = "unset"
      <4>1. Left' = 0
        BY <3>1, Zenon DEF Left
      <4>2. 0 \in Nat /\ 0 + 0 <= m
        BY SMT
      <4> QED
        BY <4>1, <4>2, Zenon
    <3>2. CASE pc' = "append"
      <4>1. Left' = Left
        BY <1>1, <3>2, Zenon DEF Left, OfFields, OfData
      <4>2. 0 + m <= m
        BY SMT
      <4> QED
        BY <2>1, <4>1, <4>2, Zenon
    <3> QED
      BY <1>1, <3>1, <3>2
  <2>3. lost' = lost + 0 /\ 0 \in Nat
    BY <1>1 DEF RawInv, Types
  <2>4. lost' + Left' <= (LostPerCall * calls)'
    BY <1>1, <2>1, <2>2, <2>3, HeapStep, Zenon DEF RawInv
  <2> QED
    BY <1>1, <2>4 DEF HeapInv, Outside
<1> QED
  BY <1>2, <1>3, <1>4, <1>5 DEF RawInv

LEMMA AppendFieldKeeps ==
    ASSUME RawInv, AppendField
    PROVE  RawInv'
<1> DEFINE t == AppendObject(list, Fields[Len(list) + 1])
<1>0. /\ pc = "append" /\ Len(list) < Len(Fields)
      /\ list' = t
      /\ pc' = IF HasRoom(list) THEN "append" ELSE "cleanup"
      /\ wallet.protocol = "quorum" => EncodeEach
      /\ wallet.protocol # "quorum" => stream' = stream /\ lost' = lost
      /\ wallet' = wallet /\ call' = call /\ signature' = signature
      /\ sig' = sig /\ held' = held /\ calls' = calls
  BY DEF AppendField, signing
<1>1. Fields \in Seq(ShortBytes) /\ Len(Fields) \in 6..10 /\ Fields' = Fields
  BY <1>0, FieldsShort, Same DEF RawInv, Types
<1>2. /\ list \in Seq(ShortBytes)
      /\ \A i \in 1..Len(list) : list[i] = Fields[i]
  BY <1>0 DEF RawInv, ListInv
<1>3. /\ pc' = "append"
      /\ list' \in Seq(ShortBytes)
      /\ Len(list') = Len(list) + 1
      /\ \A i \in 1..Len(list') : list'[i] = Fields[i]
  BY <1>0, <1>1, <1>2, NextField, Zenon
<1>4. PICK n \in Nat : n = Len(list) /\ n < Len(Fields)
  BY <1>0, <1>2, LenProperties
<1>5. PICK f \in 6..10 : f = Len(Fields)
  BY <1>1
<1>6. n < f /\ n + 1 <= f /\ n + 1 <= 13 /\ n + 1 # 0
  <2>1. n < f
    BY <1>4, <1>5, Zenon
  <2> QED
    BY <2>1, SMT
<1>7. list' # <<>>
  BY <1>3, <1>4, <1>6, Empty, Zenon
<1>8. list = <<>> <=> n = 0
  BY <1>2, <1>4
<1>9. /\ stream' \in {NoStream, Encode(list')}
      /\ wallet.protocol # "quorum" => stream' = NoStream
      /\ lost' \in Nat
      /\ lost' + Left' <= (LostPerCall * calls)'
  <2>1. CASE wallet.protocol # "quorum"
    <3>1. stream = NoStream
      BY <1>0, <2>1 DEF RawInv, StreamInv
    <3>2. Left = 0 /\ Left' = 0
      BY <1>0, <2>1, Zenon DEF Left
    <3>3. lost' = lost + 0 /\ 0 \in Nat /\ 0 + 0 <= 0
      BY <1>0, <2>1 DEF RawInv, Types
    <3>4. lost' \in Nat /\ lost' + Left' <= (LostPerCall * calls)'
      BY <1>0, <3>2, <3>3, HeapStep, Zenon DEF RawInv
    <3> QED
      BY <1>0, <2>1, <3>1, <3>4, Zenon
  <2>2. CASE wallet.protocol = "quorum"
    <3>1. f = 6
      BY <1>5, <2>2, FieldsFacts DEF RawInv, Types
    <3>2. n \in 0..5 /\ n + 1 \in 1..6 /\ n + 1 \in 0..6 /\ n \in 0..6
      BY <1>6, <3>1, SMT
    <3>3. PICK x \in 0..1 : x = Unreached /\ (n = 0 => x = 0)
      BY <1>0, <1>8 DEF Unreached, RawInv, StreamInv
    <3>4. PICK d \in 0..1 :
              /\ d = IF wallet.private /\ Len(list) = 5 THEN 1 ELSE 0
              /\ d = IF wallet.private /\ n = 5 THEN 1 ELSE 0
      BY <1>4
    <3>5. /\ stream' \in {NoStream, Encode(list')}
          /\ lost' = lost + x + d
      BY <1>0, <2>2, <3>3, <3>4, Zenon DEF EncodeEach
    <3>6. PICK m \in Nat :
              /\ m = Left
              /\ m = (IF n = 0 THEN 6 ELSE 7 - n)
                         + (IF wallet.private /\ n <= 5 THEN 1 ELSE 0)
      <4> DEFINE m == (IF n = 0 THEN 6 ELSE 7 - n)
                         + (IF wallet.private /\ n <= 5 THEN 1 ELSE 0)
      <4>1. m \in Nat
        BY <3>2, SMT
      <4>2. m = Left
        BY <1>0, <1>4, <1>8, <2>2, <3>2, LeftAppend, Zenon DEF RawInv
      <4> QED
        BY <4>1, <4>2, Zenon
    <3>7. PICK k \in Nat :
              /\ k = Left'
              /\ k = 7 - (n + 1)
                         + (IF wallet.private /\ n + 1 <= 5 THEN 1 ELSE 0)
      <4> DEFINE k == 7 - (n + 1)
                         + (IF wallet.private /\ n + 1 <= 5 THEN 1 ELSE 0)
      <4>1. k \in Nat
        BY <3>2, SMT
      <4>2. k = Left'
        BY <1>0, <1>3, <1>4, <1>7, <2>2, Zenon DEF Left, OfFields, OfData
      <4> QED
        BY <4>1, <4>2, Zenon
    <3>8. x + d \in Nat /\ (x + d) + k <= m /\ lost + x + d = lost + (x + d)
      <4>1. lost \in Nat
        BY DEF RawInv, Types
      <4>2. wallet.private \in BOOLEAN
        BY WalletFacts DEF RawInv, Types
      <4> QED
        BY <3>2, <3>3, <3>4, <3>6, <3>7, <4>1, <4>2, SMT
    <3>9. lost' \in Nat /\ lost' + Left' <= (LostPerCall * calls)'
      BY <1>0, <3>5, <3>6, <3>7, <3>8, HeapStep, Zenon DEF RawInv
    <3> QED
      BY <2>2, <3>5, <3>9, Zenon
  <2> QED
    BY <2>1, <2>2
<1> HIDE DEF t
<1>10. Types'
  BY <1>0, <1>3, <1>9 DEF RawInv, Types, Phases, CallOK
<1>11. ListInv'
  <2>1. Len(list') <= 13 /\ Len(list') <= Len(Fields')
    BY <1>1, <1>3, <1>4, <1>5, <1>6, Zenon
  <2> QED
    BY <1>1, <1>3, <2>1, Zenon DEF ListInv, Outside
<1>12. SignedInv'
  BY <1>3 DEF SignedInv
<1>13. StreamInv'
  BY <1>0, <1>3, <1>7, <1>9 DEF StreamInv, Streams
<1>14. HeapInv'
  BY <1>3, <1>9 DEF HeapInv, Outside
<1> QED
  BY <1>10, <1>11, <1>12, <1>13, <1>14 DEF RawInv

(* Steps that leave the list as it is and lose nothing: only what they do  *)
(* to the stream and to the blocks held remains to be looked at.           *)
LEMMA NoMemoryForDataKeeps ==
    ASSUME RawInv, NoMemoryForData
    PROVE  RawInv'
<1>1. /\ wallet' = wallet /\ call' = call /\ signature' = signature
      /\ sig' = sig /\ list' = list /\ stream' = stream /\ lost' = lost
      /\ held' = held /\ calls' = calls
      /\ pc = "append" /\ pc' = "cleanup"
  BY DEF NoMemoryForData, signing, heap
<1>2. Types' /\ ListInv' /\ SignedInv' /\ StreamInv'
  BY <1>1 DEF RawInv, Types, Phases, CallOK, ListInv, SignedInv, StreamInv,
              Outside
<1>3. lost' + Left' <= (LostPerCall * calls)'
  <2>1. PICK m \in Nat : Left = m
    <3>1. PICK n \in 0..10 : n = Len(list) /\ n <= Len(Fields)
      <4>1. Len(Fields) \in 6..10
        BY FieldsShort DEF RawInv, Types
      <4>2. list \in Seq(ShortBytes) /\ Len(list) <= Len(Fields)
        BY <1>1 DEF RawInv, ListInv
      <4>3. PICK f \in 6..10 : f = Len(Fields)
        BY <4>1
      <4>4. PICK n \in Nat : n = Len(list)
        BY <4>2, LenProperties
      <4>5. n <= f
        BY <4>2, <4>3, <4>4, Zenon
      <4>6. n \in 0..10
        BY <4>5, SMT
      <4> QED
        BY <4>2, <4>4, <4>6, Zenon
    <3>2. wallet.protocol = "quorum" => n <= 6
      BY <3>1, FieldsFacts, Zenon DEF RawInv, Types
    <3>3. wallet.protocol = "quorum" => OfFields \in Nat /\ OfData \in 0..1
      BY <3>1, <3>2 DEF OfFields, OfData
    <3>4. wallet.protocol = "quorum" => OfFields + OfData \in Nat
      BY <3>3
    <3>5. Left \in Nat
      BY <1>1, <3>4, Zenon DEF Left
    <3> QED
      BY <3>5
  <2>2. Left' = 0 /\ lost' = lost + 0 /\ 0 \in Nat /\ 0 + 0 <= m
    <3>1. Left' = 0
      BY <1>1, Zenon DEF Left
    <3>2. lost' = lost + 0 /\ 0 \in Nat /\ 0 + 0 <= m
      BY <1>1 DEF RawInv, Types
    <3> QED
      BY <3>1, <3>2
  <2> QED
    BY <1>1, <2>1, <2>2, HeapStep, Zenon DEF RawInv
<1>4. HeapInv'
  BY <1>1, <1>3 DEF HeapInv, Outside
<1> QED
  BY <1>2, <1>4 DEF RawInv

LEMMA AppendChainIdKeeps ==
    ASSUME RawInv, AppendChainId
    PROVE  RawInv'
<1>1. /\ wallet' = wallet /\ call' = call /\ signature' = signature
      /\ sig' = [r |-> <<>>, s |-> <<>>]
      /\ list' = Appended(list, Big(wallet.chain), <<>>, <<>>)
      /\ stream' = stream /\ lost' = lost /\ held' = held /\ calls' = calls
      /\ pc = "append" /\ pc' = "encode" /\ Len(list) = Len(Fields)
      /\ wallet.eip155
  BY DEF AppendChainId, heap
<1>2. /\ Fields \in Seq(ShortBytes) /\ Len(Fields) \in 6..10
      /\ ToSign \in Seq(ShortBytes) /\ Len(ToSign) <= 13
      /\ ToSign' = ToSign
  BY <1>1, FieldsShort, ToSignShort, Same, Zenon DEF RawInv, Types
<1>3. list = Fields
  <2>1. list \in Seq(ShortBytes) /\ \A i \in 1..Len(list) : list[i] = Fields[i]
    BY <1>1 DEF RawInv, ListInv
  <2> QED
    BY <1>1, <1>2, <2>1, Whole, Zenon
<1>4. list' = ToSign
  <2>1. Len(Fields) <= 10
    <3>1. \A n \in 6..10 : n <= 10
      OBVIOUS
    <3> QED
      BY <1>2, <3>1, Zenon
  <2>2. Big(wallet.chain) \in ShortBytes
    BY WalletFacts, BigShort DEF RawInv, Types
  <2> QED
    BY <1>1, <1>2, <1>3, <2>1, <2>2, Empty, AppendThree, Zenon DEF ToSign
<1>5. Types'
  <2>1. [r |-> <<>>, s |-> <<>>] \in SigType
    BY DEF SigType
  <2> QED
    BY <1>1, <2>1 DEF RawInv, Types, Phases, CallOK
<1>6. ListInv'
  BY <1>1, <1>2, <1>4, Zenon DEF ListInv, Outside
<1>7. SignedInv'
  BY <1>1 DEF SignedInv
<1>8. StreamInv'
  BY <1>1 DEF RawInv, StreamInv, Streams
<1>9. HeapInv'
  <2>1. PICK m \in Nat : Left = m /\ (wallet.protocol = "quorum" => 1 <= m)
    <3>1. CASE wallet.protocol = "quorum"
      <4>1. Len(list) = 6 /\ list # <<>>
        <5>1. Len(list) = 6
          BY <1>1, <3>1, FieldsFacts, Zenon DEF RawInv, Types
        <5> QED
          BY <5>1, Empty
      <4>2. OfFields = 1 /\ OfData = 0
        BY <4>1 DEF OfFields, OfData
      <4>3. Left = OfFields + OfData
        BY <1>1, <3>1, Zenon DEF Left
      <4> QED
        BY <4>2, <4>3
    <3>2. CASE wallet.protocol # "quorum"
      <4>1. Left = 0
        BY <3>2, Zenon DEF Left
      <4> QED
        BY <3>2, <4>1
    <3> QED
      BY <3>1, <3>2
  <2>2. PICK n \in Nat : Left' = n /\ 0 + n <= m
    <3>1. CASE wallet.protocol = "quorum"
      <4>1. Left' = 1
        BY <1>1, <3>1 DEF Left
      <4>2. 1 \in Nat /\ 0 + 1 <= m
        BY <2>1, <3>1, SMT
      <4> QED
        BY <4>1, <4>2, Zenon
    <3>2. CASE wallet.protocol # "quorum"
      <4>1. Left' = 0
        BY <1>1, <3>2, Zenon DEF Left
      <4>2. 0 \in Nat /\ 0 + 0 <= m
        BY SMT
      <4> QED
        BY <4>1, <4>2, Zenon
    <3> QED
      BY <3>1, <3>2
  <2>3. lost' = lost + 0 /\ 0 \in Nat
    BY <1>1 DEF RawInv, Types
  <2>4. lost' + Left' <= (LostPerCall * calls)'
    BY <1>1, <2>1, <2>2, <2>3, HeapStep, Zenon DEF RawInv
  <2> QED
    BY <1>1, <2>4 DEF HeapInv, Outside
<1> QED
  BY <1>5, <1>6, <1>7, <1>8, <1>9 DEF RawInv

LEMMA EncodeListKeeps ==
    ASSUME RawInv, EncodeList
    PROVE  RawInv'
<1>1. /\ wallet' = wallet /\ call' = call /\ signature' = signature
      /\ sig' = sig /\ list' = list /\ lost' = lost + Unreached
      /\ held' = held /\ calls' = calls
      /\ \/ pc = "encode"
         \/ pc = "append" /\ Len(list) = Len(Fields) /\ ~wallet.eip155
      /\ \/ stream' = Encode(list) /\ pc' = "sign"
         \/ stream' = NoStream /\ pc' = "cleanup"
      /\ pc' \in {"sign", "cleanup"}
  BY DEF EncodeList, signing
<1>2. list = ToSign /\ ToSign' = ToSign
  <2>1. CASE pc = "encode"
    BY <1>1, <2>1, Same DEF RawInv, ListInv
  <2>2. CASE pc = "append" /\ Len(list) = Len(Fields) /\ ~wallet.eip155
    <3>1. list \in Seq(ShortBytes) /\ \A i \in 1..Len(list) : list[i] = Fields[i]
      BY <2>2 DEF RawInv, ListInv
    <3>2. Fields \in Seq(ShortBytes)
      BY FieldsShort DEF RawInv, Types
    <3>3. list = Fields
      BY <2>2, <3>1, <3>2, Whole, Zenon
    <3> QED
      BY <1>1, <2>2, <3>3, Same, Zenon DEF ToSign
  <2> QED
    BY <1>1, <2>1, <2>2
<1>3. lost' \in Nat /\ lost' + Left' <= (LostPerCall * calls)'
  <2>1. PICK x \in {0, 1} : x = Unreached
                /\ (wallet.protocol # "quorum" => x = 0)
    <3>1. wallet.protocol # "quorum" => stream = NoStream
      BY <1>1 DEF RawInv, StreamInv
    <3> QED
      BY <3>1 DEF Unreached
  <2>2. PICK m \in Nat : Left = m /\ x <= m
    <3>1. CASE wallet.protocol # "quorum"
      <4>1. Left = 0
        BY <3>1, Zenon DEF Left
      <4> QED
        BY <2>1, <3>1, <4>1
    <3>2. CASE wallet.protocol = "quorum" /\ pc = "encode"
      <4>1. Left = 1
        BY <3>2 DEF Left
      <4> QED
        BY <2>1, <4>1
    <3>3. CASE wallet.protocol = "quorum" /\ pc = "append"
      <4>1. Len(list) = 6 /\ list # <<>>
        <5>1. Len(list) = 6
          BY <1>1, <3>3, FieldsFacts, Zenon DEF RawInv, Types
        <5> QED
          BY <5>1, Empty
      <4>2. OfFields = 1 /\ OfData = 0
        BY <4>1 DEF OfFields, OfData
      <4>3. Left = OfFields + OfData
        BY <3>3, Zenon DEF Left
      <4> QED
        BY <2>1, <4>2, <4>3
    <3> QED
      BY <1>1, <3>1, <3>2, <3>3
  <2>3. Left' = 0 /\ x + 0 <= m /\ x \in Nat /\ 0 \in Nat
    <3>1. Left' = 0
      BY <1>1, Zenon DEF Left
    <3>2. x + 0 <= m /\ x \in Nat /\ 0 \in Nat
      BY <2>2
    <3> QED
      BY <3>1, <3>2
  <2>4. lost' = lost + x
    BY <1>1, <2>1
  <2> QED
    BY <1>1, <2>2, <2>3, <2>4, HeapStep, Zenon DEF RawInv
<1>4. Types'
  BY <1>1, <1>3 DEF RawInv, Types, Phases, CallOK
<1>5. ListInv'
  BY <1>1, <1>2 DEF RawInv, ListInv, Outside
<1>6. SignedInv'
  BY <1>1 DEF SignedInv
<1>7. StreamInv'
  BY <1>1 DEF RawInv, ListInv, StreamInv, Streams
<1>8. HeapInv'
  BY <1>1, <1>3 DEF HeapInv, Outside
<1> QED
  BY <1>4, <1>5, <1>6, <1>7, <1>8 DEF RawInv

LEMMA SignKeeps ==
    ASSUME RawInv, Sign
    PROVE  RawInv'
<1>1. /\ wallet' = wallet /\ call' = call /\ list' = list /\ stream' = stream
      /\ lost' = lost /\ held' = held /\ calls' = calls
      /\ pc = "sign" /\ pc' \in {"put", "cleanup"}
      /\ pc' = "put" =>
             /\ signature' \in Signature
             /\ digest' = stream.bytes
             /\ sig' = [r |-> Trim(signature'.r), s |-> Trim(signature'.s)]
      /\ pc' = "cleanup" => signature' = signature /\ sig' = sig
  BY RawAssumption DEF Sign, signing, heap
<1>2. ToSign' = ToSign
  BY <1>1, Same
<1>3. Types'
  <2>1. CASE pc' = "put"
    <3>1. sig' \in SigType
      BY <1>1, <2>1, SignatureFacts, Zenon
    <3> QED
      BY <1>1, <2>1, <3>1 DEF RawInv, Types, Phases, CallOK
  <2>2. CASE pc' = "cleanup"
    BY <1>1, <2>2 DEF RawInv, Types, Phases, CallOK
  <2> QED
    BY <1>1, <2>1, <2>2
<1>4. ListInv'
  BY <1>1, <1>2 DEF RawInv, ListInv, Outside
<1>5. SignedInv'
  <2>1. CASE pc' = "put"
    <3>1. digest' = Encode(ToSign).bytes
      BY <1>1, <2>1, Zenon DEF RawInv, ListInv, StreamInv
    <3>2. sig'.r = Trim(signature'.r) /\ sig'.s = Trim(signature'.s)
      BY <1>1, <2>1
    <3> QED
      BY <1>2, <3>1, <3>2, Zenon DEF SignedInv
  <2>2. CASE pc' = "cleanup"
    BY <2>2 DEF SignedInv
  <2> QED
    BY <1>1, <2>1, <2>2
<1>6. StreamInv'
  BY <1>1 DEF RawInv, StreamInv
<1>7. HeapInv'
  <2>1. lost' + Left' <= (LostPerCall * calls)'
    BY <1>1, NoneLeft DEF RawInv
  <2> QED
    BY <1>1, <2>1 DEF HeapInv, Outside
<1> QED
  BY <1>3, <1>4, <1>5, <1>6, <1>7 DEF RawInv

LEMMA PutSignatureKeeps ==
    ASSUME RawInv, PutSignature
    PROVE  RawInv'
<1>1. /\ wallet' = wallet /\ call' = call /\ stream' = stream
      /\ sig' = sig /\ signature' = signature /\ digest' = digest
      /\ lost' = lost /\ held' = held /\ calls' = calls
      /\ pc = "put" /\ pc' = "reencode"
      /\ list' = IF wallet.eip155
                 THEN Replaced(list, Len(Fields) + 1, Big(V), sig.r, sig.s)
                 ELSE Appended(list, Big(V), sig.r, sig.s)
  BY DEF PutSignature, signing, heap
<1>2. /\ ToSign' = ToSign /\ ToSend' = ToSend
      /\ list = ToSign
  <2>1. list = ToSign
    BY <1>1 DEF RawInv, ListInv
  <2> QED
    BY <1>1, <2>1, Same, SameSend, Zenon
<1>3. /\ sig.r \in ShortBytes /\ sig.s \in ShortBytes
      /\ Big(V) \in ShortBytes /\ Big(wallet.chain) \in ShortBytes
      /\ Fields \in Seq(ShortBytes) /\ Len(Fields) \in 6..10
      /\ ToSend \in Seq(ShortBytes) /\ Len(ToSend) <= 13
  BY <1>1, ToSendShort, VFacts, WalletFacts, BigShort, FieldsShort
     DEF RawInv, Types
<1>4. list' = ToSend
  <2>1. CASE wallet.eip155
    <3>1. list = Joined(Fields, Big(wallet.chain), <<>>, <<>>)
      BY <1>2, <2>1, Zenon DEF ToSign
    <3>2. Replaced(Joined(Fields, Big(wallet.chain), <<>>, <<>>),
                   Len(Fields) + 1, Big(V), sig.r, sig.s)
              = Joined(Fields, Big(V), sig.r, sig.s)
      BY <1>3, Empty, ReplaceThree
    <3> QED
      BY <1>1, <2>1, <3>1, <3>2, Zenon DEF ToSend
  <2>2. CASE ~wallet.eip155
    <3>1. list = Fields
      BY <1>2, <2>2, Zenon DEF ToSign
    <3>2. Len(Fields) <= 10
      <4>1. \A n \in 6..10 : n <= 10
        OBVIOUS
      <4> QED
        BY <1>3, <4>1, Zenon
    <3> QED
      BY <1>1, <1>3, <2>2, <3>1, <3>2, AppendThree, Zenon DEF ToSend
  <2> QED
    BY <2>1, <2>2
<1>5. Types'
  BY <1>1 DEF RawInv, Types, Phases, CallOK
<1>6. ListInv'
  BY <1>1, <1>2, <1>3, <1>4, Zenon DEF ListInv, Outside
<1>7. SignedInv'
  BY <1>1, <1>2 DEF RawInv, SignedInv
<1>8. StreamInv'
  BY <1>1 DEF RawInv, StreamInv
<1>9. HeapInv'
  <2>1. lost' + Left' <= (LostPerCall * calls)'
    BY <1>1, NoneLeft DEF RawInv
  <2> QED
    BY <1>1, <2>1 DEF HeapInv, Outside
<1> QED
  BY <1>5, <1>6, <1>7, <1>8, <1>9 DEF RawInv

LEMMA ReEncodeKeeps ==
    ASSUME RawInv, ReEncode
    PROVE  RawInv'
<1>1. /\ wallet' = wallet /\ call' = call /\ list' = list
      /\ sig' = sig /\ signature' = signature /\ digest' = digest
      /\ lost' = lost /\ held' = held /\ calls' = calls
      /\ pc = "reencode" /\ pc' \in {"send", "cleanup"}
      /\ stream' \in {NoStream, Encode(list)}
      /\ pc' = "send" => stream' = Encode(list)
  BY DEF ReEncode, signing
<1>2. ToSign' = ToSign /\ ToSend' = ToSend
  BY <1>1, Same, SameSend, Zenon
<1>3. Types'
  BY <1>1 DEF RawInv, Types, Phases, CallOK
<1>4. ListInv'
  BY <1>1, <1>2 DEF RawInv, ListInv, Outside
<1>5. SignedInv'
  BY <1>1, <1>2 DEF RawInv, SignedInv
<1>6. StreamInv'
  BY <1>1 DEF RawInv, ListInv, StreamInv, Streams
<1>7. HeapInv'
  <2>1. lost' + Left' <= (LostPerCall * calls)'
    BY <1>1, NoneLeft DEF RawInv
  <2> QED
    BY <1>1, <2>1 DEF HeapInv, Outside
<1> QED
  BY <1>3, <1>4, <1>5, <1>6, <1>7 DEF RawInv

LEMMA PostKeeps ==
    ASSUME RawInv, Post
    PROVE  RawInv'
<1>1. /\ wallet' = wallet /\ call' = call /\ list' = list /\ stream' = stream
      /\ sig' = sig /\ signature' = signature /\ digest' = digest
      /\ lost' = lost /\ calls' = calls
      /\ held' \in {held, held \cup {"hex"}}
      /\ pc = "send" /\ pc' = "cleanup"
  BY DEF Post, signing
<1>2. Types' /\ ListInv' /\ SignedInv' /\ StreamInv'
  BY <1>1 DEF RawInv, Types, Phases, CallOK, ListInv, SignedInv, StreamInv,
              Outside
<1>3. HeapInv'
  <2>1. lost' + Left' <= (LostPerCall * calls)'
    BY <1>1, NoneLeft DEF RawInv
  <2> QED
    BY <1>1, <2>1 DEF HeapInv, Outside
<1> QED
  BY <1>2, <1>3 DEF RawInv

LEMMA NothingSet ==
    /\ NoCall \in Payload /\ Len(NoCall.data) <= 16777216
    /\ NoSignature \in Signature
<1>1. 0 \in 0..(Word - 1)
  BY WordFacts
<1>2. Len(<<>>) <= 16777216 /\ <<>> \in Seq(Byte)
  BY Empty, SMT
<1>3. NoCall \in Payload /\ Len(NoCall.data) <= 16777216
  BY <1>1, <1>2 DEF NoCall, Payload, Zero, Byte
<1>4. NoSignature \in Signature
  BY DEF NoSignature, Zero, Signature, Byte
<1> QED
  BY <1>3, <1>4

LEMMA CleanupKeeps ==
    ASSUME RawInv, Cleanup
    PROVE  RawInv'
<1>1. /\ wallet' = wallet /\ call' = NoCall /\ list' = <<>>
      /\ stream' = NoStream /\ signature' = NoSignature /\ sig' = sig
      /\ held' = {} /\ lost' = lost /\ calls' = calls
      /\ pc = "cleanup" /\ pc' = "idle"
  BY DEF Cleanup
<1>2. Types'
  BY <1>1, NothingSet DEF RawInv, Types, Phases, CallOK
<1>3. ListInv'
  <2>1. Len(<<>>) <= 13
    BY Empty, SMT
  <2> QED
    BY <1>1, <2>1, Empty DEF ListInv
<1>4. SignedInv' /\ StreamInv'
  BY <1>1 DEF SignedInv, StreamInv
<1>5. HeapInv'
  <2>1. lost' + Left' <= (LostPerCall * calls)'
    BY <1>1, NoneLeft DEF RawInv
  <2> QED
    BY <1>1, <2>1 DEF HeapInv
<1> QED
  BY <1>2, <1>3, <1>4, <1>5 DEF RawInv

LEMMA CleanupUnsetKeeps ==
    ASSUME RawInv, CleanupUnset
    PROVE  RawInv'
<1>1. /\ wallet' = wallet /\ call' \in {call, NoCall} /\ list' = list
      /\ stream' = stream /\ signature' = signature /\ sig' = sig
      /\ held' = held /\ lost' = lost /\ calls' = calls
      /\ pc = "unset" /\ pc' \in {"idle", "undefined"}
      /\ list = <<>> /\ stream = NoStream /\ held = {}
  BY DEF CleanupUnset, signing, heap, RawInv, ListInv, HeapInv, Outside
<1>2. Types'
  BY <1>1, NothingSet DEF RawInv, Types, Phases, CallOK
<1>3. ListInv'
  <2>1. Len(<<>>) <= 13
    BY Empty, SMT
  <2> QED
    BY <1>1, <2>1, Empty DEF ListInv
<1>4. SignedInv' /\ StreamInv'
  BY <1>1 DEF SignedInv, StreamInv
<1>5. HeapInv'
  <2>1. lost' + Left' <= (LostPerCall * calls)'
    BY <1>1, NoneLeft DEF RawInv
  <2> QED
    BY <1>1, <2>1 DEF HeapInv
<1> QED
  BY <1>2, <1>3, <1>4, <1>5 DEF RawInv

LEMMA StutterKeeps ==
    ASSUME RawInv, UNCHANGED vars
    PROVE  RawInv'
<1>1. /\ wallet' = wallet /\ call' = call /\ list' = list /\ stream' = stream
      /\ sig' = sig /\ signature' = signature /\ digest' = digest
      /\ lost' = lost /\ held' = held /\ calls' = calls /\ pc' = pc
  BY DEF vars
<1>2. Fields' = Fields /\ ToSign' = ToSign /\ ToSend' = ToSend
  BY <1>1, Same, SameSend, Zenon
<1>3. LostPerCall' = LostPerCall /\ Left' = Left
  BY <1>1, Zenon DEF LostPerCall, Left, OfFields, OfData
<1>4. Types' /\ ListInv' /\ SignedInv'
  BY <1>1, <1>2 DEF RawInv, Types, CallOK, ListInv, SignedInv
<1>5. StreamInv' /\ HeapInv'
  BY <1>1, <1>3 DEF RawInv, StreamInv, HeapInv
<1> QED
  BY <1>4, <1>5 DEF RawInv

LEMMA InitHolds ==
    ASSUME Init
    PROVE  RawInv
<1>1. /\ wallet \in Wallets /\ call = NoCall /\ sig = [r |-> <<>>, s |-> <<>>]
      /\ pc = "idle" /\ list = <<>> /\ stream = NoStream
      /\ signature = NoSignature /\ held = {} /\ lost = 0 /\ calls = 0
  BY DEF Init
<1>2. Types
  <2>1. sig \in SigType /\ calls \in 0..MaxCalls
    BY <1>1, RawAssumption DEF SigType
  <2> QED
    BY <1>1, <2>1, NothingSet DEF Types, Phases, CallOK
<1>3. ListInv
  <2>1. Len(<<>>) <= 13
    BY Empty, SMT
  <2> QED
    BY <1>1, <2>1, Empty DEF ListInv
<1>4. SignedInv /\ StreamInv
  BY <1>1 DEF SignedInv, StreamInv
<1>5. HeapInv
  <2>1. Left = 0
    BY <1>1, Zenon DEF Left
  <2>2. PICK k \in {0, 6, 9} : k = LostPerCall
    BY <1>2, LossFacts
  <2>3. 0 + 0 <= k * 0
    BY SMT
  <2>4. lost + Left <= LostPerCall * calls
    BY <1>1, <2>1, <2>2, <2>3, Zenon
  <2> QED
    BY <1>1, <2>4 DEF HeapInv
<1> QED
  BY <1>2, <1>3, <1>4, <1>5 DEF RawInv

LEMMA RawStep ==
    ASSUME RawInv, [Next]_vars
    PROVE  RawInv'
<1>1. CASE \E p \in Payloads : Call(p)
  BY <1>1, CallKeeps
<1>2. CASE Fill
  BY <1>2, FillKeeps
<1>3. CASE InitList
  BY <1>3, InitListKeeps
<1>4. CASE AppendField
  BY <1>4, AppendFieldKeeps
<1>5. CASE NoMemoryForData
  BY <1>5, NoMemoryForDataKeeps
<1>6. CASE AppendChainId
  BY <1>6, AppendChainIdKeeps
<1>7. CASE EncodeList
  BY <1>7, EncodeListKeeps
<1>8. CASE Sign
  BY <1>8, SignKeeps
<1>9. CASE PutSignature
  BY <1>9, PutSignatureKeeps
<1>10. CASE ReEncode
  BY <1>10, ReEncodeKeeps
<1>11. CASE Post
  BY <1>11, PostKeeps
<1>12. CASE Cleanup
  BY <1>12, CleanupKeeps
<1>13. CASE CleanupUnset
  BY <1>13, CleanupUnsetKeeps
<1>14. CASE UNCHANGED vars
  BY <1>14, StutterKeeps
<1> QED
  BY <1>1, <1>2, <1>3, <1>4, <1>5, <1>6, <1>7, <1>8, <1>9, <1>10, <1>11,
     <1>12, <1>13, <1>14 DEF Next

LEMMA RawInvHolds == Spec => []RawInv
BY InitHolds, RawStep, PTL DEF Spec

-----------------------------------------------------------------------------
(* The theorems *)

(* The state of a call stays well typed and the list within its            *)
(* descriptors, whatever fails, and what is sent has three strings besides *)
(* the fields.                                                             *)
THEOREM RawTypeCorrect == Spec => []TypeOK
<1>1. RawInv => TypeOK
  <2> SUFFICES ASSUME RawInv PROVE TypeOK
    OBVIOUS
  <2>1. list \in Seq(Seq(Byte)) /\ Len(list) <= MaxDesc
    <3>1. list \in Seq(ShortBytes) /\ Len(list) <= 13
      BY DEF RawInv, ListInv
    <3>2. ShortBytes \subseteq Seq(Byte)
      BY DEF ShortBytes, Bytes
    <3>3. list \in Seq(Seq(Byte))
      BY <3>1, <3>2, SeqMonotonic
    <3>4. PICK n \in Nat : n = Len(list) /\ n <= 13
      BY <3>1, LenProperties
    <3>5. n <= MaxDesc
      BY <3>4, RawAssumption, SMT
    <3> QED
      BY <3>3, <3>4, <3>5, Zenon
  <2>2. DOMAIN stream = {"size", "bytes"}
    BY DEF RawInv, StreamInv, Streams, Encode, NoStream
  <2>3. pc = "send" => Len(list) = Len(Fields) + 3
    <3> SUFFICES ASSUME pc = "send" PROVE Len(list) = Len(Fields) + 3
      OBVIOUS
    <3>1. list = Joined(Fields, Big(V), sig.r, sig.s)
      BY DEF RawInv, ListInv, ToSend
    <3>2. /\ sig.r \in ShortBytes /\ sig.s \in ShortBytes
          /\ Big(V) \in ShortBytes
          /\ Fields \in Seq(ShortBytes)
      BY ToSendShort, VFacts, FieldsShort DEF RawInv, Types
    <3>3. Len(Joined(Fields, Big(V), sig.r, sig.s)) = Len(Fields) + 3
      <4>1. PICK f \in Seq(ShortBytes), v \in ShortBytes, r \in ShortBytes,
                 x \in ShortBytes :
                f = Fields /\ v = Big(V) /\ r = sig.r /\ x = sig.s
        BY <3>2, Zenon
      <4>2. Len(Joined(f, v, r, x)) = Len(f) + 3
        BY Three
      <4> QED
        BY <4>1, <4>2, Zenon
    <3> QED
      BY <3>1, <3>3
  <2> QED
    BY <2>1, <2>2, <2>3 DEF RawInv, Types, CallOK, Phases, SigType, TypeOK
<1> QED
  BY <1>1, RawInvHolds, PTL

(* The encoder writes as many bytes as it allocated, in every call of      *)
(* every protocol.                                                         *)
THEOREM EveryStreamIsExact == Spec => []StreamExact
<1>1. RawInv => StreamExact
  <2> SUFFICES ASSUME RawInv PROVE StreamExact
    OBVIOUS
  <2>1. CASE stream = NoStream
    BY <2>1, Empty DEF NoStream, StreamExact
  <2>2. CASE stream \in Streams
    <3>1. PICK l \in Seq(ShortBytes) : stream = Encode(l)
      BY <2>2 DEF Streams
    <3>2. l \in Seq(Bytes)
      BY <3>1, SeqMonotonic DEF ShortBytes
    <3> QED
      BY <3>1, <3>2, EncoderIsExact, Zenon DEF StreamExact
  <2> QED
    BY <2>1, <2>2 DEF RawInv, StreamInv
<1> QED
  BY <1>1, RawInvHolds, PTL

LEMMA ShortDecodes ==
    ASSUME NEW l \in Seq(ShortBytes), Len(l) <= 13
    PROVE  Decode(Encode(l).bytes) = l
<1>1. l \in Seq(Bytes)
  BY SeqMonotonic DEF ShortBytes
<1>2. Short(l)
  BY LenProperties, ElementOfSeq DEF Short, ShortBytes
<1>3. \A i \in 1..Len(l) : Len(l[i]) < Limit
  <2> TAKE i \in 1..Len(l)
  <2>1. l[i] \in Bytes /\ Len(l[i]) <= 16777216
    BY <1>1, <1>2, ElementOfSeq DEF Short
  <2>2. PICK n \in Nat : n = Len(l[i]) /\ n <= 16777216
    BY <2>1, BytesAreNat, SMT
  <2> QED
    BY <2>2, SMT DEF Limit
<1> QED
  BY <1>1, <1>2, <1>3, ShortList, DecoderInvertsEncoder

(* What a strict decoder reads from the stream of any call is the list of  *)
(* fields that the call had put together.                                  *)
THEOREM EveryStreamDecodes == Spec => []RoundTrip
<1>1. RawInv => RoundTrip
  <2> SUFFICES ASSUME RawInv, stream # NoStream,
                      pc \in {"append", "sign", "put", "send"}
               PROVE  Decode(stream.bytes) = list
    BY DEF RoundTrip
  <2>1. stream = Encode(list)
    BY DEF RawInv, StreamInv
  <2>2. list \in Seq(ShortBytes) /\ Len(list) <= 13
    BY DEF RawInv, ListInv
  <2> QED
    BY <2>1, <2>2, ShortDecodes, Zenon
<1> QED
  BY <1>1, RawInvHolds, PTL

(* A call that is over holds nothing; only calls of Quorum lose memory,    *)
(* and no more than a fixed number of blocks each.                         *)
THEOREM CallsFreeTheirMemory == Spec => []Freed
<1>1. RawInv => Freed
  <2> SUFFICES ASSUME RawInv PROVE Freed
    OBVIOUS
  <2>1. pc = "idle" => stream = NoStream /\ held = {}
    BY DEF RawInv, HeapInv, Outside
  <2>2. lost <= LostPerCall * calls
    <3>1. PICK most \in Nat : most = LostPerCall * calls
      BY LossFacts DEF RawInv
    <3>2. lost \in Nat /\ lost + Left <= most
      BY <3>1, Zenon DEF RawInv, Types, HeapInv
    <3>3. Left \in Nat
      <4>1. PICK n \in 0..13 : n = Len(list)
        <5>1. list \in Seq(ShortBytes) /\ Len(list) <= 13
          BY DEF RawInv, ListInv
        <5>2. PICK n \in Nat : n = Len(list)
          BY <5>1, LenProperties
        <5>3. n <= 13
          BY <5>1, <5>2, Zenon
        <5>4. n \in 0..13
          BY <5>3, SMT
        <5> QED
          BY <5>2, <5>4, Zenon
      <4>2. wallet.protocol = "quorum" /\ pc = "append" => n <= 6
        <5> SUFFICES ASSUME wallet.protocol = "quorum", pc = "append"
                     PROVE  n <= 6
          OBVIOUS
        <5>1. Len(Fields) = 6 /\ Len(list) <= Len(Fields)
          BY FieldsFacts DEF RawInv, Types, ListInv
        <5> QED
          BY <4>1, <5>1, Zenon
      <4>3. OfData \in 0..1
        BY DEF OfData
      <4>4. wallet.protocol = "quorum" /\ pc = "append" => OfFields \in Nat
        BY <4>1, <4>2 DEF OfFields
      <4>5. /\ wallet.protocol = "quorum" /\ pc = "append" =>
                   OfFields + OfData \in Nat
            /\ 6 + OfData \in Nat
        BY <4>3, <4>4
      <4> QED
        BY <4>5, Zenon DEF Left
    <3>4. PICK m \in Nat : m = Left
      BY <3>3
    <3>5. lost <= most
      BY <3>2, <3>4, SMT
    <3> QED
      BY <3>1, <3>5, Zenon
  <2> QED
    BY <2>1, <2>2 DEF Freed
<1> QED
  BY <1>1, RawInvHolds, PTL

(* What v tells the node, for every supported chain id.                    *)
LEMMA VTells ==
    ASSUME wallet \in Wallets, signature \in Signature, Supported
    PROVE  /\ V # 0
           /\ NodeParity(V) = signature.parity
           /\ ByEip155(V) <=> wallet.eip155
           /\ wallet.eip155 =>
                  NodeInteger((V - 35) \div 2) = Big(wallet.chain)
<1>1. PICK p \in 0..1 : p = signature.parity
  BY SignatureFacts
<1>2. PICK w \in Nat : w = Word /\ w > 255
  BY WordFacts
<1>3. CASE wallet.eip155
  <2>1. PICK c \in 1..((w - 37) \div 2) : c = wallet.chain
    BY <1>2, <1>3, Zenon DEF Supported
  <2>2. c \in Nat /\ c > 0 /\ 2 * c + p + 35 < w
    BY <1>2, SMT
  <2>3. (2 * c + p + 35) % w = 2 * c + p + 35
    <3> DEFINE a == 2 * c + p + 35
    <3>1. a \in Nat /\ a < w /\ w \in Nat /\ w > 0
      BY <1>2, <2>2, SMT
    <3> HIDE DEF a
    <3>2. a % w = a
      BY <3>1, SMT
    <3> QED
      BY <3>2, Zenon DEF a
  <2>4. V = 2 * c + p + 35
    BY <1>1, <1>2, <1>3, <2>1, <2>3, Zenon DEF V
  <2>5. /\ 2 * c + p + 35 >= 35 /\ 2 * c + p + 35 # 0
        /\ ((2 * c + p + 35) - 35) \div 2 = c
        /\ ((2 * c + p + 35) - 35) % 2 = p
    BY <2>2, SMT
  <2>6. ~wallet.private
    BY <1>3, WalletFacts
  <2>7. ByEip155(V)
    BY <2>4, <2>5, <2>6, Zenon DEF ByEip155
  <2>8. c # 0
    BY <2>2, SMT
  <2> QED
    BY <1>1, <1>3, <2>1, <2>4, <2>5, <2>7, <2>8, Zenon
       DEF NodeParity, NodeInteger
<1>4. CASE ~wallet.eip155 /\ wallet.private
  <2>1. V = p + 37
    BY <1>1, <1>4, Zenon DEF V
  <2>2. p + 37 # 0 /\ (p + 37) - 37 = p
    BY SMT
  <2>3. ~ByEip155(V)
    BY <1>4, Zenon DEF ByEip155
  <2> QED
    BY <1>1, <1>4, <2>1, <2>2, <2>3, Zenon DEF NodeParity
<1>5. CASE ~wallet.eip155 /\ ~wallet.private
  <2>1. V = p + 27
    BY <1>1, <1>5, Zenon DEF V
  <2>2. p + 27 # 0 /\ (p + 27) - 27 = p /\ ~(p + 27 >= 35)
    BY SMT
  <2>3. ~ByEip155(V)
    BY <2>1, <2>2, Zenon DEF ByEip155
  <2> QED
    BY <1>1, <1>5, <2>1, <2>2, <2>3, Zenon DEF NodeParity
<1> QED
  BY <1>3, <1>4, <1>5

LEMMA SentFacts ==
    ASSUME RawInv, pc = "send"
    PROVE  /\ Unsigned(list) = Fields
           /\ NodeV(list) = V
           /\ list[Len(list) - 2] = Big(V)
           /\ list[Len(list) - 1] = Trim(signature.r)
           /\ list[Len(list)] = Trim(signature.s)
<1>1. list = ToSend /\ sig.r = Trim(signature.r) /\ sig.s = Trim(signature.s)
  BY DEF RawInv, ListInv, SignedInv
<1>2. sig.r \in ShortBytes /\ sig.s \in ShortBytes /\ Big(V) \in ShortBytes
      /\ V \in 0..(Word - 1) /\ Fields \in Seq(ShortBytes)
  BY ToSendShort, VFacts, FieldsShort DEF RawInv, Types
<1>3. LET t == Joined(Fields, Big(V), sig.r, sig.s)
      IN  /\ Unsigned(t) = Fields
          /\ t[Len(t) - 2] = Big(V) /\ t[Len(t) - 1] = sig.r
          /\ t[Len(t)] = sig.s
  <2>1. PICK f \in Seq(ShortBytes), v \in ShortBytes, r \in ShortBytes,
             x \in ShortBytes :
            f = Fields /\ v = Big(V) /\ r = sig.r /\ x = sig.s
    BY <1>2, Zenon
  <2>2. LET t == Joined(f, v, r, x)
        IN  /\ Unsigned(t) = f
            /\ t[Len(t) - 2] = v /\ t[Len(t) - 1] = r /\ t[Len(t)] = x
    BY TakeOff
  <2> QED
    BY <2>1, <2>2, Zenon
<1>4. Num(Big(V)) = V
  BY <1>2, BigWord
<1> QED
  BY <1>1, <1>3, <1>4, Zenon DEF ToSend, NodeV

(* The signature of every transaction that is sent verifies: the node      *)
(* rebuilds what was hashed and reads the signature as it was made.        *)
THEOREM SignaturesVerify == Spec => []SignatureHolds
<1>1. RawInv => SignatureHolds
  <2> SUFFICES ASSUME RawInv, pc = "send", Supported
               PROVE  /\ digest = Encode(Believed(list)).bytes
                      /\ NodeParity(NodeV(list)) = signature.parity
                      /\ Padded(list[Len(list) - 1]) = signature.r
                      /\ Padded(list[Len(list)]) = signature.s
    BY DEF SignatureHolds
  <2>1. digest = Encode(ToSign).bytes
    BY DEF RawInv, SignedInv
  <2>2. /\ NodeParity(V) = signature.parity
        /\ ByEip155(V) <=> wallet.eip155
        /\ wallet.eip155 => NodeInteger((V - 35) \div 2) = Big(wallet.chain)
    BY VTells DEF RawInv, Types
  <2>3. Believed(list) = ToSign
    BY <2>2, SentFacts, Zenon DEF Believed, ToSign, Joined
  <2>4. /\ Padded(Trim(signature.r)) = signature.r
        /\ Padded(Trim(signature.s)) = signature.s
    BY SignatureFacts, TrimFacts DEF RawInv, Types
  <2> QED
    BY <2>1, <2>2, <2>3, <2>4, SentFacts, Zenon
<1> QED
  BY <1>1, RawInvHolds, PTL

(* No integer that is sent begins with a zero, but for the two fields that *)
(* the application may set to zero and the nonce that FISCO-BCOS takes     *)
(* from the random generator as it is.                                     *)
THEOREM IntegersAreCanonical == Spec => []Canonical
<1>1. RawInv => Canonical
  <2> SUFFICES ASSUME RawInv, pc = "send", Supported
               PROVE  \A i \in DOMAIN list : Lean(list[i], i)
    BY Zenon DEF Canonical, Lean
  <2>1. /\ list = Joined(Fields, Big(V), sig.r, sig.s)
        /\ sig.r = Trim(signature.r) /\ sig.s = Trim(signature.s)
    BY DEF RawInv, ListInv, SignedInv, ToSend
  <2>2. /\ sig.r \in ShortBytes /\ sig.s \in ShortBytes
        /\ Big(V) \in ShortBytes /\ V \in 0..(Word - 1)
        /\ Fields \in Seq(ShortBytes)
    BY ToSendShort, VFacts, FieldsShort DEF RawInv, Types
  <2>3. PICK n \in Nat : n = Len(Fields)
    BY <2>2, LenProperties
  <2>4. /\ list \in Seq(ShortBytes)
        /\ Len(list) = n + 3
        /\ \A i \in 1..n : list[i] = Fields[i]
        /\ list[n + 1] = Big(V) /\ list[n + 2] = sig.r /\ list[n + 3] = sig.s
    <3> DEFINE t == Joined(Fields, Big(V), sig.r, sig.s)
    <3>1. /\ t \in Seq(ShortBytes) /\ Len(t) = Len(Fields) + 3
          /\ \A i \in 1..Len(Fields) : t[i] = Fields[i]
          /\ t[Len(Fields) + 1] = Big(V) /\ t[Len(Fields) + 2] = sig.r
          /\ t[Len(Fields) + 3] = sig.s
      <4>1. PICK f \in Seq(ShortBytes), v \in ShortBytes, r \in ShortBytes,
                 x \in ShortBytes :
                f = Fields /\ v = Big(V) /\ r = sig.r /\ x = sig.s
        BY <2>2, Zenon
      <4>2. /\ Joined(f, v, r, x) \in Seq(ShortBytes)
            /\ Len(Joined(f, v, r, x)) = Len(f) + 3
            /\ \A i \in 1..Len(f) : Joined(f, v, r, x)[i] = f[i]
            /\ Joined(f, v, r, x)[Len(f) + 1] = v
            /\ Joined(f, v, r, x)[Len(f) + 2] = r
            /\ Joined(f, v, r, x)[Len(f) + 3] = x
        BY Three
      <4> QED
        BY <4>1, <4>2, Zenon
    <3> HIDE DEF t
    <3> QED
      BY <2>1, <2>3, <3>1, Zenon DEF t
  <2>5. \A i \in 1..n : Lean(Fields[i], i)
    BY <2>3, FieldsFacts, Zenon DEF RawInv, Types, Good
  <2>6. Lean(Big(V), n + 1) /\ Lean(sig.r, n + 2) /\ Lean(sig.s, n + 3)
    <3>1. V # 0
      BY VTells DEF RawInv, Types
    <3>2. Big(V)[1] # 0
      BY <2>2, <3>1, BigWord
    <3>3. signature.r \in [1..32 -> Byte] /\ signature.s \in [1..32 -> Byte]
      BY SignatureFacts DEF RawInv, Types
    <3>4. /\ sig.r = <<>> \/ sig.r[1] # 0
          /\ sig.s = <<>> \/ sig.s[1] # 0
      BY <2>1, <3>3, TrimFacts, Zenon
    <3> QED
      BY <3>2, <3>4, Zenon DEF Lean
  <2>7. DOMAIN list = 1..(n + 3)
    BY <2>4, LenProperties
  <2>8. \A i \in 1..(n + 3) :
            i \in 1..n \/ i = n + 1 \/ i = n + 2 \/ i = n + 3
    BY SMT
  <2> QED
    BY <2>4, <2>5, <2>6, <2>7, <2>8, Zenon
<1> QED
  BY <1>1, RawInvHolds, PTL

-----------------------------------------------------------------------------
(* The protocols *)

LEMMA QuorumIsRawTx ==
    ASSUME RawInv, QuorumSendRawtx
    PROVE  Next
<1>1. Fields = QuorumFields /\ wallet.protocol = "quorum"
  BY DEF QuorumSendRawtx, Fields
<1>2. Len(Fields) = 6
  BY <1>1, FieldsFacts DEF RawInv, Types
<1>3. wallet.eip155 \in BOOLEAN /\ wallet.private \in BOOLEAN
  BY WalletFacts DEF RawInv, Types
<1>4. CASE Fill
  BY <1>4 DEF Next
<1>5. CASE QuorumField
  <2>1. EncodeEach
    BY <1>5 DEF QuorumField, EncodeEach
  <2> QED
    BY <1>1, <1>5, <2>1, Zenon DEF QuorumField, AppendField, Next
<1>6. CASE InitList \/ NoMemoryForData
  BY <1>6 DEF Next
<1>7. CASE QuorumChainId
  BY <1>7 DEF QuorumChainId, Next
<1>8. CASE QuorumSign
  BY <1>8 DEF QuorumSign, Next
<1>9. CASE QuorumSignature
  <2>1. QuorumV = V
    <3>1. CASE wallet.eip155
      BY <3>1, Zenon DEF QuorumV, V
    <3>2. CASE ~wallet.eip155 /\ wallet.private
      BY <3>2, Zenon DEF QuorumV, V
    <3>3. CASE ~wallet.eip155 /\ ~wallet.private
      BY <3>3, Zenon DEF QuorumV, V
    <3> QED
      BY <1>3, <3>1, <3>2, <3>3
  <2>2. 7 = Len(Fields) + 1
    BY <1>2
  <2> QED
    BY <1>9, <2>1, <2>2, Zenon DEF QuorumSignature, PutSignature, Next
<1>10. CASE QuorumPost
  BY <1>10 DEF QuorumPost, Next
<1>11. CASE QuorumCleanup
  BY <1>11 DEF QuorumCleanup, Next
<1> QED
  BY <1>4, <1>5, <1>6, <1>7, <1>8, <1>9, <1>10, <1>11
     DEF QuorumSendRawtx, QuorumList

LEMMA FiscobcosIsRawTx ==
    ASSUME RawInv, FiscobcosSendRawtx
    PROVE  Next
<1>1. wallet.protocol = "fiscobcos" /\ Fields = FiscobcosFields
  BY DEF FiscobcosSendRawtx, Fields
<1>2. ~wallet.eip155 /\ ~wallet.private
  BY <1>1, RawAssumption DEF RawInv, Types
<1>3. Len(Fields) = 10
  BY <1>1, EmptySeq DEF FiscobcosFields
<1>4. CASE FiscobcosList
  BY <1>4 DEF FiscobcosList, Next
<1>5. CASE FiscobcosEncode
  <2>1. stream = NoStream
    BY <1>1, <1>5 DEF FiscobcosEncode, RawInv, StreamInv
  <2>2. lost' = lost + Unreached
    BY <1>5, <2>1 DEF FiscobcosEncode, Unreached, RawInv, Types
  <2> QED
    BY <1>2, <1>3, <1>5, <2>2, Zenon DEF FiscobcosEncode, EncodeList, Next
<1>6. CASE FiscobcosSign
  BY <1>6 DEF FiscobcosSign, Next
<1>7. CASE FiscobcosSignature
  <2>1. V = signature.parity + 27
    BY <1>2, Zenon DEF V
  <2> QED
    BY <1>2, <1>7, <2>1, Zenon DEF FiscobcosSignature, PutSignature, Next
<1>8. CASE FiscobcosPost
  BY <1>8 DEF FiscobcosPost, Next
<1>9. CASE FiscobcosCleanup
  BY <1>9 DEF FiscobcosCleanup, Next
<1> QED
  BY <1>4, <1>5, <1>6, <1>7, <1>8, <1>9 DEF FiscobcosSendRawtx

LEMMA SendIsRawTx ==
    ASSUME RawInv, [SendRawtx]_vars
    PROVE  [Next]_vars
<1>1. CASE \E p \in Payloads : Call(p)
  BY <1>1 DEF Next
<1>2. CASE EthSendRawtx
  BY <1>2 DEF EthSendRawtx, Next
<1>3. CASE PlatONSendRawtx
  BY <1>3 DEF PlatONSendRawtx, PlatonList, PlatonChainId, PlatonSign,
              PlatonSignature, PlatonPost, PlatonCleanup, Next
<1>4. CASE VenachainSendRawtx
  BY <1>4 DEF VenachainSendRawtx, VenachainList, VenachainChainId,
              VenachainSign, VenachainSignature, VenachainPost,
              VenachainCleanup, Next
<1>5. CASE PlatoneSendRawtx
  BY <1>5 DEF PlatoneSendRawtx, PlatoneList, PlatoneChainId, PlatoneSign,
              PlatoneSignature, PlatonePost, PlatoneCleanup, Next
<1>6. CASE QuorumSendRawtx
  BY <1>6, QuorumIsRawTx
<1>7. CASE FiscobcosSendRawtx
  BY <1>7, FiscobcosIsRawTx
<1>8. CASE UNCHANGED vars
  BY <1>8
<1> QED
  BY <1>1, <1>2, <1>3, <1>4, <1>5, <1>6, <1>7, <1>8 DEF SendRawtx

(* The six XSendRawtx, written from six files, are one algorithm: each of  *)
(* them behaves as the call of RawTx with the fields of its protocol, and  *)
(* the theorems above hold of it.                                          *)
THEOREM ProtocolsSendAlike == SendSpec => Spec /\ []RawInv
<1>1. SendSpec => []RawInv
  <2>1. RawInv /\ [SendRawtx]_vars => RawInv'
    BY SendIsRawTx, RawStep
  <2> QED
    BY <2>1, InitHolds, PTL DEF SendSpec
<1>2. RawInv /\ [SendRawtx]_vars => [Next]_vars
  BY SendIsRawTx
<1> QED
  BY <1>1, <1>2, PTL DEF SendSpec, Spec
=============================================================================
