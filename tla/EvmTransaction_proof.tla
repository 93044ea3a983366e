------------------------ MODULE EvmTransaction_proof ------------------------
(***************************************************************************)
(* Proofs about EvmTransaction, for any keys, chains, requests and number  *)
(* of signatures, words of any size and data of any length that fits into  *)
(* memory:                                                                 *)
(*   - what rlp_encode_list writes is read back, and as nothing else;      *)
(*   - a node reads from a transaction what was asked for, and hashes what *)
(*     was signed;                                                         *)
(*   - messages, typed data and transactions are told apart;               *)
(*   - a token contract reads from a call what was written into it.        *)
(***************************************************************************)
EXTENDS EvmTransaction, Bytes_proof

-----------------------------------------------------------------------------
(* Lengths *)

LEMMA LengthBytes ==
  ASSUME NEW n \in Nat, n < Values(U64Size)
  PROVE  /\ encode_length(n) \in Seq(Octet)
         /\ Len(encode_length(n)) <= U64Size
         /\ IsCanonical(encode_length(n))
         /\ Number(encode_length(n)) = n
         /\ NodeBytes(n) = encode_length(n)
<1>1. U64Size \in Nat /\ U256Size \in Nat /\ U256Size - U64Size \in Nat
  BY EvmAssumption
<1>2. Values(U64Size) <= Values(U256Size)
  <2>1. Values(U64Size) <= Values(U64Size + (U256Size - U64Size))
    BY <1>1, ValuesGrow
  <2>2. U64Size + (U256Size - U64Size) = U256Size
    BY <1>1
  <2> QED
    BY <2>1, <2>2
<1>3. Values(U64Size) \in Nat /\ Values(U256Size) \in Nat
  BY <1>1, ValuesFacts
<1>4. n < Values(U256Size)
  BY <1>2, <1>3
<1>5. ASSUME NEW k \in Nat, n < Values(k)
      PROVE  /\ Stripped(BigEndian(n, k)) \in Seq(Octet)
             /\ Len(Stripped(BigEndian(n, k))) <= k
             /\ IsCanonical(Stripped(BigEndian(n, k)))
             /\ Number(Stripped(BigEndian(n, k))) = n
  <2>1. BigEndian(n, k) \in Seq(Octet) /\ Len(BigEndian(n, k)) = k
    BY BigEndianType
  <2>2. Number(BigEndian(n, k)) = n
    BY <1>5, BigEndianNumber
  <2>3. Len(Stripped(BigEndian(n, k))) <= Len(BigEndian(n, k))
    BY <2>1, StrippedFacts
  <2>4. Number(Stripped(BigEndian(n, k))) = Number(BigEndian(n, k))
    BY <2>1, StrippedFacts
  <2>5. Stripped(BigEndian(n, k)) \in Seq(Octet)
    BY <2>1, StrippedFacts
  <2>6. IsCanonical(Stripped(BigEndian(n, k)))
    BY <2>1, StrippedFacts
  <2> QED
    BY <2>1, <2>2, <2>3, <2>4, <2>5, <2>6
<1>6. /\ encode_length(n) \in Seq(Octet)
      /\ Len(encode_length(n)) <= U64Size
      /\ IsCanonical(encode_length(n))
      /\ Number(encode_length(n)) = n
  BY <1>1, <1>5 DEF encode_length
<1>7. NodeBytes(n) \in Seq(Octet) /\ IsCanonical(NodeBytes(n)) /\ Number(NodeBytes(n)) = n
  BY <1>1, <1>4, <1>5 DEF NodeBytes
<1>8. NodeBytes(n) = encode_length(n)
  BY <1>6, <1>7, CanonicalUnique
<1> QED
  BY <1>6, <1>8
-----------------------------------------------------------------------------
(* What a node reads where a string or a list of strings begins. *)

Item == {x \in [list : BOOLEAN, bytes : Seq(Octet)] :
           Len(x.bytes) < Values(U64Size) /\ (x.list => x.bytes = << >>)}

Encoding(x) == IF x.list THEN <<192>> ELSE rlp_encode_item(x.bytes)

Body(list, bytes, next) == {<<[list |-> list, bytes |-> bytes], next>>}

LEMMA BodyRead ==
  ASSUME NEW m \in Seq(Octet), NEW from \in Nat \ {0}, NEW bytes \in Seq(Octet),
         Holds(m, from, bytes)
  PROVE  /\ RlpBody(m, FALSE, from, Len(bytes)) = Body(FALSE, bytes, from + Len(bytes))
         /\ RlpBody(m, TRUE, from, Len(bytes)) = Body(TRUE, bytes, from + Len(bytes))
<1>1. SubSeq(m, from, from + Len(bytes) - 1) = bytes
  BY HoldsSubSeq
<1>2. from + Len(bytes) <= Len(m) + 1 /\ Len(bytes) \in Nat /\ Len(m) \in Nat
  BY DEF Holds
<1>3. ~(from + Len(bytes) > Len(m) + 1)
  BY <1>2
<1>4. RlpBody(m, FALSE, from, Len(bytes)) = Body(FALSE, bytes, from + Len(bytes))
  BY <1>1, <1>3, Zenon DEF RlpBody, Body
<1>5. RlpBody(m, TRUE, from, Len(bytes)) = Body(TRUE, bytes, from + Len(bytes))
  BY <1>1, <1>3, Zenon DEF RlpBody, Body
<1> QED
  BY <1>4, <1>5

LEMMA LengthBytesLong ==
  ASSUME NEW n \in Nat, n < Values(U64Size), n > 55
  PROVE  Len(encode_length(n)) \in 1..8 /\ encode_length(n)[1] # 0
<1>1. encode_length(n) \in Seq(Octet) /\ Len(encode_length(n)) <= U64Size
  BY LengthBytes
<1>2. IsCanonical(encode_length(n))
  BY LengthBytes
<1>3. Number(encode_length(n)) = n
  BY LengthBytes
<1>4. encode_length(n) # << >>
  <2>1. 256 \in Nat
    OBVIOUS
  <2>2. Number(<< >>) = 0
    BY <2>1, NumberOfNothing DEF Number
  <2> QED
    BY <1>3, <2>2
<1>5. Len(encode_length(n)) # 0 /\ Len(encode_length(n)) \in Nat
  BY <1>1, <1>4, EmptySeq
<1>6. encode_length(n)[1] # 0
  BY <1>2, <1>4, Zenon DEF IsCanonical
<1>7. PICK k \in Nat : k = Len(encode_length(n))
  BY <1>5
<1>8. k <= U64Size /\ k # 0 /\ U64Size \in 1..8
  BY <1>1, <1>5, <1>7, EvmAssumption
<1>9. k \in 1..8
  BY <1>8
<1> QED
  BY <1>6, <1>7, <1>9

(* The size in front of a long string or list is read.                     *)
LEMMA LongRead ==
  ASSUME NEW m \in Seq(Octet), NEW at \in Nat \ {0}, NEW bytes \in Seq(Octet),
         Len(bytes) < Values(U64Size), Len(bytes) > 55,
         Holds(m, at, encode_length(Len(bytes)) \o bytes)
  PROVE  /\ RlpLong(m, FALSE, at, Len(encode_length(Len(bytes)))) =
              Body(FALSE, bytes, at + (Len(encode_length(Len(bytes))) + Len(bytes)))
         /\ RlpLong(m, TRUE, at, Len(encode_length(Len(bytes)))) =
              Body(TRUE, bytes, at + (Len(encode_length(Len(bytes))) + Len(bytes)))
<1>0. PICK n \in Nat : n = Len(bytes)
  OBVIOUS
<1>a. PICK l \in Seq(Octet) : l = encode_length(n)
  BY <1>0, LengthBytes
<1>b. Len(l) \in 1..8 /\ l[1] # 0
  BY <1>0, <1>a, LengthBytesLong
<1>c. Len(l) <= U64Size
  BY <1>0, <1>a, LengthBytes
<1>d. Number(l) = n
  BY <1>0, <1>a, LengthBytes
<1>w. PICK w \in 1..8 : w = Len(l)
  BY <1>b
<1>1. Holds(m, at, l) /\ Holds(m, at + Len(l), bytes)
  <2>1. Holds(m, at, l \o bytes) /\ at \in Nat
    BY <1>0, <1>a
  <2> QED
    BY <2>1, HoldsConcat
<1>2. SubSeq(m, at, at + w - 1) = l
  BY <1>1, <1>w, HoldsSubSeq
<1>n. at + w \in Nat \ {0} /\ Holds(m, at + w, bytes) /\ (at + w) + n = at + (w + n)
  BY <1>1, <1>w
<1>3. RlpBody(m, FALSE, at + w, n) = Body(FALSE, bytes, (at + w) + n)
  BY <1>0, <1>n, BodyRead
<1>t. RlpBody(m, TRUE, at + w, n) = Body(TRUE, bytes, (at + w) + n)
  BY <1>0, <1>n, BodyRead
<1>4. at + w <= Len(m) + 1 /\ Len(m) \in Nat
  BY <1>1, <1>w DEF Holds
<1>5. m[at] # 0
  <2>1. 1 \in 1..w /\ at + 1 - 1 = at
    OBVIOUS
  <2>2. m[at] = l[1]
    BY <1>1, <1>w, <2>1 DEF Holds
  <2> QED
    BY <1>b, <2>2
<1>6. ~(w > U64Size \/ at + w > Len(m) + 1 \/ m[at] = 0)
  BY <1>c, <1>w, <1>4, <1>5, EvmAssumption
<1>7. Number(SubSeq(m, at, at + w - 1)) > 55 /\ Number(SubSeq(m, at, at + w - 1)) = n
  BY <1>0, <1>2, <1>d
<1>8. RlpLong(m, FALSE, at, w) = RlpBody(m, FALSE, at + w, n)
  BY <1>6, <1>7, Zenon DEF RlpLong
<1>9. RlpLong(m, TRUE, at, w) = RlpBody(m, TRUE, at + w, n)
  BY <1>6, <1>7, Zenon DEF RlpLong
<1> QED
  BY <1>0, <1>a, <1>w, <1>n, <1>3, <1>t, <1>8, <1>9

ByteAt(m, at, b) == at <= Len(m) /\ m[at] = b

LEMMA FromString ==
  ASSUME NEW m \in Seq(Octet), NEW at \in Nat \ {0}, NEW b \in Nat, ByteAt(m, at, b), b < 192
  PROVE  RlpAt(m, at) = RlpString(m, at, b)
<1>1. ~(at > Len(m))
  <2>1. Len(m) \in Nat
    OBVIOUS
  <2> QED
    BY <2>1 DEF ByteAt
<1> QED
  BY <1>1, Zenon DEF RlpAt, ByteAt

LEMMA FromItems ==
  ASSUME NEW m \in Seq(Octet), NEW at \in Nat \ {0}, NEW b \in Nat, ByteAt(m, at, b), b >= 192
  PROVE  RlpAt(m, at) = RlpItems(m, at, b)
<1>1. ~(at > Len(m)) /\ ~(b < 192)
  <2>1. Len(m) \in Nat
    OBVIOUS
  <2> QED
    BY <2>1 DEF ByteAt
<1> QED
  BY <1>1, Zenon DEF RlpAt, ByteAt

BodyShort(m, at, b) == RlpString(m, at, b) = RlpBody(m, FALSE, at + 1, b - 128)

LEMMA ShortString ==
  ASSUME NEW m, NEW at, NEW b, ~(b < 128), b # 129, b < 184
  PROVE  BodyShort(m, at, b)
BY ZenonT(40) DEF RlpString, BodyShort

LEMMA PairString ==
  ASSUME NEW m \in Seq(Octet), NEW at \in Nat \ {0}
  PROVE  RlpString(m, at, 129) = {r \in RlpBody(m, FALSE, at + 1, 1) : r[1].bytes[1] >= 128}
<1>0. PICK b \in Nat : b = 129
  OBVIOUS
<1>1. ~(b < 128) /\ b = 129
  BY <1>0
<1>2. RlpString(m, at, b) = {r \in RlpBody(m, FALSE, at + 1, 1) : r[1].bytes[1] >= 128}
  BY <1>1, Zenon DEF RlpString
<1> QED
  BY <1>1, <1>2, Zenon

LEMMA LongString ==
  \A m, at, b : ~(b < 128) /\ b # 129 /\ ~(b < 184)
                 => RlpString(m, at, b) = RlpLong(m, FALSE, at + 1, b - 183)
BY ZenonT(40) DEF RlpString

LEMMA ShortItems ==
  \A m, at, b : b < 248 => RlpItems(m, at, b) = RlpBody(m, TRUE, at + 1, b - 192)
BY Zenon DEF RlpItems

BeginsLongItems(m, at, b) == RlpItems(m, at, b) = RlpLong(m, TRUE, at + 1, b - 247)

LEMMA LongItems == \A m, at, b : ~(b < 248) => BeginsLongItems(m, at, b)
BY Zenon DEF RlpItems, BeginsLongItems

LEMMA HoldsAfter ==
  ASSUME NEW m \in Seq(Octet), NEW at \in Nat \ {0}, NEW b, NEW rest \in Seq(Octet), b \in Octet,
         Holds(m, at, <<b>> \o rest)
  PROVE  ByteAt(m, at, b) /\ Holds(m, at + 1, rest)
<1>1. <<b>> \in Seq(Octet) /\ Len(<<b>>) = 1 /\ <<b>>[1] = b /\ at \in Nat
  OBVIOUS
<1>2. Holds(m, at, <<b>>) /\ Holds(m, at + 1, rest)
  BY <1>1, HoldsConcat
<1>3. at + 1 <= Len(m) + 1 /\ \A i \in 1..1 : m[at + i - 1] = <<b>>[i]
  BY <1>1, <1>2, Zenon DEF Holds
<1>4. 1 \in 1..1 /\ at + 1 - 1 = at
  OBVIOUS
<1>5. m[at] = b
  BY <1>1, <1>3, <1>4
<1>6. Len(m) \in Nat
  OBVIOUS
<1>7. at <= Len(m)
  BY <1>3, <1>6
<1> QED
  BY <1>2, <1>5, <1>7 DEF ByteAt

(* The first byte gives a size.                                            *)
Begins(b, base, size) == b = base + size

LEMMA SingleRead ==
  ASSUME NEW m \in Seq(Octet), NEW at \in Nat \ {0}, NEW s \in Seq(Octet), Len(s) = 1, s[1] < 128,
         Holds(m, at, s)
  PROVE  RlpAt(m, at) = Body(FALSE, s, at + 1)
<1>1. at + 1 <= Len(m) + 1 /\ m[at] = s[1] /\ Len(m) \in Nat
  <2>1. 1 \in 1..1 /\ at + 1 - 1 = at
    OBVIOUS
  <2> QED
    BY <2>1 DEF Holds
<1>2. ~(at > Len(m)) /\ m[at] < 128 /\ m[at] < 192
  <2>1. s[1] \in Octet
    <3>1. \A i \in 1..Len(s) : s[i] \in Octet
      BY Elements
    <3>2. 1 \in 1..Len(s)
      OBVIOUS
    <3> QED
      BY <3>1, <3>2
  <2>2. s[1] \in Nat
    BY <2>1, OctetNumber, Zenon
  <2> QED
    BY <1>1, <2>2
<1>3. RlpBody(m, FALSE, at, Len(s)) = Body(FALSE, s, at + Len(s))
  BY BodyRead
<1> QED
  BY <1>2, <1>3, Zenon DEF RlpAt, RlpString

(* A string or list of up to 55 bytes is read at a place.                  *)
ShortBodyAt(list, m, at, s, n) == RlpAt(m, at) = Body(list, s, at + (1 + n))

LEMMA ShortRead ==
  ASSUME NEW m \in Seq(Octet), NEW at \in Nat \ {0}, NEW s \in Seq(Octet), NEW n \in Nat, n <= 55,
         n = Len(s), n = 1 => s[1] >= 128, NEW b \in Nat, Begins(b, 128, n),
         ByteAt(m, at, b), Holds(m, at + 1, s)
  PROVE  ShortBodyAt(FALSE, m, at, s, n)
<1> SUFFICES RlpAt(m, at) = Body(FALSE, s, at + (1 + n))
  BY Zenon DEF ShortBodyAt
<1>1. at + 1 \in Nat \ {0} /\ (at + 1) + n = at + (1 + n)
  OBVIOUS
<1>b. ~(b < 128) /\ b < 184 /\ b < 192
  BY DEF Begins
<1>n. b - 128 = n
  BY DEF Begins
<1>2. RlpBody(m, FALSE, at + 1, Len(s)) = Body(FALSE, s, (at + 1) + Len(s))
  BY <1>1, BodyRead
<1>3. RlpBody(m, FALSE, at + 1, n) = Body(FALSE, s, at + (1 + n))
  BY <1>1, <1>2, Zenon
<1>4. RlpAt(m, at) = RlpString(m, at, b)
  BY <1>b, FromString
<1>5. CASE n = 1
  <2>1. \A r \in Body(FALSE, s, at + (1 + n)) : r[1].bytes = s
    BY DEF Body
  <2>2. {r \in Body(FALSE, s, at + (1 + n)) : r[1].bytes[1] >= 128} = Body(FALSE, s, at + (1 + n))
    BY <1>5, <2>1
  <2>3. b = 129
    BY <1>5 DEF Begins
  <2>4. RlpString(m, at, b) = {r \in RlpBody(m, FALSE, at + 1, 1) : r[1].bytes[1] >= 128}
    BY <2>3, PairString, Zenon
  <2> QED
    BY <1>3, <1>4, <1>5, <2>2, <2>4, Zenon
<1>6. CASE n # 1
  <2>1. b # 129
    BY <1>n, <1>6
  <2>2. BodyShort(m, at, b)
    BY <1>b, <2>1, ShortString
  <2> QED
    BY <1>n, <1>3, <1>4, <2>2, Zenon DEF BodyShort
<1> QED
  BY <1>5, <1>6

LEMMA ShortListRead ==
  ASSUME NEW m \in Seq(Octet), NEW at \in Nat \ {0}, NEW s \in Seq(Octet), NEW n \in Nat, n <= 55,
         n = Len(s), NEW b \in Nat, Begins(b, 192, n), ByteAt(m, at, b), Holds(m, at + 1, s)
  PROVE  ShortBodyAt(TRUE, m, at, s, n)
<1> SUFFICES RlpAt(m, at) = Body(TRUE, s, at + (1 + n))
  BY Zenon DEF ShortBodyAt
<1>1. at + 1 \in Nat \ {0} /\ (at + 1) + n = at + (1 + n)
  OBVIOUS
<1>b. b >= 192
  BY DEF Begins
<1>c. b < 248
  BY DEF Begins
<1>n. b - 192 = n
  BY DEF Begins
<1>2. RlpBody(m, TRUE, at + 1, Len(s)) = Body(TRUE, s, (at + 1) + Len(s))
  BY <1>1, BodyRead
<1>3. RlpAt(m, at) = RlpItems(m, at, b)
  BY <1>b, <1>c, FromItems
<1>4. RlpItems(m, at, b) = RlpBody(m, TRUE, at + 1, b - 192)
  BY <1>c, ShortItems, ZenonT(40)
<1> QED
  BY <1>1, <1>n, <1>2, <1>3, <1>4, Zenon

ReadsString(m, at, s, size) == RlpAt(m, at) = Body(FALSE, s, at + size)

ReadsList(m, at, s, size) == RlpAt(m, at) = Body(TRUE, s, at + size)

LEMMA SumOfSizes == \A i, w, n \in Nat : (i + 1) + (w + n) = i + (1 + (w + n))
OBVIOUS

LongAt(m, at, b, base, w, s) ==
    /\ Len(s) > 55 /\ Len(s) < Values(U64Size)
    /\ w \in Nat /\ 1 <= w /\ w <= 8 /\ w = Len(encode_length(Len(s)))
    /\ b \in Nat /\ Begins(b, base, w) /\ ByteAt(m, at, b)
    /\ Holds(m, at + 1, encode_length(Len(s)) \o s)

LEMMA LongStringRead ==
  ASSUME NEW m \in Seq(Octet), NEW at \in Nat \ {0}, NEW s \in Seq(Octet), NEW w, NEW b,
         LongAt(m, at, b, 183, w, s)
  PROVE  ReadsString(m, at, s, 1 + (w + Len(s)))
<1>s. Len(s) > 55 /\ Len(s) < Values(U64Size)
  BY Zenon DEF LongAt
<1>w. w \in Nat /\ 1 <= w /\ w <= 8 /\ w = Len(encode_length(Len(s)))
  BY Zenon DEF LongAt
<1>e. b \in Nat /\ Begins(b, 183, w) /\ ByteAt(m, at, b)
  BY Zenon DEF LongAt
<1>h. Holds(m, at + 1, encode_length(Len(s)) \o s)
  BY Zenon DEF LongAt
<1>1. at + 1 \in Nat \ {0}
  OBVIOUS
<1>b. b >= 184
  BY <1>w, <1>e DEF Begins
<1>c. b < 192
  BY <1>w, <1>e DEF Begins
<1>n. b - 183 = w
  BY <1>w, <1>e DEF Begins
<1>2. RlpLong(m, FALSE, at + 1, Len(encode_length(Len(s)))) =
        Body(FALSE, s, (at + 1) + (Len(encode_length(Len(s))) + Len(s)))
  BY <1>1, <1>s, <1>h, LongRead
<1>3. RlpAt(m, at) = RlpString(m, at, b)
  BY <1>b, <1>c, <1>e, FromString
<1>4. RlpString(m, at, b) = RlpLong(m, FALSE, at + 1, b - 183)
  <2>1. ~(b < 128) /\ b # 129 /\ ~(b < 184)
    BY <1>b, <1>e
  <2> QED
    BY <2>1, LongString, ZenonT(40)
<1>5. RlpAt(m, at) = Body(FALSE, s, (at + 1) + (w + Len(s)))
  BY <1>w, <1>n, <1>2, <1>3, <1>4, Zenon
<1>6. (at + 1) + (w + Len(s)) = at + (1 + (w + Len(s)))
  <2>1. at \in Nat /\ Len(s) \in Nat
    OBVIOUS
  <2> QED
    BY <1>w, <2>1, SumOfSizes, Zenon
<1> QED
  BY <1>5, <1>6, Zenon DEF ReadsString

LEMMA LongListRead ==
  ASSUME NEW m \in Seq(Octet), NEW at \in Nat \ {0}, NEW s \in Seq(Octet), NEW w, NEW b,
         LongAt(m, at, b, 247, w, s)
  PROVE  ReadsList(m, at, s, 1 + (w + Len(s)))
<1>s. Len(s) > 55 /\ Len(s) < Values(U64Size)
  BY Zenon DEF LongAt
<1>w. w \in Nat /\ 1 <= w /\ w <= 8 /\ w = Len(encode_length(Len(s)))
  BY Zenon DEF LongAt
<1>e. b \in Nat /\ Begins(b, 247, w) /\ ByteAt(m, at, b)
  BY Zenon DEF LongAt
<1>h. Holds(m, at + 1, encode_length(Len(s)) \o s)
  BY Zenon DEF LongAt
<1>1. at + 1 \in Nat \ {0}
  OBVIOUS
<1>b. b >= 248
  BY <1>w, <1>e DEF Begins
<1>c. b >= 192
  BY <1>w, <1>e DEF Begins
<1>n. b - 247 = w
  BY <1>w, <1>e DEF Begins
<1>2. RlpLong(m, TRUE, at + 1, Len(encode_length(Len(s)))) =
        Body(TRUE, s, (at + 1) + (Len(encode_length(Len(s))) + Len(s)))
  BY <1>1, <1>s, <1>h, LongRead
<1>3. RlpAt(m, at) = RlpItems(m, at, b)
  BY <1>b, <1>c, <1>e, FromItems
<1>4. RlpItems(m, at, b) = RlpLong(m, TRUE, at + 1, b - 247)
  <2>1. ~(b < 248)
    BY <1>b, <1>e
  <2>2. BeginsLongItems(m, at, b)
    BY <2>1, LongItems, Zenon
  <2> QED
    BY <2>2, Zenon DEF BeginsLongItems
<1>5. RlpAt(m, at) = Body(TRUE, s, (at + 1) + (w + Len(s)))
  BY <1>w, <1>n, <1>2, <1>3, <1>4, Zenon
<1>6. (at + 1) + (w + Len(s)) = at + (1 + (w + Len(s)))
  <2>1. at \in Nat /\ Len(s) \in Nat
    OBVIOUS
  <2> QED
    BY <1>w, <2>1, SumOfSizes, Zenon
<1> QED
  BY <1>5, <1>6, Zenon DEF ReadsList

(* A string or a list with its size in front.                              *)
Framed(short, long, s) ==
    IF Len(s) <= 55 THEN <<short + Len(s)>> \o s
    ELSE <<long + Len(encode_length(Len(s)))>> \o (encode_length(Len(s)) \o s)

ShortBase == {128, 192}
LongBase == {183, 247}

LEMMA Bases == 128 \in ShortBase /\ 192 \in ShortBase /\ 183 \in LongBase /\ 247 \in LongBase
BY DEF ShortBase, LongBase

LEMMA ShortByte ==
  ASSUME NEW short \in ShortBase, NEW n \in Nat, n <= 55
  PROVE  short + n \in Octet /\ short + n \in Nat
BY DEF Octet, ShortBase, LongBase

LEMMA LongByte ==
  ASSUME NEW long \in LongBase, NEW w \in 1..8
  PROVE  long + w \in Octet /\ long + w \in Nat /\ w \in Nat /\ 1 <= w /\ w <= 8
BY DEF Octet, ShortBase, LongBase

BeginsShort(b, base, f, s) ==
    /\ b \in Nat /\ b \in Octet
    /\ Begins(b, base, Len(s))
    /\ f = <<b>> \o s

BeginsLong(b, w, base, f, l, s) ==
    /\ b \in Nat /\ b \in Octet /\ w \in Nat
    /\ w = Len(l) /\ 1 <= w /\ w <= 8
    /\ Begins(b, base, w)
    /\ f = <<b>> \o (l \o s)

IsShort(base, f, s) == \E b : BeginsShort(b, base, f, s)

IsLong(base, f, l, s) == \E b, w : BeginsLong(b, w, base, f, l, s)

LEMMA FramedShort ==
  ASSUME NEW short \in ShortBase, NEW long, NEW s \in Seq(Octet), Len(s) <= 55
  PROVE  IsShort(short, Framed(short, long, s), s)
<1>1. PICK n \in Nat : n = Len(s)
  OBVIOUS
<1>2. n <= 55
  BY <1>1
<1>3. short + n \in Octet /\ short + n \in Nat
  BY <1>2, ShortByte
<1>4. Framed(short, long, s) = <<short + Len(s)>> \o s
  BY Zenon DEF Framed
<1>5. Framed(short, long, s) = <<short + n>> \o s
  BY <1>1, <1>4, Zenon
<1>6. Begins(short + n, short, Len(s))
  BY <1>1, Zenon DEF Begins
<1>7. BeginsShort(short + n, short, Framed(short, long, s), s)
  BY <1>3, <1>5, <1>6, Zenon DEF BeginsShort
<1> QED
  BY <1>7, Zenon DEF IsShort

LEMMA FramedLong ==
  ASSUME NEW short, NEW long \in LongBase, NEW s \in Seq(Octet), Len(s) > 55,
         Len(s) < Values(U64Size)
  PROVE  IsLong(long, Framed(short, long, s), encode_length(Len(s)), s)
<1>1. PICK n \in Nat : n = Len(s)
  OBVIOUS
<1>2. Len(encode_length(n)) \in 1..8
  BY <1>1, LengthBytesLong
<1>3. PICK w \in 1..8 : w = Len(encode_length(n))
  BY <1>2, Zenon
<1>4. long + w \in Octet /\ long + w \in Nat /\ w \in Nat /\ 1 <= w /\ w <= 8
  BY LongByte
<1>5. w = Len(encode_length(Len(s)))
  BY <1>1, <1>3, Zenon
<1>6. ~(Len(s) <= 55)
  BY <1>1
<1>7. Framed(short, long, s) = <<long + Len(encode_length(Len(s)))>> \o (encode_length(Len(s)) \o s)
  BY <1>6, Zenon DEF Framed
<1>8. Framed(short, long, s) = <<long + w>> \o (encode_length(Len(s)) \o s)
  BY <1>5, <1>7, Zenon
<1>9. Begins(long + w, long, w)
  BY Zenon DEF Begins
<1>10. BeginsLong(long + w, w, long, Framed(short, long, s), encode_length(Len(s)), s)
  BY <1>4, <1>5, <1>8, <1>9, Zenon DEF BeginsLong
<1> QED
  BY <1>10, Zenon DEF IsLong

LEMMA FramedType ==
  ASSUME NEW short \in ShortBase, NEW long \in LongBase, NEW s \in Seq(Octet), Len(s) < Values(U64Size)
  PROVE  Framed(short, long, s) \in Seq(Octet) /\ Len(Framed(short, long, s)) > Len(s)
<1>1. CASE Len(s) <= 55
  <2>0. IsShort(short, Framed(short, long, s), s)
    BY <1>1, FramedShort
  <2>1. PICK b \in Nat : b \in Octet /\ Framed(short, long, s) = <<b>> \o s
    BY <2>0, Zenon DEF IsShort, BeginsShort
  <2>2. <<b>> \o s \in Seq(Octet) /\ Len(<<b>> \o s) = 1 + Len(s)
    BY <2>1
  <2> QED
    BY <2>1, <2>2
<1>2. CASE ~(Len(s) <= 55)
  <2>1. PICK n \in Nat : n = Len(s)
    OBVIOUS
  <2>2. n < Values(U64Size) /\ n > 55
    BY <1>2, <2>1
  <2>3. encode_length(n) \in Seq(Octet)
    BY <2>2, LengthBytes
  <2>4. PICK l \in Seq(Octet) : l = encode_length(n)
    BY <2>3
  <2>10. Len(s) > 55
    BY <2>1, <2>2
  <2>9. IsLong(long, Framed(short, long, s), encode_length(Len(s)), s)
    BY <2>10, FramedLong
  <2>8. IsLong(long, Framed(short, long, s), l, s)
    BY <2>1, <2>4, <2>9, Zenon
  <2>5. PICK b \in Nat : b \in Octet /\ Framed(short, long, s) = <<b>> \o (l \o s)
    BY <2>8, Zenon DEF IsLong, BeginsLong
  <2>6. <<b>> \o (l \o s) \in Seq(Octet) /\ Len(<<b>> \o (l \o s)) = 1 + (Len(l) + Len(s))
    BY <2>5
  <2>7. 1 + (Len(l) + Len(s)) > Len(s)
    OBVIOUS
  <2> QED
    BY <2>5, <2>6, <2>7
<1> QED
  BY <1>1, <1>2

LEMMA FramedString ==
  ASSUME NEW m \in Seq(Octet), NEW at \in Nat \ {0}, NEW s \in Seq(Octet), Len(s) < Values(U64Size),
         Len(s) = 1 => s[1] >= 128, Holds(m, at, Framed(128, 183, s))
  PROVE  ReadsString(m, at, s, Len(Framed(128, 183, s)))
<1>0. PICK n \in Nat : n = Len(s)
  OBVIOUS
<1>1. CASE n <= 55
  <2>0. 128 \in ShortBase /\ Len(s) <= 55
    BY <1>0, <1>1, Bases
  <2>9. IsShort(128, Framed(128, 183, s), s)
    BY <2>0, FramedShort
  <2>8. PICK b : BeginsShort(b, 128, Framed(128, 183, s), s)
    BY <2>9, Zenon DEF IsShort
  <2>1. b \in Nat /\ Begins(b, 128, n) /\ b \in Octet /\ Framed(128, 183, s) = <<b>> \o s
    BY <1>0, <2>8, Zenon DEF BeginsShort
  <2>2. ByteAt(m, at, b) /\ Holds(m, at + 1, s)
    BY <2>1, HoldsAfter
  <2>3. RlpAt(m, at) = Body(FALSE, s, at + (1 + n))
    <3>1. n \in Nat /\ n <= 55 /\ n = Len(s) /\ (n = 1 => s[1] >= 128)
      BY <1>0, <1>1
    <3>2. ShortBodyAt(FALSE, m, at, s, n)
      BY <2>1, <2>2, <3>1, ShortRead
    <3> QED
      BY <3>2, Zenon DEF ShortBodyAt
  <2>4. Len(<<b>> \o s) = 1 + n
    BY <1>0
  <2> QED
    BY <2>1, <2>3, <2>4, Zenon DEF ReadsString
<1>2. CASE ~(n <= 55)
  <2>1. n < Values(U64Size) /\ n > 55
    BY <1>0, <1>2
  <2>2. PICK l \in Seq(Octet) : l = encode_length(n)
    BY <2>1, LengthBytes
  <2>0. 183 \in LongBase /\ Len(s) > 55 /\ Len(s) < Values(U64Size)
    BY <1>0, <2>1, Bases
  <2>9. IsLong(183, Framed(128, 183, s), encode_length(Len(s)), s)
    BY <2>0, FramedLong
  <2>10. IsLong(183, Framed(128, 183, s), l, s)
    BY <1>0, <2>2, <2>9, Zenon
  <2>11. PICK b, w : BeginsLong(b, w, 183, Framed(128, 183, s), l, s)
    BY <2>10, Zenon DEF IsLong
  <2>3. /\ b \in Nat /\ w \in Nat /\ w = Len(l) /\ 1 <= w /\ w <= 8
        /\ Begins(b, 183, w) /\ b \in Octet /\ Framed(128, 183, s) = <<b>> \o (l \o s)
    BY <2>11, Zenon DEF BeginsLong
  <2>4. l \o s \in Seq(Octet) /\ Len(l \o s) = w + n
    BY <1>0, <2>3
  <2>5. ByteAt(m, at, b) /\ Holds(m, at + 1, l \o s)
    BY <2>3, <2>4, HoldsAfter
  <2>12. w = Len(encode_length(Len(s)))
    BY <1>0, <2>2, <2>3, Zenon
  <2>13. Holds(m, at + 1, encode_length(Len(s)) \o s)
    BY <1>0, <2>2, <2>5, Zenon
  <2>14. LongAt(m, at, b, 183, w, s)
    BY <2>0, <2>3, <2>5, <2>12, <2>13, Zenon DEF LongAt
  <2>6. ReadsString(m, at, s, 1 + (w + Len(s)))
    BY <2>14, LongStringRead, Zenon
  <2>7. Len(<<b>> \o (l \o s)) = 1 + (w + n)
    BY <2>3, <2>4
  <2> QED
    BY <1>0, <2>3, <2>6, <2>7, Zenon
<1> QED
  BY <1>1, <1>2

LEMMA FramedList ==
  ASSUME NEW m \in Seq(Octet), NEW at \in Nat \ {0}, NEW s \in Seq(Octet), Len(s) < Values(U64Size),
         Holds(m, at, Framed(192, 247, s))
  PROVE  ReadsList(m, at, s, Len(Framed(192, 247, s)))
<1>0. PICK n \in Nat : n = Len(s)
  OBVIOUS
<1>1. CASE n <= 55
  <2>0. 192 \in ShortBase /\ Len(s) <= 55
    BY <1>0, <1>1, Bases
  <2>9. IsShort(192, Framed(192, 247, s), s)
    BY <2>0, FramedShort
  <2>8. PICK b : BeginsShort(b, 192, Framed(192, 247, s), s)
    BY <2>9, Zenon DEF IsShort
  <2>1. b \in Nat /\ Begins(b, 192, n) /\ b \in Octet /\ Framed(192, 247, s) = <<b>> \o s
    BY <1>0, <2>8, Zenon DEF BeginsShort
  <2>2. ByteAt(m, at, b) /\ Holds(m, at + 1, s)
    BY <2>1, HoldsAfter
  <2>3. RlpAt(m, at) = Body(TRUE, s, at + (1 + n))
    <3>1. n \in Nat /\ n <= 55 /\ n = Len(s)
      BY <1>0, <1>1
    <3>2. ShortBodyAt(TRUE, m, at, s, n)
      BY <2>1, <2>2, <3>1, ShortListRead
    <3> QED
      BY <3>2, Zenon DEF ShortBodyAt
  <2>4. Len(<<b>> \o s) = 1 + n
    BY <1>0
  <2> QED
    BY <2>1, <2>3, <2>4, Zenon DEF ReadsList
<1>2. CASE ~(n <= 55)
  <2>1. n < Values(U64Size) /\ n > 55
    BY <1>0, <1>2
  <2>2. PICK l \in Seq(Octet) : l = encode_length(n)
    BY <2>1, LengthBytes
  <2>0. 247 \in LongBase /\ Len(s) > 55 /\ Len(s) < Values(U64Size)
    BY <1>0, <2>1, Bases
  <2>9. IsLong(247, Framed(192, 247, s), encode_length(Len(s)), s)
    BY <2>0, FramedLong
  <2>10. IsLong(247, Framed(192, 247, s), l, s)
    BY <1>0, <2>2, <2>9, Zenon
  <2>11. PICK b, w : BeginsLong(b, w, 247, Framed(192, 247, s), l, s)
    BY <2>10, Zenon DEF IsLong
  <2>3. /\ b \in Nat /\ w \in Nat /\ w = Len(l) /\ 1 <= w /\ w <= 8
        /\ Begins(b, 247, w) /\ b \in Octet /\ Framed(192, 247, s) = <<b>> \o (l \o s)
    BY <2>11, Zenon DEF BeginsLong
  <2>4. l \o s \in Seq(Octet) /\ Len(l \o s) = w + n
    BY <1>0, <2>3
  <2>5. ByteAt(m, at, b) /\ Holds(m, at + 1, l \o s)
    BY <2>3, <2>4, HoldsAfter, ZenonT(40)
  <2>12. w = Len(encode_length(Len(s)))
    BY <1>0, <2>2, <2>3, Zenon
  <2>13. Holds(m, at + 1, encode_length(Len(s)) \o s)
    BY <1>0, <2>2, <2>5, Zenon
  <2>14. LongAt(m, at, b, 247, w, s)
    BY <2>0, <2>3, <2>5, <2>12, <2>13, Zenon DEF LongAt
  <2>6. ReadsList(m, at, s, 1 + (w + Len(s)))
    BY <2>14, LongListRead, Zenon
  <2>7. Len(<<b>> \o (l \o s)) = 1 + (w + n)
    BY <2>3, <2>4, SMTT(30)
  <2> QED
    BY <1>0, <2>3, <2>6, <2>7, Zenon
<1> QED
  BY <1>1, <1>2

-----------------------------------------------------------------------------
(* Items of a list *)

Single(s) == Len(s) = 1 /\ s[1] < 128

LEMMA FramedForm ==
  ASSUME NEW short, NEW long, NEW s \in Seq(Octet), Len(s) < Values(U64Size), ~(Len(s) <= 55), NEW b,
         <<b>> \in Seq(Octet), b = long + Len(encode_length(Len(s)))
  PROVE  Framed(short, long, s) = <<long + Len(encode_length(Len(s)))>> \o encode_length(Len(s)) \o s
<1>1. encode_length(Len(s)) \in Seq(Octet)
  <2>1. PICK n \in Nat : n = Len(s)
    OBVIOUS
  <2> QED
    BY <2>1, LengthBytes
<1>2. Associates(<<b>>, encode_length(Len(s)), s)
  BY <1>1, Associativity
<1>3. (<<b>> \o encode_length(Len(s))) \o s = <<b>> \o (encode_length(Len(s)) \o s)
  BY <1>2, Zenon DEF Associates
<1> QED
  BY <1>3, Zenon DEF Framed

LEMMA LongFirst ==
  ASSUME NEW long \in LongBase, NEW s \in Seq(Octet), Len(s) < Values(U64Size), ~(Len(s) <= 55)
  PROVE  long + Len(encode_length(Len(s))) \in Octet
<1>1. PICK n \in Nat : n = Len(s)
  OBVIOUS
<1>2. n < Values(U64Size) /\ n > 55
  BY <1>1
<1>3. Len(encode_length(n)) \in 1..8
  BY <1>2, LengthBytesLong
<1>4. PICK w \in 1..8 : w = Len(encode_length(n))
  BY <1>3, Zenon
<1>5. long + w \in Octet
  BY LongByte
<1> QED
  BY <1>1, <1>4, <1>5, Zenon

LEMMA OneByte == \A b \in Octet : <<b>> \in Seq(Octet)
OBVIOUS

LEMMA FramedIs ==
  ASSUME NEW short \in ShortBase, NEW long \in LongBase, NEW s \in Seq(Octet), Len(s) < Values(U64Size)
  PROVE  Framed(short, long, s) =
           IF Len(s) <= 55 THEN <<short + Len(s)>> \o s
           ELSE <<long + Len(encode_length(Len(s)))>> \o encode_length(Len(s)) \o s
<1>1. CASE Len(s) <= 55
  BY <1>1, Zenon DEF Framed
<1>2. CASE ~(Len(s) <= 55)
  <2>1. PICK b : b = long + Len(encode_length(Len(s)))
    OBVIOUS
  <2>2. b \in Octet
    BY <1>2, <2>1, LongFirst
  <2>3. <<b>> \in Seq(Octet)
    BY <2>2, OneByte, Zenon
  <2>4. Framed(short, long, s) = <<long + Len(encode_length(Len(s)))>> \o encode_length(Len(s)) \o s
    BY <1>2, <2>1, <2>3, FramedForm
  <2> QED
    BY <1>2, <2>4, Zenon
<1> QED
  BY <1>1, <1>2

LEMMA EncodedSingle ==
  ASSUME NEW s, Single(s)
  PROVE  rlp_encode_item(s) = s /\ NodeString(s) = s
<1>1. Len(s) = 1 /\ s[1] < 128
  BY DEF Single
<1>2. rlp_encode_item(s) = s
  BY <1>1, Zenon DEF rlp_encode_item
<1>3. NodeString(s) = s
  BY <1>1, Zenon DEF NodeString
<1> QED
  BY <1>2, <1>3

LEMMA EncodedFramed ==
  ASSUME NEW s \in Seq(Octet), Len(s) < Values(U64Size), ~Single(s)
  PROVE  rlp_encode_item(s) = Framed(128, 183, s)
<1>1. ~(Len(s) = 1 /\ s[1] < 128)
  BY DEF Single
<1> DEFINE whole == IF Len(s) <= 55 THEN <<128 + Len(s)>> \o s
                    ELSE <<183 + Len(encode_length(Len(s)))>> \o encode_length(Len(s)) \o s
<1>2. rlp_encode_item(s) = whole
  BY <1>1, Zenon DEF rlp_encode_item
<1>3. 128 \in ShortBase /\ 183 \in LongBase
  BY Bases
<1>4. Framed(128, 183, s) = whole
  BY <1>3, FramedIs, SMTT(30)
<1> HIDE DEF whole
<1> QED
  BY <1>2, <1>4, Zenon

LEMMA ListFramed ==
  ASSUME NEW items, FlattenSeq(items) \in Seq(Octet), Len(FlattenSeq(items)) < Values(U64Size)
  PROVE  rlp_encode_list(items) = Framed(192, 247, FlattenSeq(items))
<1>1. PICK s \in Seq(Octet) : s = FlattenSeq(items)
  OBVIOUS
<1> DEFINE whole == IF Len(s) <= 55 THEN <<192 + Len(s)>> \o s
                    ELSE <<247 + Len(encode_length(Len(s)))>> \o encode_length(Len(s)) \o s
<1>2. rlp_encode_list(items) = whole
  BY <1>1, Zenon DEF rlp_encode_list
<1>3. 192 \in ShortBase /\ 247 \in LongBase /\ Len(s) < Values(U64Size)
  BY <1>1, Bases
<1>4. Framed(192, 247, s) = whole
  BY <1>3, FramedIs, SMTT(30)
<1> HIDE DEF whole
<1> QED
  BY <1>1, <1>2, <1>4, Zenon

(* A node and the signer write strings and lists the same way.             *)
LEMMA NodeStringIs ==
  ASSUME NEW s \in Seq(Octet), Len(s) < Values(U64Size)
  PROVE  NodeString(s) = rlp_encode_item(s)
<1>1. PICK n \in Nat : n = Len(s)
  OBVIOUS
<1>2. NodeBytes(n) = encode_length(n)
  BY <1>1, LengthBytes
<1>3. NodeBytes(Len(s)) = encode_length(Len(s))
  BY <1>1, <1>2, Zenon
<1>4. Len(s) < 56 <=> Len(s) <= 55
  OBVIOUS
<1> QED
  BY <1>3, <1>4, Zenon DEF NodeString, rlp_encode_item

LEMMA NodeListIs ==
  ASSUME NEW items, FlattenSeq(items) \in Seq(Octet), Len(FlattenSeq(items)) < Values(U64Size)
  PROVE  NodeList(items) = rlp_encode_list(items)
<1>1. PICK s \in Seq(Octet), n \in Nat : s = FlattenSeq(items) /\ n = Len(s)
  OBVIOUS
<1>2. NodeBytes(n) = encode_length(n)
  BY <1>1, LengthBytes
<1>3. NodeBytes(Len(FlattenSeq(items))) = encode_length(Len(FlattenSeq(items)))
  BY <1>1, <1>2, Zenon
<1>4. Len(FlattenSeq(items)) < 56 <=> Len(FlattenSeq(items)) <= 55
  BY <1>1
<1> QED
  BY <1>3, <1>4, Zenon DEF NodeList, rlp_encode_list

Reads(m, at, x, size) == RlpAt(m, at) = {<<x, at + size>>}

LEMMA NoItems ==
  ASSUME NEW x \in Item, x.list
  PROVE  Encoding(x) = Framed(192, 247, x.bytes)
<1>1. x.bytes = << >> /\ Encoding(x) = <<192>>
  BY DEF Item, Encoding
<1>2. Len(<< >>) <= 55
  OBVIOUS
<1>3. Framed(192, 247, << >>) = <<192 + Len(<< >>)>> \o << >>
  BY <1>2, Zenon DEF Framed
<1>4. <<192 + Len(<< >>)>> \o << >> = <<192>>
  OBVIOUS
<1> QED
  BY <1>1, <1>3, <1>4, ZenonT(40)

LEMMA ItemType ==
  ASSUME NEW x \in Item
  PROVE  /\ x.bytes \in Seq(Octet) /\ Len(x.bytes) < Values(U64Size)
         /\ x = [list |-> x.list, bytes |-> x.bytes] /\ x.list \in BOOLEAN
         /\ Encoding(x) \in Seq(Octet) /\ Len(Encoding(x)) > 0
<1>1. /\ x.bytes \in Seq(Octet) /\ Len(x.bytes) < Values(U64Size)
      /\ x = [list |-> x.list, bytes |-> x.bytes] /\ x.list \in BOOLEAN
  BY DEF Item
<1>2. CASE x.list
  <2>1. Encoding(x) = <<192>>
    BY <1>2, Zenon DEF Encoding
  <2>2. <<192>> \in Seq(Octet) /\ Len(<<192>>) > 0
    BY DEF Octet
  <2> QED
    BY <1>1, <2>1, <2>2, Zenon
<1>3. CASE ~x.list
  <2>1. Encoding(x) = rlp_encode_item(x.bytes)
    BY <1>3, Zenon DEF Encoding
  <2>2. PICK s \in Seq(Octet) : s = x.bytes /\ Len(s) < Values(U64Size)
    BY <1>1, Zenon
  <2>3. CASE Single(s)
    <3>1. rlp_encode_item(s) = s
      BY <2>3, EncodedSingle
    <3>2. Len(s) > 0
      BY <2>3 DEF Single
    <3> QED
      BY <1>1, <2>1, <2>2, <3>1, <3>2, Zenon
  <2>4. CASE ~Single(s)
    <3>1. rlp_encode_item(s) = Framed(128, 183, s)
      BY <2>2, <2>4, EncodedFramed
    <3>2. 128 \in ShortBase /\ 183 \in LongBase
      BY Bases
    <3>3. Framed(128, 183, s) \in Seq(Octet) /\ Len(Framed(128, 183, s)) > Len(s)
      BY <2>2, <3>2, FramedType
    <3>4. Len(Framed(128, 183, s)) > 0
      <4>1. PICK n \in Nat, k \in Nat : n = Len(s) /\ k = Len(Framed(128, 183, s))
        BY <3>3
      <4> QED
        BY <3>3, <4>1
    <3> QED
      BY <1>1, <2>1, <2>2, <3>1, <3>3, <3>4, Zenon
  <2> QED
    BY <2>3, <2>4
<1> QED
  BY <1>2, <1>3

LEMMA ItemRead ==
  ASSUME NEW m \in Seq(Octet), NEW at \in Nat \ {0}, NEW x \in Item, Holds(m, at, Encoding(x))
  PROVE  Reads(m, at, x, Len(Encoding(x)))
<1>1. /\ x.bytes \in Seq(Octet) /\ Len(x.bytes) < Values(U64Size)
      /\ x = [list |-> x.list, bytes |-> x.bytes] /\ x.list \in BOOLEAN
  BY ItemType
<1>2. PICK s \in Seq(Octet) : s = x.bytes /\ Len(s) < Values(U64Size)
  BY <1>1, Zenon
<1>3. CASE x.list
  <2>1. Encoding(x) = Framed(192, 247, s)
    BY <1>2, <1>3, NoItems
  <2>2. ReadsList(m, at, s, Len(Framed(192, 247, s)))
    BY <1>2, <2>1, FramedList
  <2>3. x.list = TRUE
    BY <1>1, <1>3
  <2>4. x = [list |-> TRUE, bytes |-> s]
    BY <1>1, <1>2, <2>3
  <2> QED
    BY <2>1, <2>2, <2>4, Zenon DEF ReadsList, Body, Reads
<1>4. CASE ~x.list
  <2>1. Encoding(x) = rlp_encode_item(s)
    BY <1>2, <1>4, Zenon DEF Encoding
  <2>2. x.list = FALSE
    BY <1>1, <1>4
  <2>3. x = [list |-> FALSE, bytes |-> s]
    BY <1>1, <1>2, <2>2
  <2>4. CASE Single(s)
    <3>1. rlp_encode_item(s) = s
      BY <2>4, EncodedSingle
    <3>2. Len(s) = 1 /\ s[1] < 128
      BY <2>4 DEF Single
    <3>3. RlpAt(m, at) = Body(FALSE, s, at + 1)
      BY <2>1, <3>1, <3>2, SingleRead
    <3> QED
      BY <2>1, <2>3, <3>1, <3>2, <3>3, Zenon DEF Body, Reads
  <2>5. CASE ~Single(s)
    <3>1. rlp_encode_item(s) = Framed(128, 183, s)
      BY <1>2, <2>5, EncodedFramed
    <3>2. Len(s) = 1 => s[1] >= 128
      <4>1. SUFFICES ASSUME Len(s) = 1 PROVE s[1] >= 128
        OBVIOUS
      <4>2. \A i \in 1..Len(s) : s[i] \in Octet
        BY Elements
      <4>3. 1 \in 1..1
        OBVIOUS
      <4>4. s[1] \in Octet
        BY <4>1, <4>2, <4>3, Zenon
      <4>5. s[1] \in Nat
        BY <4>4, OctetNumber, Zenon
      <4>6. ~(s[1] < 128)
        BY <2>5, <4>1, Zenon DEF Single
      <4> QED
        BY <4>5, <4>6
    <3>3. ReadsString(m, at, s, Len(Framed(128, 183, s)))
      BY <1>2, <2>1, <3>1, <3>2, FramedString
    <3> QED
      BY <2>1, <2>3, <3>1, <3>3, Zenon DEF ReadsString, Body, Reads
  <2> QED
    BY <2>4, <2>5
<1> QED
  BY <1>3, <1>4

-----------------------------------------------------------------------------
(* Positions of items *)

Encodings(xs) == [i \in 1..Len(xs) |-> Encoding(xs[i])]

LEMMA EncodingsType ==
  ASSUME NEW xs \in Seq(Item)
  PROVE  /\ Encodings(xs) \in Seq(Seq(Octet)) /\ Len(Encodings(xs)) = Len(xs)
         /\ \A i \in 1..Len(xs) : Encodings(xs)[i] = Encoding(xs[i])
<1>1. \A i \in 1..Len(xs) : xs[i] \in Item
  BY Elements, Zenon
<1>2. \A i \in 1..Len(xs) : Encoding(xs[i]) \in Seq(Octet)
  BY <1>1, ItemType
<1> QED
  BY <1>2 DEF Encodings

(* The bytes of the first i items, and all of them.                        *)
First(xs, i) == FlattenSeq(SubSeq(Encodings(xs), 1, i))

Payload(xs) == FlattenSeq(Encodings(xs))

FirstStep(xs, i) == First(xs, i + 1) = First(xs, i) \o Encoding(xs[i + 1])

LEMMA FirstSteps ==
  ASSUME NEW xs \in Seq(Item), NEW i \in Nat, i < Len(xs)
  PROVE  FirstStep(xs, i)
<1> DEFINE e == Encodings(xs)
<1>1. e \in Seq(Seq(Octet)) /\ Len(e) = Len(xs) /\ \A j \in 1..Len(xs) : e[j] = Encoding(xs[j])
  BY EncodingsType
<1> HIDE DEF e
<1>2. Prefixed(e, i)
  BY <1>1, PrefixGrows
<1>3. SubSeq(e, 1, i) \in Seq(Seq(Octet))
  <2>1. i <= Len(e)
    BY <1>1
  <2> QED
    BY <1>1, <2>1, Splits
<1>4. i + 1 \in 1..Len(xs)
  OBVIOUS
<1>5. e[i + 1] = Encoding(xs[i + 1])
  BY <1>1, <1>4, Zenon
<1>6. e[i + 1] \in Seq(Octet)
  BY <1>1, <1>4, Elements, Zenon
<1>7. FlattenSeq(Append(SubSeq(e, 1, i), e[i + 1])) = FlattenSeq(SubSeq(e, 1, i)) \o e[i + 1]
  BY <1>3, <1>6, FlattenAppend
<1> QED
  BY <1>2, <1>5, <1>7, Zenon DEF e, FirstStep, First, Prefixed

LEMMA FirstType ==
  ASSUME NEW xs \in Seq(Item), NEW i \in Nat, i <= Len(xs)
  PROVE  First(xs, i) \in Seq(Octet) /\ Payload(xs) \in Seq(Octet)
<1> DEFINE e == Encodings(xs)
<1>1. e \in Seq(Seq(Octet)) /\ Len(e) = Len(xs)
  BY EncodingsType
<1> HIDE DEF e
<1>2. SubSeq(e, 1, i) \in Seq(Seq(Octet))
  <2>1. i <= Len(e)
    BY <1>1
  <2> QED
    BY <1>1, <2>1, Splits
<1>3. FlattenSeq(SubSeq(e, 1, i)) \in Seq(Octet)
  BY <1>2, FlattenType
<1>4. FlattenSeq(e) \in Seq(Octet)
  BY <1>1, FlattenType
<1> QED
  BY <1>3, <1>4 DEF e, First, Payload

LEMMA FirstNothing == ASSUME NEW xs \in Seq(Item) PROVE First(xs, 0) = << >>
<1>1. Encodings(xs) \in Seq(Seq(Octet))
  BY EncodingsType
<1>2. SubSeq(Encodings(xs), 1, 0) = << >>
  BY <1>1
<1> QED
  BY <1>2, FlattenNothing DEF First

LEMMA FirstAll == ASSUME NEW xs \in Seq(Item) PROVE First(xs, Len(xs)) = Payload(xs)
<1> DEFINE e == Encodings(xs)
<1>1. e \in Seq(Seq(Octet)) /\ Len(e) = Len(xs)
  BY EncodingsType
<1> HIDE DEF e
<1>2. SubSeq(e, 1, Len(e)) = e
  BY <1>1
<1> QED
  BY <1>1, <1>2 DEF e, First, Payload

LEMMA PayloadHoldsFirst ==
  ASSUME NEW xs \in Seq(Item), NEW i \in Nat, i <= Len(xs)
  PROVE  Holds(Payload(xs), 1, First(xs, i))
<1> DEFINE e == Encodings(xs)
           a == SubSeq(e, 1, i)
           b == SubSeq(e, i + 1, Len(e))
<1>1. e \in Seq(Seq(Octet)) /\ Len(e) = Len(xs)
  BY EncodingsType
<1> HIDE DEF e
<1>2. a \in Seq(Seq(Octet)) /\ b \in Seq(Seq(Octet)) /\ Split(e, i)
  <2>1. i <= Len(e)
    BY <1>1
  <2> QED
    BY <1>1, <2>1, Splits
<1>3. e = a \o b
  BY <1>2 DEF Split
<1> HIDE DEF a, b
<1>4. FlattenSeq(a \o b) = FlattenSeq(a) \o FlattenSeq(b)
  BY <1>2, FlattenConcat
<1>5. FlattenSeq(a) \in Seq(Octet) /\ FlattenSeq(b) \in Seq(Octet) /\ FlattenSeq(e) \in Seq(Octet)
  BY <1>1, <1>2, FlattenType
<1>6. Holds(FlattenSeq(e), 1, FlattenSeq(e))
  BY <1>5, HoldsItself
<1>7. Holds(FlattenSeq(e), 1, FlattenSeq(a) \o FlattenSeq(b))
  BY <1>3, <1>4, <1>6
<1>8. Holds(FlattenSeq(e), 1, FlattenSeq(a))
  BY <1>5, <1>7, HoldsConcat
<1> QED
  BY <1>8 DEF e, a, Payload, First

Position(xs, i) == 1 + Len(First(xs, i))

(* Where item i ends, the next begins.                                     *)
ItemAt(m, xs, i) ==
    /\ Position(xs, i) \in Nat /\ Position(xs, i + 1) \in Nat
    /\ Position(xs, i + 1) > Position(xs, i)
    /\ RlpAt(m, Position(xs, i)) = {<<xs[i + 1], Position(xs, i + 1)>>}

LEMMA ItemsAt ==
  ASSUME NEW xs \in Seq(Item), NEW i \in Nat, i < Len(xs)
  PROVE  ItemAt(Payload(xs), xs, i)
<1> DEFINE x == xs[i + 1]
<1>1. x \in Item
  <2>1. i + 1 \in 1..Len(xs)
    OBVIOUS
  <2> QED
    BY <2>1, Elements, Zenon
<1>2. Encoding(x) \in Seq(Octet) /\ Len(Encoding(x)) > 0
  BY <1>1, ItemType
<1>3. First(xs, i) \in Seq(Octet) /\ Payload(xs) \in Seq(Octet)
  BY FirstType
<1>4. First(xs, i + 1) = First(xs, i) \o Encoding(x)
  BY FirstSteps DEF FirstStep
<1>5. Holds(Payload(xs), 1, First(xs, i + 1))
  BY PayloadHoldsFirst
<1> HIDE DEF x
<1>6. PICK n \in Nat, k \in Nat : n = Len(First(xs, i)) /\ k = Len(Encoding(x)) /\ k > 0
  BY <1>2, <1>3
<1>7. Len(First(xs, i + 1)) = n + k
  BY <1>2, <1>3, <1>4, <1>6
<1>8. Position(xs, i) = 1 + n /\ Position(xs, i + 1) = (1 + n) + k
  BY <1>6, <1>7 DEF Position
<1>9. Holds(Payload(xs), 1 + Len(First(xs, i)), Encoding(x))
  BY <1>2, <1>3, <1>4, <1>5, HoldsConcat
<1>10. 1 + n \in Nat \ {0} /\ Holds(Payload(xs), 1 + n, Encoding(x))
  BY <1>6, <1>9
<1>11. Reads(Payload(xs), 1 + n, x, Len(Encoding(x)))
  BY <1>1, <1>3, <1>10, ItemRead
<1>12. RlpAt(Payload(xs), 1 + n) = {<<x, (1 + n) + k>>}
  BY <1>6, <1>11, Zenon DEF Reads
<1>13. RlpAt(Payload(xs), Position(xs, i)) = {<<x, Position(xs, i + 1)>>}
  BY <1>8, <1>12, Zenon
<1>14. 1 + n \in Nat /\ (1 + n) + k \in Nat /\ (1 + n) + k > 1 + n
  BY <1>6
<1>15. Position(xs, i) \in Nat /\ Position(xs, i + 1) \in Nat /\ Position(xs, i + 1) > Position(xs, i)
  BY <1>8, <1>14, Zenon
<1> QED
  BY <1>13, <1>15, Zenon DEF x, ItemAt

LEMMA PositionWithin ==
  ASSUME NEW xs \in Seq(Item), NEW i \in Nat, i <= Len(xs)
  PROVE  /\ Position(xs, i) \in Nat /\ Len(Payload(xs)) \in Nat
         /\ Position(xs, i) <= 1 + Len(Payload(xs))
<1>1. First(xs, i) \in Seq(Octet) /\ Payload(xs) \in Seq(Octet)
  BY FirstType
<1>2. Holds(Payload(xs), 1, First(xs, i))
  BY PayloadHoldsFirst
<1>3. 1 + Len(First(xs, i)) <= Len(Payload(xs)) + 1
  BY <1>2, Zenon DEF Holds
<1>4. Len(First(xs, i)) \in Nat /\ Len(Payload(xs)) \in Nat
  BY <1>1
<1> QED
  BY <1>3, <1>4 DEF Position

LEMMA FirstPosition == ASSUME NEW xs \in Seq(Item) PROVE Position(xs, 0) = 1
<1>1. First(xs, 0) = << >>
  BY FirstNothing
<1> QED
  BY <1>1 DEF Position

LEMMA LastPosition == ASSUME NEW xs \in Seq(Item) PROVE Position(xs, Len(xs)) = 1 + Len(Payload(xs))
<1>1. First(xs, Len(xs)) = Payload(xs)
  BY FirstAll
<1> QED
  BY <1>1, Zenon DEF Position

SameSingles(a, b, c, d) == {<<a, b>>} = {<<c, d>>}

LEMMA SinglePair == \A a, b, c, d : SameSingles(a, b, c, d) => a = c /\ b = d
<1> SUFFICES ASSUME NEW a, NEW b, NEW c, NEW d, {<<a, b>>} = {<<c, d>>} PROVE a = c /\ b = d
  BY Zenon DEF SameSingles
<1>1. <<a, b>> = <<c, d>>
  <2>1. <<a, b>> \in {<<c, d>>}
    BY Zenon
  <2> QED
    BY <2>1, Zenon
<1>2. <<a, b>>[1] = a /\ <<a, b>>[2] = b /\ <<c, d>>[1] = c /\ <<c, d>>[2] = d
  OBVIOUS
<1>3. a = c
  BY <1>1, <1>2, Zenon
<1>4. b = d
  BY <1>1, <1>2, Zenon
<1> QED
  BY <1>3, <1>4

SameUpTo(xs, ys, i) == Position(xs, i) = Position(ys, i) /\ \A j \in 1..i : xs[j] = ys[j]

LEMMA SameItems ==
  ASSUME NEW xs \in Seq(Item), NEW ys \in Seq(Item), Len(xs) <= Len(ys), Payload(xs) = Payload(ys)
  PROVE  SameUpTo(xs, ys, Len(xs))
<1>0. PICK n \in Nat, k \in Nat : n = Len(xs) /\ k = Len(ys) /\ n <= k
  OBVIOUS
<1> DEFINE T == {i \in 0..n : SameUpTo(xs, ys, i)}
<1>1. 0 \in T
  <2>1. Position(xs, 0) = 1 /\ Position(ys, 0) = 1
    BY FirstPosition
  <2>2. 1..0 = {} /\ 0 \in 0..n
    OBVIOUS
  <2> QED
    BY <2>1, <2>2 DEF SameUpTo
<1>2. ASSUME NEW i \in 1..n, i - 1 \in T PROVE i \in T
  <2>1. PICK h \in Nat : h = i - 1 /\ h + 1 = i
    OBVIOUS
  <2>2. SameUpTo(xs, ys, h)
    BY <1>2, <2>1
  <2>3. h < Len(xs) /\ h < Len(ys)
    BY <1>0, <2>1
  <2>4. ItemAt(Payload(xs), xs, h) /\ ItemAt(Payload(ys), ys, h)
    BY <2>3, ItemsAt
  <2>5. {<<xs[h + 1], Position(xs, h + 1)>>} = {<<ys[h + 1], Position(ys, h + 1)>>}
    BY <2>2, <2>4, Zenon DEF ItemAt, SameUpTo
  <2>6. xs[h + 1] = ys[h + 1] /\ Position(xs, h + 1) = Position(ys, h + 1)
    <3>1. SameSingles(xs[h + 1], Position(xs, h + 1), ys[h + 1], Position(ys, h + 1))
      BY <2>5, Zenon DEF SameSingles
    <3>2. xs[h + 1] = ys[h + 1]
      BY <3>1, SinglePair, Zenon
    <3>3. Position(xs, h + 1) = Position(ys, h + 1)
      BY <3>1, SinglePair, Zenon
    <3> QED
      BY <3>2, <3>3
  <2>7. \A j \in 1..h + 1 : j \in 1..h \/ j = h + 1
    OBVIOUS
  <2>8. \A j \in 1..h + 1 : xs[j] = ys[j]
    BY <2>2, <2>6, <2>7, Zenon DEF SameUpTo
  <2>9. SameUpTo(xs, ys, h + 1)
    BY <2>6, <2>8, Zenon DEF SameUpTo
  <2>10. i \in 0..n
    OBVIOUS
  <2> QED
    BY <2>1, <2>9, <2>10
<1> HIDE DEF T
<1>3. 0..n \subseteq T
  BY <1>1, <1>2, InductUpTo
<1>4. n \in T
  BY <1>3
<1> QED
  BY <1>0, <1>4 DEF T

(* Bytes are the items of one list only.                                   *)
LEMMA SamePayloadLength ==
  ASSUME NEW xs \in Seq(Item), NEW ys \in Seq(Item), Len(xs) < Len(ys), Payload(xs) = Payload(ys)
  PROVE  FALSE
<1>0. PICK n \in Nat : n = Len(xs) /\ n < Len(ys)
  OBVIOUS
<1>1. SameUpTo(xs, ys, n)
  <2>1. Len(xs) <= Len(ys)
    BY <1>0
  <2> QED
    BY <1>0, <2>1, SameItems
<1>2. Position(xs, n) = Position(ys, n) /\ Position(xs, n) = 1 + Len(Payload(xs))
  BY <1>0, <1>1, LastPosition DEF SameUpTo
<1>3. ItemAt(Payload(ys), ys, n)
  BY <1>0, ItemsAt
<1>4. n + 1 \in Nat /\ n + 1 <= Len(ys)
  BY <1>0
<1>5. Position(ys, n + 1) \in Nat /\ Len(Payload(ys)) \in Nat /\ Position(ys, n + 1) <= 1 + Len(Payload(ys))
  BY <1>4, PositionWithin
<1>6. Position(ys, n) \in Nat /\ Position(ys, n + 1) > Position(ys, n)
  BY <1>3, Zenon DEF ItemAt
<1>7. Position(ys, n) = 1 + Len(Payload(ys))
  BY <1>2, Zenon
<1> QED
  BY <1>5, <1>6, <1>7

LEMMA SamePayload ==
  ASSUME NEW xs \in Seq(Item), NEW ys \in Seq(Item), Payload(xs) = Payload(ys)
  PROVE  xs = ys
<1>1. ~(Len(xs) < Len(ys)) /\ ~(Len(ys) < Len(xs))
  BY SamePayloadLength
<1>2. Len(xs) = Len(ys) /\ Len(xs) <= Len(ys)
  BY <1>1
<1>3. SameUpTo(xs, ys, Len(xs))
  BY <1>2, SameItems
<1>4. \A j \in 1..Len(xs) : xs[j] = ys[j]
  BY <1>3, Zenon DEF SameUpTo
<1> QED
  BY <1>2, <1>4, SameElements

LEMMA ItemsFit ==
  ASSUME NEW xs \in Seq(Item)
  PROVE  Len(xs) <= Len(Payload(xs))
<1>0. PICK n \in Nat : n = Len(xs)
  OBVIOUS
<1> DEFINE T == {i \in 0..n : i + 1 <= Position(xs, i)}
<1>1. 0 \in T
  <2>1. Position(xs, 0) = 1
    BY FirstPosition
  <2> QED
    BY <2>1
<1>2. ASSUME NEW i \in 1..n, i - 1 \in T PROVE i \in T
  <2>1. PICK h \in Nat : h = i - 1 /\ h + 1 = i
    OBVIOUS
  <2>2. h + 1 <= Position(xs, h) /\ h < Len(xs)
    BY <1>0, <1>2, <2>1
  <2>3. ItemAt(Payload(xs), xs, h)
    BY <2>2, ItemsAt
  <2>4. Position(xs, h) \in Nat /\ Position(xs, h + 1) \in Nat /\ Position(xs, h + 1) > Position(xs, h)
    BY <2>3, Zenon DEF ItemAt
  <2>5. (h + 1) + 1 <= Position(xs, h + 1)
    BY <2>2, <2>4
  <2> QED
    BY <2>1, <2>5
<1> HIDE DEF T
<1>3. 0..n \subseteq T
  BY <1>1, <1>2, InductUpTo
<1>4. n \in T
  BY <1>3
<1>5. n + 1 <= Position(xs, n)
  BY <1>4 DEF T
<1>6. Position(xs, n) = 1 + Len(Payload(xs)) /\ Len(Payload(xs)) \in Nat
  <2>1. n \in Nat /\ n <= Len(xs)
    BY <1>0
  <2>2. Len(Payload(xs)) \in Nat
    BY <2>1, PositionWithin
  <2> QED
    BY <1>0, <2>2, LastPosition
<1> QED
  BY <1>0, <1>5, <1>6

-----------------------------------------------------------------------------
(* What a node reads is the items that were written. *)

Extended(m, runs) == UNION {{<<Append(run[1], r[1]), r[2]>> : r \in RlpAt(m, run[2])} : run \in runs}

RunsAre(f, m, n) == f = [i \in 0..n |-> IF i = 0 THEN {<<<< >>, 1>>} ELSE Extended(m, f[i - 1])]

LEMMA RunsStep ==
  ASSUME NEW f, NEW m, NEW n \in Nat, RunsAre(f, m, n)
  PROVE  f[0] = {<<<< >>, 1>>} /\ \A i \in 1..n : f[i] = Extended(m, f[i - 1])
<1>1. f = [i \in 0..n |-> IF i = 0 THEN {<<<< >>, 1>>} ELSE Extended(m, f[i - 1])]
  BY DEF RunsAre
<1>2. \A i \in 0..n : f[i] = IF i = 0 THEN {<<<< >>, 1>>} ELSE Extended(m, f[i - 1])
  BY <1>1, Zenon
<1>3. 0 \in 0..n /\ \A i \in 1..n : i \in 0..n /\ i # 0
  OBVIOUS
<1>4. f[0] = {<<<< >>, 1>>}
  BY <1>2, <1>3, Zenon
<1>5. \A i \in 1..n : f[i] = Extended(m, f[i - 1])
  BY <1>2, <1>3, Zenon
<1> QED
  BY <1>4, <1>5

LEMMA RunsUnique ==
  ASSUME NEW f, NEW g, NEW m, NEW n \in Nat, RunsAre(f, m, n), RunsAre(g, m, n)
  PROVE  f[n] = g[n]
<1>1. f[0] = {<<<< >>, 1>>} /\ \A i \in 1..n : f[i] = Extended(m, f[i - 1])
  BY RunsStep
<1>2. g[0] = {<<<< >>, 1>>} /\ \A i \in 1..n : g[i] = Extended(m, g[i - 1])
  BY RunsStep
<1> DEFINE T == {i \in 0..n : f[i] = g[i]}
<1>3. 0 \in T
  <2>1. f[0] = g[0]
    BY <1>1, <1>2, Zenon
  <2>2. 0 \in 0..n
    OBVIOUS
  <2> QED
    BY <2>1, <2>2
<1>4. ASSUME NEW i \in 1..n, i - 1 \in T PROVE i \in T
  <2>1. f[i - 1] = g[i - 1]
    BY <1>4
  <2>2. f[i] = g[i]
    BY <1>1, <1>2, <2>1, Zenon
  <2>3. i \in 0..n
    OBVIOUS
  <2> QED
    BY <2>2, <2>3
<1> HIDE DEF T
<1>5. 0..n \subseteq T
  BY <1>3, <1>4, InductUpTo
<1>6. n \in T
  BY <1>5
<1> QED
  BY <1>6 DEF T

Run(xs, i) == {<<SubSeq(xs, 1, i), Position(xs, i)>>}

LEMMA RunExtended ==
  ASSUME NEW xs \in Seq(Item), NEW i \in Nat, i < Len(xs)
  PROVE  Extended(Payload(xs), Run(xs, i)) = Run(xs, i + 1)
<1>1. ItemAt(Payload(xs), xs, i)
  BY ItemsAt
<1>2. RlpAt(Payload(xs), Position(xs, i)) = {<<xs[i + 1], Position(xs, i + 1)>>}
  BY <1>1, Zenon DEF ItemAt
<1>3. Prefixed(xs, i)
  BY PrefixGrows
<1> DEFINE p == SubSeq(xs, 1, i)
           a == Position(xs, i)
           x == xs[i + 1]
           b == Position(xs, i + 1)
<1>4. SubSeq(xs, 1, i + 1) = Append(p, x)
  BY <1>3, Zenon DEF Prefixed
<1>5. Run(xs, i) = {<<p, a>>} /\ Run(xs, i + 1) = {<<Append(p, x), b>>}
  BY <1>4, Zenon DEF Run
<1>6. RlpAt(Payload(xs), a) = {<<x, b>>}
  BY <1>2
<1> HIDE DEF p, a, x, b
<1>7. Extended(Payload(xs), {<<p, a>>}) = {<<Append(p, x), b>>}
  <2>1. Extended(Payload(xs), {<<p, a>>}) = {<<Append(p, r[1]), r[2]>> : r \in RlpAt(Payload(xs), a)}
    BY DEF Extended
  <2>2. {<<Append(p, r[1]), r[2]>> : r \in {<<x, b>>}} = {<<Append(p, x), b>>}
    OBVIOUS
  <2> QED
    BY <1>6, <2>1, <2>2
<1> QED
  BY <1>5, <1>7, Zenon

LEMMA ManyItems ==
  ASSUME NEW xs \in Seq(Item)
  PROVE  Many(RlpAt, Payload(xs), 1, Len(xs)) = {<<xs, 1 + Len(Payload(xs))>>}
<1>m. PICK m : m = Payload(xs)
  OBVIOUS
<1>0. PICK n \in Nat : n = Len(xs)
  OBVIOUS
<1> DEFINE f == [i \in 0..n |-> Run(xs, i)]
<1>1. RunsAre(f, m, n)
  <2>1. Run(xs, 0) = {<<<< >>, 1>>}
    <3>1. Position(xs, 0) = 1 /\ SubSeq(xs, 1, 0) = << >>
      BY FirstPosition
    <3> QED
      BY <3>1, Zenon DEF Run
  <2>2. ASSUME NEW i \in 1..n PROVE Run(xs, i) = Extended(m, f[i - 1])
    <3>1. PICK h \in Nat : h = i - 1 /\ h + 1 = i /\ h < Len(xs) /\ h \in 0..n
      BY <1>0
    <3>2. f[h] = Run(xs, h)
      BY <3>1
    <3>3. Extended(Payload(xs), Run(xs, h)) = Run(xs, h + 1)
      BY <3>1, RunExtended
    <3> HIDE DEF f
    <3> QED
      BY <1>m, <1>0, <3>1, <3>2, <3>3
  <2>3. \A i \in 0..n : i = 0 \/ i \in 1..n
    OBVIOUS
  <2>4. ASSUME NEW i \in 0..n
        PROVE  Run(xs, i) = IF i = 0 THEN {<<<< >>, 1>>} ELSE Extended(m, f[i - 1])
    <3> HIDE DEF f
    <3>1. CASE i = 0
      BY <2>1, <3>1
    <3>2. CASE i # 0
      BY <2>2, <2>3, <3>2, Zenon
    <3> QED
      BY <3>1, <3>2
  <2>5. f = [i \in 0..n |-> IF i = 0 THEN {<<<< >>, 1>>} ELSE Extended(m, f[i - 1])]
    BY <2>4, Zenon
  <2> QED
    BY <2>5, Zenon DEF RunsAre
<1>2. f[n] = Run(xs, n)
  BY <1>0
<1> HIDE DEF f
<1> DEFINE g == CHOOSE h : h = [i \in 0..n |-> IF i = 0 THEN {<<<< >>, 1>>} ELSE UNION {{<<Append(run[1], r[1]), r[2]>> : r \in RlpAt(m, run[2])} : run \in h[i - 1]}]
<1>3. RunsAre(g, m, n)
  BY <1>1, Zenon DEF RunsAre, Extended
<1>4. n <= Len(m) /\ Len(m) \in Nat
  <2>1. 0 \in Nat /\ 0 <= Len(xs)
    BY <1>0
  <2> QED
    BY <1>m, <1>0, <2>1, ItemsFit, PositionWithin
<1>5. ~(n > Len(m))
  BY <1>4
<1>6. Many(RlpAt, m, 1, n) = g[n]
  BY <1>5, Zenon DEF Many
<1> HIDE DEF g
<1>7. f[n] = g[n]
  BY <1>1, <1>3, RunsUnique
<1>8. SubSeq(xs, 1, n) = xs
  BY <1>0
<1>9. Position(xs, n) = 1 + Len(m)
  BY <1>m, <1>0, LastPosition
<1> QED
  BY <1>m, <1>0, <1>2, <1>6, <1>7, <1>8, <1>9, Zenon DEF Run

ListStrings(xs) == [i \in 1..Len(xs) |-> xs[i].bytes]

LEMMA OuterRead ==
  ASSUME NEW s \in Seq(Octet), Len(s) < Values(U64Size)
  PROVE  /\ Framed(192, 247, s) \in Seq(Octet)
         /\ RlpAt(Framed(192, 247, s), 1) = {<<[list |-> TRUE, bytes |-> s], Len(Framed(192, 247, s)) + 1>>}
<1>1. Framed(192, 247, s) \in Seq(Octet)
  BY Bases, FramedType
<1>2. PICK m \in Seq(Octet), k \in Nat : m = Framed(192, 247, s) /\ k = Len(m)
  BY <1>1
<1>3. Holds(m, 1, Framed(192, 247, s))
  BY <1>2, HoldsItself
<1>4. 1 \in Nat \ {0}
  OBVIOUS
<1>5. ReadsList(m, 1, s, Len(Framed(192, 247, s)))
  BY <1>3, <1>4, FramedList
<1>6. 1 + k = k + 1
  OBVIOUS
<1>7. RlpAt(m, 1) = {<<[list |-> TRUE, bytes |-> s], k + 1>>}
  BY <1>2, <1>5, <1>6, ZenonT(40) DEF ReadsList, Body
<1> QED
  BY <1>1, <1>2, <1>7, Zenon

(* What rlp_encode_list wrote reads as its strings and as nothing else,    *)
(* for any number of strings of any lengths, on either side of the 55      *)
(* bytes where the encoding changes.                                       *)
THEOREM ListRead ==
  ASSUME NEW xs \in Seq(Item), Len(Payload(xs)) < Values(U64Size)
  PROVE  RlpList(rlp_encode_list(Encodings(xs)), Len(xs)) = {ListStrings(xs)}
<1>0. PICK n, p, m : /\ n \in Nat /\ n = Len(xs) /\ p \in Seq(Octet) /\ p = Payload(xs)
                     /\ m = rlp_encode_list(Encodings(xs))
  <2>1. 0 \in Nat /\ 0 <= Len(xs)
    OBVIOUS
  <2> QED
    BY <2>1, FirstType
<1>1. m = Framed(192, 247, p)
  BY <1>0, ListFramed DEF Payload
<1>2. RlpAt(m, 1) = {<<[list |-> TRUE, bytes |-> p], Len(m) + 1>>}
  BY <1>0, <1>1, OuterRead
<1>3. Many(RlpAt, p, 1, n) = {<<xs, 1 + Len(p)>>}
  BY <1>0, ManyItems
<1>4. \A i \in 1..n : xs[i].list => xs[i].bytes = << >>
  BY <1>0, Elements DEF Item
<1>5. 1 + Len(p) = Len(p) + 1
  OBVIOUS
<1>6. {o \in RlpAt(m, 1) : o[1].list /\ o[2] = Len(m) + 1} = {<<[list |-> TRUE, bytes |-> p], Len(m) + 1>>}
  <2> DEFINE o == <<[list |-> TRUE, bytes |-> p], Len(m) + 1>>
  <2>1. o[1].list /\ o[2] = Len(m) + 1
    OBVIOUS
  <2> HIDE DEF o
  <2>2. {r \in {o} : r[1].list /\ r[2] = Len(m) + 1} = {o}
    BY <2>1, Zenon
  <2> QED
    BY <1>2, <2>2, Zenon DEF o
<1> DEFINE good(run) == run[2] = Len(p) + 1 /\ \A i \in 1..n : run[1][i].list => run[1][i].bytes = << >>
           strings(run) == [i \in 1..n |-> run[1][i].bytes]
           r == <<xs, 1 + Len(p)>>
<1>7. r[1] = xs /\ r[2] = Len(p) + 1
  BY <1>5
<1>8. good(r) /\ strings(r) = ListStrings(xs)
  BY <1>0, <1>4, <1>7, Zenon DEF ListStrings
<1> HIDE DEF good, strings, r
<1>9. {run \in Many(RlpAt, p, 1, n) : good(run)} = {r}
  BY <1>3, <1>8, Zenon DEF r
<1>10. {strings(run) : run \in {run \in Many(RlpAt, p, 1, n) : good(run)}} = {ListStrings(xs)}
  <2>1. {strings(run) : run \in {r}} = {strings(r)}
    BY Zenon
  <2> QED
    BY <1>8, <1>9, <2>1, Zenon
<1> DEFINE found(q) == {strings(run) : run \in {run \in Many(RlpAt, q, 1, n) :
                          run[2] = Len(q) + 1 /\ \A i \in 1..n : run[1][i].list => run[1][i].bytes = << >>}}
<1>11. found(p) = {ListStrings(xs)}
  BY <1>10, Zenon DEF good
<1>12. RlpList(m, n) = UNION {found(o[1].bytes) : o \in {o \in RlpAt(m, 1) : o[1].list /\ o[2] = Len(m) + 1}}
  BY Zenon DEF RlpList, strings
<1> HIDE DEF found
<1>13. UNION {found(o[1].bytes) : o \in {<<[list |-> TRUE, bytes |-> p], Len(m) + 1>>}} = found(p)
  <2> DEFINE o == <<[list |-> TRUE, bytes |-> p], Len(m) + 1>>
  <2>1. o[1].bytes = p
    OBVIOUS
  <2> HIDE DEF o
  <2>2. UNION {found(q[1].bytes) : q \in {o}} = found(p)
    BY <2>1
  <2> QED
    BY <2>2 DEF o
<1> QED
  BY <1>0, <1>6, <1>11, <1>12, <1>13, Zenon

(* A list has one encoding, and it is no other list's.                     *)
LEMMA ListInjective ==
  ASSUME NEW xs \in Seq(Item), NEW ys \in Seq(Item), Len(Payload(xs)) < Values(U64Size),
         Len(Payload(ys)) < Values(U64Size),
         rlp_encode_list(Encodings(xs)) = rlp_encode_list(Encodings(ys))
  PROVE  xs = ys
<1>0. PICK p \in Seq(Octet), q \in Seq(Octet) : p = Payload(xs) /\ q = Payload(ys)
  <2>1. 0 \in Nat /\ 0 <= Len(xs) /\ 0 <= Len(ys)
    OBVIOUS
  <2>2. Payload(xs) \in Seq(Octet)
    BY <2>1, FirstType
  <2>3. Payload(ys) \in Seq(Octet)
    BY <2>1, FirstType
  <2> QED
    BY <2>2, <2>3
<1>1. Framed(192, 247, p) = rlp_encode_list(Encodings(xs))
  BY <1>0, ListFramed DEF Payload
<1>2. Framed(192, 247, q) = rlp_encode_list(Encodings(ys))
  BY <1>0, ListFramed DEF Payload
<1>3. RlpAt(Framed(192, 247, p), 1) = {<<[list |-> TRUE, bytes |-> p], Len(Framed(192, 247, p)) + 1>>}
  BY <1>0, OuterRead
<1>4. RlpAt(Framed(192, 247, q), 1) = {<<[list |-> TRUE, bytes |-> q], Len(Framed(192, 247, q)) + 1>>}
  BY <1>0, OuterRead
<1>5. SameSingles([list |-> TRUE, bytes |-> p], Len(Framed(192, 247, p)) + 1,
                  [list |-> TRUE, bytes |-> q], Len(Framed(192, 247, q)) + 1)
  <2>1. Framed(192, 247, p) = Framed(192, 247, q)
    BY <1>1, <1>2, Zenon
  <2>2. RlpAt(Framed(192, 247, p), 1) = RlpAt(Framed(192, 247, q), 1)
    BY <2>1, Zenon
  <2> QED
    BY <1>3, <1>4, <2>2, ZenonT(40) DEF SameSingles
<1>6. [list |-> TRUE, bytes |-> p] = [list |-> TRUE, bytes |-> q]
  BY <1>5, SinglePair, ZenonT(40)
<1>7. p = q
  BY <1>6
<1> QED
  BY <1>0, <1>7, SamePayload

LEMMA ListFirst ==
  ASSUME NEW xs \in Seq(Item), Len(Payload(xs)) < Values(U64Size)
  PROVE  /\ rlp_encode_list(Encodings(xs)) \in Seq(Octet)
         /\ Len(rlp_encode_list(Encodings(xs))) > 0
         /\ rlp_encode_list(Encodings(xs))[1] >= 192
<1>0. PICK p \in Seq(Octet) : p = Payload(xs)
  <2>1. 0 \in Nat /\ 0 <= Len(xs)
    OBVIOUS
  <2> QED
    BY <2>1, FirstType
<1>1. rlp_encode_list(Encodings(xs)) = Framed(192, 247, p)
  BY <1>0, ListFramed DEF Payload
<1>2. Len(p) < Values(U64Size)
  BY <1>0
<1>3. Framed(192, 247, p) \in Seq(Octet) /\ Len(Framed(192, 247, p)) > Len(p)
  BY <1>2, Bases, FramedType
<1>4. Len(Framed(192, 247, p)) > 0
  <2>1. PICK n \in Nat, k \in Nat : n = Len(p) /\ k = Len(Framed(192, 247, p))
    BY <1>3
  <2> QED
    BY <1>3, <2>1
<1>5. Framed(192, 247, p)[1] >= 192
  <2>1. CASE Len(p) <= 55
    <3>1. IsShort(192, Framed(192, 247, p), p)
      BY <2>1, Bases, FramedShort
    <3>2. PICK b : BeginsShort(b, 192, Framed(192, 247, p), p)
      BY <3>1, Zenon DEF IsShort
    <3>3. b \in Nat /\ b \in Octet /\ b = 192 + Len(p) /\ Framed(192, 247, p) = <<b>> \o p
      BY <3>2, Zenon DEF BeginsShort, Begins
    <3>4. (<<b>> \o p)[1] = b
      BY <3>3
    <3>5. b >= 192
      BY <3>3
    <3> QED
      BY <3>3, <3>4, <3>5, Zenon
  <2>2. CASE ~(Len(p) <= 55)
    <3>0. Len(p) > 55
      BY <2>2
    <3>1. IsLong(247, Framed(192, 247, p), encode_length(Len(p)), p)
      BY <1>2, <3>0, Bases, FramedLong
    <3>2. PICK b, w : BeginsLong(b, w, 247, Framed(192, 247, p), encode_length(Len(p)), p)
      BY <3>1, Zenon DEF IsLong
    <3>3. /\ b \in Nat /\ b \in Octet /\ b = 247 + w /\ w \in Nat
          /\ Framed(192, 247, p) = <<b>> \o (encode_length(Len(p)) \o p)
      BY <3>2, Zenon DEF BeginsLong, Begins
    <3>4. encode_length(Len(p)) \in Seq(Octet)
      <4>1. PICK n \in Nat : n = Len(p)
        OBVIOUS
      <4> QED
        BY <1>2, <4>1, LengthBytes
    <3>5. (<<b>> \o (encode_length(Len(p)) \o p))[1] = b
      BY <3>3, <3>4
    <3>6. b >= 192
      BY <3>3
    <3> QED
      BY <3>3, <3>5, <3>6, Zenon
  <2> QED
    BY <2>1, <2>2
<1> QED
  BY <1>1, <1>3, <1>4, <1>5, Zenon

(* The bytes after a two are no list, whatever they are.                   *)
LEMMA NoListAfterTwo ==
  ASSUME NEW m \in Seq(Octet), NEW n
  PROVE  /\ RlpList(<< 2 >> \o m, n) = {}
         /\ (<< 2 >> \o m)[1] = 2 /\ Tail(<< 2 >> \o m) = m
<1>1. (<< 2 >> \o m)[1] = 2 /\ Tail(<< 2 >> \o m) = m /\ Len(<< 2 >> \o m) = Len(m) + 1
  OBVIOUS
<1>2. << 2 >> \in Seq(Octet) /\ Len(<< 2 >>) = 1 /\ << 2 >>[1] = 2
  BY DEF Octet
<1>3. << 2 >> \o m \in Seq(Octet) /\ Holds(<< 2 >> \o m, 1, << 2 >> \o m)
  <2>1. << 2 >> \o m \in Seq(Octet)
    BY <1>2
  <2> QED
    BY <2>1, HoldsItself
<1>4. Holds(<< 2 >> \o m, 1, << 2 >>)
  <2>1. 1 \in Nat
    OBVIOUS
  <2> QED
    BY <1>2, <1>3, <2>1, HoldsConcat
<1>5. PICK l \in Seq(Octet), s \in Seq(Octet) : l = << 2 >> \o m /\ s = << 2 >>
  BY <1>2, <1>3
<1>6. Len(s) = 1 /\ s[1] < 128 /\ Holds(l, 1, s)
  BY <1>2, <1>4, <1>5
<1>7. RlpAt(l, 1) = Body(FALSE, s, 1 + 1)
  <2>1. 1 \in Nat \ {0}
    OBVIOUS
  <2> QED
    BY <1>6, <2>1, SingleRead
<1>8. \A o \in RlpAt(l, 1) : ~o[1].list
  BY <1>7 DEF Body
<1>9. RlpList(l, n) = {}
  BY <1>8 DEF RlpList
<1> QED
  BY <1>1, <1>5, <1>9, Zenon

-----------------------------------------------------------------------------
(* The size of a list *)

Within(f, s) == Len(f) <= Len(s) + 9

LEMMA FramedSize ==
  ASSUME NEW short \in ShortBase, NEW long \in LongBase, NEW s \in Seq(Octet), Len(s) < Values(U64Size)
  PROVE  Within(Framed(short, long, s), s)
<1>0. PICK n \in Nat : n = Len(s)
  OBVIOUS
<1>1. CASE Len(s) <= 55
  <2>1. IsShort(short, Framed(short, long, s), s)
    BY <1>1, FramedShort
  <2>2. PICK b : BeginsShort(b, short, Framed(short, long, s), s)
    BY <2>1, Zenon DEF IsShort
  <2>3. b \in Octet /\ Framed(short, long, s) = <<b>> \o s
    BY <2>2, Zenon DEF BeginsShort
  <2>4. Len(<<b>> \o s) = 1 + n
    BY <1>0, <2>3
  <2>5. 1 + n <= n + 9
    OBVIOUS
  <2> QED
    BY <1>0, <2>3, <2>4, <2>5, Zenon DEF Within
<1>2. CASE ~(Len(s) <= 55)
  <2>0. Len(s) > 55
    BY <1>2
  <2>1. IsLong(long, Framed(short, long, s), encode_length(Len(s)), s)
    BY <2>0, FramedLong
  <2>2. PICK b, w : BeginsLong(b, w, long, Framed(short, long, s), encode_length(Len(s)), s)
    BY <2>1, Zenon DEF IsLong
  <2>3. /\ b \in Octet /\ Framed(short, long, s) = <<b>> \o (encode_length(Len(s)) \o s)
        /\ w \in Nat /\ w <= 8 /\ w = Len(encode_length(Len(s)))
    BY <2>2, Zenon DEF BeginsLong
  <2>4. encode_length(Len(s)) \in Seq(Octet)
    BY <1>0, LengthBytes
  <2>5. Len(<<b>> \o (encode_length(Len(s)) \o s)) = 1 + (w + n)
    BY <1>0, <2>3, <2>4
  <2>6. 1 + (w + n) <= n + 9
    BY <2>3
  <2> QED
    BY <1>0, <2>3, <2>5, <2>6, Zenon DEF Within
<1> QED
  BY <1>1, <1>2

LEMMA EncodingSize ==
  ASSUME NEW x \in Item
  PROVE  Within(Encoding(x), x.bytes)
<1>1. x.bytes \in Seq(Octet) /\ Len(x.bytes) < Values(U64Size)
  BY ItemType
<1>2. PICK s \in Seq(Octet) : s = x.bytes /\ Len(s) < Values(U64Size)
  BY <1>1, Zenon
<1>3. CASE x.list
  <2>1. Encoding(x) = Framed(192, 247, s)
    BY <1>2, <1>3, NoItems
  <2>2. Within(Framed(192, 247, s), s)
    BY <1>2, Bases, FramedSize
  <2> QED
    BY <1>2, <2>1, <2>2, Zenon
<1>4. CASE ~x.list
  <2>1. Encoding(x) = rlp_encode_item(s)
    BY <1>2, <1>4, Zenon DEF Encoding
  <2>2. CASE Single(s)
    <3>1. rlp_encode_item(s) = s
      BY <2>2, EncodedSingle
    <3>2. Len(s) <= Len(s) + 9
      OBVIOUS
    <3> QED
      BY <1>2, <2>1, <3>1, <3>2, Zenon DEF Within
  <2>3. CASE ~Single(s)
    <3>1. rlp_encode_item(s) = Framed(128, 183, s)
      BY <1>2, <2>3, EncodedFramed
    <3>2. Within(Framed(128, 183, s), s)
      BY <1>2, Bases, FramedSize
    <3> QED
      BY <1>2, <2>1, <3>1, <3>2, Zenon
  <2> QED
    BY <2>2, <2>3
<1> QED
  BY <1>3, <1>4

LEMMA OneMore == \A i, size \in Nat : (i + 1) * size = i * size + size /\ i * size \in Nat
OBVIOUS

(* No item is larger than size, and neither is all of them that many times.*)
LEMMA PayloadSize ==
  ASSUME NEW xs \in Seq(Item), NEW size \in Nat,
         \A i \in 1..Len(xs) : Len(Encoding(xs[i])) <= size
  PROVE  Len(Payload(xs)) <= Len(xs) * size
<1>0. PICK n \in Nat : n = Len(xs)
  OBVIOUS
<1> DEFINE T == {i \in 0..n : Len(First(xs, i)) <= i * size}
<1>1. 0 \in T
  <2>1. First(xs, 0) = << >>
    BY FirstNothing
  <2>2. Len(<< >>) = 0 /\ 0 * size = 0
    OBVIOUS
  <2> QED
    BY <2>1, <2>2
<1>2. ASSUME NEW i \in 1..n, i - 1 \in T PROVE i \in T
  <2>1. PICK h \in Nat : h = i - 1 /\ h + 1 = i
    OBVIOUS
  <2>2. h < Len(xs) /\ h + 1 \in 1..Len(xs)
    BY <1>0, <2>1
  <2>3. First(xs, h + 1) = First(xs, h) \o Encoding(xs[h + 1])
    BY <2>2, FirstSteps DEF FirstStep
  <2>4. xs[h + 1] \in Item
    BY <2>2, Elements, Zenon
  <2>5. Encoding(xs[h + 1]) \in Seq(Octet)
    BY <2>4, ItemType
  <2>6. First(xs, h) \in Seq(Octet)
    <3>1. h <= Len(xs)
      BY <2>2
    <3> QED
      BY <3>1, FirstType
  <2>7. PICK a \in Nat, b \in Nat : a = Len(First(xs, h)) /\ b = Len(Encoding(xs[h + 1]))
    BY <2>5, <2>6
  <2>8. Len(First(xs, h + 1)) = a + b
    BY <2>3, <2>5, <2>6, <2>7
  <2>9. a <= h * size
    BY <1>2, <2>1, <2>7
  <2>10. b <= size
    BY <2>2, <2>7
  <2>11. (h + 1) * size = h * size + size /\ h * size \in Nat
    BY OneMore
  <2>12. a + b <= (h + 1) * size
    <3>1. PICK k \in Nat : k = h * size
      BY <2>11
    <3>2. a + b <= k + size
      BY <2>9, <2>10, <3>1
    <3> QED
      BY <2>11, <3>1, <3>2
  <2> QED
    BY <2>1, <2>8, <2>12
<1> HIDE DEF T
<1>3. 0..n \subseteq T
  BY <1>1, <1>2, InductUpTo
<1>4. n \in T
  BY <1>3
<1>5. First(xs, Len(xs)) = Payload(xs)
  BY FirstAll
<1> QED
  BY <1>0, <1>4, <1>5 DEF T

-----------------------------------------------------------------------------
(* The fields of a transaction *)

IsNumber(n) == n \in Nat /\ n < Values(U64Size)

IsWord(bytes) == bytes \in Seq(Octet) /\ Len(bytes) = U256Size

IsFields(f) ==
    /\ IsNumber(f.nonce) /\ IsNumber(f.gas)
    /\ IsWord(f.fees[1]) /\ IsWord(f.fees[2]) /\ IsWord(f.value)
    /\ f.to \in Seq(Octet) /\ Len(f.to) = AddressSize
    /\ f.data \in Seq(Octet) /\ 12 * (U256Size + 9 + Len(f.data)) < Values(U64Size)

(* A string that is not longer than the fields of a transaction may be.    *)
Fits(s, f) == s \in Seq(Octet) /\ Len(s) <= U256Size + Len(f.data)

LEMMA Sizes ==
  /\ U64Size \in Nat /\ U256Size \in Nat /\ AddressSize \in Nat
  /\ U64Size <= U256Size /\ AddressSize <= U256Size
BY EvmAssumption

LEMMA FieldSizes ==
  ASSUME NEW f, IsFields(f)
  PROVE  /\ Len(f.data) \in Nat
         /\ 12 * (U256Size + 9 + Len(f.data)) < Values(U64Size)
<1>1. f.data \in Seq(Octet) /\ 12 * (U256Size + 9 + Len(f.data)) < Values(U64Size)
  BY Zenon DEF IsFields
<1> QED
  BY <1>1

LEMMA Room ==
  ASSUME NEW u \in Nat, NEW d \in Nat, NEW v \in Nat, NEW k \in Nat, 12 * (u + 9 + d) < v, k <= u + d
  PROVE  k < v /\ 0 < v /\ k + 9 <= u + 9 + d
OBVIOUS

LEMMA FieldsFit ==
  ASSUME NEW f, IsFields(f)
  PROVE  /\ Fits(encode_length(f.nonce), f)
         /\ Fits(Stripped(f.fees[1]), f)
         /\ Fits(Stripped(f.fees[2]), f)
         /\ Fits(encode_length(f.gas), f)
         /\ Fits(f.to, f)
         /\ Fits(Stripped(f.value), f)
         /\ Fits(f.data, f)
<1>0. PICK k \in Nat, u \in Nat, d \in Nat, a \in Nat :
        k = U64Size /\ u = U256Size /\ a = AddressSize /\ d = Len(f.data) /\ k <= u /\ a <= u
  <2>1. Len(f.data) \in Nat
    BY FieldSizes
  <2> QED
    BY <2>1, Sizes, Zenon
<1>1. ASSUME NEW n, IsNumber(n) PROVE Fits(encode_length(n), f)
  <2>1. encode_length(n) \in Seq(Octet) /\ Len(encode_length(n)) <= U64Size
    BY <1>1, LengthBytes DEF IsNumber
  <2>2. PICK l \in Nat : l = Len(encode_length(n)) /\ l <= k
    BY <1>0, <2>1
  <2>3. l <= u + d
    BY <1>0, <2>2
  <2> QED
    BY <1>0, <2>1, <2>2, <2>3, Zenon DEF Fits
<1>2. ASSUME NEW b, IsWord(b) PROVE Fits(Stripped(b), f)
  <2>1. b \in Seq(Octet) /\ Len(b) = U256Size
    BY <1>2 DEF IsWord
  <2>2. Stripped(b) \in Seq(Octet) /\ Len(Stripped(b)) <= Len(b)
    BY <2>1, StrippedFacts
  <2>3. PICK l \in Nat : l = Len(Stripped(b)) /\ l <= u
    BY <1>0, <2>1, <2>2
  <2>4. l <= u + d
    BY <2>3
  <2> QED
    BY <1>0, <2>2, <2>3, <2>4, Zenon DEF Fits
<1>3. Fits(f.to, f)
  <2>1. a <= u + d
    BY <1>0
  <2> QED
    BY <1>0, <2>1, Zenon DEF Fits, IsFields
<1>4. Fits(f.data, f)
  <2>1. d <= u + d
    OBVIOUS
  <2> QED
    BY <1>0, <2>1, Zenon DEF Fits, IsFields
<1> QED
  BY <1>1, <1>2, <1>3, <1>4 DEF IsFields

StringItem(s) == [list |-> FALSE, bytes |-> s]

EmptyList == [list |-> TRUE, bytes |-> << >>]

SmallItem(x, f) == x \in Item /\ Len(Encoding(x)) <= U256Size + 9 + Len(f.data)

LEMMA Limit ==
  ASSUME NEW size \in Nat, NEW values \in Nat, NEW n \in Nat, NEW length \in Nat,
         12 * size < values, n <= 12, length <= n * size
  PROVE  length < values
<1>1. n * size <= 12 * size
  OBVIOUS
<1> QED
  BY <1>1

LEMMA ValuesNat == Values(U64Size) \in Nat /\ Values(U256Size) \in Nat
BY Sizes, ValuesFacts

LEMMA StringSmall ==
  ASSUME NEW f, IsFields(f), NEW s, Fits(s, f)
  PROVE  SmallItem(StringItem(s), f)
<1>0. PICK u \in Nat, d \in Nat, k \in Nat, v \in Nat :
         u = U256Size /\ d = Len(f.data) /\ k = Len(s) /\ v = Values(U64Size) /\ k <= u + d
                      /\ 12 * (u + 9 + d) < v
  <2>1. s \in Seq(Octet) /\ Len(s) <= U256Size + Len(f.data)
    BY Zenon DEF Fits
  <2>2. Len(s) \in Nat
    BY <2>1
  <2> QED
    BY <2>1, <2>2, FieldSizes, Sizes, ValuesNat, Zenon
<1>r. k < v /\ 0 < v /\ k + 9 <= u + 9 + d
  BY <1>0, Room
<1>1. k < v
  BY <1>r
<1>2. StringItem(s) \in Item
  BY <1>0, <1>1 DEF StringItem, Item, Fits
<1>3. Within(Encoding(StringItem(s)), StringItem(s).bytes)
  BY <1>2, EncodingSize
<1>4. StringItem(s).bytes = s
  BY DEF StringItem
<1>5. Encoding(StringItem(s)) \in Seq(Octet)
  BY <1>2, ItemType
<1>6. PICK l \in Nat : l = Len(Encoding(StringItem(s)))
  BY <1>5
<1>7. l <= k + 9
  BY <1>0, <1>3, <1>4, <1>6 DEF Within
<1>8. l <= u + 9 + d
  BY <1>r, <1>7
<1> QED
  BY <1>0, <1>2, <1>6, <1>8, Zenon DEF SmallItem

LEMMA EmptyListSmall ==
  ASSUME NEW f, IsFields(f)
  PROVE  SmallItem(EmptyList, f) /\ Encoding(EmptyList) = rlp_encode_list(<< >>)
<1>0. PICK u \in Nat, d \in Nat, v \in Nat : u = U256Size /\ d = Len(f.data) /\ v = Values(U64Size)
                      /\ 12 * (u + 9 + d) < v
  BY FieldSizes, Sizes, ValuesNat, Zenon
<1>1. 0 < v
  <2>1. 0 \in Nat /\ 0 <= u + d
    OBVIOUS
  <2> QED
    BY <1>0, <2>1, Room
<1>2. EmptyList \in Item
  <2>1. << >> \in Seq(Octet) /\ Len(<< >>) = 0
    OBVIOUS
  <2> QED
    BY <1>0, <1>1, <2>1 DEF EmptyList, Item
<1>3. Encoding(EmptyList) = <<192>>
  BY DEF EmptyList, Encoding
<1>4. Len(<<192>>) = 1 /\ 1 <= u + 9 + d
  OBVIOUS
<1>5. rlp_encode_list(<< >>) = <<192>>
  <2>1. Len(<< >>) <= 55
    OBVIOUS
  <2>2. rlp_encode_list(<< >>) = <<192 + Len(<< >>)>> \o << >>
    BY <2>1, FlattenNothing, Zenon DEF rlp_encode_list
  <2>3. <<192 + Len(<< >>)>> \o << >> = <<192>>
    OBVIOUS
  <2> QED
    BY <2>2, <2>3
<1> QED
  BY <1>0, <1>2, <1>3, <1>4, <1>5, Zenon DEF SmallItem

(* Up to twelve of them are a list that has an encoding.                   *)
LEMMA SmallList ==
  ASSUME NEW f, IsFields(f), NEW xs, xs \in Seq({x \in Item : SmallItem(x, f)}), Len(xs) <= 12
  PROVE  xs \in Seq(Item) /\ Len(Payload(xs)) < Values(U64Size)
<1>0. PICK u \in Nat, d \in Nat, v \in Nat : u = U256Size /\ d = Len(f.data) /\ v = Values(U64Size)
                      /\ 12 * (u + 9 + d) < v
  BY FieldSizes, Sizes, ValuesNat, Zenon
<1>1. xs \in Seq(Item)
  OBVIOUS
<1>2. \A i \in 1..Len(xs) : xs[i] \in {x \in Item : SmallItem(x, f)}
  BY Elements, Zenon
<1>3. \A i \in 1..Len(xs) : Len(Encoding(xs[i])) <= u + 9 + d
  BY <1>0, <1>2, Zenon DEF SmallItem
<1>4. PICK size \in Nat : size = u + 9 + d
  OBVIOUS
<1>5. \A i \in 1..Len(xs) : Len(Encoding(xs[i])) <= size
  BY <1>3, <1>4
<1>6. Len(Payload(xs)) <= Len(xs) * size
  BY <1>1, <1>5, PayloadSize
<1>7. PICK n \in Nat, l \in Nat : n = Len(xs) /\ l = Len(Payload(xs))
  <2>1. 0 \in Nat /\ 0 <= Len(xs)
    BY <1>1
  <2>2. Payload(xs) \in Seq(Octet)
    BY <1>1, <2>1, FirstType
  <2> QED
    BY <1>1, <2>2
<1>8. n <= 12 /\ l <= n * size /\ 12 * size < v
  BY <1>0, <1>4, <1>6, <1>7
<1>9. l < v
  BY <1>8, Limit
<1> QED
  BY <1>0, <1>1, <1>7, <1>9

-----------------------------------------------------------------------------
(* Lists of the two kinds of transaction *)

EncodesJoin(xs, ys) == Encodings(xs \o ys) = Encodings(xs) \o Encodings(ys)

LEMMA EncodingsJoin ==
  ASSUME NEW xs \in Seq(Item), NEW ys \in Seq(Item)
  PROVE  EncodesJoin(xs, ys)
<1>0. PICK j \in Nat, k \in Nat : j = Len(xs) /\ k = Len(ys)
  OBVIOUS
<1>1. xs \o ys \in Seq(Item) /\ Concatenates(xs, ys, j, k)
  BY <1>0, ConcatenatesAt
<1> DEFINE a == Encodings(xs)
           b == Encodings(ys)
           c == Encodings(xs \o ys)
<1>2. a \in Seq(Seq(Octet)) /\ Len(a) = j /\ \A i \in 1..j : a[i] = Encoding(xs[i])
  BY <1>0, EncodingsType
<1>3. b \in Seq(Seq(Octet)) /\ Len(b) = k /\ \A i \in 1..k : b[i] = Encoding(ys[i])
  BY <1>0, EncodingsType
<1>4. c \in Seq(Seq(Octet)) /\ Len(c) = j + k /\ \A i \in 1..j + k : c[i] = Encoding((xs \o ys)[i])
  <2>1. Len(xs \o ys) = j + k
    BY <1>1 DEF Concatenates
  <2> QED
    BY <1>1, <2>1, EncodingsType
<1> HIDE DEF a, b, c
<1>5. a \o b \in Seq(Seq(Octet)) /\ Concatenates(a, b, j, k)
  BY <1>2, <1>3, ConcatenatesAt
<1>6. ASSUME NEW i \in 1..j + k PROVE c[i] = (a \o b)[i]
  <2>1. CASE i \in 1..j
    <3>1. c[i] = Encoding(xs[i])
      BY <1>1, <1>4, <2>1, Zenon DEF Concatenates
    <3>2. (a \o b)[i] = Encoding(xs[i])
      BY <1>2, <1>5, <2>1, Zenon DEF Concatenates
    <3> QED
      BY <3>1, <3>2
  <2>2. CASE ~(i \in 1..j)
    <3>1. PICK l \in 1..k : i = j + l
      <4>1. i - j \in 1..k /\ i = j + (i - j)
        BY <2>2
      <4> QED
        BY <4>1
    <3>2. c[i] = Encoding(ys[l])
      BY <1>1, <1>4, <3>1, Zenon DEF Concatenates
    <3>3. (a \o b)[i] = Encoding(ys[l])
      BY <1>3, <1>5, <3>1, Zenon DEF Concatenates
    <3> QED
      BY <3>2, <3>3
  <2> QED
    BY <2>1, <2>2
<1>7. Len(c) = Len(a \o b) /\ \A i \in 1..Len(c) : c[i] = (a \o b)[i]
  BY <1>4, <1>5, <1>6 DEF Concatenates
<1>8. c = a \o b
  BY <1>4, <1>5, <1>7, SameElements
<1> QED
  BY <1>8 DEF a, b, c, EncodesJoin

Two(a, b) == <<StringItem(a), StringItem(b)>>

Three(a, b, c) == <<StringItem(a), StringItem(b), StringItem(c)>>

Four(a, b, c, d) == <<StringItem(a), StringItem(b), StringItem(c), StringItem(d)>>

Shared(f) == Four(encode_length(f.gas), f.to, Stripped(f.value), f.data)

Bare(f) == Two(encode_length(f.nonce), Stripped(f.fees[1])) \o Shared(f)

Legacy(f, a, b, c) == Bare(f) \o Three(a, b, c)

Unsigned(f, chain) ==
    (Four(encode_length(chain), encode_length(f.nonce), Stripped(f.fees[1]), Stripped(f.fees[2]))
       \o Shared(f)) \o <<EmptyList>>

Signed(f, chain, a, b, c) == Unsigned(f, chain) \o Three(a, b, c)

Small(f) == {x \in Item : SmallItem(x, f)}

LEMMA SmallString ==
  ASSUME NEW f, IsFields(f), NEW s, Fits(s, f)
  PROVE  StringItem(s) \in Small(f)
BY StringSmall DEF Small, SmallItem

LEMMA FewItems ==
  ASSUME NEW S, NEW x \in S, NEW y \in S, NEW z \in S, NEW t \in S
  PROVE  /\ <<x, y>> \in Seq(S) /\ Len(<<x, y>>) = 2
         /\ <<x, y, z>> \in Seq(S) /\ Len(<<x, y, z>>) = 3
         /\ <<x, y, z, t>> \in Seq(S) /\ Len(<<x, y, z, t>>) = 4
         /\ <<x>> \in Seq(S) /\ Len(<<x>>) = 1
OBVIOUS

LEMMA TwoStrings ==
  ASSUME NEW f, IsFields(f), NEW a, NEW b, Fits(a, f), Fits(b, f)
  PROVE  Two(a, b) \in Seq(Small(f)) /\ Len(Two(a, b)) = 2
<1>1. StringItem(a) \in Small(f) /\ StringItem(b) \in Small(f)
  BY SmallString
<1> QED
  BY <1>1, FewItems DEF Two

LEMMA ThreeStrings ==
  ASSUME NEW f, IsFields(f), NEW a, NEW b, NEW c, Fits(a, f), Fits(b, f), Fits(c, f)
  PROVE  Three(a, b, c) \in Seq(Small(f)) /\ Len(Three(a, b, c)) = 3
<1>1. StringItem(a) \in Small(f) /\ StringItem(b) \in Small(f) /\ StringItem(c) \in Small(f)
  BY SmallString
<1> QED
  BY <1>1, FewItems DEF Three

LEMMA FourStrings ==
  ASSUME NEW f, IsFields(f), NEW a, NEW b, NEW c, NEW d,
         Fits(a, f), Fits(b, f), Fits(c, f), Fits(d, f)
  PROVE  Four(a, b, c, d) \in Seq(Small(f)) /\ Len(Four(a, b, c, d)) = 4
<1>1. /\ StringItem(a) \in Small(f) /\ StringItem(b) \in Small(f) /\ StringItem(c) \in Small(f)
      /\ StringItem(d) \in Small(f)
  BY SmallString
<1> QED
  BY <1>1, FewItems DEF Four

BareHas(f, xs) ==
    /\ Len(xs) >= 6
    /\ xs[1] = StringItem(encode_length(f.nonce)) /\ xs[2] = StringItem(Stripped(f.fees[1]))
    /\ xs[3] = StringItem(encode_length(f.gas)) /\ xs[4] = StringItem(f.to)
    /\ xs[5] = StringItem(Stripped(f.value)) /\ xs[6] = StringItem(f.data)

LEMMA BareIs ==
  ASSUME NEW f, IsFields(f)
  PROVE  Bare(f) \in Seq(Small(f)) /\ Len(Bare(f)) = 6 /\ BareHas(f, Bare(f))
<1> DEFINE p == Two(encode_length(f.nonce), Stripped(f.fees[1]))
           q == Shared(f)
<1>1. p \in Seq(Small(f)) /\ Len(p) = 2
  BY FieldsFit, TwoStrings
<1>2. q \in Seq(Small(f)) /\ Len(q) = 4
  BY FieldsFit, FourStrings DEF Shared
<1>3. p[1] = StringItem(encode_length(f.nonce)) /\ p[2] = StringItem(Stripped(f.fees[1]))
  BY DEF Two
<1>4. /\ q[1] = StringItem(encode_length(f.gas)) /\ q[2] = StringItem(f.to)
      /\ q[3] = StringItem(Stripped(f.value)) /\ q[4] = StringItem(f.data)
  BY DEF Shared, Four
<1> HIDE DEF p, q
<1>5. p \o q \in Seq(Small(f)) /\ Concatenates(p, q, 2, 4)
  BY <1>1, <1>2, ConcatenatesAt
<1>6. /\ Len(p \o q) = 6 /\ (p \o q)[1] = p[1] /\ (p \o q)[2] = p[2] /\ (p \o q)[3] = q[1]
      /\ (p \o q)[4] = q[2] /\ (p \o q)[5] = q[3] /\ (p \o q)[6] = q[4]
  BY <1>5 DEF Concatenates
<1>7. Bare(f) = p \o q
  BY Zenon DEF Bare, p, q
<1>8. Len(Bare(f)) >= 6
  BY <1>6, <1>7
<1> QED
  BY <1>3, <1>4, <1>5, <1>6, <1>7, <1>8, Zenon DEF BareHas

LegacyHas(f, a, b, c, xs) ==
    /\ BareHas(f, xs) /\ Len(xs) = 9
    /\ xs[7] = StringItem(a) /\ xs[8] = StringItem(b) /\ xs[9] = StringItem(c)

LEMMA LegacyIs ==
  ASSUME NEW f, IsFields(f), NEW a, NEW b, NEW c, Fits(a, f), Fits(b, f), Fits(c, f)
  PROVE  Legacy(f, a, b, c) \in Seq(Small(f)) /\ LegacyHas(f, a, b, c, Legacy(f, a, b, c))
<1> DEFINE p == Bare(f)
           q == Three(a, b, c)
<1>1. p \in Seq(Small(f)) /\ Len(p) = 6 /\ BareHas(f, p)
  BY BareIs
<1>2. q \in Seq(Small(f)) /\ Len(q) = 3
  BY ThreeStrings
<1>3. q[1] = StringItem(a) /\ q[2] = StringItem(b) /\ q[3] = StringItem(c)
  BY DEF Three
<1> HIDE DEF p, q
<1>4. p \o q \in Seq(Small(f)) /\ Concatenates(p, q, 6, 3)
  BY <1>1, <1>2, ConcatenatesAt
<1>5. /\ Len(p \o q) = 9 /\ (p \o q)[1] = p[1] /\ (p \o q)[2] = p[2] /\ (p \o q)[3] = p[3]
      /\ (p \o q)[4] = p[4] /\ (p \o q)[5] = p[5] /\ (p \o q)[6] = p[6]
      /\ (p \o q)[7] = q[1] /\ (p \o q)[8] = q[2] /\ (p \o q)[9] = q[3]
  <2>1. Len(p \o q) = 6 + 3 /\ 6 + 3 = 9
    BY <1>4 DEF Concatenates
  <2>2. \A i \in 1..6 : (p \o q)[i] = p[i]
    BY <1>4, Zenon DEF Concatenates
  <2>3. \A i \in 1..3 : (p \o q)[6 + i] = q[i]
    BY <1>4, Zenon DEF Concatenates
  <2>4. 1 \in 1..6 /\ 2 \in 1..6 /\ 3 \in 1..6 /\ 4 \in 1..6 /\ 5 \in 1..6 /\ 6 \in 1..6
    OBVIOUS
  <2>5. 1 \in 1..3 /\ 2 \in 1..3 /\ 3 \in 1..3
    OBVIOUS
  <2>6. 6 + 1 = 7 /\ 6 + 2 = 8 /\ 6 + 3 = 9
    OBVIOUS
  <2>7. (p \o q)[1] = p[1] /\ (p \o q)[2] = p[2] /\ (p \o q)[3] = p[3] /\ (p \o q)[4] = p[4] /\ (p \o q)[5] = p[5] /\ (p \o q)[6] = p[6]
    BY <2>2, <2>4, Zenon
  <2>8. (p \o q)[7] = q[1] /\ (p \o q)[8] = q[2] /\ (p \o q)[9] = q[3]
    BY <2>3, <2>5, <2>6, Zenon
  <2> QED
    BY <2>1, <2>7, <2>8, Zenon
<1>6. Legacy(f, a, b, c) = p \o q
  BY Zenon DEF Legacy, p, q
<1>7. Len(p \o q) >= 6
  BY <1>5
<1>8. BareHas(f, p \o q)
  BY <1>1, <1>5, <1>7, Zenon DEF BareHas
<1> QED
  BY <1>3, <1>4, <1>5, <1>6, <1>8, Zenon DEF LegacyHas

UnsignedHas(f, chain, xs) ==
    /\ Len(xs) >= 9
    /\ xs[1] = StringItem(encode_length(chain)) /\ xs[2] = StringItem(encode_length(f.nonce))
    /\ xs[3] = StringItem(Stripped(f.fees[1])) /\ xs[4] = StringItem(Stripped(f.fees[2]))
    /\ xs[5] = StringItem(encode_length(f.gas)) /\ xs[6] = StringItem(f.to)
    /\ xs[7] = StringItem(Stripped(f.value)) /\ xs[8] = StringItem(f.data)
    /\ xs[9] = EmptyList

LEMMA NumberFits ==
  ASSUME NEW f, IsFields(f), NEW n, IsNumber(n)
  PROVE  Fits(encode_length(n), f)
<1>1. encode_length(n) \in Seq(Octet) /\ Len(encode_length(n)) <= U64Size
  BY LengthBytes DEF IsNumber
<1>2. PICK l \in Nat, d \in Nat : l = Len(encode_length(n)) /\ d = Len(f.data)
  <2>1. Len(encode_length(n)) \in Nat
    BY <1>1
  <2> QED
    BY <2>1, FieldSizes, Zenon
<1>3. l <= U256Size + d
  BY <1>1, <1>2, Sizes
<1> QED
  BY <1>1, <1>2, <1>3, Zenon DEF Fits

LEMMA UnsignedIs ==
  ASSUME NEW f, IsFields(f), NEW chain, IsNumber(chain)
  PROVE  /\ Unsigned(f, chain) \in Seq(Small(f)) /\ Len(Unsigned(f, chain)) = 9
         /\ UnsignedHas(f, chain, Unsigned(f, chain))
<1> DEFINE p == Four(encode_length(chain), encode_length(f.nonce), Stripped(f.fees[1]), Stripped(f.fees[2]))
           q == Shared(f)
           r == <<EmptyList>>
<1>1. p \in Seq(Small(f)) /\ Len(p) = 4
  BY NumberFits, FieldsFit, FourStrings
<1>2. q \in Seq(Small(f)) /\ Len(q) = 4
  BY FieldsFit, FourStrings DEF Shared
<1>3. /\ p[1] = StringItem(encode_length(chain)) /\ p[2] = StringItem(encode_length(f.nonce))
      /\ p[3] = StringItem(Stripped(f.fees[1])) /\ p[4] = StringItem(Stripped(f.fees[2]))
  BY DEF Four
<1>4. /\ q[1] = StringItem(encode_length(f.gas)) /\ q[2] = StringItem(f.to)
      /\ q[3] = StringItem(Stripped(f.value)) /\ q[4] = StringItem(f.data)
  BY DEF Shared, Four
<1>r. r \in Seq(Small(f)) /\ Len(r) = 1 /\ r[1] = EmptyList
  <2>1. EmptyList \in Small(f)
    BY EmptyListSmall DEF Small, SmallItem
  <2> QED
    BY <2>1
<1> HIDE DEF p, q, r
<1> DEFINE u == p \o q
<1>5. u \in Seq(Small(f)) /\ Concatenates(p, q, 4, 4)
  BY <1>1, <1>2, ConcatenatesAt
<1>6. /\ Len(u) = 8 /\ u[1] = p[1] /\ u[2] = p[2] /\ u[3] = p[3] /\ u[4] = p[4]
      /\ u[5] = q[1] /\ u[6] = q[2] /\ u[7] = q[3] /\ u[8] = q[4]
  <2>1. Len(p \o q) = 4 + 4 /\ 4 + 4 = 8
    BY <1>5 DEF Concatenates
  <2>2. \A i \in 1..4 : (p \o q)[i] = p[i]
    BY <1>5, Zenon DEF Concatenates
  <2>3. \A i \in 1..4 : (p \o q)[4 + i] = q[i]
    BY <1>5, Zenon DEF Concatenates
  <2>4. 1 \in 1..4 /\ 2 \in 1..4 /\ 3 \in 1..4 /\ 4 \in 1..4
    OBVIOUS
  <2>5. 1 \in 1..4 /\ 2 \in 1..4 /\ 3 \in 1..4 /\ 4 \in 1..4
    OBVIOUS
  <2>6. 4 + 1 = 5 /\ 4 + 2 = 6 /\ 4 + 3 = 7 /\ 4 + 4 = 8
    OBVIOUS
  <2>7. (p \o q)[1] = p[1] /\ (p \o q)[2] = p[2] /\ (p \o q)[3] = p[3] /\ (p \o q)[4] = p[4]
    BY <2>2, <2>4, Zenon
  <2>8. (p \o q)[5] = q[1] /\ (p \o q)[6] = q[2] /\ (p \o q)[7] = q[3] /\ (p \o q)[8] = q[4]
    BY <2>3, <2>5, <2>6, Zenon
  <2> QED
    BY <2>1, <2>7, <2>8, Zenon
<1> HIDE DEF u
<1>7. u \o r \in Seq(Small(f)) /\ Concatenates(u, r, 8, 1)
  BY <1>5, <1>6, <1>r, ConcatenatesAt
<1>8. /\ Len(u \o r) = 9 /\ (u \o r)[1] = u[1] /\ (u \o r)[2] = u[2] /\ (u \o r)[3] = u[3]
      /\ (u \o r)[4] = u[4] /\ (u \o r)[5] = u[5] /\ (u \o r)[6] = u[6] /\ (u \o r)[7] = u[7]
      /\ (u \o r)[8] = u[8] /\ (u \o r)[9] = r[1]
  <2>1. Len(u \o r) = 8 + 1 /\ 8 + 1 = 9
    BY <1>7 DEF Concatenates
  <2>2. \A i \in 1..8 : (u \o r)[i] = u[i]
    BY <1>7, Zenon DEF Concatenates
  <2>3. \A i \in 1..1 : (u \o r)[8 + i] = r[i]
    BY <1>7, Zenon DEF Concatenates
  <2>4. 1 \in 1..8 /\ 2 \in 1..8 /\ 3 \in 1..8 /\ 4 \in 1..8 /\ 5 \in 1..8 /\ 6 \in 1..8 /\ 7 \in 1..8 /\ 8 \in 1..8
    OBVIOUS
  <2>5. 1 \in 1..1
    OBVIOUS
  <2>6. 8 + 1 = 9
    OBVIOUS
  <2>7. (u \o r)[1] = u[1] /\ (u \o r)[2] = u[2] /\ (u \o r)[3] = u[3] /\ (u \o r)[4] = u[4] /\ (u \o r)[5] = u[5] /\ (u \o r)[6] = u[6] /\ (u \o r)[7] = u[7] /\ (u \o r)[8] = u[8]
    BY <2>2, <2>4, Zenon
  <2>8. (u \o r)[9] = r[1]
    BY <2>3, <2>5, <2>6, Zenon
  <2> QED
    BY <2>1, <2>7, <2>8, Zenon
<1>9. Unsigned(f, chain) = u \o r
  BY Zenon DEF Unsigned, p, q, r, u
<1>10. Len(u \o r) >= 9
  BY <1>8
<1>11. UnsignedHas(f, chain, u \o r)
  BY <1>3, <1>4, <1>6, <1>8, <1>10, <1>r, Zenon DEF UnsignedHas
<1> QED
  BY <1>7, <1>8, <1>9, <1>11, Zenon

SignedHas(f, chain, a, b, c, xs) ==
    /\ UnsignedHas(f, chain, xs) /\ Len(xs) = 12
    /\ xs[10] = StringItem(a) /\ xs[11] = StringItem(b) /\ xs[12] = StringItem(c)

LEMMA SignedIs ==
  ASSUME NEW f, IsFields(f), NEW chain, IsNumber(chain),
         NEW a, NEW b, NEW c, Fits(a, f), Fits(b, f), Fits(c, f)
  PROVE  /\ Signed(f, chain, a, b, c) \in Seq(Small(f))
         /\ SignedHas(f, chain, a, b, c, Signed(f, chain, a, b, c))
<1> DEFINE p == Unsigned(f, chain)
           q == Three(a, b, c)
<1>1. p \in Seq(Small(f)) /\ Len(p) = 9 /\ UnsignedHas(f, chain, p)
  BY UnsignedIs
<1>2. q \in Seq(Small(f)) /\ Len(q) = 3
  BY ThreeStrings
<1>3. q[1] = StringItem(a) /\ q[2] = StringItem(b) /\ q[3] = StringItem(c)
  BY DEF Three
<1> HIDE DEF p, q
<1>4. p \o q \in Seq(Small(f)) /\ Concatenates(p, q, 9, 3)
  BY <1>1, <1>2, ConcatenatesAt
<1>5. /\ Len(p \o q) = 12 /\ (p \o q)[1] = p[1] /\ (p \o q)[2] = p[2] /\ (p \o q)[3] = p[3]
      /\ (p \o q)[4] = p[4] /\ (p \o q)[5] = p[5] /\ (p \o q)[6] = p[6] /\ (p \o q)[7] = p[7]
      /\ (p \o q)[8] = p[8] /\ (p \o q)[9] = p[9]
      /\ (p \o q)[10] = q[1] /\ (p \o q)[11] = q[2] /\ (p \o q)[12] = q[3]
  <2>1. Len(p \o q) = 9 + 3 /\ 9 + 3 = 12
    BY <1>4 DEF Concatenates
  <2>2. \A i \in 1..9 : (p \o q)[i] = p[i]
    BY <1>4, Zenon DEF Concatenates
  <2>3. \A i \in 1..3 : (p \o q)[9 + i] = q[i]
    BY <1>4, Zenon DEF Concatenates
  <2>4. 1 \in 1..9 /\ 2 \in 1..9 /\ 3 \in 1..9 /\ 4 \in 1..9 /\ 5 \in 1..9 /\ 6 \in 1..9 /\ 7 \in 1..9 /\ 8 \in 1..9 /\ 9 \in 1..9
    OBVIOUS
  <2>5. 1 \in 1..3 /\ 2 \in 1..3 /\ 3 \in 1..3
    OBVIOUS
  <2>6. 9 + 1 = 10 /\ 9 + 2 = 11 /\ 9 + 3 = 12
    OBVIOUS
  <2>7. (p \o q)[1] = p[1] /\ (p \o q)[2] = p[2] /\ (p \o q)[3] = p[3] /\ (p \o q)[4] = p[4] /\ (p \o q)[5] = p[5] /\ (p \o q)[6] = p[6] /\ (p \o q)[7] = p[7] /\ (p \o q)[8] = p[8] /\ (p \o q)[9] = p[9]
    BY <2>2, <2>4, Zenon
  <2>8. (p \o q)[10] = q[1] /\ (p \o q)[11] = q[2] /\ (p \o q)[12] = q[3]
    BY <2>3, <2>5, <2>6, Zenon
  <2> QED
    BY <2>1, <2>7, <2>8, Zenon
<1>6. Signed(f, chain, a, b, c) = p \o q
  BY Zenon DEF Signed, p, q
<1>7. Len(p \o q) >= 9
  BY <1>5
<1>8. UnsignedHas(f, chain, p \o q)
  BY <1>1, <1>5, <1>7, Zenon DEF UnsignedHas
<1> QED
  BY <1>3, <1>4, <1>5, <1>6, <1>8, Zenon DEF SignedHas

-----------------------------------------------------------------------------
(* What the signer and a node write are encodings of these lists. *)

LEMMA StringEncoding == \A s : Encoding(StringItem(s)) = rlp_encode_item(s)
BY DEF Encoding, StringItem

LEMMA NumberEncoding == \A n : Encoding(StringItem(encode_length(n))) = rlp_encode_u64(n)
BY StringEncoding, Zenon DEF rlp_encode_u64, rlp_encode_u256, encode_length

LEMMA WordEncoding == \A b : Encoding(StringItem(Stripped(b))) = rlp_encode_u256(b)
BY StringEncoding, Zenon DEF rlp_encode_u256

LEMMA NothingEncoding == Encoding(StringItem(<< >>)) = <<128>>
<1>1. Len(<< >>) = 0
  OBVIOUS
<1>2. ~(Len(<< >>) = 1 /\ << >>[1] < 128) /\ Len(<< >>) <= 55
  BY <1>1
<1>3. rlp_encode_item(<< >>) = <<128 + Len(<< >>)>> \o << >>
  BY <1>2, Zenon DEF rlp_encode_item
<1>4. <<128 + Len(<< >>)>> \o << >> = <<128>>
  BY <1>1
<1> QED
  BY <1>3, <1>4, StringEncoding, Zenon

LEMMA EncodingsOfTwo == \A x, y : Encodings(<<x, y>>) = <<Encoding(x), Encoding(y)>>
BY DEF Encodings

LEMMA EncodingsOfThree == \A x, y, z : Encodings(<<x, y, z>>) = <<Encoding(x), Encoding(y), Encoding(z)>>
BY DEF Encodings

LEMMA EncodingsOfFour ==
  \A x, y, z, t : Encodings(<<x, y, z, t>>) = <<Encoding(x), Encoding(y), Encoding(z), Encoding(t)>>
BY DEF Encodings

LEMMA EncodingsOfOne == \A x : Encodings(<<x>>) = <<Encoding(x)>>
BY DEF Encodings

LEMMA EncodesFour ==
  ASSUME NEW a, NEW b, NEW c, NEW d
  PROVE  Encodings(Four(a, b, c, d)) =
           <<Encoding(StringItem(a)), Encoding(StringItem(b)), Encoding(StringItem(c)), Encoding(StringItem(d))>>
BY EncodingsOfFour, Zenon DEF Four

LEMMA EncodesShared == ASSUME NEW f PROVE Encodings(Shared(f)) = Common(f)
<1>1. Encodings(Shared(f)) = <<Encoding(StringItem(encode_length(f.gas))), Encoding(StringItem(f.to)),
                               Encoding(StringItem(Stripped(f.value))), Encoding(StringItem(f.data))>>
  BY EncodesFour, Zenon DEF Shared
<1>2. Encoding(StringItem(encode_length(f.gas))) = rlp_encode_u64(f.gas)
  BY NumberEncoding, Zenon
<1>3. Encoding(StringItem(f.to)) = rlp_encode_item(f.to)
  BY StringEncoding, Zenon
<1>4. Encoding(StringItem(Stripped(f.value))) = rlp_encode_u256(f.value)
  BY WordEncoding, Zenon
<1>5. Encoding(StringItem(f.data)) = rlp_encode_item(f.data)
  BY StringEncoding, Zenon
<1> QED
  BY <1>1, <1>2, <1>3, <1>4, <1>5, Zenon DEF Common

LEMMA EncodesTwo ==
  ASSUME NEW a, NEW b PROVE Encodings(Two(a, b)) = <<Encoding(StringItem(a)), Encoding(StringItem(b))>>
BY EncodingsOfTwo, Zenon DEF Two

LEMMA EncodesThree ==
  ASSUME NEW a, NEW b, NEW c
  PROVE  Encodings(Three(a, b, c)) = <<Encoding(StringItem(a)), Encoding(StringItem(b)), Encoding(StringItem(c))>>
BY EncodingsOfThree, Zenon DEF Three

LEMMA SmallItems == ASSUME NEW f, NEW xs \in Seq(Small(f)) PROVE xs \in Seq(Item)
BY DEF Small

LEMMA EncodesBare ==
  ASSUME NEW f, IsFields(f)
  PROVE  Encodings(Bare(f)) = Type0Items(f)
<1> DEFINE p == Two(encode_length(f.nonce), Stripped(f.fees[1]))
           q == Shared(f)
<1>1. p \in Seq(Item)
  <2>1. p \in Seq(Small(f))
    BY FieldsFit, TwoStrings
  <2> QED
    BY <2>1, SmallItems
<1>2. q \in Seq(Item)
  <2>1. q \in Seq(Small(f))
    BY FieldsFit, FourStrings DEF Shared
  <2> QED
    BY <2>1, SmallItems
<1>3. Encodings(p) = <<rlp_encode_u64(f.nonce), rlp_encode_u256(f.fees[1])>>
  BY EncodesTwo, NumberEncoding, WordEncoding, Zenon
<1>4. Encodings(q) = Common(f)
  BY EncodesShared
<1>5. EncodesJoin(p, q)
  BY <1>1, <1>2, EncodingsJoin
<1>6. Bare(f) = p \o q
  BY Zenon DEF Bare
<1> HIDE DEF p, q
<1> QED
  BY <1>3, <1>4, <1>5, <1>6, Zenon DEF EncodesJoin, Type0Items

LEMMA EncodesLegacy ==
  ASSUME NEW f, IsFields(f), NEW a, NEW b, NEW c, Fits(a, f), Fits(b, f), Fits(c, f)
  PROVE  Encodings(Legacy(f, a, b, c)) =
           Type0Items(f) \o <<Encoding(StringItem(a)), Encoding(StringItem(b)), Encoding(StringItem(c))>>
<1>1. Bare(f) \in Seq(Item)
  BY BareIs, SmallItems
<1>2. Three(a, b, c) \in Seq(Item)
  <2>1. Three(a, b, c) \in Seq(Small(f))
    BY ThreeStrings
  <2> QED
    BY <2>1, SmallItems
<1>3. EncodesJoin(Bare(f), Three(a, b, c))
  BY <1>1, <1>2, EncodingsJoin
<1> QED
  BY <1>3, EncodesBare, EncodesThree, Zenon DEF EncodesJoin, Legacy

LEMMA EncodesUnsigned ==
  ASSUME NEW f, IsFields(f), NEW chain, IsNumber(chain)
  PROVE  Encodings(Unsigned(f, chain)) = Eip1559Items(f, chain)
<1> DEFINE p == Four(encode_length(chain), encode_length(f.nonce), Stripped(f.fees[1]), Stripped(f.fees[2]))
           q == Shared(f)
           r == <<EmptyList>>
<1>1. p \in Seq(Item) /\ p \in Seq(Small(f))
  <2>1. p \in Seq(Small(f))
    BY NumberFits, FieldsFit, FourStrings
  <2> QED
    BY <2>1, SmallItems
<1>2. q \in Seq(Item) /\ q \in Seq(Small(f))
  <2>1. q \in Seq(Small(f))
    BY FieldsFit, FourStrings DEF Shared
  <2> QED
    BY <2>1, SmallItems
<1>3. r \in Seq(Item)
  <2>1. EmptyList \in Item
    BY EmptyListSmall DEF SmallItem
  <2> QED
    BY <2>1
<1>4. Encodings(p) = <<rlp_encode_u64(chain), rlp_encode_u64(f.nonce),
                       rlp_encode_u256(f.fees[1]), rlp_encode_u256(f.fees[2])>>
  <2>1. Encodings(p) = <<Encoding(StringItem(encode_length(chain))), Encoding(StringItem(encode_length(f.nonce))),
                         Encoding(StringItem(Stripped(f.fees[1]))), Encoding(StringItem(Stripped(f.fees[2])))>>
    BY EncodesFour, Zenon
  <2>2. Encoding(StringItem(encode_length(chain))) = rlp_encode_u64(chain)
    BY NumberEncoding, Zenon
  <2>3. Encoding(StringItem(encode_length(f.nonce))) = rlp_encode_u64(f.nonce)
    BY NumberEncoding, Zenon
  <2>4. Encoding(StringItem(Stripped(f.fees[1]))) = rlp_encode_u256(f.fees[1])
    BY WordEncoding, Zenon
  <2>5. Encoding(StringItem(Stripped(f.fees[2]))) = rlp_encode_u256(f.fees[2])
    BY WordEncoding, Zenon
  <2> HIDE DEF p
  <2> QED
    BY <2>1, <2>2, <2>3, <2>4, <2>5, Zenon
<1>5. Encodings(q) = Common(f)
  BY EncodesShared
<1>6. Encodings(r) = <<rlp_encode_list(<< >>)>>
  BY EncodingsOfOne, EmptyListSmall, Zenon
<1>7. EncodesJoin(p, q)
  BY <1>1, <1>2, EncodingsJoin
<1>8. p \o q \in Seq(Item)
  BY <1>1, <1>2
<1>9. EncodesJoin(p \o q, r)
  BY <1>3, <1>8, EncodingsJoin
<1>10. Unsigned(f, chain) = (p \o q) \o r
  BY Zenon DEF Unsigned
<1> HIDE DEF p, q, r
<1> QED
  BY <1>4, <1>5, <1>6, <1>7, <1>9, <1>10, Zenon DEF EncodesJoin, Eip1559Items

LEMMA EncodesSigned ==
  ASSUME NEW f, IsFields(f), NEW chain, IsNumber(chain),
         NEW a, NEW b, NEW c, Fits(a, f), Fits(b, f), Fits(c, f)
  PROVE  Encodings(Signed(f, chain, a, b, c)) =
           Eip1559Items(f, chain) \o
             <<Encoding(StringItem(a)), Encoding(StringItem(b)), Encoding(StringItem(c))>>
<1>1. Unsigned(f, chain) \in Seq(Item)
  BY UnsignedIs, SmallItems
<1>2. Three(a, b, c) \in Seq(Item)
  <2>1. Three(a, b, c) \in Seq(Small(f))
    BY ThreeStrings
  <2> QED
    BY <2>1, SmallItems
<1>3. EncodesJoin(Unsigned(f, chain), Three(a, b, c))
  BY <1>1, <1>2, EncodingsJoin
<1> QED
  BY <1>3, EncodesUnsigned, EncodesThree, Zenon DEF EncodesJoin, Signed

LEMMA FitsIs ==
  ASSUME NEW f, IsFields(f), NEW s, Fits(s, f)
  PROVE  s \in Seq(Octet) /\ Len(s) < Values(U64Size)
<1>1. StringItem(s) \in Item
  BY StringSmall DEF SmallItem
<1>2. StringItem(s).bytes = s
  BY DEF StringItem
<1> QED
  BY <1>1, <1>2, ItemType

LEMMA NothingFits == ASSUME NEW f, IsFields(f) PROVE Fits(<< >>, f)
<1>1. PICK d \in Nat, u \in Nat : d = Len(f.data) /\ u = U256Size
  BY FieldSizes, Sizes, Zenon
<1>2. Len(<< >>) = 0 /\ 0 <= u + d /\ << >> \in Seq(Octet)
  OBVIOUS
<1> QED
  BY <1>1, <1>2, Zenon DEF Fits

LEMMA WordFits == ASSUME NEW f, IsFields(f), NEW b, IsWord(b) PROVE Fits(Stripped(b), f)
<1>1. b \in Seq(Octet) /\ Len(b) = U256Size
  BY DEF IsWord
<1>2. Stripped(b) \in Seq(Octet) /\ Len(Stripped(b)) <= Len(b)
  BY <1>1, StrippedFacts
<1>3. PICK l \in Nat, u \in Nat, d \in Nat :
        l = Len(Stripped(b)) /\ u = U256Size /\ d = Len(f.data) /\ l <= u
  <2>1. Len(Stripped(b)) \in Nat
    BY <1>2
  <2> QED
    BY <1>1, <1>2, <2>1, FieldSizes, Sizes, Zenon
<1>4. l <= u + d
  BY <1>3
<1> QED
  BY <1>2, <1>3, <1>4, Zenon DEF Fits

LEMMA SignatureIs ==
  ASSUME NEW sig \in Signature
  PROVE  IsWord(sig.r) /\ IsWord(sig.s) /\ IsNumber(sig.y) /\ sig.y \in {0, 1} /\ Len(sig.r) = U256Size
<1>1. sig \in [y : {0, 1}, r : [1..U256Size -> Octet], s : [1..U256Size -> Octet]]
  BY EvmAssumption
<1>2. sig.y \in {0, 1} /\ sig.r \in [1..U256Size -> Octet] /\ sig.s \in [1..U256Size -> Octet]
  BY <1>1
<1>3. U256Size \in Nat
  BY Sizes
<1>4. IsWord(sig.r) /\ IsWord(sig.s)
  BY <1>2, <1>3 DEF IsWord
<1>5. IsNumber(sig.y)
  <2>1. PICK k \in 1..8 : k = U64Size
    BY EvmAssumption
  <2>2. PICK j \in Nat : k = j + 1
    <3>1. k - 1 \in Nat /\ k = (k - 1) + 1
      OBVIOUS
    <3> QED
      BY <3>1
  <2>3. Values(j + 1) = 256 * Values(j) /\ Values(j) \in Nat /\ Values(j) > 0
    BY ValuesFacts, ValuesPositive
  <2>4. PICK v \in Nat : v = Values(j) /\ v > 0
    BY <2>3
  <2>5. 0 < 256 * v /\ 1 < 256 * v
    BY <2>4
  <2>6. 0 < Values(U64Size) /\ 1 < Values(U64Size)
    BY <2>1, <2>2, <2>3, <2>4, <2>5
  <2> QED
    BY <1>2, <2>6 DEF IsNumber
<1>6. Len(sig.r) = U256Size
  BY <1>4 DEF IsWord
<1> QED
  BY <1>2, <1>4, <1>5, <1>6

LegacyList(f, a, b, c) == rlp_encode_list(Encodings(Legacy(f, a, b, c)))

LEMMA Type0PreimageIs ==
  ASSUME NEW f, IsFields(f), NEW chain, IsNumber(chain)
  PROVE  Type0Preimage(f, chain) = LegacyList(f, encode_length(chain), << >>, << >>)
<1>1. Fits(encode_length(chain), f) /\ Fits(<< >>, f)
  BY NumberFits, NothingFits
<1>2. Encodings(Legacy(f, encode_length(chain), << >>, << >>)) =
        Type0Items(f) \o <<Encoding(StringItem(encode_length(chain))), Encoding(StringItem(<< >>)),
                           Encoding(StringItem(<< >>))>>
  BY <1>1, EncodesLegacy
<1>3. Encoding(StringItem(encode_length(chain))) = rlp_encode_u64(chain)
  BY NumberEncoding, Zenon
<1> QED
  BY <1>2, <1>3, NothingEncoding, Zenon DEF Type0Preimage, LegacyList

LEMMA Type0VIs ==
  ASSUME NEW chain, IsNumber(chain), NEW y \in {0, 1}
  PROVE  IsNumber(Type0V(chain, y))
<1>1. PICK v \in Nat : v = Values(U64Size) /\ v > 0
  BY Sizes, ValuesPositive
<1>2. PICK n \in Nat : n = chain * 2 + 35 + y
  <2>1. chain \in Nat
    BY DEF IsNumber
  <2>2. chain * 2 + 35 + y \in Nat
    BY <2>1
  <2> QED
    BY <2>2
<1>3. n % v \in Nat /\ n % v < v
  BY <1>1
<1> QED
  BY <1>1, <1>2, <1>3, Zenon DEF Type0V, IsNumber

LEMMA Type0RawIs ==
  ASSUME NEW f, IsFields(f), NEW chain, IsNumber(chain), NEW sig \in Signature
  PROVE  Type0Raw(f, chain, sig) =
           LegacyList(f, encode_length(Type0V(chain, sig.y)), Stripped(sig.r), Stripped(sig.s))
<1> DEFINE v == Type0V(chain, sig.y)
<1>1. IsNumber(v) /\ IsWord(sig.r) /\ IsWord(sig.s)
  BY SignatureIs, Type0VIs
<1> HIDE DEF v
<1>2. Fits(encode_length(v), f) /\ Fits(Stripped(sig.r), f) /\ Fits(Stripped(sig.s), f)
  BY <1>1, NumberFits, WordFits
<1>3. Encodings(Legacy(f, encode_length(v), Stripped(sig.r), Stripped(sig.s))) =
        Type0Items(f) \o <<Encoding(StringItem(encode_length(v))), Encoding(StringItem(Stripped(sig.r))),
                           Encoding(StringItem(Stripped(sig.s)))>>
  BY <1>2, EncodesLegacy
<1>4. Encoding(StringItem(encode_length(v))) = rlp_encode_u64(v)
  BY NumberEncoding, Zenon
<1>5. Encoding(StringItem(Stripped(sig.r))) = rlp_encode_u256(sig.r)
  BY WordEncoding, Zenon
<1>6. Encoding(StringItem(Stripped(sig.s))) = rlp_encode_u256(sig.s)
  BY WordEncoding, Zenon
<1> QED
  BY <1>3, <1>4, <1>5, <1>6, Zenon DEF Type0Raw, LegacyList, v

UnsignedList(f, chain) == rlp_encode_list(Encodings(Unsigned(f, chain)))

SignedList(f, chain, a, b, c) == rlp_encode_list(Encodings(Signed(f, chain, a, b, c)))

LEMMA Eip1559PreimageIs ==
  ASSUME NEW f, IsFields(f), NEW chain, IsNumber(chain)
  PROVE  Eip1559Preimage(f, chain) = << 2 >> \o UnsignedList(f, chain)
BY EncodesUnsigned DEF Eip1559Preimage, UnsignedList

LEMMA Eip1559RawIs ==
  ASSUME NEW f, IsFields(f), NEW chain, IsNumber(chain), NEW sig \in Signature
  PROVE  Eip1559Raw(f, chain, sig) =
           << 2 >> \o SignedList(f, chain, encode_length(sig.y), Stripped(sig.r), Stripped(sig.s))
<1>1. IsNumber(sig.y) /\ IsWord(sig.r) /\ IsWord(sig.s)
  BY SignatureIs
<1>2. Fits(encode_length(sig.y), f) /\ Fits(Stripped(sig.r), f) /\ Fits(Stripped(sig.s), f)
  BY <1>1, NumberFits, WordFits
<1>3. Encodings(Signed(f, chain, encode_length(sig.y), Stripped(sig.r), Stripped(sig.s))) =
        Eip1559Items(f, chain) \o
          <<Encoding(StringItem(encode_length(sig.y))), Encoding(StringItem(Stripped(sig.r))),
            Encoding(StringItem(Stripped(sig.s)))>>
  BY <1>2, EncodesSigned
<1>4. Encoding(StringItem(encode_length(sig.y))) = rlp_encode_u64(sig.y)
  BY NumberEncoding, Zenon
<1>5. Encoding(StringItem(Stripped(sig.r))) = rlp_encode_u256(sig.r)
  BY WordEncoding, Zenon
<1>6. Encoding(StringItem(Stripped(sig.s))) = rlp_encode_u256(sig.s)
  BY WordEncoding, Zenon
<1> QED
  BY <1>3, <1>4, <1>5, <1>6, Zenon DEF Eip1559Raw, SignedList

-----------------------------------------------------------------------------
(* A node hashes what the signer hashed. *)

LEMMA NodeNumber ==
  ASSUME NEW f, IsFields(f), NEW n, IsNumber(n)
  PROVE  NodeInt(n) = rlp_encode_u64(n)
<1>1. NodeBytes(n) = encode_length(n)
  BY LengthBytes DEF IsNumber
<1>2. Fits(encode_length(n), f)
  BY NumberFits
<1>3. encode_length(n) \in Seq(Octet) /\ Len(encode_length(n)) < Values(U64Size)
  BY <1>2, FitsIs
<1>4. NodeString(encode_length(n)) = rlp_encode_item(encode_length(n))
  BY <1>3, NodeStringIs
<1> QED
  BY <1>1, <1>4, Zenon DEF NodeInt, rlp_encode_u64, rlp_encode_u256, encode_length

LEMMA NodeWord ==
  ASSUME NEW f, IsFields(f), NEW b, IsWord(b)
  PROVE  NodeInt(Number(b)) = rlp_encode_u256(b)
<1>1. b \in Seq(Octet) /\ Len(b) = U256Size
  BY DEF IsWord
<1>2. BigEndian(Number(b), Len(b)) = b
  BY <1>1, BigEndianOfNumber
<1>3. NodeBytes(Number(b)) = Stripped(b)
  BY <1>1, <1>2, Zenon DEF NodeBytes
<1>4. Fits(Stripped(b), f)
  BY WordFits
<1>5. Stripped(b) \in Seq(Octet) /\ Len(Stripped(b)) < Values(U64Size)
  BY <1>4, FitsIs
<1>6. NodeString(Stripped(b)) = rlp_encode_item(Stripped(b))
  BY <1>5, NodeStringIs
<1> QED
  BY <1>3, <1>6, Zenon DEF NodeInt, rlp_encode_u256

LEMMA NodeBytesOf ==
  ASSUME NEW f, IsFields(f), NEW s, Fits(s, f)
  PROVE  NodeString(s) = rlp_encode_item(s)
BY FitsIs, NodeStringIs

LegacyTx(f, v, r, s) ==
    [kind |-> "type0", nonce |-> f.nonce, fees |-> <<Number(f.fees[1])>>, gas |-> f.gas,
     to |-> f.to, value |-> Number(f.value), data |-> f.data,
     chain |-> IF v < 35 THEN 0 ELSE (v - 35) \div 2,
     sig |-> <<IF v < 35 THEN v - 27 ELSE (v - 35) % 2, r, s>>]

DynamicTx(f, chain, y, r, s) ==
    [kind |-> "eip1559", nonce |-> f.nonce, fees |-> <<Number(f.fees[1]), Number(f.fees[2])>>,
     gas |-> f.gas, to |-> f.to, value |-> Number(f.value), data |-> f.data,
     chain |-> chain, sig |-> <<y, r, s>>]

(* The fields of a transaction are these.                                  *)
Carries(t, f) ==
    /\ t.nonce = f.nonce /\ t.gas = f.gas /\ t.to = f.to /\ t.data = f.data
    /\ t.value = Number(f.value) /\ t.fees[1] = Number(f.fees[1])

LEMMA NodeCommon ==
  ASSUME NEW f, IsFields(f), NEW t, Carries(t, f)
  PROVE  <<NodeInt(t.gas), NodeString(t.to), NodeInt(t.value), NodeString(t.data)>> = Common(f)
<1>1. NodeInt(f.gas) = rlp_encode_u64(f.gas)
  BY NodeNumber DEF IsFields
<1>2. NodeString(f.to) = rlp_encode_item(f.to)
  BY FieldsFit, NodeBytesOf
<1>3. NodeInt(Number(f.value)) = rlp_encode_u256(f.value)
  BY NodeWord DEF IsFields
<1>4. NodeString(f.data) = rlp_encode_item(f.data)
  BY FieldsFit, NodeBytesOf
<1> QED
  BY <1>1, <1>2, <1>3, <1>4, Zenon DEF Carries, Common

LEMMA NodeListOf ==
  ASSUME NEW f, IsFields(f), NEW xs \in Seq(Small(f)), Len(xs) <= 12
  PROVE  NodeList(Encodings(xs)) = rlp_encode_list(Encodings(xs))
<1>1. xs \in Seq(Item) /\ Len(Payload(xs)) < Values(U64Size)
  BY SmallList DEF Small
<1>2. Payload(xs) \in Seq(Octet)
  <2>1. 0 \in Nat /\ 0 <= Len(xs)
    BY <1>1
  <2> QED
    BY <1>1, <2>1, FirstType
<1> QED
  BY <1>1, <1>2, NodeListIs DEF Payload

BareList(f) == rlp_encode_list(Encodings(Bare(f)))

LEMMA LegacyHash ==
  ASSUME NEW f, IsFields(f), NEW t, Carries(t, f), t.kind = "type0", IsNumber(t.chain)
  PROVE  /\ t.chain # 0 => NodeHash(t) = Keccak(LegacyList(f, encode_length(t.chain), << >>, << >>))
         /\ t.chain = 0 => NodeHash(t) = Keccak(BareList(f))
<1> DEFINE rest == <<NodeInt(t.gas), NodeString(t.to), NodeInt(t.value), NodeString(t.data)>>
<1>1. rest = Common(f)
  BY NodeCommon
<1>2. <<NodeInt(t.nonce), NodeInt(t.fees[1])>> = <<rlp_encode_u64(f.nonce), rlp_encode_u256(f.fees[1])>>
  <2>1. NodeInt(f.nonce) = rlp_encode_u64(f.nonce)
    BY NodeNumber DEF IsFields
  <2>2. NodeInt(Number(f.fees[1])) = rlp_encode_u256(f.fees[1])
    BY NodeWord DEF IsFields
  <2> QED
    BY <2>1, <2>2, Zenon DEF Carries
<1>3. t.kind # "eip1559"
  OBVIOUS
<1>4. NodeHash(t) = Keccak(NodeList(<<NodeInt(t.nonce), NodeInt(t.fees[1])>> \o rest
                      \o (IF t.chain = 0 THEN << >> ELSE <<NodeInt(t.chain), <<128>>, <<128>>>>)))
  BY <1>3, Zenon DEF NodeHash
<1> HIDE DEF rest
<1>5. NodeHash(t) = Keccak(NodeList(Type0Items(f)
                      \o (IF t.chain = 0 THEN << >> ELSE <<NodeInt(t.chain), <<128>>, <<128>>>>)))
  BY <1>1, <1>2, <1>4, Zenon DEF Type0Items
<1>6. ASSUME t.chain # 0
      PROVE  NodeHash(t) = Keccak(LegacyList(f, encode_length(t.chain), << >>, << >>))
  <2> DEFINE xs == Legacy(f, encode_length(t.chain), << >>, << >>)
  <2>1. Fits(encode_length(t.chain), f) /\ Fits(<< >>, f)
    BY NumberFits, NothingFits
  <2>2. Encodings(xs) =
        Type0Items(f) \o <<Encoding(StringItem(encode_length(t.chain))), Encoding(StringItem(<< >>)),
                           Encoding(StringItem(<< >>))>>
    BY <2>1, EncodesLegacy
  <2>3. NodeInt(t.chain) = Encoding(StringItem(encode_length(t.chain)))
    BY NodeNumber, NumberEncoding, Zenon
  <2>4. xs \in Seq(Small(f)) /\ Len(xs) = 9
    BY <2>1, LegacyIs DEF LegacyHas
  <2> HIDE DEF xs
  <2>5. NodeList(Encodings(xs)) = rlp_encode_list(Encodings(xs))
    <3>1. Len(xs) <= 12
      BY <2>4
    <3> QED
      BY <2>4, <3>1, NodeListOf
  <2>6. NodeHash(t) = Keccak(NodeList(Encodings(xs)))
    BY <1>5, <1>6, <2>2, <2>3, NothingEncoding, Zenon
  <2> QED
    BY <2>5, <2>6, Zenon DEF LegacyList, xs
<1>7. ASSUME t.chain = 0 PROVE NodeHash(t) = Keccak(BareList(f))
  <2>1. Bare(f) \in Seq(Small(f)) /\ Len(Bare(f)) = 6 /\ Len(Bare(f)) <= 12
    <3>1. Bare(f) \in Seq(Small(f)) /\ Len(Bare(f)) = 6
      BY BareIs
    <3> QED
      BY <3>1
  <2>2. Encodings(Bare(f)) = Type0Items(f)
    BY EncodesBare
  <2>3. Encodings(Bare(f)) \in Seq(Seq(Octet))
    BY <2>1, SmallItems, EncodingsType
  <2>4. Type0Items(f) \o << >> = Type0Items(f)
    BY <2>2, <2>3
  <2>5. NodeHash(t) = Keccak(NodeList(Encodings(Bare(f))))
    BY <1>5, <1>7, <2>2, <2>4, Zenon
  <2>6. NodeList(Encodings(Bare(f))) = rlp_encode_list(Encodings(Bare(f)))
    BY <2>1, NodeListOf
  <2> QED
    BY <2>5, <2>6, Zenon DEF BareList
<1> QED
  BY <1>6, <1>7

LEMMA DynamicHash ==
  ASSUME NEW f, IsFields(f), NEW t, Carries(t, f), t.kind = "eip1559", IsNumber(t.chain),
         t.fees[2] = Number(f.fees[2])
  PROVE  NodeHash(t) = Keccak(<< 2 >> \o UnsignedList(f, t.chain))
<1> DEFINE rest == <<NodeInt(t.gas), NodeString(t.to), NodeInt(t.value), NodeString(t.data)>>
           front == <<NodeInt(t.chain), NodeInt(t.nonce), NodeInt(t.fees[1]), NodeInt(t.fees[2])>>
<1>1. rest = Common(f)
  BY NodeCommon
<1>2. front = <<rlp_encode_u64(t.chain), rlp_encode_u64(f.nonce),
                rlp_encode_u256(f.fees[1]), rlp_encode_u256(f.fees[2])>>
  <2>1. NodeInt(f.nonce) = rlp_encode_u64(f.nonce)
    BY NodeNumber DEF IsFields
  <2>2. NodeInt(Number(f.fees[1])) = rlp_encode_u256(f.fees[1])
    BY NodeWord DEF IsFields
  <2>3. NodeInt(Number(f.fees[2])) = rlp_encode_u256(f.fees[2])
    BY NodeWord DEF IsFields
  <2>4. NodeInt(t.chain) = rlp_encode_u64(t.chain)
    BY NodeNumber
  <2> QED
    BY <2>1, <2>2, <2>3, <2>4, Zenon DEF Carries
<1>3. NodeHash(t) = Keccak(<< 2 >> \o NodeList(front \o rest \o << <<192>> >>))
  BY Zenon DEF NodeHash
<1> HIDE DEF rest, front
<1>4. rlp_encode_list(<< >>) = <<192>>
  <2>1. Encoding(EmptyList) = <<192>>
    BY DEF EmptyList, Encoding
  <2> QED
    BY <2>1, EmptyListSmall
<1>5. front \o rest \o << <<192>> >> = Eip1559Items(f, t.chain)
  BY <1>1, <1>2, <1>4, Zenon DEF Eip1559Items
<1>6. Unsigned(f, t.chain) \in Seq(Small(f)) /\ Len(Unsigned(f, t.chain)) <= 12
  <2>1. Unsigned(f, t.chain) \in Seq(Small(f)) /\ Len(Unsigned(f, t.chain)) = 9
    BY UnsignedIs
  <2> QED
    BY <2>1
<1>7. Encodings(Unsigned(f, t.chain)) = Eip1559Items(f, t.chain)
  BY EncodesUnsigned
<1>8. NodeList(Encodings(Unsigned(f, t.chain))) = rlp_encode_list(Encodings(Unsigned(f, t.chain)))
  BY <1>6, NodeListOf
<1> QED
  BY <1>3, <1>5, <1>7, <1>8, Zenon DEF UnsignedList

-----------------------------------------------------------------------------
(* A node reads what the signer wrote. *)

(* The strings of a list of the kind before EIP-1559.                      *)
LegacyStrings(f, a, b, c, i) ==
    /\ i[1] = encode_length(f.nonce) /\ i[2] = Stripped(f.fees[1]) /\ i[3] = encode_length(f.gas)
    /\ i[4] = f.to /\ i[5] = Stripped(f.value) /\ i[6] = f.data
    /\ i[7] = a /\ i[8] = b /\ i[9] = c

LEMMA StringOf == \A s : StringItem(s).bytes = s
BY DEF StringItem

LEMMA StringAt ==
  ASSUME NEW xs, NEW k, k \in 1..Len(xs), NEW s, xs[k] = StringItem(s)
  PROVE  ListStrings(xs)[k] = s
<1>1. ListStrings(xs)[k] = xs[k].bytes
  BY Zenon DEF ListStrings
<1>2. StringItem(s).bytes = s
  BY StringOf, Zenon
<1> QED
  BY <1>1, <1>2, Zenon

LEMMA LegacyListStrings ==
  ASSUME NEW f, NEW a, NEW b, NEW c, NEW xs, LegacyHas(f, a, b, c, xs)
  PROVE  LegacyStrings(f, a, b, c, ListStrings(xs))
<1>1. Len(xs) = 9 /\ BareHas(f, xs)
  BY Zenon DEF LegacyHas
<1>2. 1 \in 1..Len(xs) /\ 2 \in 1..Len(xs) /\ 3 \in 1..Len(xs) /\ 4 \in 1..Len(xs) /\ 5 \in 1..Len(xs) /\ 6 \in 1..Len(xs)
        /\ 7 \in 1..Len(xs) /\ 8 \in 1..Len(xs) /\ 9 \in 1..Len(xs)
  BY <1>1
<1>4. ListStrings(xs)[1] = encode_length(f.nonce)
  <2>1. xs[1] = StringItem(encode_length(f.nonce))
    BY <1>1, Zenon DEF BareHas
  <2> QED
    BY <1>2, <2>1, StringAt
<1>5. ListStrings(xs)[2] = Stripped(f.fees[1])
  <2>1. xs[2] = StringItem(Stripped(f.fees[1]))
    BY <1>1, Zenon DEF BareHas
  <2> QED
    BY <1>2, <2>1, StringAt
<1>6. ListStrings(xs)[3] = encode_length(f.gas)
  <2>1. xs[3] = StringItem(encode_length(f.gas))
    BY <1>1, Zenon DEF BareHas
  <2> QED
    BY <1>2, <2>1, StringAt
<1>7. ListStrings(xs)[4] = f.to
  <2>1. xs[4] = StringItem(f.to)
    BY <1>1, Zenon DEF BareHas
  <2> QED
    BY <1>2, <2>1, StringAt
<1>8. ListStrings(xs)[5] = Stripped(f.value)
  <2>1. xs[5] = StringItem(Stripped(f.value))
    BY <1>1, Zenon DEF BareHas
  <2> QED
    BY <1>2, <2>1, StringAt
<1>9. ListStrings(xs)[6] = f.data
  <2>1. xs[6] = StringItem(f.data)
    BY <1>1, Zenon DEF BareHas
  <2> QED
    BY <1>2, <2>1, StringAt
<1>10. ListStrings(xs)[7] = a
  <2>1. xs[7] = StringItem(a)
    BY Zenon DEF LegacyHas
  <2> QED
    BY <1>2, <2>1, StringAt
<1>11. ListStrings(xs)[8] = b
  <2>1. xs[8] = StringItem(b)
    BY Zenon DEF LegacyHas
  <2> QED
    BY <1>2, <2>1, StringAt
<1>12. ListStrings(xs)[9] = c
  <2>1. xs[9] = StringItem(c)
    BY Zenon DEF LegacyHas
  <2> QED
    BY <1>2, <2>1, StringAt
<1> QED
  BY <1>4, <1>5, <1>6, <1>7, <1>8, <1>9, <1>10, <1>11, <1>12, Zenon DEF LegacyStrings

DynamicStrings(f, chain, a, b, c, i) ==
    /\ i[1] = encode_length(chain) /\ i[2] = encode_length(f.nonce) /\ i[3] = Stripped(f.fees[1])
    /\ i[4] = Stripped(f.fees[2]) /\ i[5] = encode_length(f.gas) /\ i[6] = f.to
    /\ i[7] = Stripped(f.value) /\ i[8] = f.data
    /\ i[10] = a /\ i[11] = b /\ i[12] = c

LEMMA DynamicListStrings ==
  ASSUME NEW f, NEW chain, NEW a, NEW b, NEW c, NEW xs, SignedHas(f, chain, a, b, c, xs)
  PROVE  DynamicStrings(f, chain, a, b, c, ListStrings(xs))
<1>1. Len(xs) = 12 /\ UnsignedHas(f, chain, xs)
  BY Zenon DEF SignedHas
<1>2. 1 \in 1..Len(xs) /\ 2 \in 1..Len(xs) /\ 3 \in 1..Len(xs) /\ 4 \in 1..Len(xs) /\ 5 \in 1..Len(xs) /\ 6 \in 1..Len(xs)
        /\ 7 \in 1..Len(xs) /\ 8 \in 1..Len(xs) /\ 10 \in 1..Len(xs) /\ 11 \in 1..Len(xs) /\ 12 \in 1..Len(xs)
  BY <1>1
<1>4. ListStrings(xs)[1] = encode_length(chain)
  <2>1. xs[1] = StringItem(encode_length(chain))
    BY <1>1, Zenon DEF UnsignedHas
  <2> QED
    BY <1>2, <2>1, StringAt
<1>5. ListStrings(xs)[2] = encode_length(f.nonce)
  <2>1. xs[2] = StringItem(encode_length(f.nonce))
    BY <1>1, Zenon DEF UnsignedHas
  <2> QED
    BY <1>2, <2>1, StringAt
<1>6. ListStrings(xs)[3] = Stripped(f.fees[1])
  <2>1. xs[3] = StringItem(Stripped(f.fees[1]))
    BY <1>1, Zenon DEF UnsignedHas
  <2> QED
    BY <1>2, <2>1, StringAt
<1>7. ListStrings(xs)[4] = Stripped(f.fees[2])
  <2>1. xs[4] = StringItem(Stripped(f.fees[2]))
    BY <1>1, Zenon DEF UnsignedHas
  <2> QED
    BY <1>2, <2>1, StringAt
<1>8. ListStrings(xs)[5] = encode_length(f.gas)
  <2>1. xs[5] = StringItem(encode_length(f.gas))
    BY <1>1, Zenon DEF UnsignedHas
  <2> QED
    BY <1>2, <2>1, StringAt
<1>9. ListStrings(xs)[6] = f.to
  <2>1. xs[6] = StringItem(f.to)
    BY <1>1, Zenon DEF UnsignedHas
  <2> QED
    BY <1>2, <2>1, StringAt
<1>10. ListStrings(xs)[7] = Stripped(f.value)
  <2>1. xs[7] = StringItem(Stripped(f.value))
    BY <1>1, Zenon DEF UnsignedHas
  <2> QED
    BY <1>2, <2>1, StringAt
<1>11. ListStrings(xs)[8] = f.data
  <2>1. xs[8] = StringItem(f.data)
    BY <1>1, Zenon DEF UnsignedHas
  <2> QED
    BY <1>2, <2>1, StringAt
<1>12. ListStrings(xs)[10] = a
  <2>1. xs[10] = StringItem(a)
    BY Zenon DEF SignedHas
  <2> QED
    BY <1>2, <2>1, StringAt
<1>13. ListStrings(xs)[11] = b
  <2>1. xs[11] = StringItem(b)
    BY Zenon DEF SignedHas
  <2> QED
    BY <1>2, <2>1, StringAt
<1>14. ListStrings(xs)[12] = c
  <2>1. xs[12] = StringItem(c)
    BY Zenon DEF SignedHas
  <2> QED
    BY <1>2, <2>1, StringAt
<1> QED
  BY <1>4, <1>5, <1>6, <1>7, <1>8, <1>9,
     <1>10, <1>11, <1>12, <1>13, <1>14, Zenon DEF DynamicStrings

LEMMA NumberQuantity ==
  ASSUME NEW n, IsNumber(n)
  PROVE  IsQuantity(encode_length(n)) /\ Number(encode_length(n)) = n
<1>1. encode_length(n) \in Seq(Octet) /\ Len(encode_length(n)) <= U64Size
        /\ IsCanonical(encode_length(n)) /\ Number(encode_length(n)) = n
  BY LengthBytes DEF IsNumber
<1>2. Len(encode_length(n)) <= U256Size
  <2>1. PICK l \in Nat : l = Len(encode_length(n))
    BY <1>1
  <2> QED
    BY <1>1, <2>1, Sizes
<1> QED
  BY <1>1, <1>2, Zenon DEF IsQuantity, IsCanonical

LEMMA WordQuantity ==
  ASSUME NEW b, IsWord(b)
  PROVE  IsQuantity(Stripped(b)) /\ Number(Stripped(b)) = Number(b)
<1>1. b \in Seq(Octet) /\ Len(b) = U256Size
  BY DEF IsWord
<1>2. Stripped(b) \in Seq(Octet) /\ Len(Stripped(b)) <= Len(b)
        /\ IsCanonical(Stripped(b)) /\ Number(Stripped(b)) = Number(b)
  BY <1>1, StrippedFacts
<1> QED
  BY <1>1, <1>2, Zenon DEF IsQuantity, IsCanonical

(* The two halves of NodeReads.                                            *)
IsLegacyRead(i) == \A j \in {1, 2, 3, 5, 7, 8, 9} : IsQuantity(i[j])

LegacyRead(i) ==
    [kind |-> "type0", nonce |-> Number(i[1]), fees |-> <<Number(i[2])>>, gas |-> Number(i[3]),
     to |-> i[4], value |-> Number(i[5]), data |-> i[6],
     chain |-> IF Number(i[7]) < 35 THEN 0 ELSE (Number(i[7]) - 35) \div 2,
     sig |-> <<IF Number(i[7]) < 35 THEN Number(i[7]) - 27 ELSE (Number(i[7]) - 35) % 2, i[8], i[9]>>]

IsDynamicRead(i) == \A j \in {1, 2, 3, 4, 5, 7, 10, 11, 12} : IsQuantity(i[j])

DynamicRead(i) ==
    [kind |-> "eip1559", nonce |-> Number(i[2]), fees |-> <<Number(i[3]), Number(i[4])>>,
     gas |-> Number(i[5]), to |-> i[6], value |-> Number(i[7]), data |-> i[8],
     chain |-> Number(i[1]), sig |-> <<Number(i[10]), i[11], i[12]>>]

LEMMA NodeReadsIs ==
  ASSUME NEW raw
  PROVE  NodeReads(raw) =
           {LegacyRead(i) : i \in {i \in RlpList(raw, 9) : IsLegacyRead(i)}}
             \cup {DynamicRead(i) : i \in {i \in IF raw[1] = 2 THEN RlpList(Tail(raw), 12) ELSE {} : IsDynamicRead(i)}}
BY Zenon DEF NodeReads, LegacyRead, IsLegacyRead, DynamicRead, IsDynamicRead

LEMMA OnlyLegacy ==
  ASSUME NEW raw, NEW i, RlpList(raw, 9) = {i}, IsLegacyRead(i), raw[1] # 2
  PROVE  NodeReads(raw) = {LegacyRead(i)}
<1>1. {x \in RlpList(raw, 9) : IsLegacyRead(x)} = {i}
  BY Zenon
<1>2. {LegacyRead(x) : x \in {i}} = {LegacyRead(i)}
  BY Zenon
<1>3. {x \in IF raw[1] = 2 THEN RlpList(Tail(raw), 12) ELSE {} : IsDynamicRead(x)} = {}
  BY Zenon
<1>4. {DynamicRead(x) : x \in {}} = {}
  BY Zenon
<1>5. {LegacyRead(i)} \cup {} = {LegacyRead(i)}
  OBVIOUS
<1> QED
  BY <1>1, <1>2, <1>3, <1>4, <1>5, NodeReadsIs, Zenon

LEMMA OnlyDynamic ==
  ASSUME NEW raw, NEW i, RlpList(raw, 9) = {}, raw[1] = 2, RlpList(Tail(raw), 12) = {i}, IsDynamicRead(i)
  PROVE  NodeReads(raw) = {DynamicRead(i)}
<1>1. {x \in RlpList(raw, 9) : IsLegacyRead(x)} = {}
  BY Zenon
<1>2. {LegacyRead(x) : x \in {}} = {}
  BY Zenon
<1>3. {x \in IF raw[1] = 2 THEN RlpList(Tail(raw), 12) ELSE {} : IsDynamicRead(x)} = {i}
  BY Zenon
<1>4. {DynamicRead(x) : x \in {i}} = {DynamicRead(i)}
  BY Zenon
<1>5. {} \cup {DynamicRead(i)} = {DynamicRead(i)}
  OBVIOUS
<1> QED
  BY <1>1, <1>2, <1>3, <1>4, <1>5, NodeReadsIs, Zenon

LEMMA LegacyReads ==
  ASSUME NEW f, IsFields(f), NEW v, IsNumber(v), NEW r, IsWord(r), NEW s, IsWord(s)
  PROVE  NodeReads(LegacyList(f, encode_length(v), Stripped(r), Stripped(s))) =
           {LegacyTx(f, v, Stripped(r), Stripped(s))}
<1> DEFINE xs == Legacy(f, encode_length(v), Stripped(r), Stripped(s))
           raw == rlp_encode_list(Encodings(xs))
           i == ListStrings(xs)
<1>1. Fits(encode_length(v), f) /\ Fits(Stripped(r), f) /\ Fits(Stripped(s), f)
  BY NumberFits, WordFits
<1>2. xs \in Seq(Small(f)) /\ LegacyHas(f, encode_length(v), Stripped(r), Stripped(s), xs)
  BY <1>1, LegacyIs
<1> HIDE DEF xs
<1>3. Len(xs) = 9
  BY <1>2, Zenon DEF LegacyHas
<1>4. xs \in Seq(Item) /\ Len(Payload(xs)) < Values(U64Size)
  <2>1. Len(xs) <= 12
    BY <1>3
  <2> QED
    BY <1>2, <2>1, SmallList DEF Small
<1>5. RlpList(raw, 9) = {i}
  BY <1>3, <1>4, ListRead
<1>6. raw[1] # 2
  <2>1. raw \in Seq(Octet) /\ Len(raw) > 0 /\ raw[1] >= 192
    BY <1>4, ListFirst
  <2> HIDE DEF raw
  <2> QED
    BY <2>1
<1>7. LegacyStrings(f, encode_length(v), Stripped(r), Stripped(s), i)
  BY <1>2, LegacyListStrings
<1> HIDE DEF raw, i
<1>8. /\ i[1] = encode_length(f.nonce) /\ i[2] = Stripped(f.fees[1]) /\ i[3] = encode_length(f.gas)
      /\ i[4] = f.to /\ i[5] = Stripped(f.value) /\ i[6] = f.data
      /\ i[7] = encode_length(v) /\ i[8] = Stripped(r) /\ i[9] = Stripped(s)
  BY <1>7, Zenon DEF LegacyStrings
<1>9. IsNumber(f.nonce) /\ IsNumber(f.gas) /\ IsWord(f.fees[1]) /\ IsWord(f.value)
  BY Zenon DEF IsFields
<1>10. IsQuantity(i[1]) /\ Number(i[1]) = f.nonce
  BY <1>8, <1>9, NumberQuantity
<1>11. IsQuantity(i[2]) /\ Number(i[2]) = Number(f.fees[1])
  BY <1>8, <1>9, WordQuantity
<1>12. IsQuantity(i[3]) /\ Number(i[3]) = f.gas
  BY <1>8, <1>9, NumberQuantity
<1>13. IsQuantity(i[5]) /\ Number(i[5]) = Number(f.value)
  BY <1>8, <1>9, WordQuantity
<1>14. IsQuantity(i[7]) /\ Number(i[7]) = v
  BY <1>8, <1>9, NumberQuantity
<1>15. IsQuantity(i[8]) /\ IsQuantity(i[9])
  BY <1>8, <1>9, WordQuantity
<1>16. IsLegacyRead(i)
  BY <1>10, <1>11, <1>12, <1>13, <1>14, <1>15 DEF IsLegacyRead
<1>17. LegacyRead(i) = LegacyTx(f, v, Stripped(r), Stripped(s))
  BY <1>8, <1>10, <1>11, <1>12, <1>13, <1>14, Zenon DEF LegacyRead, LegacyTx
<1>18. NodeReads(raw) = {LegacyRead(i)}
  BY <1>5, <1>6, <1>16, OnlyLegacy
<1>19. LegacyList(f, encode_length(v), Stripped(r), Stripped(s)) = raw
  BY Zenon DEF LegacyList, raw, xs
<1> QED
  BY <1>17, <1>18, <1>19, Zenon

LEMMA DynamicReads ==
  ASSUME NEW f, IsFields(f), NEW chain, IsNumber(chain), NEW y, IsNumber(y),
         NEW r, IsWord(r), NEW s, IsWord(s)
  PROVE  NodeReads(<< 2 >> \o SignedList(f, chain, encode_length(y), Stripped(r), Stripped(s))) =
           {DynamicTx(f, chain, y, Stripped(r), Stripped(s))}
<1> DEFINE xs == Signed(f, chain, encode_length(y), Stripped(r), Stripped(s))
           list == rlp_encode_list(Encodings(xs))
           i == ListStrings(xs)
<1>1. Fits(encode_length(y), f) /\ Fits(Stripped(r), f) /\ Fits(Stripped(s), f)
  BY NumberFits, WordFits
<1>2. xs \in Seq(Small(f)) /\ SignedHas(f, chain, encode_length(y), Stripped(r), Stripped(s), xs)
  BY <1>1, SignedIs
<1> HIDE DEF xs
<1>3. Len(xs) = 12
  BY <1>2, Zenon DEF SignedHas
<1>4. xs \in Seq(Item) /\ Len(Payload(xs)) < Values(U64Size)
  <2>1. Len(xs) <= 12
    BY <1>3
  <2> QED
    BY <1>2, <2>1, SmallList DEF Small
<1>5. RlpList(list, 12) = {i}
  BY <1>3, <1>4, ListRead
<1>6. list \in Seq(Octet)
  BY <1>4, ListFirst
<1>7. DynamicStrings(f, chain, encode_length(y), Stripped(r), Stripped(s), i)
  BY <1>2, DynamicListStrings
<1> HIDE DEF list, i
<1> DEFINE raw == << 2 >> \o list
<1>r. RlpList(raw, 9) = {} /\ raw[1] = 2 /\ Tail(raw) = list
  BY <1>6, NoListAfterTwo
<1> HIDE DEF raw
<1>8. /\ i[1] = encode_length(chain) /\ i[2] = encode_length(f.nonce) /\ i[3] = Stripped(f.fees[1])
      /\ i[4] = Stripped(f.fees[2]) /\ i[5] = encode_length(f.gas) /\ i[6] = f.to
      /\ i[7] = Stripped(f.value) /\ i[8] = f.data
      /\ i[10] = encode_length(y) /\ i[11] = Stripped(r) /\ i[12] = Stripped(s)
  BY <1>7, Zenon DEF DynamicStrings
<1>9. /\ IsNumber(f.nonce) /\ IsNumber(f.gas) /\ IsWord(f.fees[1]) /\ IsWord(f.fees[2])
      /\ IsWord(f.value)
  BY Zenon DEF IsFields
<1>10. IsQuantity(i[2]) /\ Number(i[2]) = f.nonce
  BY <1>8, <1>9, NumberQuantity
<1>11. IsQuantity(i[3]) /\ Number(i[3]) = Number(f.fees[1])
  BY <1>8, <1>9, WordQuantity
<1>12. IsQuantity(i[4]) /\ Number(i[4]) = Number(f.fees[2])
  BY <1>8, <1>9, WordQuantity
<1>13. IsQuantity(i[5]) /\ Number(i[5]) = f.gas
  BY <1>8, <1>9, NumberQuantity
<1>14. IsQuantity(i[7]) /\ Number(i[7]) = Number(f.value)
  BY <1>8, <1>9, WordQuantity
<1>15. IsQuantity(i[1]) /\ Number(i[1]) = chain
  BY <1>8, <1>9, NumberQuantity
<1>16. IsQuantity(i[10]) /\ Number(i[10]) = y
  BY <1>8, <1>9, NumberQuantity
<1>17. IsQuantity(i[11]) /\ IsQuantity(i[12])
  BY <1>8, <1>9, WordQuantity
<1>18. IsDynamicRead(i)
  BY <1>10, <1>11, <1>12, <1>13, <1>14, <1>15, <1>16, <1>17 DEF IsDynamicRead
<1>19. DynamicRead(i) = DynamicTx(f, chain, y, Stripped(r), Stripped(s))
  BY <1>8, <1>10, <1>11, <1>12, <1>13, <1>14, <1>15, <1>16, Zenon DEF DynamicRead, DynamicTx
<1>20. RlpList(Tail(raw), 12) = {i}
  BY <1>5, <1>r, Zenon
<1>21. NodeReads(raw) = {DynamicRead(i)}
  BY <1>18, <1>20, <1>r, OnlyDynamic
<1>22. << 2 >> \o SignedList(f, chain, encode_length(y), Stripped(r), Stripped(s)) = raw
  BY Zenon DEF SignedList, raw, list, xs
<1> QED
  BY <1>19, <1>21, <1>22, Zenon


-----------------------------------------------------------------------------
(* What is hashed tells the transactions apart. *)

LEMMA SameString == \A s, t : StringItem(s) = StringItem(t) => s = t
<1> SUFFICES ASSUME NEW s, NEW t, StringItem(s) = StringItem(t) PROVE s = t
  BY Zenon
<1>1. StringItem(s).bytes = s /\ StringItem(t).bytes = t
  BY StringOf, Zenon
<1> QED
  BY <1>1, Zenon

LEMMA SameNumber ==
  ASSUME NEW n, IsNumber(n), NEW m, IsNumber(m), encode_length(n) = encode_length(m)
  PROVE  n = m
<1>1. Number(encode_length(n)) = n /\ Number(encode_length(m)) = m
  BY NumberQuantity
<1> QED
  BY <1>1, Zenon

LEMMA SameWord ==
  ASSUME NEW b, IsWord(b), NEW c, IsWord(c), Stripped(b) = Stripped(c)
  PROVE  Number(b) = Number(c)
<1>1. Number(Stripped(b)) = Number(b)
  BY WordQuantity
<1>2. Number(Stripped(c)) = Number(c)
  BY WordQuantity
<1> QED
  BY <1>1, <1>2, Zenon

(* The same transaction, apart from the chain and the second fee.          *)
Same(f, g) ==
    /\ f.nonce = g.nonce /\ f.gas = g.gas /\ f.to = g.to /\ f.data = g.data
    /\ Number(f.value) = Number(g.value) /\ Number(f.fees[1]) = Number(g.fees[1])

LEMMA SameFields ==
  ASSUME NEW f, IsFields(f), NEW g, IsFields(g),
         encode_length(f.nonce) = encode_length(g.nonce), encode_length(f.gas) = encode_length(g.gas),
         f.to = g.to, f.data = g.data,
         Stripped(f.value) = Stripped(g.value), Stripped(f.fees[1]) = Stripped(g.fees[1])
  PROVE  Same(f, g)
<1>1. IsNumber(f.nonce) /\ IsNumber(g.nonce) /\ IsNumber(f.gas) /\ IsNumber(g.gas)
  BY Zenon DEF IsFields
<1>2. IsWord(f.value) /\ IsWord(g.value) /\ IsWord(f.fees[1]) /\ IsWord(g.fees[1])
  BY Zenon DEF IsFields
<1>3. f.nonce = g.nonce
  BY <1>1, SameNumber
<1>4. f.gas = g.gas
  BY <1>1, SameNumber
<1>5. Number(f.value) = Number(g.value)
  BY <1>2, SameWord
<1>6. Number(f.fees[1]) = Number(g.fees[1])
  BY <1>2, SameWord
<1> QED
  BY <1>3, <1>4, <1>5, <1>6, Zenon DEF Same

LEMMA BareSame ==
  ASSUME NEW f, IsFields(f), NEW g, IsFields(g), NEW xs, BareHas(f, xs), BareHas(g, xs)
  PROVE  Same(f, g)
<1>1. encode_length(f.nonce) = encode_length(g.nonce)
  <2>1. StringItem(encode_length(f.nonce)) = StringItem(encode_length(g.nonce))
    BY Zenon DEF BareHas
  <2> QED
    BY <2>1, SameString, Zenon
<1>2. Stripped(f.fees[1]) = Stripped(g.fees[1])
  <2>1. StringItem(Stripped(f.fees[1])) = StringItem(Stripped(g.fees[1]))
    BY Zenon DEF BareHas
  <2> QED
    BY <2>1, SameString, Zenon
<1>3. encode_length(f.gas) = encode_length(g.gas)
  <2>1. StringItem(encode_length(f.gas)) = StringItem(encode_length(g.gas))
    BY Zenon DEF BareHas
  <2> QED
    BY <2>1, SameString, Zenon
<1>4. f.to = g.to
  <2>1. StringItem(f.to) = StringItem(g.to)
    BY Zenon DEF BareHas
  <2> QED
    BY <2>1, SameString, Zenon
<1>5. Stripped(f.value) = Stripped(g.value)
  <2>1. StringItem(Stripped(f.value)) = StringItem(Stripped(g.value))
    BY Zenon DEF BareHas
  <2> QED
    BY <2>1, SameString, Zenon
<1>6. f.data = g.data
  <2>1. StringItem(f.data) = StringItem(g.data)
    BY Zenon DEF BareHas
  <2> QED
    BY <2>1, SameString, Zenon
<1> QED
  BY <1>1, <1>2, <1>3, <1>4, <1>5, <1>6, SameFields

LEMMA ItemsOfSmall ==
  ASSUME NEW f, IsFields(f), NEW xs, xs \in Seq(Small(f)), NEW n \in Nat, Len(xs) = n, n <= 12
  PROVE  xs \in Seq(Item) /\ Len(Payload(xs)) < Values(U64Size)
<1>1. Len(xs) <= 12
  OBVIOUS
<1> QED
  BY <1>1, SmallList DEF Small

LEMMA LegacyItems ==
  ASSUME NEW f, IsFields(f), NEW a, NEW b, NEW c, Fits(a, f), Fits(b, f), Fits(c, f)
  PROVE  /\ Legacy(f, a, b, c) \in Seq(Item) /\ Len(Payload(Legacy(f, a, b, c))) < Values(U64Size)
         /\ LegacyHas(f, a, b, c, Legacy(f, a, b, c))
<1>1. Legacy(f, a, b, c) \in Seq(Small(f)) /\ LegacyHas(f, a, b, c, Legacy(f, a, b, c))
  BY LegacyIs
<1>2. Len(Legacy(f, a, b, c)) = 9
  BY <1>1, Zenon DEF LegacyHas
<1>3. 9 \in Nat /\ 9 <= 12
  OBVIOUS
<1> QED
  BY <1>1, <1>2, <1>3, ItemsOfSmall

LEMMA UnsignedItems ==
  ASSUME NEW f, IsFields(f), NEW chain, IsNumber(chain)
  PROVE  /\ Unsigned(f, chain) \in Seq(Item) /\ Len(Payload(Unsigned(f, chain))) < Values(U64Size)
         /\ UnsignedHas(f, chain, Unsigned(f, chain))
<1>1. /\ Unsigned(f, chain) \in Seq(Small(f)) /\ Len(Unsigned(f, chain)) = 9
      /\ UnsignedHas(f, chain, Unsigned(f, chain))
  BY UnsignedIs
<1>2. 9 \in Nat /\ 9 <= 12
  OBVIOUS
<1> QED
  BY <1>1, <1>2, ItemsOfSmall

LEMMA BareItems ==
  ASSUME NEW f, IsFields(f)
  PROVE  Bare(f) \in Seq(Item) /\ Len(Payload(Bare(f))) < Values(U64Size) /\ Len(Bare(f)) = 6
<1>1. Bare(f) \in Seq(Small(f)) /\ Len(Bare(f)) = 6
  BY BareIs
<1>2. 6 \in Nat /\ 6 <= 12
  OBVIOUS
<1> QED
  BY <1>1, <1>2, ItemsOfSmall

LEMMA LegacyInjective ==
  ASSUME NEW f, IsFields(f), NEW a, IsNumber(a), NEW g, IsFields(g), NEW b, IsNumber(b),
         LegacyList(f, encode_length(a), << >>, << >>) = LegacyList(g, encode_length(b), << >>, << >>)
  PROVE  Same(f, g) /\ a = b
<1>1. Fits(encode_length(a), f) /\ Fits(<< >>, f) /\ Fits(encode_length(b), g) /\ Fits(<< >>, g)
  BY NumberFits, NothingFits
<1> DEFINE xs == Legacy(f, encode_length(a), << >>, << >>)
           ys == Legacy(g, encode_length(b), << >>, << >>)
<1>2. /\ xs \in Seq(Item) /\ Len(Payload(xs)) < Values(U64Size)
      /\ LegacyHas(f, encode_length(a), << >>, << >>, xs)
  BY <1>1, LegacyItems
<1>3. /\ ys \in Seq(Item) /\ Len(Payload(ys)) < Values(U64Size)
      /\ LegacyHas(g, encode_length(b), << >>, << >>, ys)
  BY <1>1, LegacyItems
<1>4. rlp_encode_list(Encodings(xs)) = rlp_encode_list(Encodings(ys))
  BY Zenon DEF LegacyList
<1> HIDE DEF xs, ys
<1>5. xs = ys
  BY <1>2, <1>3, <1>4, ListInjective
<1>6. BareHas(f, xs) /\ BareHas(g, xs)
  BY <1>2, <1>3, <1>5, Zenon DEF LegacyHas
<1>7. Same(f, g)
  BY <1>6, BareSame
<1>8. StringItem(encode_length(a)) = StringItem(encode_length(b))
  BY <1>2, <1>3, <1>5, Zenon DEF LegacyHas
<1>9. encode_length(a) = encode_length(b)
  BY <1>8, SameString, Zenon
<1>10. a = b
  BY <1>9, SameNumber
<1> QED
  BY <1>7, <1>10

LEMMA BareIsNotLegacy ==
  ASSUME NEW f, IsFields(f), NEW g, IsFields(g), NEW b, IsNumber(b)
  PROVE  BareList(f) # LegacyList(g, encode_length(b), << >>, << >>)
<1>1. Fits(encode_length(b), g) /\ Fits(<< >>, g)
  BY NumberFits, NothingFits
<1> DEFINE xs == Bare(f)
           ys == Legacy(g, encode_length(b), << >>, << >>)
<1>2. xs \in Seq(Item) /\ Len(Payload(xs)) < Values(U64Size) /\ Len(xs) = 6
  BY BareItems
<1>3. /\ ys \in Seq(Item) /\ Len(Payload(ys)) < Values(U64Size)
      /\ LegacyHas(g, encode_length(b), << >>, << >>, ys)
  BY <1>1, LegacyItems
<1>4. Len(ys) = 9
  BY <1>3, Zenon DEF LegacyHas
<1> HIDE DEF xs, ys
<1>5. xs # ys
  <2>1. 6 # 9
    OBVIOUS
  <2> QED
    BY <1>2, <1>4, <2>1, Zenon
<1>6. rlp_encode_list(Encodings(xs)) # rlp_encode_list(Encodings(ys))
  BY <1>2, <1>3, <1>5, ListInjective
<1> QED
  BY <1>6, Zenon DEF BareList, LegacyList, xs, ys

LEMMA UnsignedInjective ==
  ASSUME NEW f, IsFields(f), NEW a, IsNumber(a), NEW g, IsFields(g), NEW b, IsNumber(b),
         UnsignedList(f, a) = UnsignedList(g, b)
  PROVE  Same(f, g) /\ Number(f.fees[2]) = Number(g.fees[2]) /\ a = b
<1> DEFINE xs == Unsigned(f, a)
           ys == Unsigned(g, b)
<1>2. /\ xs \in Seq(Item) /\ Len(Payload(xs)) < Values(U64Size) /\ UnsignedHas(f, a, xs)
  BY UnsignedItems
<1>3. /\ ys \in Seq(Item) /\ Len(Payload(ys)) < Values(U64Size) /\ UnsignedHas(g, b, ys)
  BY UnsignedItems
<1>4. rlp_encode_list(Encodings(xs)) = rlp_encode_list(Encodings(ys))
  BY Zenon DEF UnsignedList
<1> HIDE DEF xs, ys
<1>5. xs = ys
  BY <1>2, <1>3, <1>4, ListInjective
<1>6. UnsignedHas(f, a, xs) /\ UnsignedHas(g, b, xs)
  BY <1>2, <1>3, <1>5, Zenon
<1>7. encode_length(a) = encode_length(b)
  <2>1. StringItem(encode_length(a)) = StringItem(encode_length(b))
    BY <1>6, Zenon DEF UnsignedHas
  <2> QED
    BY <2>1, SameString, Zenon
<1>8. encode_length(f.nonce) = encode_length(g.nonce)
  <2>1. StringItem(encode_length(f.nonce)) = StringItem(encode_length(g.nonce))
    BY <1>6, Zenon DEF UnsignedHas
  <2> QED
    BY <2>1, SameString, Zenon
<1>9. Stripped(f.fees[1]) = Stripped(g.fees[1])
  <2>1. StringItem(Stripped(f.fees[1])) = StringItem(Stripped(g.fees[1]))
    BY <1>6, Zenon DEF UnsignedHas
  <2> QED
    BY <2>1, SameString, Zenon
<1>10. Stripped(f.fees[2]) = Stripped(g.fees[2])
  <2>1. StringItem(Stripped(f.fees[2])) = StringItem(Stripped(g.fees[2]))
    BY <1>6, Zenon DEF UnsignedHas
  <2> QED
    BY <2>1, SameString, Zenon
<1>11. encode_length(f.gas) = encode_length(g.gas)
  <2>1. StringItem(encode_length(f.gas)) = StringItem(encode_length(g.gas))
    BY <1>6, Zenon DEF UnsignedHas
  <2> QED
    BY <2>1, SameString, Zenon
<1>12. f.to = g.to
  <2>1. StringItem(f.to) = StringItem(g.to)
    BY <1>6, Zenon DEF UnsignedHas
  <2> QED
    BY <2>1, SameString, Zenon
<1>13. Stripped(f.value) = Stripped(g.value)
  <2>1. StringItem(Stripped(f.value)) = StringItem(Stripped(g.value))
    BY <1>6, Zenon DEF UnsignedHas
  <2> QED
    BY <2>1, SameString, Zenon
<1>14. f.data = g.data
  <2>1. StringItem(f.data) = StringItem(g.data)
    BY <1>6, Zenon DEF UnsignedHas
  <2> QED
    BY <2>1, SameString, Zenon
<1>15. Same(f, g)
  BY <1>8, <1>9, <1>11, <1>12, <1>13, <1>14, SameFields
<1>16. a = b
  BY <1>7, SameNumber
<1>17. IsWord(f.fees[2]) /\ IsWord(g.fees[2])
  BY Zenon DEF IsFields
<1>18. Number(f.fees[2]) = Number(g.fees[2])
  BY <1>10, <1>17, SameWord
<1> QED
  BY <1>15, <1>16, <1>18

(* A list begins with 192 or more, the other kind of transaction with two, *)
(* and messages with 25.                                                   *)
Starts(bytes, b) == bytes \in Seq(Octet) /\ Len(bytes) > 0 /\ bytes[1] = b

LEMMA ListsStart ==
  ASSUME NEW f, IsFields(f), NEW chain, IsNumber(chain), NEW b, b < 192, b \in Nat
  PROVE  /\ ~Starts(LegacyList(f, encode_length(chain), << >>, << >>), b)
         /\ ~Starts(BareList(f), b)
         /\ UnsignedList(f, chain) \in Seq(Octet)
<1>1. Fits(encode_length(chain), f) /\ Fits(<< >>, f)
  BY NumberFits, NothingFits
<1>2. ASSUME NEW xs \in Seq(Item), Len(Payload(xs)) < Values(U64Size)
      PROVE  ~Starts(rlp_encode_list(Encodings(xs)), b)
  <2> DEFINE raw == rlp_encode_list(Encodings(xs))
  <2>1. raw \in Seq(Octet) /\ Len(raw) > 0 /\ raw[1] >= 192
    BY <1>2, ListFirst
  <2> HIDE DEF raw
  <2>2. ~Starts(raw, b)
    BY <2>1 DEF Starts
  <2> QED
    BY <2>2 DEF raw
<1>3. ~Starts(LegacyList(f, encode_length(chain), << >>, << >>), b)
  BY <1>1, <1>2, LegacyItems DEF LegacyList
<1>4. ~Starts(BareList(f), b)
  BY <1>2, BareItems DEF BareList
<1>5. UnsignedList(f, chain) \in Seq(Octet)
  BY UnsignedItems, ListFirst DEF UnsignedList
<1> QED
  BY <1>3, <1>4, <1>5

LEMMA DynamicStarts ==
  ASSUME NEW l \in Seq(Octet)
  PROVE  Starts(<< 2 >> \o l, 2) /\ ~Starts(<< 2 >> \o l, 25)
<1>1. << 2 >> \o l \in Seq(Octet) /\ Len(<< 2 >> \o l) = Len(l) + 1 /\ (<< 2 >> \o l)[1] = 2
  <2>1. << 2 >> \in Seq(Octet)
    BY DEF Octet
  <2> QED
    BY <2>1
<1> QED
  BY <1>1 DEF Starts

LEMMA SameTail == ASSUME NEW k \in Seq(Octet), NEW l \in Seq(Octet), << 2 >> \o k = << 2 >> \o l PROVE k = l
<1>1. Tail(<< 2 >> \o k) = k
  BY NoListAfterTwo
<1>2. Tail(<< 2 >> \o l) = l
  BY NoListAfterTwo
<1> QED
  BY <1>1, <1>2, Zenon

LEMMA KeccakInjective == \A a, b : Keccak(a) = Keccak(b) => a = b
BY DEF Keccak

LEMMA KeccakIsNotSha256 == \A a, b : Keccak(a) # Sha256(b)
BY DEF Keccak, Sha256

LEMMA KeccakIsNotTron == \A a, b : Keccak(a) # tron_message_hash(b)
BY DEF Keccak, tron_message_hash

-----------------------------------------------------------------------------
(* Text of hex digits *)

Nibble == 0..15

IsHex(text) == \A i \in DOMAIN text : text[i] < 16

Even(text) == IF Len(text) % 2 = 1 THEN <<0>> \o text ELSE text

Pairs(even) == [i \in 1..(Len(even) \div 2) |-> 16 * even[2 * i - 1] + even[2 * i]]

LEMMA HexIs ==
  ASSUME NEW text
  PROVE  hex_to_bytes(text) = {Pairs(Even(text)) : t \in {t \in {text} : IsHex(t)}}
BY Zenon DEF hex_to_bytes, Pairs, Even, IsHex

LEMMA HexOf ==
  ASSUME NEW text, NEW b, b \in hex_to_bytes(text)
  PROVE  IsHex(text) /\ b = Pairs(Even(text)) /\ hex_to_bytes(text) = {b}
<1>1. PICK x \in {t \in {text} : IsHex(t)} : b = Pairs(Even(text))
  BY HexIs, Zenon
<1>2. IsHex(text)
  BY Zenon
<1>3. {t \in {text} : IsHex(t)} = {text}
  BY <1>2, Zenon
<1>4. {Pairs(Even(text)) : t \in {text}} = {Pairs(Even(text))}
  BY Zenon
<1>5. hex_to_bytes(text) = {b}
  BY <1>1, <1>3, <1>4, HexIs, Zenon
<1> QED
  BY <1>1, <1>2, <1>5

LEMMA HexHas ==
  ASSUME NEW text, IsHex(text)
  PROVE  Pairs(Even(text)) \in hex_to_bytes(text)
<1>1. {t \in {text} : IsHex(t)} = {text}
  BY Zenon
<1>4. {Pairs(Even(text)) : t \in {text}} = {Pairs(Even(text))}
  BY Zenon
<1> QED
  BY <1>1, <1>4, HexIs, Zenon

LEMMA TwoNibbles == \A a, b \in Nibble : 16 * a + b \in Octet /\ (16 * a + b) \div 16 = a /\ (16 * a + b) % 16 = b
BY DEF Nibble, Octet

LEMMA PairOf == \A k \in Nat : \A i \in 1..k : 2 * i - 1 \in 1..(2 * k) /\ 2 * i \in 1..(2 * k) /\ (2 * i - 1) - 1 = 2 * (i - 1)
OBVIOUS

LEMMA NibbleNumber == \A n \in Nibble : n \in Nat
BY DEF Nibble

LEMMA NibblesAreNumbers == ASSUME NEW t \in Seq(Nibble) PROVE t \in Seq(Nat)
<1>1. \A i \in 1..Len(t) : t[i] \in Nat
  BY Elements, NibbleNumber
<1> QED
  BY <1>1

LEMMA PairsType ==
  ASSUME NEW t \in Seq(Nibble), NEW k \in Nat, Len(t) = 2 * k
  PROVE  /\ Pairs(t) \in Seq(Octet) /\ Len(Pairs(t)) = k
         /\ \A i \in 1..k : Pairs(t)[i] = 16 * t[2 * i - 1] + t[2 * i]
<1>1. (2 * k) \div 2 = k
  OBVIOUS
<1>2. Pairs(t) = [i \in 1..k |-> 16 * t[2 * i - 1] + t[2 * i]]
  BY <1>1 DEF Pairs
<1>3. \A i \in 1..k : 16 * t[2 * i - 1] + t[2 * i] \in Octet
  <2> SUFFICES ASSUME NEW i \in 1..k PROVE 16 * t[2 * i - 1] + t[2 * i] \in Octet
    OBVIOUS
  <2>1. 2 * i - 1 \in 1..Len(t) /\ 2 * i \in 1..Len(t)
    BY PairOf
  <2>2. t[2 * i - 1] \in Nibble /\ t[2 * i] \in Nibble
    BY <2>1, Elements
  <2> QED
    BY <2>2, TwoNibbles, Zenon
<1>4. Pairs(t) \in [1..k -> Octet]
  BY <1>2, <1>3
<1> DEFINE b == Pairs(t)
<1>5. \A i \in 1..k : b[i] = 16 * t[2 * i - 1] + t[2 * i]
  BY <1>2
<1> HIDE DEF b
<1>6. b \in Seq(Octet) /\ Len(b) = k
  BY <1>4 DEF b
<1> QED
  BY <1>5, <1>6 DEF b

LEMMA TwoDigits ==
  ASSUME NEW n \in Nat, NEW a \in Nat, NEW b \in Nat
  PROVE  16 * (16 * n + a) + b = 256 * n + (16 * a + b)
OBVIOUS

LEMMA PairsNumber ==
  ASSUME NEW t \in Seq(Nibble), NEW k \in Nat, Len(t) = 2 * k
  PROVE  Number(Pairs(t)) = NumberIn(16, t)
<1> DEFINE b == Pairs(t)
<1>1. b \in Seq(Octet) /\ Len(b) = k /\ \A i \in 1..k : b[i] = 16 * t[2 * i - 1] + t[2 * i]
  BY PairsType
<1> HIDE DEF b
<1>2. b \in Seq(Nat) /\ t \in Seq(Nat)
  BY <1>1, BytesAreNumbers, NibblesAreNumbers
<1>3. PICK f : Numbers(f, 256, b)
  BY <1>2, NumbersExist, SMTT(30)
<1>4. PICK g : Numbers(g, 16, t)
  BY <1>2, NumbersExist
<1>5. f \in [0..k -> Nat] /\ f[0] = 0 /\ (\A i \in 1..k : f[i] = 256 * f[i - 1] + b[i]) /\ f[k] = NumberIn(256, b)
  BY <1>1, <1>3 DEF Numbers
<1>6. g[0] = 0 /\ (\A i \in 1..(2 * k) : g[i] = 16 * g[i - 1] + t[i]) /\ g[2 * k] = NumberIn(16, t)
  BY <1>4 DEF Numbers
<1> DEFINE T == {i \in 0..k : f[i] = g[2 * i]}
<1>7. 0 \in T
  BY <1>5, <1>6
<1>8. ASSUME NEW i \in 1..k, i - 1 \in T PROVE i \in T
  <2>1. 2 * i - 1 \in 1..(2 * k) /\ 2 * i \in 1..(2 * k) /\ (2 * i - 1) - 1 = 2 * (i - 1)
    BY PairOf
  <2>2. PICK p \in Nat : p = f[i - 1]
    BY <1>5
  <2>3. g[2 * (i - 1)] = p
    BY <1>8, <2>2
  <2>4. t[2 * i - 1] \in Nat /\ t[2 * i] \in Nat
    BY <1>2, <2>1
  <2>5. g[2 * i - 1] = 16 * p + t[2 * i - 1]
    BY <1>6, <2>1, <2>3
  <2>6. g[2 * i] = 16 * (16 * p + t[2 * i - 1]) + t[2 * i]
    <3>1. g[2 * i] = 16 * g[2 * i - 1] + t[2 * i]
      BY <1>6, <2>1
    <3> QED
      BY <2>5, <3>1
  <2>7. f[i] = 256 * p + (16 * t[2 * i - 1] + t[2 * i])
    BY <1>1, <1>5, <2>2
  <2>8. f[i] = g[2 * i]
    BY <2>4, <2>6, <2>7, TwoDigits
  <2> QED
    BY <2>8
<1> HIDE DEF T
<1>9. 0..k \subseteq T
  BY <1>7, <1>8, InductUpTo
<1>10. k \in T
  BY <1>9
<1>11. NumberIn(256, b) = NumberIn(16, t)
  BY <1>5, <1>6, <1>10 DEF T
<1> QED
  BY <1>11 DEF Number, b

LEMMA EvenIs ==
  ASSUME NEW t \in Seq(Nibble)
  PROVE  /\ Even(t) \in Seq(Nibble)
         /\ \E k \in Nat : Len(Even(t)) = 2 * k
         /\ NumberIn(16, Even(t)) = NumberIn(16, t)
<1>0. PICK n \in Nat : n = Len(t)
  OBVIOUS
<1>1. CASE n % 2 = 1
  <2> DEFINE e == <<0>> \o t
  <2>1. <<0>> \in Seq(Nibble)
    BY DEF Nibble
  <2>2. e \in Seq(Nibble) /\ Len(e) = 1 + n /\ e[1] = 0 /\ \A i \in 1..n : t[i] = e[1 + i]
    BY <1>0, <2>1
  <2> HIDE DEF e
  <2>3. PICK k \in Nat : 1 + n = 2 * k
    <3>1. (1 + n) \div 2 \in Nat /\ 1 + n = 2 * ((1 + n) \div 2)
      BY <1>1
    <3> QED
      BY <3>1
  <2>4. NumberIn(16, e) = NumberIn(16, t)
    <3>1. e \in Seq(Nat) /\ t \in Seq(Nat)
      BY <2>2, NibblesAreNumbers
    <3>2. 1 \in Nat /\ 16 \in Nat /\ \A i \in 1..1 : e[i] = 0
      BY <2>2
    <3>3. Len(e) = 1 + Len(t) /\ \A i \in 1..Len(t) : t[i] = e[1 + i]
      BY <1>0, <2>2
    <3> QED
      BY <3>1, <3>2, <3>3, NumberShift
  <2>5. Even(t) = e
    BY <1>0, <1>1 DEF Even, e
  <2> QED
    BY <2>2, <2>3, <2>4, <2>5
<1>2. CASE ~(n % 2 = 1)
  <2>1. n \div 2 \in Nat /\ n = 2 * (n \div 2)
    BY <1>2
  <2>2. Even(t) = t
    BY <1>0, <1>2, Zenon DEF Even
  <2> QED
    BY <1>0, <2>1, <2>2
<1> QED
  BY <1>1, <1>2

LEMMA HexIsNibbles ==
  ASSUME NEW text \in Text, IsHex(text)
  PROVE  text \in Seq(Nibble)
<1>1. text \in Seq(0..16) /\ \A i \in 1..Len(text) : text[i] \in 0..16 /\ text[i] < 16
  BY DEF Text, IsHex
<1>2. \A i \in 1..Len(text) : text[i] \in Nibble
  BY <1>1 DEF Nibble
<1> QED
  BY <1>1, <1>2

(* Bytes of text are the number that the text writes.                      *)
LEMMA HexFacts ==
  ASSUME NEW text \in Text, NEW b, b \in hex_to_bytes(text)
  PROVE  b \in Seq(Octet) /\ Number(b) = Written(text)
<1>1. IsHex(text) /\ b = Pairs(Even(text))
  BY HexOf
<1>2. text \in Seq(Nibble)
  BY <1>1, HexIsNibbles
<1>3. Even(text) \in Seq(Nibble) /\ NumberIn(16, Even(text)) = NumberIn(16, text)
  BY <1>2, EvenIs
<1>4. PICK k \in Nat : Len(Even(text)) = 2 * k
  BY <1>2, EvenIs
<1>5. Pairs(Even(text)) \in Seq(Octet)
  BY <1>3, <1>4, PairsType
<1>6. Number(Pairs(Even(text))) = NumberIn(16, Even(text))
  BY <1>3, <1>4, PairsNumber
<1> QED
  BY <1>1, <1>3, <1>5, <1>6, Zenon DEF Written

LEMMA ZerosInFront ==
  ASSUME NEW b \in Seq(Octet), NEW k \in Nat
  PROVE  /\ [i \in 1..k |-> 0] \o b \in Seq(Octet)
         /\ Len([i \in 1..k |-> 0] \o b) = k + Len(b)
         /\ Number([i \in 1..k |-> 0] \o b) = Number(b)
<1> DEFINE z == [i \in 1..k |-> 0]
           w == z \o b
<1>1. z \in Seq(Octet) /\ Len(z) = k /\ \A i \in 1..k : z[i] = 0
  <2>1. z \in [1..k -> Octet]
    BY DEF Octet
  <2>2. \A i \in 1..k : z[i] = 0
    OBVIOUS
  <2> HIDE DEF z
  <2> QED
    BY <2>1, <2>2
<1> HIDE DEF z
<1>2. w \in Seq(Octet) /\ Len(w) = k + Len(b) /\ (\A i \in 1..k : w[i] = 0) /\ \A i \in 1..Len(b) : b[i] = w[k + i]
  BY <1>1
<1> HIDE DEF w
<1>3. w \in Seq(Nat) /\ b \in Seq(Nat)
  BY <1>2, BytesAreNumbers
<1>4. 256 \in Nat
  OBVIOUS
<1>5. NumberIn(256, w) = NumberIn(256, b)
  BY <1>2, <1>3, <1>4, NumberShift
<1> QED
  BY <1>2, <1>5 DEF Number, w, z

LEMMA HexWord ==
  ASSUME NEW text \in Text, NEW w, w \in hex_to_u256(text)
  PROVE  IsWord(w) /\ Number(w) = Written(text)
<1>1. PICK b \in hex_to_bytes(text) : Len(b) <= U256Size /\ w = [i \in 1..(U256Size - Len(b)) |-> 0] \o b
  BY Zenon DEF hex_to_u256
<1>2. b \in Seq(Octet) /\ Number(b) = Written(text)
  BY HexFacts
<1>3. PICK n \in Nat, u \in Nat : n = Len(b) /\ u = U256Size
  BY <1>2, Sizes
<1>4. PICK k \in Nat : k = u - n /\ k + n = u
  <2>1. u - n \in Nat /\ (u - n) + n = u
    BY <1>1, <1>3
  <2> QED
    BY <2>1
<1>5. w = [i \in 1..k |-> 0] \o b
  BY <1>1, <1>3, <1>4, Zenon
<1>6. w \in Seq(Octet) /\ Len(w) = k + Len(b) /\ Number(w) = Number(b)
  BY <1>2, <1>5, ZerosInFront
<1>7. Len(w) = U256Size
  BY <1>3, <1>4, <1>6
<1> QED
  BY <1>2, <1>6, <1>7, Zenon DEF IsWord

LEMMA HexNumber ==
  ASSUME NEW text \in Text, NEW n, n \in hex_to_u64(text)
  PROVE  IsNumber(n) /\ n = Written(text)
<1>1. n < Values(U64Size) /\ n \in {NumberIn(16, t) : t \in {t \in {text} : \A i \in DOMAIN t : t[i] < 16}}
  BY Zenon DEF hex_to_u64
<1>2. PICK t \in {x \in {text} : IsHex(x)} : n = NumberIn(16, t)
  BY <1>1, Zenon DEF IsHex
<1>3. IsHex(text) /\ n = NumberIn(16, text)
  BY <1>2, Zenon
<1>4. text \in Seq(Nibble)
  BY <1>3, HexIsNibbles
<1>5. 16 \in Nat /\ text \in Seq(Nat)
  BY <1>4, NibblesAreNumbers
<1>6. NumberIn(16, text) \in Nat
  BY <1>5, NumberType
<1> QED
  BY <1>1, <1>3, <1>6, Zenon DEF IsNumber, Written

LEMMA HalvesOf ==
  ASSUME NEW k \in Nat, NEW i \in 1..k
  PROVE  /\ (2 * i - 1) % 2 = 1 /\ ((2 * i - 1) + 1) \div 2 = i
         /\ (2 * i) % 2 # 1 /\ (2 * i) \div 2 = i
OBVIOUS

LEMMA EvenOrOdd ==
  ASSUME NEW k \in Nat, NEW i \in 1..(2 * k)
  PROVE  /\ i % 2 = 1 => (i + 1) \div 2 \in 1..k
         /\ i % 2 # 1 => i \div 2 \in 1..k
OBVIOUS

LEMMA Halves == \A b \in Octet : b \div 16 \in Nibble /\ b % 16 \in Nibble /\ 16 * (b \div 16) + (b % 16) = b
BY DEF Octet, Nibble

(* Digits of bytes are text that is those bytes.                           *)
LEMMA DigitsOf ==
  ASSUME NEW d \in Seq(Octet)
  PROVE  Digits(d) \in Text /\ Len(Digits(d)) = 2 * Len(d) /\ hex_to_bytes(Digits(d)) = {d}
<1>0. PICK k \in Nat : k = Len(d)
  OBVIOUS
<1> DEFINE t == Digits(d)
<1>1. t = [i \in 1..(2 * k) |-> IF i % 2 = 1 THEN d[(i + 1) \div 2] \div 16 ELSE d[i \div 2] % 16]
  BY <1>0, Zenon DEF Digits
<1>2. \A i \in 1..(2 * k) : (IF i % 2 = 1 THEN d[(i + 1) \div 2] \div 16 ELSE d[i \div 2] % 16) \in Nibble
  <2> SUFFICES ASSUME NEW i \in 1..(2 * k)
               PROVE  (IF i % 2 = 1 THEN d[(i + 1) \div 2] \div 16 ELSE d[i \div 2] % 16) \in Nibble
    OBVIOUS
  <2>1. CASE i % 2 = 1
    <3>1. (i + 1) \div 2 \in 1..k
      BY <2>1, EvenOrOdd
    <3>2. d[(i + 1) \div 2] \in Octet
      BY <1>0, <3>1, Elements
    <3>3. d[(i + 1) \div 2] \div 16 \in Nibble
      BY <3>2, Halves
    <3> QED
      BY <2>1, <3>3, Zenon
  <2>2. CASE ~(i % 2 = 1)
    <3>1. i \div 2 \in 1..k
      BY <2>2, EvenOrOdd
    <3>2. d[i \div 2] \in Octet
      BY <1>0, <3>1, Elements
    <3>3. d[i \div 2] % 16 \in Nibble
      BY <3>2, Halves
    <3> QED
      BY <2>2, <3>3, Zenon
  <2> QED
    BY <2>1, <2>2
<1>3. t \in [1..(2 * k) -> Nibble]
  BY <1>1, <1>2
<1>4. \A i \in 1..k : t[2 * i - 1] = d[i] \div 16 /\ t[2 * i] = d[i] % 16
  <2> SUFFICES ASSUME NEW i \in 1..k PROVE t[2 * i - 1] = d[i] \div 16 /\ t[2 * i] = d[i] % 16
    OBVIOUS
  <2>1. 2 * i - 1 \in 1..(2 * k) /\ 2 * i \in 1..(2 * k)
    BY PairOf
  <2>2. /\ (2 * i - 1) % 2 = 1 /\ ((2 * i - 1) + 1) \div 2 = i
        /\ (2 * i) % 2 # 1 /\ (2 * i) \div 2 = i
    BY HalvesOf
  <2> HIDE DEF t
  <2>3. t[2 * i - 1] = d[i] \div 16
    BY <1>1, <2>1, <2>2
  <2>4. t[2 * i] = d[i] % 16
    BY <1>1, <2>1, <2>2
  <2> QED
    BY <2>3, <2>4
<1> HIDE DEF t
<1>5. t \in Seq(Nibble) /\ Len(t) = 2 * k /\ DOMAIN t = 1..(2 * k)
  <2>1. 2 * k \in Nat
    OBVIOUS
  <2> QED
    BY <1>3, <2>1
<1>6. IsHex(t)
  <2>1. \A n \in Nibble : n < 16
    BY DEF Nibble
  <2> QED
    BY <1>3, <1>5, <2>1 DEF IsHex
<1>7. t \in Text
  <2>1. Nibble \subseteq 0..16
    BY DEF Nibble
  <2>2. \A i \in 1..Len(t) : t[i] \in 0..16
    BY <1>5, <2>1, Elements
  <2>3. t \in Seq(0..16)
    BY <1>5, <2>2
  <2> QED
    BY <2>3 DEF Text
<1>8. Even(t) = t
  <2>1. (2 * k) % 2 # 1
    OBVIOUS
  <2> QED
    BY <1>5, <2>1, Zenon DEF Even
<1>9. Pairs(t) = d
  <2>1. Pairs(t) \in Seq(Octet) /\ Len(Pairs(t)) = k
    BY <1>5, PairsType
  <2>1a. \A i \in 1..k : Pairs(t)[i] = 16 * t[2 * i - 1] + t[2 * i]
    BY <1>5, PairsType
  <2>2. \A i \in 1..k : Pairs(t)[i] = d[i]
    <3> SUFFICES ASSUME NEW i \in 1..k PROVE Pairs(t)[i] = d[i]
      OBVIOUS
    <3>1. d[i] \in Octet
      BY <1>0, Elements
    <3>2. Pairs(t)[i] = 16 * (d[i] \div 16) + (d[i] % 16)
      BY <1>4, <2>1a
    <3> QED
      BY <3>1, <3>2, Halves
  <2>3. Len(Pairs(t)) = Len(d) /\ \A i \in 1..Len(Pairs(t)) : Pairs(t)[i] = d[i]
    BY <1>0, <2>1, <2>2
  <2> QED
    BY <2>1, <2>3, SameElements
<1>10. hex_to_bytes(t) = {d}
  BY <1>6, <1>8, <1>9, HexHas, HexOf
<1> QED
  BY <1>0, <1>5, <1>7, <1>10 DEF t

-----------------------------------------------------------------------------
(* Calls of token contracts *)

IsAccount(a) == a \in Seq(Octet) /\ Len(a) = AddressSize

IsSelector(selector) == selector \in {<<169, 5, 156, 187>>, <<9, 94, 167, 179>>}

LEMMA SelectorIs ==
  ASSUME NEW selector, IsSelector(selector)
  PROVE  selector \in Seq(Octet) /\ Len(selector) = 4
<1>1. <<169, 5, 156, 187>> \in Seq(Octet) /\ Len(<<169, 5, 156, 187>>) = 4
  BY DEF Octet
<1>2. <<9, 94, 167, 179>> \in Seq(Octet) /\ Len(<<9, 94, 167, 179>>) = 4
  BY DEF Octet
<1>3. CASE selector = <<169, 5, 156, 187>>
  BY <1>1, <1>3
<1>4. CASE selector = <<9, 94, 167, 179>>
  BY <1>2, <1>4
<1> QED
  BY <1>3, <1>4 DEF IsSelector

LEMMA ZerosAre ==
  ASSUME NEW k \in Nat
  PROVE  [i \in 1..k |-> 0] \in Seq(Octet) /\ Len([i \in 1..k |-> 0]) = k
<1> DEFINE z == [i \in 1..k |-> 0]
<1>1. z \in [1..k -> Octet]
  BY DEF Octet
<1> HIDE DEF z
<1>2. z \in Seq(Octet) /\ Len(z) = k
  BY <1>1
<1> QED
  BY <1>2 DEF z

CallRead(selector, account, amount) ==
    [call |-> IF selector = <<169, 5, 156, 187>> THEN "transfer" ELSE "approve",
     account |-> account, amount |-> Number(amount)]

(* The parts of a call: how many bytes they are, and where they are.       *)
CallParts(data, selector, z, account, amount, word, m, k, u) ==
    /\ data \in Seq(Octet) /\ Len(data) = 4 + 2 * u
    /\ SubSeq(data, 1, 4) = selector /\ SubSeq(data, 5, 4 + u) = word /\ SubSeq(data, 5 + u, Len(data)) = amount
    /\ SubSeq(word, m + 1, u) = account /\ \A i \in 1..m : word[i] = 0

LEMMA CallPartsAre ==
  ASSUME NEW selector, IsSelector(selector), NEW account, IsAccount(account), NEW amount, IsWord(amount),
         NEW m \in Nat, NEW k \in Nat, NEW u \in Nat, k = AddressSize, u = U256Size, m + k = u
  PROVE  LET z == [i \in 1..m |-> 0]
         IN CallParts(selector \o z \o account \o amount, selector, z, account, amount, z \o account, m, k, u)
<1> DEFINE z == [i \in 1..m |-> 0]
           word == z \o account
           data == selector \o (word \o amount)
<1>1. selector \in Seq(Octet) /\ Len(selector) = 4
  BY SelectorIs
<1>2. z \in Seq(Octet) /\ Len(z) = m
  BY ZerosAre
<1>3. account \in Seq(Octet) /\ Len(account) = k
  BY DEF IsAccount
<1>4. amount \in Seq(Octet) /\ Len(amount) = u
  BY DEF IsWord
<1>5. \A i \in 1..m : z[i] = 0
  OBVIOUS
<1> HIDE DEF z
<1>6. word \in Seq(Octet) /\ Len(word) = u /\ SubSeq(word, m + 1, u) = account
  <2>1. ComesApart(Octet, z, account, m, k)
    BY <1>2, <1>3, ConcatSplits
  <2> QED
    BY <2>1, Zenon DEF ComesApart
<1>7. \A i \in 1..m : word[i] = 0
  BY <1>2, <1>3, <1>5
<1>8. selector \o z \o account \o amount = data
  <2>1. Associates(selector, z, account)
    BY <1>1, <1>2, <1>3, Associativity, Zenon
  <2>2. selector \o z \o account = selector \o word
    BY <2>1, Zenon DEF Associates, word
  <2>3. Associates(selector, word, amount)
    BY <1>1, <1>4, <1>6, Associativity, Zenon
  <2> QED
    BY <2>2, <2>3, Zenon DEF Associates, data
<1> HIDE DEF word
<1> DEFINE rest == word \o amount
<1>9. rest \in Seq(Octet) /\ Len(rest) = u + u
  <2>1. ComesApart(Octet, word, amount, u, u)
    BY <1>4, <1>6, ConcatSplits
  <2> QED
    BY <2>1, Zenon DEF ComesApart
<1> DEFINE half == selector \o word
<1>10. data = half \o amount
  BY <1>1, <1>4, <1>6
<1>11. half \in Seq(Octet) /\ Len(half) = 4 + u
  <2>1. ComesApart(Octet, selector, word, 4, u)
    <3>1. 4 \in Nat
      OBVIOUS
    <3> QED
      BY <1>1, <1>6, <3>1, ConcatSplits
  <2> QED
    BY <2>1, Zenon DEF ComesApart
<1>12. SubSeq(selector \o rest, 1, 4) = selector /\ data \in Seq(Octet) /\ Len(data) = 4 + (u + u)
  <2>1. ComesApart(Octet, selector, rest, 4, u + u)
    <3>1. 4 \in Nat /\ u + u \in Nat
      OBVIOUS
    <3> HIDE DEF rest
    <3> QED
      BY <1>1, <1>9, <3>1, ConcatSplits
  <2> QED
    BY <2>1, Zenon DEF ComesApart
<1>13. SubSeq(half \o amount, (4 + u) + 1, (4 + u) + u) = amount
  <2>1. 4 + u \in Nat
    OBVIOUS
  <2> HIDE DEF half
  <2>2. ComesApart(Octet, half, amount, 4 + u, u)
    BY <1>4, <1>11, <2>1, ConcatSplits
  <2> QED
    BY <2>2, Zenon DEF ComesApart
<1>14. SubSeq(data, 5, 4 + u) = word
  <2>1. \A i \in 1..u : 4 + i \in 1..(4 + u) /\ 4 + i \in 1..(4 + (u + u))
    OBVIOUS
  <2>2. \A i \in 1..u : half[4 + i] = word[i]
    <3>1. 4 \in Nat
      OBVIOUS
    <3>2. Concatenates(selector, word, 4, u)
      BY <1>1, <1>6, <3>1, ConcatenatesAt
    <3> QED
      BY <3>2, Zenon DEF Concatenates
  <2>3. \A i \in 1..(4 + u) : data[i] = half[i]
    <3> HIDE DEF half, data
    <3> QED
      BY <1>4, <1>10, <1>11
  <2>4. \A i \in 1..u : data[4 + i] = word[i]
    BY <2>1, <2>2, <2>3
  <2> HIDE DEF data
  <2> DEFINE s == SubSeq(data, 5, 4 + u)
  <2>5. s \in Seq(Octet) /\ Len(s) = u /\ \A i \in 1..u : s[i] = data[4 + i]
    <3>1. \A i \in 5..(4 + u) : data[i] \in Octet
      BY <1>12
    <3>2. 5 \in Int /\ 4 + u \in Int
      OBVIOUS
    <3>3. /\ s \in Seq(Octet)
          /\ Len(s) = IF 5 <= 4 + u THEN (4 + u) - 5 + 1 ELSE 0
          /\ \A i \in 1..(4 + u) - 5 + 1 : s[i] = data[5 + i - 1]
      BY <3>1, <3>2, SubSeqProperties
    <3> QED
      BY <3>3
  <2> HIDE DEF s
  <2>6. Len(s) = Len(word) /\ \A i \in 1..Len(s) : s[i] = word[i]
    BY <1>6, <2>4, <2>5
  <2>7. s = word
    BY <1>6, <2>5, <2>6, SameElements
  <2> QED
    BY <2>7 DEF s
<1> HIDE DEF rest, half
<1>15. SubSeq(data, 1, 4) = selector
  BY <1>12 DEF rest
<1> HIDE DEF data
<1>16. (4 + u) + 1 = 5 + u /\ (4 + u) + u = Len(data) /\ Len(data) = 4 + 2 * u
  BY <1>12
<1>17. SubSeq(data, 5 + u, Len(data)) = amount
  BY <1>10, <1>13, <1>16
<1>18. CallParts(data, selector, z, account, amount, word, m, k, u)
  BY <1>6, <1>7, <1>12, <1>14, <1>15, <1>16, <1>17, Zenon DEF CallParts
<1> QED
  BY <1>8, <1>18, Zenon DEF z, word

ReadOf(data, word, u, m) ==
    [call |-> IF SubSeq(data, 1, 4) = <<169, 5, 156, 187>> THEN "transfer" ELSE "approve",
     account |-> SubSeq(word, m + 1, u),
     amount |-> Number(SubSeq(data, 5 + u, Len(data)))]

CanBeRead(d, word, u, m) ==
    /\ Len(d) = 4 + 2 * u
    /\ SubSeq(d, 1, 4) \in {<<169, 5, 156, 187>>, <<9, 94, 167, 179>>}
    /\ \A i \in 1..m : word[i] = 0

(* A contract reads the call that AbiCall makes.                           *)
LEMMA CallIsRead ==
  ASSUME NEW selector, IsSelector(selector), NEW account, IsAccount(account), NEW amount, IsWord(amount)
  PROVE  /\ AbiCall(selector, account, amount) \in Seq(Octet)
         /\ ContractReads(AbiCall(selector, account, amount)) = {CallRead(selector, account, amount)}
<1>1. PICK k \in Nat, u \in Nat : k = AddressSize /\ u = U256Size /\ k <= u
  BY Sizes
<1>2. PICK m \in Nat : m = u - k /\ m + k = u
  <2>1. u - k \in Nat /\ (u - k) + k = u
    BY <1>1
  <2> QED
    BY <2>1
<1> DEFINE z == [i \in 1..m |-> 0]
           data == AbiCall(selector, account, amount)
           word == z \o account
<1>3. data = selector \o z \o account \o amount
  BY <1>1, <1>2, Zenon DEF AbiCall
<1>4. CallParts(data, selector, z, account, amount, word, m, k, u)
  <2>1. LET y == [i \in 1..m |-> 0]
        IN CallParts(selector \o y \o account \o amount, selector, y, account, amount, y \o account, m, k, u)
    BY <1>1, <1>2, CallPartsAre
  <2> QED
    BY <1>3, <2>1, Zenon
<1> HIDE DEF z, data, word
<1>5. /\ data \in Seq(Octet) /\ Len(data) = 4 + 2 * u
      /\ SubSeq(data, 1, 4) = selector /\ SubSeq(data, 5, 4 + u) = word /\ SubSeq(data, 5 + u, Len(data)) = amount
      /\ SubSeq(word, m + 1, u) = account /\ \A i \in 1..m : word[i] = 0
  BY <1>4, Zenon DEF CallParts
<1> DEFINE w == SubSeq(data, 5, 4 + U256Size)
           n == U256Size - AddressSize
           read == ReadOf(data, w, U256Size, n)
<1>6. ContractReads(data) = {read : d \in {d \in {data} : CanBeRead(d, w, U256Size, n)}}
  BY Zenon DEF ContractReads, ReadOf, CanBeRead
<1>e. w = word /\ n = m /\ U256Size = u
  BY <1>1, <1>2, <1>5, Zenon
<1> HIDE DEF w, n
<1>7. read = CallRead(selector, account, amount)
  BY <1>5, <1>e, Zenon DEF CallRead, ReadOf
<1>8. CanBeRead(data, w, U256Size, n)
  BY <1>5, <1>e, Zenon DEF IsSelector, CanBeRead
<1> HIDE DEF read
<1>9. {d \in {data} : CanBeRead(d, w, U256Size, n)} = {data}
  BY <1>8, Zenon
<1>10. {read : d \in {data}} = {read}
  BY Zenon
<1>11. ContractReads(data) = {read}
  BY <1>6, <1>9, <1>10, Zenon
<1> QED
  BY <1>5, <1>7, <1>11, Zenon DEF data

LEMMA SelectorsAre == IsSelector(TransferSelector) /\ IsSelector(ApproveSelector)
BY DEF IsSelector, TransferSelector, ApproveSelector

(* What a call that is asked for makes a contract do.                      *)
Meant(c, account) ==
    [call |-> IF c.token = "trc20" THEN "transfer" ELSE c.token, account |-> account,
     amount |-> IF c.token = "trc20" THEN c.amount ELSE Written(c.amount)]

IsCall(c) == c.token \in {"transfer", "approve"} /\ c.to \in Text /\ c.amount \in Text

IsTronCall(c) ==
    c.token = "trc20" /\ c.to \in Seq(Octet) /\ c.amount \in Nat /\ c.amount < Values(U256Size)

LEMMA TextAccount ==
  ASSUME NEW text \in Text, NEW a, a \in address_to_bytes(text)
  PROVE  IsAccount(a) /\ hex_to_bytes(text) = {a}
<1>1. a \in hex_to_bytes(text) /\ Len(a) = AddressSize
  BY Zenon DEF address_to_bytes
<1>2. a \in Seq(Octet)
  BY <1>1, HexFacts
<1>3. hex_to_bytes(text) = {a}
  BY <1>1, HexOf
<1> QED
  BY <1>1, <1>2, <1>3, Zenon DEF IsAccount

CallReads(d, c, accounts) ==
    d \in Seq(Octet) /\ ContractReads(d) = {Meant(c, account) : account \in accounts}

LEMMA TokenCall ==
  ASSUME NEW c, IsCall(c), NEW selector, NEW a, a \in address_to_bytes(c.to), NEW n, n \in hex_to_u256(c.amount),
         IsSelector(selector), selector = <<169, 5, 156, 187>> <=> c.token = "transfer"
  PROVE  CallReads(AbiCall(selector, a, n), c, hex_to_bytes(c.to))
<1>0. c.to \in Text /\ c.amount \in Text
  BY Zenon DEF IsCall
<1>1. IsAccount(a) /\ hex_to_bytes(c.to) = {a}
  BY <1>0, TextAccount
<1>2. IsWord(n) /\ Number(n) = Written(c.amount)
  BY <1>0, HexWord
<1>3. /\ AbiCall(selector, a, n) \in Seq(Octet)
      /\ ContractReads(AbiCall(selector, a, n)) = {CallRead(selector, a, n)}
  BY <1>1, <1>2, CallIsRead
<1>4. c.token # "trc20" /\ c.token \in {"transfer", "approve"}
  BY DEF IsCall
<1>5. (IF selector = <<169, 5, 156, 187>> THEN "transfer" ELSE "approve") = c.token
  BY <1>4, Zenon
<1>6. Meant(c, a) = [call |-> c.token, account |-> a, amount |-> Written(c.amount)]
  BY <1>4, Zenon DEF Meant
<1>7. CallRead(selector, a, n) = [call |-> c.token, account |-> a, amount |-> Written(c.amount)]
  BY <1>2, <1>5, Zenon DEF CallRead
<1>8. {Meant(c, account) : account \in {a}} = {Meant(c, a)}
  BY Zenon
<1> QED
  BY <1>1, <1>3, <1>6, <1>7, <1>8, Zenon DEF CallReads

LEMMA CallDataRead ==
  ASSUME NEW c, IsCall(c), NEW d, d \in CallData(c)
  PROVE  CallReads(d, c, hex_to_bytes(c.to))
<1>1. CASE c.token = "transfer"
  <2>1. CallData(c) = encode_erc20_transfer(c.to, c.amount)
    BY <1>1 DEF CallData
  <2>2. PICK a \in address_to_bytes(c.to), n \in hex_to_u256(c.amount) : d = AbiCall(TransferSelector, a, n)
    BY <2>1 DEF encode_erc20_transfer
  <2>3. IsSelector(TransferSelector) /\ (TransferSelector = <<169, 5, 156, 187>> <=> c.token = "transfer")
    BY <1>1, SelectorsAre DEF TransferSelector
  <2> QED
    BY <2>2, <2>3, TokenCall
<1>2. CASE c.token = "approve"
  <2>1. CallData(c) = encode_erc20_approve(c.to, c.amount)
    BY <1>2 DEF CallData
  <2>2. PICK a \in address_to_bytes(c.to), n \in hex_to_u256(c.amount) : d = AbiCall(ApproveSelector, a, n)
    BY <2>1 DEF encode_erc20_approve
  <2>3. IsSelector(ApproveSelector) /\ (ApproveSelector = <<169, 5, 156, 187>> <=> c.token = "transfer")
    <3>1. ApproveSelector # <<169, 5, 156, 187>>
      BY DEF ApproveSelector
    <3> QED
      BY <1>2, <3>1, SelectorsAre
  <2> QED
    BY <2>2, <2>3, TokenCall
<1> QED
  BY <1>1, <1>2 DEF IsCall

LEMMA TronCallDataRead ==
  ASSUME NEW c, IsTronCall(c), NEW d, d \in CallData(c)
  PROVE  CallReads(d, c, {SubSeq(c.to, 2, 1 + AddressSize)})
<1>0. c.token = "trc20" /\ c.to \in Seq(Octet) /\ c.amount \in Nat /\ c.amount < Values(U256Size)
  BY Zenon DEF IsTronCall
<1>1. CallData(c) = UNION {encode_trc20_transfer(hex, c.amount) : hex \in address_to_hex(c.to)}
  BY <1>0 DEF CallData
<1>2. PICK hex \in address_to_hex(c.to) : d \in encode_trc20_transfer(hex, c.amount)
  BY <1>1, Zenon
<1>3. PICK a \in address_to_bytes(hex) : d = AbiCall(TransferSelector, a, BigEndian(c.amount, U256Size))
  BY <1>2, Zenon DEF encode_trc20_transfer
<1> DEFINE account == SubSeq(c.to, 2, AddressSize + 1)
<1>4. hex = Digits(account) /\ Len(c.to) = 1 + AddressSize + Len(TronCheck(<<65>>))
  BY Zenon DEF address_to_hex
<1>5. PICK k \in Nat, l \in Nat, n \in Nat : k = AddressSize /\ l = Len(TronCheck(<<65>>)) /\ n = Len(c.to)
  <2>1. TronCheck(<<65>>) \in Seq(Octet)
    BY EvmAssumption
  <2>2. Len(TronCheck(<<65>>)) \in Nat
    BY <2>1
  <2>3. Len(c.to) \in Nat
    BY <1>0
  <2> QED
    BY <2>2, <2>3, Sizes, Zenon
<1>6. account \in Seq(Octet)
  <2>1. \A i \in 2..(k + 1) : c.to[i] \in Octet
    BY <1>0, <1>4, <1>5
  <2>2. 2 \in Int /\ k + 1 \in Int
    OBVIOUS
  <2>3. SubSeq(c.to, 2, k + 1) \in Seq(Octet)
    BY <2>1, <2>2, SubSeqProperties
  <2> QED
    BY <1>5, <2>3
<1> HIDE DEF account
<1>7. hex_to_bytes(hex) = {account}
  BY <1>4, <1>6, DigitsOf
<1>8. a = account /\ IsAccount(a)
  BY <1>3, <1>6, <1>7, Zenon DEF address_to_bytes, IsAccount
<1>9. IsWord(BigEndian(c.amount, U256Size)) /\ Number(BigEndian(c.amount, U256Size)) = c.amount
  <2>1. PICK amount \in Nat, u \in Nat : amount = c.amount /\ u = U256Size
    BY <1>0, Sizes
  <2>2. BigEndian(amount, u) \in Seq(Octet) /\ Len(BigEndian(amount, u)) = u
    BY BigEndianType
  <2>3. amount < Values(u)
    BY <1>0, <2>1, Zenon
  <2>4. Number(BigEndian(amount, u)) = amount
    BY <2>3, BigEndianNumber
  <2> QED
    BY <2>1, <2>2, <2>4, Zenon DEF IsWord
<1>10. /\ d \in Seq(Octet)
       /\ ContractReads(d) = {CallRead(TransferSelector, a, BigEndian(c.amount, U256Size))}
  BY <1>3, <1>8, <1>9, SelectorsAre, CallIsRead
<1>11. Meant(c, a) = [call |-> "transfer", account |-> a, amount |-> c.amount]
  BY <1>0, Zenon DEF Meant
<1>12. CallRead(TransferSelector, a, BigEndian(c.amount, U256Size)) =
         [call |-> "transfer", account |-> a, amount |-> c.amount]
  BY <1>9, Zenon DEF CallRead, TransferSelector
<1>13. {Meant(c, x) : x \in {a}} = {Meant(c, a)}
  BY Zenon
<1>14. a = SubSeq(c.to, 2, 1 + AddressSize)
  <2>1. 1 + k = k + 1
    OBVIOUS
  <2> QED
    BY <1>5, <1>8, <2>1, Zenon DEF account
<1> QED
  BY <1>10, <1>11, <1>12, <1>13, <1>14, Zenon DEF CallReads

-----------------------------------------------------------------------------
(* What is asked *)

LEMMA DataIs ==
  ASSUME NEW q, AsksTransaction(q), NEW text, text \in Data(q)
  PROVE  text \in Text
<1>1. CASE q.call = {}
  <2>1. text = q.data
    BY <1>1, Zenon DEF Data
  <2> QED
    BY <2>1 DEF AsksTransaction
<1>2. CASE q.call # {}
  <2>1. PICK d \in UNION {CallData(c) : c \in q.call} : text = Digits(d)
    BY <1>2, Zenon DEF Data
  <2>2. PICK c \in q.call : d \in CallData(c)
    BY <2>1, Zenon
  <2>3. IsCall(c)
    BY <2>2, Zenon DEF AsksTransaction, IsCall
  <2>4. d \in Seq(Octet)
    BY <2>2, <2>3, CallDataRead DEF CallReads
  <2> QED
    BY <2>1, <2>4, DigitsOf
<1> QED
  BY <1>1, <1>2

(* The fields are what the request writes.                                 *)
Asked(f, q) ==
    /\ f.nonce = Written(q.nonce) /\ f.gas = Written(q.gas) /\ Number(f.value) = Written(q.value)
    /\ Number(f.fees[1]) = Written(q.fees[1]) /\ Number(f.fees[2]) = Written(q.fees[2])
    /\ f.to \in hex_to_bytes(q.to) /\ f.data \in UNION {hex_to_bytes(text) : text \in Data(q)}

LEMMA FieldsOf ==
  ASSUME NEW q, AsksTransaction(q), NEW f, f \in ParseFields(q)
  PROVE  IsFields(f) /\ Asked(f, q)
<1>0. /\ q.nonce \in Text /\ q.fees[1] \in Text /\ q.fees[2] \in Text /\ q.gas \in Text
      /\ q.to \in Text /\ q.value \in Text
  BY DEF AsksTransaction
<1>1. PICK t \in hex_to_u64(q.nonce) \X hex_to_u256(q.fees[1]) \X hex_to_u256(q.fees[2])
               \X hex_to_u64(q.gas) \X address_to_bytes(q.to) \X hex_to_u256(q.value)
               \X UNION {hex_to_bytes(text) : text \in Data(q)} :
        f = [nonce |-> t[1], fees |-> <<t[2], t[3]>>, gas |-> t[4], to |-> t[5], value |-> t[6], data |-> t[7]]
  BY DEF ParseFields
<1>2. /\ t[1] \in hex_to_u64(q.nonce) /\ t[2] \in hex_to_u256(q.fees[1]) /\ t[3] \in hex_to_u256(q.fees[2])
      /\ t[4] \in hex_to_u64(q.gas) /\ t[5] \in address_to_bytes(q.to) /\ t[6] \in hex_to_u256(q.value)
      /\ t[7] \in UNION {hex_to_bytes(text) : text \in Data(q)}
  OBVIOUS
<1>3. /\ f.nonce = t[1] /\ f.fees[1] = t[2] /\ f.fees[2] = t[3] /\ f.gas = t[4] /\ f.to = t[5]
      /\ f.value = t[6] /\ f.data = t[7]
  BY <1>1
<1>4. IsNumber(f.nonce) /\ f.nonce = Written(q.nonce)
  BY <1>0, <1>2, <1>3, HexNumber
<1>5. IsNumber(f.gas) /\ f.gas = Written(q.gas)
  BY <1>0, <1>2, <1>3, HexNumber
<1>6. IsWord(f.fees[1]) /\ Number(f.fees[1]) = Written(q.fees[1])
  BY <1>0, <1>2, <1>3, HexWord
<1>7. IsWord(f.fees[2]) /\ Number(f.fees[2]) = Written(q.fees[2])
  BY <1>0, <1>2, <1>3, HexWord
<1>8. IsWord(f.value) /\ Number(f.value) = Written(q.value)
  BY <1>0, <1>2, <1>3, HexWord
<1>9. IsAccount(f.to) /\ f.to \in hex_to_bytes(q.to)
  <2>1. IsAccount(t[5])
    BY <1>0, <1>2, TextAccount
  <2>2. t[5] \in hex_to_bytes(q.to)
    BY <1>2, Zenon DEF address_to_bytes
  <2> QED
    BY <1>3, <2>1, <2>2, Zenon
<1>10. f.data \in Seq(Octet)
  <2>1. PICK text \in Data(q) : f.data \in hex_to_bytes(text)
    BY <1>2, <1>3, Zenon
  <2>2. text \in Text
    BY <2>1, DataIs
  <2> QED
    BY <2>1, <2>2, HexFacts
<1>11. 12 * (U256Size + 9 + Len(f.data)) < Values(U64Size)
  BY Zenon DEF AsksTransaction
<1>12. IsFields(f)
  BY <1>4, <1>5, <1>6, <1>7, <1>8, <1>9, <1>10, <1>11, Zenon DEF IsFields, IsAccount
<1>13. Asked(f, q)
  BY <1>2, <1>3, <1>4, <1>5, <1>6, <1>7, <1>8, <1>9, Zenon DEF Asked
<1> QED
  BY <1>12, <1>13

(* A request writes one transaction.                                       *)
LEMMA OneWord ==
  ASSUME NEW text \in Text, NEW w, w \in hex_to_u256(text), NEW v, v \in hex_to_u256(text)
  PROVE  w = v
<1>1. w \in Seq(Octet) /\ Len(w) = U256Size /\ Number(w) = Written(text)
  BY HexWord DEF IsWord
<1>2. v \in Seq(Octet) /\ Len(v) = U256Size /\ Number(v) = Written(text)
  BY HexWord DEF IsWord
<1> QED
  BY <1>1, <1>2, NumberInjective

LEMMA OneHex == ASSUME NEW text, NEW b \in hex_to_bytes(text), NEW c \in hex_to_bytes(text) PROVE b = c
<1>1. hex_to_bytes(text) = {b}
  BY HexOf
<1> QED
  BY <1>1

LEMMA OneCall ==
  ASSUME NEW c, IsCall(c), NEW d, d \in CallData(c), NEW e, e \in CallData(c)
  PROVE  d = e
<1>0. c.to \in Text /\ c.amount \in Text
  BY Zenon DEF IsCall
<1>1. ASSUME NEW a \in address_to_bytes(c.to), NEW b \in address_to_bytes(c.to) PROVE a = b
  BY OneHex DEF address_to_bytes
<1>2. ASSUME NEW m \in hex_to_u256(c.amount), NEW n \in hex_to_u256(c.amount) PROVE m = n
  BY <1>0, OneWord
<1>3. CASE c.token = "transfer"
  <2>1. CallData(c) = encode_erc20_transfer(c.to, c.amount)
    BY <1>3 DEF CallData
  <2>2. PICK a \in address_to_bytes(c.to), n \in hex_to_u256(c.amount) : d = AbiCall(TransferSelector, a, n)
    BY <2>1 DEF encode_erc20_transfer
  <2>3. PICK b \in address_to_bytes(c.to), m \in hex_to_u256(c.amount) : e = AbiCall(TransferSelector, b, m)
    BY <2>1 DEF encode_erc20_transfer
  <2>4. a = b /\ n = m
    BY <1>1, <1>2, Zenon
  <2> QED
    BY <2>2, <2>3, <2>4, Zenon
<1>4. CASE c.token = "approve"
  <2>1. CallData(c) = encode_erc20_approve(c.to, c.amount)
    BY <1>4 DEF CallData
  <2>2. PICK a \in address_to_bytes(c.to), n \in hex_to_u256(c.amount) : d = AbiCall(ApproveSelector, a, n)
    BY <2>1 DEF encode_erc20_approve
  <2>3. PICK b \in address_to_bytes(c.to), m \in hex_to_u256(c.amount) : e = AbiCall(ApproveSelector, b, m)
    BY <2>1 DEF encode_erc20_approve
  <2>4. a = b /\ n = m
    BY <1>1, <1>2, Zenon
  <2> QED
    BY <2>2, <2>3, <2>4, Zenon
<1> QED
  BY <1>3, <1>4 DEF IsCall

IsOneCall(q) == \A c, d \in q.call : c = d

(* The call is in the data.                                                *)
LEMMA DataOfCall ==
  ASSUME NEW q, AsksTransaction(q), IsOneCall(q), NEW c, c \in q.call,
         NEW b, b \in UNION {hex_to_bytes(text) : text \in Data(q)}
  PROVE  IsCall(c) /\ b \in CallData(c)
<1>1. q.call # {}
  OBVIOUS
<1>2. PICK text \in Data(q) : b \in hex_to_bytes(text)
  OBVIOUS
<1>3. PICK d \in UNION {CallData(x) : x \in q.call} : text = Digits(d)
  BY <1>1, <1>2, Zenon DEF Data
<1>4. PICK x \in q.call : d \in CallData(x)
  BY <1>3, Zenon
<1>5. x = c
  BY Zenon DEF IsOneCall
<1>6. IsCall(c)
  BY Zenon DEF AsksTransaction, IsCall
<1>7. d \in Seq(Octet)
  BY <1>4, <1>5, <1>6, CallDataRead DEF CallReads
<1>8. b = d
  BY <1>2, <1>3, <1>7, DigitsOf
<1> QED
  BY <1>4, <1>5, <1>6, <1>8

LEMMA OneData ==
  ASSUME NEW q, AsksTransaction(q), IsOneCall(q),
         NEW b, b \in UNION {hex_to_bytes(text) : text \in Data(q)},
         NEW d, d \in UNION {hex_to_bytes(text) : text \in Data(q)}
  PROVE  b = d
<1>1. CASE q.call = {}
  <2>1. Data(q) = {q.data}
    BY <1>1, Zenon DEF Data
  <2>2. b \in hex_to_bytes(q.data) /\ d \in hex_to_bytes(q.data)
    BY <2>1
  <2> QED
    BY <2>2, OneHex
<1>2. CASE q.call # {}
  <2>1. PICK c : c \in q.call
    BY <1>2
  <2>2. IsCall(c) /\ b \in CallData(c) /\ d \in CallData(c)
    BY <2>1, DataOfCall
  <2> QED
    BY <2>2, OneCall
<1> QED
  BY <1>1, <1>2

LEMMA OneParse ==
  ASSUME NEW q, AsksTransaction(q), IsOneCall(q), NEW f, Asked(f, q), NEW g, Asked(g, q)
  PROVE  Same(f, g) /\ Number(f.fees[2]) = Number(g.fees[2])
<1>1. f.data = g.data
  BY OneData DEF Asked
<1>2. f.to = g.to
  BY OneHex DEF Asked
<1>3. f.nonce = g.nonce /\ f.gas = g.gas
  BY Zenon DEF Asked
<1>4. Number(f.value) = Number(g.value) /\ Number(f.fees[1]) = Number(g.fees[1])
  BY Zenon DEF Asked
<1>5. Number(f.fees[2]) = Number(g.fees[2])
  BY Zenon DEF Asked
<1> QED
  BY <1>1, <1>2, <1>3, <1>4, <1>5, Zenon DEF Same

-----------------------------------------------------------------------------
(* What is read from what was returned *)

LEMMA ChainIs ==
  ASSUME NEW q, AsksTransaction(q)
  PROVE  IsNumber(q.chain) /\ q.chain # 0
<1>1. q.chain \in 1..(Values(U64Size) - 1)
  BY EvmAssumption DEF AsksTransaction
<1>2. PICK v \in Nat : v = Values(U64Size)
  BY ValuesNat
<1>3. q.chain \in Nat /\ q.chain < v /\ q.chain # 0
  BY <1>1, <1>2
<1> QED
  BY <1>2, <1>3, Zenon DEF IsNumber

Fees(f, kind) ==
    IF kind = "type0" THEN <<Number(f.fees[1])>> ELSE <<Number(f.fees[1]), Number(f.fees[2])>>

(* A transaction of that kind with these fields, for some chain.           *)
Reading(t, f, kind) ==
    Carries(t, f) /\ t.kind = kind /\ IsNumber(t.chain) /\ t.fees = Fees(f, kind)

LEMMA LegacyReading ==
  ASSUME NEW f, IsFields(f), NEW v, IsNumber(v), NEW r, NEW s
  PROVE  Reading(LegacyTx(f, v, r, s), f, "type0")
<1> DEFINE t == LegacyTx(f, v, r, s)
<1>1. /\ t.nonce = f.nonce /\ t.gas = f.gas /\ t.to = f.to /\ t.data = f.data
      /\ t.value = Number(f.value) /\ t.fees = <<Number(f.fees[1])>> /\ t.kind = "type0"
      /\ t.chain = IF v < 35 THEN 0 ELSE (v - 35) \div 2
  BY DEF LegacyTx
<1> HIDE DEF t
<1>2. t.fees[1] = Number(f.fees[1])
  BY <1>1
<1>3. IsNumber(t.chain)
  <2>1. v \in Nat /\ v < Values(U64Size)
    BY Zenon DEF IsNumber
  <2>2. PICK u \in Nat : u = Values(U64Size)
    BY ValuesNat
  <2>3. v < u
    BY <2>1, <2>2
  <2>4. CASE v < 35
    <3>1. t.chain = 0 /\ 0 \in Nat /\ 0 < u
      BY <1>1, <2>1, <2>3, <2>4
    <3> QED
      BY <2>2, <3>1, Zenon DEF IsNumber
  <2>5. CASE ~(v < 35)
    <3>1. (v - 35) \div 2 \in Nat /\ (v - 35) \div 2 < u
      BY <2>1, <2>3, <2>5
    <3>2. t.chain = (v - 35) \div 2
      BY <1>1, <2>5, Zenon
    <3> QED
      BY <2>2, <3>1, <3>2, Zenon DEF IsNumber
  <2> QED
    BY <2>4, <2>5
<1>4. Fees(f, "type0") = <<Number(f.fees[1])>>
  BY DEF Fees
<1>5. Carries(t, f)
  BY <1>1, <1>2, Zenon DEF Carries
<1>6. Reading(t, f, "type0")
  BY <1>1, <1>3, <1>4, <1>5, Zenon DEF Reading
<1> QED
  BY <1>6, Zenon DEF t

LEMMA DynamicReading ==
  ASSUME NEW f, NEW chain, IsNumber(chain), NEW y, NEW r, NEW s
  PROVE  Reading(DynamicTx(f, chain, y, r, s), f, "eip1559")
<1> DEFINE t == DynamicTx(f, chain, y, r, s)
<1>1. /\ t.nonce = f.nonce /\ t.gas = f.gas /\ t.to = f.to /\ t.data = f.data
      /\ t.value = Number(f.value) /\ t.fees = <<Number(f.fees[1]), Number(f.fees[2])>> /\ t.kind = "eip1559"
      /\ t.chain = chain
  BY DEF DynamicTx
<1> HIDE DEF t
<1>2. t.fees[1] = Number(f.fees[1])
  BY <1>1
<1>4. Fees(f, "eip1559") = <<Number(f.fees[1]), Number(f.fees[2])>>
  BY DEF Fees
<1>5. Carries(t, f)
  BY <1>1, <1>2, Zenon DEF Carries
<1>6. Reading(t, f, "eip1559")
  BY <1>1, <1>4, <1>5, Zenon DEF Reading
<1> QED
  BY <1>6, Zenon DEF t

Type0Tx(f, q, sig) == LegacyTx(f, Type0V(q.chain, sig.y), Stripped(sig.r), Stripped(sig.s))

Eip1559Tx(f, q, sig) == DynamicTx(f, q.chain, sig.y, Stripped(sig.r), Stripped(sig.s))

Tx(f, q, sig) == IF q.kind = "type0" THEN Type0Tx(f, q, sig) ELSE Eip1559Tx(f, q, sig)

(* A node reads one transaction from what was returned.                    *)
LEMMA OutputReads ==
  ASSUME NEW q, AsksTransaction(q), NEW sig \in Signature, NEW out, out \in Output(q, sig)
  PROVE  \E f \in ParseFields(q) :
           /\ IsFields(f) /\ Asked(f, q) /\ NodeReads(out) = {Tx(f, q, sig)}
           /\ Reading(Tx(f, q, sig), f, q.kind)
<1>0. IsNumber(q.chain) /\ q.kind \in {"type0", "eip1559"}
  BY ChainIs DEF AsksTransaction
<1>1. IsWord(sig.r) /\ IsWord(sig.s) /\ IsNumber(sig.y) /\ sig.y \in {0, 1}
  BY SignatureIs
<1>2. CASE q.kind = "type0"
  <2>1. Output(q, sig) = {Type0Raw(f, q.chain, sig) : f \in ParseFields(q)}
    BY <1>2 DEF Output
  <2>2. PICK f \in ParseFields(q) : out = Type0Raw(f, q.chain, sig)
    BY <2>1, Zenon
  <2>3. IsFields(f) /\ Asked(f, q)
    BY FieldsOf
  <2>4. out = LegacyList(f, encode_length(Type0V(q.chain, sig.y)), Stripped(sig.r), Stripped(sig.s))
    BY <1>0, <2>2, <2>3, Type0RawIs
  <2>5. IsNumber(Type0V(q.chain, sig.y))
    BY <1>0, <1>1, Type0VIs
  <2>6. NodeReads(out) = {Type0Tx(f, q, sig)}
    BY <1>1, <2>3, <2>4, <2>5, LegacyReads DEF Type0Tx
  <2>7. Reading(Type0Tx(f, q, sig), f, "type0")
    BY <2>3, <2>5, LegacyReading DEF Type0Tx
  <2> QED
    BY <1>2, <2>3, <2>6, <2>7, Zenon DEF Tx
<1>3. CASE q.kind = "eip1559"
  <2>1. Output(q, sig) = {Eip1559Raw(f, q.chain, sig) : f \in ParseFields(q)}
    BY <1>3 DEF Output
  <2>2. PICK f \in ParseFields(q) : out = Eip1559Raw(f, q.chain, sig)
    BY <2>1, Zenon
  <2>3. IsFields(f) /\ Asked(f, q)
    BY FieldsOf
  <2>4. out = << 2 >> \o SignedList(f, q.chain, encode_length(sig.y), Stripped(sig.r), Stripped(sig.s))
    BY <1>0, <2>2, <2>3, Eip1559RawIs
  <2>6. NodeReads(out) = {Eip1559Tx(f, q, sig)}
    BY <1>0, <1>1, <2>3, <2>4, DynamicReads DEF Eip1559Tx
  <2>7. Reading(Eip1559Tx(f, q, sig), f, "eip1559")
    BY <1>0, DynamicReading DEF Eip1559Tx
  <2>8. q.kind # "type0"
    BY <1>3
  <2> QED
    BY <1>3, <2>3, <2>6, <2>7, <2>8, Zenon DEF Tx
<1> QED
  BY <1>0, <1>2, <1>3

LEMMA IsAsked ==
  ASSUME NEW q, AsksTransaction(q), NEW f, Asked(f, q), NEW t, Reading(t, f, q.kind)
  PROVE  IsAskedFor(t, q)
<1>1. q.kind \in {"type0", "eip1559"}
  BY DEF AsksTransaction
<1>2. /\ t.nonce = f.nonce /\ t.gas = f.gas /\ t.to = f.to /\ t.data = f.data
      /\ t.value = Number(f.value) /\ t.kind = q.kind /\ t.fees = Fees(f, q.kind)
  BY Zenon DEF Reading, Carries
<1>3. t.fees = [i \in DOMAIN t.fees |-> Written(q.fees[i])]
  <2>1. Number(f.fees[1]) = Written(q.fees[1]) /\ Number(f.fees[2]) = Written(q.fees[2])
    BY Zenon DEF Asked
  <2>2. PICK a, b : a = Written(q.fees[1]) /\ b = Written(q.fees[2])
    OBVIOUS
  <2>3. t.fees = IF q.kind = "type0" THEN <<a>> ELSE <<a, b>>
    BY <1>2, <2>1, <2>2, Zenon DEF Fees
  <2>4. CASE q.kind = "type0"
    <3>1. t.fees = <<a>>
      BY <2>3, <2>4
    <3>2. DOMAIN t.fees = {1}
      BY <3>1
    <3>3. [i \in {1} |-> Written(q.fees[i])] = <<a>>
      BY <2>2
    <3> QED
      BY <3>1, <3>2, <3>3, Zenon
  <2>5. CASE q.kind # "type0"
    <3>1. t.fees = <<a, b>>
      BY <2>3, <2>5
    <3>2. DOMAIN t.fees = {1, 2}
      BY <3>1
    <3>3. [i \in {1, 2} |-> Written(q.fees[i])] = <<a, b>>
      BY <2>2
    <3> QED
      BY <3>1, <3>2, <3>3, Zenon
  <2> QED
    BY <2>4, <2>5
<1> QED
  BY <1>2, <1>3, Zenon DEF IsAskedFor, Asked

LEMMA LegacyReadingHash ==
  ASSUME NEW f, IsFields(f), NEW t, Reading(t, f, "type0")
  PROVE  /\ t.chain # 0 => NodeHash(t) = Keccak(LegacyList(f, encode_length(t.chain), << >>, << >>))
         /\ t.chain = 0 => NodeHash(t) = Keccak(BareList(f))
<1>1. Carries(t, f) /\ t.kind = "type0" /\ IsNumber(t.chain)
  BY Zenon DEF Reading
<1> QED
  BY <1>1, LegacyHash

LEMMA DynamicReadingHash ==
  ASSUME NEW f, IsFields(f), NEW t, Reading(t, f, "eip1559")
  PROVE  NodeHash(t) = Keccak(<< 2 >> \o UnsignedList(f, t.chain))
<1>1. Carries(t, f) /\ t.kind = "eip1559" /\ IsNumber(t.chain)
  BY Zenon DEF Reading
<1>2. t.fees = Fees(f, "eip1559")
  BY Zenon DEF Reading
<1>3. t.fees[2] = Number(f.fees[2])
  BY <1>2 DEF Fees
<1> QED
  BY <1>1, <1>3, DynamicHash

-----------------------------------------------------------------------------
(* What a signed hash is of *)

LEMMA RequestIs ==
  ASSUME NEW q, q \in EvmRequest
  PROVE  /\ q.key \in EvmKey /\ IsOneCall(q)
         /\ AsksTransaction(q) \/ AsksRaw(q) \/ AsksMessage(q) \/ AsksHash(q)
BY EvmRequestAssumption DEF IsOneCall

LEMMA RequestKinds ==
  ASSUME NEW q, q \in EvmRequest
  PROVE  /\ q.kind \in {"type0", "eip1559"} => AsksTransaction(q)
         /\ q.kind = "tron_raw" => AsksRaw(q)
         /\ q.kind \in {"personal_message", "tron_message"} => AsksMessage(q)
         /\ q.kind \in {"typed_data", "tron_transaction", "tron_message_hash"} => AsksHash(q)
         /\ q.kind \in {"type0", "eip1559", "tron_raw", "personal_message", "tron_message",
                        "typed_data", "tron_transaction", "tron_message_hash"}
<1>1. AsksTransaction(q) => q.kind \in {"type0", "eip1559"}
  BY Zenon DEF AsksTransaction
<1>2. AsksRaw(q) => q.kind = "tron_raw"
  BY Zenon DEF AsksRaw
<1>3. AsksMessage(q) => q.kind \in {"personal_message", "tron_message"}
  BY Zenon DEF AsksMessage
<1>4. AsksHash(q) => q.kind \in {"typed_data", "tron_transaction", "tron_message_hash"}
  BY Zenon DEF AsksHash
<1> QED
  BY <1>1, <1>2, <1>3, <1>4, RequestIs

-----------------------------------------------------------------------------
(* The length of a message *)

LEMMA TenFacts ==
  /\ Power(10, 0) = 1
  /\ \A n \in Nat : Power(10, n) \in Nat
  /\ \A n \in Nat : Power(10, n + 1) = 10 * Power(10, n)
<1>1. 10 \in Nat
  OBVIOUS
<1> QED
  BY <1>1, PowerFacts

LEMMA TenAbove == \A n \in Nat : n < Power(10, n)
<1> DEFINE T == {n \in Nat : n < Power(10, n)}
<1>1. 0 \in T
  BY TenFacts
<1>2. ASSUME NEW n \in Nat, n \in T PROVE n + 1 \in T
  BY <1>2, TenFacts
<1> HIDE DEF T
<1>3. Nat \subseteq T
  BY <1>1, <1>2, Induct
<1> QED
  BY <1>3 DEF T

LEMMA TenGrows == \A n, k \in Nat : Power(10, n) <= Power(10, n + k)
<1> SUFFICES ASSUME NEW n \in Nat PROVE \A k \in Nat : Power(10, n) <= Power(10, n + k)
  OBVIOUS
<1> DEFINE T == {i \in Nat : Power(10, n) <= Power(10, n + i)}
<1>1. 0 \in T
  BY TenFacts
<1>2. ASSUME NEW i \in Nat, i \in T PROVE i + 1 \in T
  <2>1. Power(10, n + (i + 1)) = 10 * Power(10, n + i)
    <3>1. Power(10, (n + i) + 1) = 10 * Power(10, n + i)
      BY TenFacts
    <3>2. (n + i) + 1 = n + (i + 1)
      OBVIOUS
    <3> QED
      BY <3>1, <3>2
  <2>2. Power(10, n) \in Nat /\ Power(10, n + i) \in Nat /\ Power(10, n) <= Power(10, n + i)
    BY <1>2, TenFacts
  <2> QED
    BY <2>1, <2>2
<1> HIDE DEF T
<1>3. Nat \subseteq T
  BY <1>1, <1>2, Induct
<1> QED
  BY <1>3 DEF T

(* The number has that many digits.                                        *)
Width(n, w) == w \in Nat /\ w >= 1 /\ n < Power(10, w) /\ (w = 1 \/ n >= Power(10, w - 1))

LEMMA WidthExists == ASSUME NEW n \in Nat PROVE \E w \in 1..(n + 1) : n < Power(10, w) /\ (w = 1 \/ n >= Power(10, w - 1))
<1> DEFINE T == {w \in Nat : w >= 1 /\ n < Power(10, w)}
<1>1. n + 1 \in T
  <2>1. n < Power(10, n) /\ Power(10, n + 1) = 10 * Power(10, n) /\ Power(10, n) \in Nat
    BY TenAbove, TenFacts
  <2> QED
    BY <2>1
<1>2. T \subseteq Nat /\ T # {}
  BY <1>1
<1> HIDE DEF T
<1>3. PICK w \in T : \A y \in T : w <= y
  BY <1>2, Least
<1>4. w \in 1..(n + 1) /\ n < Power(10, w)
  BY <1>1, <1>3 DEF T
<1>5. ASSUME w # 1 PROVE n >= Power(10, w - 1)
  <2>1. w - 1 \in Nat /\ w - 1 >= 1 /\ ~(w <= w - 1)
    BY <1>4, <1>5
  <2>2. ~(w - 1 \in T)
    BY <1>3, <2>1
  <2>3. ~(n < Power(10, w - 1)) /\ Power(10, w - 1) \in Nat
    BY <2>1, <2>2, TenFacts DEF T
  <2> QED
    BY <2>3
<1> QED
  BY <1>4, <1>5

LEMMA DecimalIs ==
  ASSUME NEW n \in Nat
  PROVE  \E w \in Nat : Decimal(n) \in Seq(Octet) /\ Len(Decimal(n)) = w /\ Width(n, w)
<1> DEFINE w == CHOOSE w \in 1..(n + 1) : n < Power(10, w) /\ (w = 1 \/ n >= Power(10, w - 1))
<1>1. w \in 1..(n + 1) /\ n < Power(10, w) /\ (w = 1 \/ n >= Power(10, w - 1))
  <2>1. \E x \in 1..(n + 1) : n < Power(10, x) /\ (x = 1 \/ n >= Power(10, x - 1))
    BY WidthExists
  <2> QED
    BY <2>1
<1>2. Decimal(n) = [i \in 1..w |-> 48 + ((n \div Power(10, w - i)) % 10)]
  BY DEF Decimal
<1> HIDE DEF w
<1>3. \A i \in 1..w : 48 + ((n \div Power(10, w - i)) % 10) \in Octet
  <2> SUFFICES ASSUME NEW i \in 1..w PROVE 48 + ((n \div Power(10, w - i)) % 10) \in Octet
    OBVIOUS
  <2>1. w - i \in Nat
    BY <1>1
  <2>2. Power(10, w - i) \in Nat /\ w - i < Power(10, w - i)
    BY <2>1, TenAbove, TenFacts
  <2>3. PICK p \in Nat : p = Power(10, w - i) /\ p > 0
    BY <2>1, <2>2
  <2>4. (n \div p) % 10 \in 0..9
    BY <2>3
  <2> QED
    BY <2>3, <2>4 DEF Octet
<1> DEFINE d == Decimal(n)
<1>4. d \in [1..w -> Octet]
  BY <1>2, <1>3
<1> HIDE DEF d
<1>5. d \in Seq(Octet) /\ Len(d) = w /\ w \in Nat
  BY <1>1, <1>4
<1>6. Width(n, w)
  BY <1>1 DEF Width
<1> QED
  BY <1>5, <1>6 DEF d

LEMMA WidthGrows ==
  ASSUME NEW n \in Nat, NEW m \in Nat, NEW w, Width(n, w), NEW v, Width(m, v), w < v
  PROVE  n < m
<1>1. w \in Nat /\ v \in Nat /\ w >= 1 /\ v # 1 /\ n < Power(10, w) /\ m >= Power(10, v - 1)
  BY DEF Width
<1>2. PICK k \in Nat : v - 1 = w + k
  <2>1. (v - 1) - w \in Nat /\ v - 1 = w + ((v - 1) - w)
    BY <1>1
  <2> QED
    BY <2>1
<1>3. Power(10, w) <= Power(10, w + k) /\ Power(10, w) \in Nat /\ Power(10, w + k) \in Nat
  <2>1. w + k \in Nat
    BY <1>1
  <2>2. Power(10, w) <= Power(10, w + k)
    BY <1>1, TenGrows, Zenon
  <2> QED
    BY <1>1, <2>1, <2>2, TenFacts
<1> QED
  BY <1>1, <1>2, <1>3

LEMMA SameWidth ==
  ASSUME NEW n \in Nat, NEW m \in Nat, NEW w, Width(n, w), NEW v, Width(m, v), w + n = v + m
  PROVE  w = v /\ n = m
<1>1. w \in Nat /\ v \in Nat
  BY DEF Width
<1>2. w < v => n < m
  BY WidthGrows
<1>3. v < w => m < n
  BY WidthGrows
<1> QED
  BY <1>1, <1>2, <1>3

LEMMA PersonalIs ==
  ASSUME NEW m \in Seq(Octet)
  PROVE  /\ PersonalMessage(m) \in Seq(Octet)
         /\ PersonalMessage(m)[1] = 25 /\ PersonalMessage(m)[2] = 69
         /\ \E w \in Nat : /\ Width(Len(m), w) /\ Len(PersonalMessage(m)) = (2 + w) + Len(m)
                           /\ SubSeq(PersonalMessage(m), (2 + w) + 1, (2 + w) + Len(m)) = m
<1>1. PICK n \in Nat : n = Len(m)
  OBVIOUS
<1>2. PICK w \in Nat : Decimal(n) \in Seq(Octet) /\ Len(Decimal(n)) = w /\ Width(n, w)
  BY DecimalIs
<1> DEFINE d == Decimal(n)
           front == <<25, 69>> \o d
<1>3. PersonalMessage(m) = front \o m
  BY <1>1, Zenon DEF PersonalMessage
<1> HIDE DEF d
<1>4. d \in Seq(Octet) /\ Len(d) = w
  BY <1>2 DEF d
<1>5. <<25, 69>> \in Seq(Octet)
  BY DEF Octet
<1>6. front \in Seq(Octet) /\ Len(front) = 2 + w /\ front[1] = 25 /\ front[2] = 69
  BY <1>4, <1>5
<1> HIDE DEF front
<1>7. ComesApart(Octet, front, m, 2 + w, n)
  <2>1. 2 + w \in Nat
    OBVIOUS
  <2> QED
    BY <1>1, <1>6, <2>1, ConcatSplits
<1>8. /\ front \o m \in Seq(Octet) /\ Len(front \o m) = (2 + w) + n
      /\ SubSeq(front \o m, (2 + w) + 1, (2 + w) + n) = m
  BY <1>7, Zenon DEF ComesApart
<1>9. (front \o m)[1] = 25 /\ (front \o m)[2] = 69
  BY <1>6
<1> QED
  BY <1>1, <1>2, <1>3, <1>8, <1>9, Zenon

LEMMA PersonalInjective ==
  ASSUME NEW m \in Seq(Octet), NEW l \in Seq(Octet), PersonalMessage(m) = PersonalMessage(l)
  PROVE  m = l
<1>1. PICK w \in Nat : /\ Width(Len(m), w) /\ Len(PersonalMessage(m)) = (2 + w) + Len(m)
                       /\ SubSeq(PersonalMessage(m), (2 + w) + 1, (2 + w) + Len(m)) = m
  BY PersonalIs
<1>2. PICK v \in Nat : /\ Width(Len(l), v) /\ Len(PersonalMessage(l)) = (2 + v) + Len(l)
                       /\ SubSeq(PersonalMessage(l), (2 + v) + 1, (2 + v) + Len(l)) = l
  BY PersonalIs
<1>3. PICK a \in Nat, b \in Nat : a = Len(m) /\ b = Len(l)
  OBVIOUS
<1>4. (2 + w) + a = (2 + v) + b
  BY <1>1, <1>2, <1>3, Zenon
<1>5. w + a = v + b
  BY <1>4
<1>6. w = v /\ a = b
  BY <1>1, <1>2, <1>3, <1>5, SameWidth
<1> QED
  BY <1>1, <1>2, <1>3, <1>6, Zenon

-----------------------------------------------------------------------------
(* What a signed hash is of *)

HashedLegacy(q, b) ==
    /\ q.kind = "type0" /\ AsksTransaction(q)
    /\ \E g \in ParseFields(q) : b = LegacyList(g, encode_length(q.chain), << >>, << >>)

HashedDynamic(q, b) ==
    /\ q.kind = "eip1559" /\ AsksTransaction(q)
    /\ \E g \in ParseFields(q) : b = << 2 >> \o UnsignedList(g, q.chain)

HashedPersonal(q, b) ==
    q.kind = "personal_message" /\ q.message \in Seq(Octet) /\ b = PersonalMessage(q.message)

HashedTyped(q, b) ==
    q.kind = "typed_data" /\ b \in Seq(Octet) /\ Len(b) >= 2 /\ b[1] = 25 /\ b[2] = 1

LEMMA HashOfTransaction ==
  ASSUME NEW q, q \in EvmRequest, NEW b, q.kind \in {"type0", "eip1559"}, Keccak(b) \in HashToSign(q)
  PROVE  HashedLegacy(q, b) \/ HashedDynamic(q, b)
<1>0. AsksTransaction(q)
  BY RequestKinds
<1>c. IsNumber(q.chain)
  BY <1>0, ChainIs
<1>1. CASE q.kind = "type0"
  <2>1. HashToSign(q) = {Keccak(Type0Preimage(f, q.chain)) : f \in ParseFields(q)}
    BY <1>1 DEF HashToSign
  <2>2. PICK g \in ParseFields(q) : Keccak(b) = Keccak(Type0Preimage(g, q.chain))
    BY <2>1, Zenon
  <2>3. b = Type0Preimage(g, q.chain)
    BY <2>2, KeccakInjective, Zenon
  <2>4. IsFields(g)
    BY <1>0, FieldsOf
  <2>5. b = LegacyList(g, encode_length(q.chain), << >>, << >>)
    BY <1>c, <2>3, <2>4, Type0PreimageIs
  <2> QED
    BY <1>0, <1>1, <2>5, Zenon DEF HashedLegacy
<1>2. CASE q.kind = "eip1559"
  <2>1. HashToSign(q) = {Keccak(Eip1559Preimage(f, q.chain)) : f \in ParseFields(q)}
    BY <1>2 DEF HashToSign
  <2>2. PICK g \in ParseFields(q) : Keccak(b) = Keccak(Eip1559Preimage(g, q.chain))
    BY <2>1, Zenon
  <2>3. b = Eip1559Preimage(g, q.chain)
    BY <2>2, KeccakInjective, Zenon
  <2>4. IsFields(g)
    BY <1>0, FieldsOf
  <2>5. b = << 2 >> \o UnsignedList(g, q.chain)
    BY <1>c, <2>3, <2>4, Eip1559PreimageIs
  <2> QED
    BY <1>0, <1>2, <2>5, Zenon DEF HashedDynamic
<1> QED
  BY <1>1, <1>2

LEMMA HashOfRequest ==
  ASSUME NEW q, q \in EvmRequest, NEW b, Keccak(b) \in HashToSign(q)
  PROVE  HashedLegacy(q, b) \/ HashedDynamic(q, b) \/ HashedPersonal(q, b) \/ HashedTyped(q, b)
<1>1. CASE q.kind \in {"type0", "eip1559"}
  BY <1>1, HashOfTransaction
<1>2. CASE q.kind = "personal_message"
  <2>1. HashToSign(q) = {Keccak(PersonalMessage(q.message))}
    BY <1>2 DEF HashToSign
  <2>2. b = PersonalMessage(q.message)
    BY <2>1, KeccakInjective
  <2>3. q.message \in Seq(Octet)
    BY <1>2, RequestKinds DEF AsksMessage
  <2> QED
    BY <1>2, <2>2, <2>3, Zenon DEF HashedPersonal
<1>3. CASE q.kind = "tron_message"
  <2>1. HashToSign(q) = {tron_message_hash(q.message)}
    BY <1>3 DEF HashToSign
  <2> QED
    BY <2>1, KeccakIsNotTron
<1>4. CASE q.kind = "tron_raw"
  <2>1. HashToSign(q) = {Sha256(r) : r \in {r \in Raw(q) : \A i \in DOMAIN r : r[i] < 256}}
    BY <1>4 DEF HashToSign
  <2> QED
    BY <2>1, KeccakIsNotSha256
<1>5. CASE q.kind \in {"typed_data", "tron_transaction", "tron_message_hash"}
  <2>1. HashToSign(q) = q.hash
    BY <1>5 DEF HashToSign
  <2>2. AsksHash(q)
    BY <1>5, RequestKinds
  <2> DEFINE h == Keccak(b)
  <2>3. h \in q.hash /\ h[1] = "keccak256" /\ h[2] = b
    BY <2>1 DEF Keccak
  <2> HIDE DEF h
  <2>4. \/ q.kind = "typed_data" /\ h[1] = "keccak256" /\ h[2] \in Seq(Octet)
             /\ Len(h[2]) >= 2 /\ h[2][1] = 25 /\ h[2][2] = 1
        \/ q.kind = "tron_transaction" /\ h[1] = "sha256"
        \/ q.kind = "tron_message_hash" /\ h[1] = "tron_message"
    BY <2>2, <2>3, Zenon DEF AsksHash
  <2>5. h[1] # "sha256" /\ h[1] # "tron_message"
    BY <2>3
  <2>6. /\ q.kind = "typed_data" /\ h[2] \in Seq(Octet) /\ Len(h[2]) >= 2
        /\ h[2][1] = 25 /\ h[2][2] = 1
    BY <2>4, <2>5, Zenon
  <2> QED
    BY <2>3, <2>6, Zenon DEF HashedTyped
<1> QED
  BY <1>1, <1>2, <1>3, <1>4, <1>5, RequestKinds

(* What messages and typed data are hashed as begins with 25.              *)
LEMMA MessageStarts ==
  ASSUME NEW q, NEW b, HashedPersonal(q, b) \/ HashedTyped(q, b)
  PROVE  Starts(b, 25)
<1>1. CASE HashedPersonal(q, b)
  <2>1. q.message \in Seq(Octet) /\ b = PersonalMessage(q.message)
    BY <1>1, Zenon DEF HashedPersonal
  <2>2. b \in Seq(Octet) /\ b[1] = 25
    BY <2>1, PersonalIs
  <2>3. Len(b) > 0
    <3>1. PICK w \in Nat : Len(b) = (2 + w) + Len(q.message)
      BY <2>1, PersonalIs
    <3>2. PICK n \in Nat : n = Len(q.message)
      BY <2>1
    <3>3. Len(b) = (2 + w) + n
      BY <3>1, <3>2, Zenon
    <3>4. (2 + w) + n > 0
      OBVIOUS
    <3> QED
      BY <3>3, <3>4, Zenon
  <2> QED
    BY <2>2, <2>3, Zenon DEF Starts
<1>2. CASE HashedTyped(q, b)
  <2>1. b \in Seq(Octet) /\ Len(b) >= 2 /\ b[1] = 25
    BY <1>2, Zenon DEF HashedTyped
  <2>2. Len(b) > 0
    BY <2>1
  <2> QED
    BY <2>1, <2>2, Zenon DEF Starts
<1> QED
  BY <1>1, <1>2

(* Who has signed the hash of a transaction was asked for it.              *)
LEMMA HashMeans ==
  ASSUME NEW q, q \in EvmRequest, NEW f, IsFields(f), NEW kind \in {"type0", "eip1559"},
         NEW t, Reading(t, f, kind), NodeHash(t) \in HashToSign(q)
  PROVE  AsksTransaction(q) /\ t.chain = q.chain /\ IsAskedFor(t, q)
<1>n. IsNumber(t.chain)
  BY Zenon DEF Reading
<1>t. 25 \in Nat /\ 25 < 192 /\ 2 \in Nat /\ 2 < 192
  OBVIOUS
<1>1. CASE kind = "type0"
  <2>0. Reading(t, f, "type0")
    BY <1>1, Zenon
  <2>1. PICK b : /\ NodeHash(t) = Keccak(b)
                 /\ \/ t.chain # 0 /\ b = LegacyList(f, encode_length(t.chain), << >>, << >>)
                    \/ t.chain = 0 /\ b = BareList(f)
    BY <2>0, LegacyReadingHash
  <2>2. ~Starts(b, 25) /\ ~Starts(b, 2)
    BY <1>n, <1>t, <2>1, ListsStart
  <2>3. HashedLegacy(q, b) \/ HashedDynamic(q, b) \/ HashedPersonal(q, b) \/ HashedTyped(q, b)
    BY <2>1, HashOfRequest
  <2>4. ~HashedPersonal(q, b) /\ ~HashedTyped(q, b)
    BY <2>2, MessageStarts
  <2>5. ~HashedDynamic(q, b)
    <3> SUFFICES ASSUME HashedDynamic(q, b) PROVE FALSE
      OBVIOUS
    <3>1. PICK g \in ParseFields(q) : b = << 2 >> \o UnsignedList(g, q.chain)
      BY Zenon DEF HashedDynamic
    <3>2. AsksTransaction(q)
      BY Zenon DEF HashedDynamic
    <3>3. IsFields(g) /\ IsNumber(q.chain)
      BY <3>2, FieldsOf, ChainIs
    <3>4. UnsignedList(g, q.chain) \in Seq(Octet)
      BY <1>t, <3>3, ListsStart
    <3>5. Starts(b, 2)
      BY <3>1, <3>4, DynamicStarts
    <3> QED
      BY <2>2, <3>5
  <2>6. HashedLegacy(q, b)
    BY <2>3, <2>4, <2>5, Zenon
  <2>7. PICK g \in ParseFields(q) : b = LegacyList(g, encode_length(q.chain), << >>, << >>)
    BY <2>6, Zenon DEF HashedLegacy
  <2>8. AsksTransaction(q) /\ q.kind = "type0"
    BY <2>6, Zenon DEF HashedLegacy
  <2>9. IsFields(g) /\ Asked(g, q) /\ IsNumber(q.chain)
    BY <2>8, FieldsOf, ChainIs
  <2>10. b # BareList(f)
    BY <2>7, <2>9, BareIsNotLegacy
  <2>11. b = LegacyList(f, encode_length(t.chain), << >>, << >>)
    BY <2>1, <2>10, Zenon
  <2>12. Same(f, g) /\ t.chain = q.chain
    BY <1>n, <2>7, <2>9, <2>11, LegacyInjective
  <2>13. Reading(t, g, q.kind)
    <3>1. Carries(t, f) /\ t.kind = "type0" /\ t.fees = Fees(f, "type0")
      BY <2>0, Zenon DEF Reading
    <3>2. Carries(t, g)
      BY <2>12, <3>1, Zenon DEF Carries, Same
    <3>3. Fees(f, "type0") = Fees(g, "type0")
      BY <2>12 DEF Fees, Same
    <3> QED
      BY <1>n, <2>8, <3>1, <3>2, <3>3, Zenon DEF Reading
  <2> QED
    BY <2>8, <2>9, <2>12, <2>13, IsAsked
<1>2. CASE kind = "eip1559"
  <2>0. Reading(t, f, "eip1559")
    BY <1>2, Zenon
  <2>1. PICK b : NodeHash(t) = Keccak(b) /\ b = << 2 >> \o UnsignedList(f, t.chain)
    BY <2>0, DynamicReadingHash
  <2>2. UnsignedList(f, t.chain) \in Seq(Octet)
    BY <1>n, <1>t, ListsStart
  <2>3. Starts(b, 2) /\ ~Starts(b, 25)
    BY <2>1, <2>2, DynamicStarts
  <2>4. HashedLegacy(q, b) \/ HashedDynamic(q, b) \/ HashedPersonal(q, b) \/ HashedTyped(q, b)
    BY <2>1, HashOfRequest
  <2>5. ~HashedPersonal(q, b) /\ ~HashedTyped(q, b)
    BY <2>3, MessageStarts
  <2>6. ~HashedLegacy(q, b)
    <3> SUFFICES ASSUME HashedLegacy(q, b) PROVE FALSE
      OBVIOUS
    <3>1. PICK g \in ParseFields(q) : b = LegacyList(g, encode_length(q.chain), << >>, << >>)
      BY Zenon DEF HashedLegacy
    <3>2. AsksTransaction(q)
      BY Zenon DEF HashedLegacy
    <3>3. IsFields(g) /\ IsNumber(q.chain)
      BY <3>2, FieldsOf, ChainIs
    <3>4. ~Starts(b, 2)
      BY <1>t, <3>1, <3>3, ListsStart
    <3> QED
      BY <2>3, <3>4
  <2>7. HashedDynamic(q, b)
    BY <2>4, <2>5, <2>6, Zenon
  <2>8. PICK g \in ParseFields(q) : b = << 2 >> \o UnsignedList(g, q.chain)
    BY <2>7, Zenon DEF HashedDynamic
  <2>9. AsksTransaction(q) /\ q.kind = "eip1559"
    BY <2>7, Zenon DEF HashedDynamic
  <2>10. IsFields(g) /\ Asked(g, q) /\ IsNumber(q.chain)
    BY <2>9, FieldsOf, ChainIs
  <2>11. UnsignedList(g, q.chain) \in Seq(Octet)
    BY <1>t, <2>10, ListsStart
  <2>12. UnsignedList(f, t.chain) = UnsignedList(g, q.chain)
    BY <2>1, <2>2, <2>8, <2>11, SameTail
  <2>13. Same(f, g) /\ Number(f.fees[2]) = Number(g.fees[2]) /\ t.chain = q.chain
    BY <1>n, <2>10, <2>12, UnsignedInjective
  <2>14. Reading(t, g, q.kind)
    <3>1. Carries(t, f) /\ t.kind = "eip1559" /\ t.fees = Fees(f, "eip1559")
      BY <2>0, Zenon DEF Reading
    <3>2. Carries(t, g)
      BY <2>13, <3>1, Zenon DEF Carries, Same
    <3>3. Fees(f, "eip1559") = Fees(g, "eip1559")
      BY <2>13 DEF Fees, Same
    <3> QED
      BY <1>n, <2>9, <3>1, <3>2, <3>3, Zenon DEF Reading
  <2> QED
    BY <2>9, <2>10, <2>13, <2>14, IsAsked
<1> QED
  BY <1>1, <1>2

-----------------------------------------------------------------------------
(* The invariant: whatever was signed was made from its request, and a     *)
(* signature is one key's, of one hash.                                    *)

Made(e) ==
    /\ e.request \in EvmRequest /\ e.sig \in Signature
    /\ e.hash \in HashToSign(e.request) /\ e.out \in Output(e.request, e.sig)

OneSigner(e, d) == e.sig = d.sig => e.request.key = d.request.key /\ e.hash = d.hash

EvmInv ==
    /\ \A e \in evmSigned : Made(e)
    /\ \A e, d \in evmSigned : OneSigner(e, d)

LEMMA SignPreserves ==
  ASSUME EvmInv, NEW q \in EvmRequest, EvmSign(q)
  PROVE  EvmInv'
<1>a. PICK hash \in HashToSign(q) : \E sig \in SignPrehash(q.key, hash) : \E out \in Output(q, sig) :
        evmSigned' = evmSigned \cup {[request |-> q, out |-> out, hash |-> hash, sig |-> sig]}
  BY Zenon DEF EvmSign
<1>b. PICK sig \in SignPrehash(q.key, hash) : \E out \in Output(q, sig) :
        evmSigned' = evmSigned \cup {[request |-> q, out |-> out, hash |-> hash, sig |-> sig]}
  BY <1>a, Zenon
<1>1. PICK out \in Output(q, sig) :
        evmSigned' = evmSigned \cup {[request |-> q, out |-> out, hash |-> hash, sig |-> sig]}
  BY <1>b, Zenon
<1> DEFINE n == [request |-> q, out |-> out, hash |-> hash, sig |-> sig]
<1>2. n.request = q /\ n.out = out /\ n.hash = hash /\ n.sig = sig
  OBVIOUS
<1>3. evmSigned' = evmSigned \cup {n}
  BY <1>1
<1> HIDE DEF n
<1>4. sig \in Signature /\ \A e \in evmSigned : OneSigner(e, n) /\ OneSigner(n, e)
  <2> DEFINE same == {e \in evmSigned : e.request.key = q.key /\ e.hash = hash}
             made == {e.sig : e \in same}
  <2>1. SignPrehash(q.key, hash) = IF made # {} THEN made ELSE Signature \ {e.sig : e \in evmSigned}
    BY Zenon DEF SignPrehash
  <2>2. CASE made # {}
    <3>1. sig \in made
      BY <2>1, <2>2, Zenon
    <3>2. PICK d \in evmSigned : d.request.key = q.key /\ d.hash = hash /\ sig = d.sig
      BY <3>1, Zenon
    <3>3. sig \in Signature
      BY <3>2, Zenon DEF EvmInv, Made
    <3>4. ASSUME NEW e \in evmSigned PROVE OneSigner(e, n) /\ OneSigner(n, e)
      <4>1. OneSigner(e, d)
        BY <3>2, Zenon DEF EvmInv
      <4> QED
        BY <1>2, <3>2, <4>1, Zenon DEF OneSigner
    <3> QED
      BY <3>3, <3>4
  <2>3. CASE ~(made # {})
    <3>1. sig \in Signature /\ sig \notin {e.sig : e \in evmSigned}
      <4>1. sig \in Signature \ {e.sig : e \in evmSigned}
        BY <2>1, <2>3, Zenon
      <4> QED
        BY <4>1
    <3>2. ASSUME NEW e \in evmSigned PROVE OneSigner(e, n) /\ OneSigner(n, e)
      <4>1. e.sig # sig
        BY <3>1, Zenon
      <4> QED
        BY <1>2, <4>1, Zenon DEF OneSigner
    <3> QED
      BY <3>1, <3>2
  <2> QED
    BY <2>2, <2>3
<1>5. Made(n)
  BY <1>2, <1>4, Zenon DEF Made
<1>6. OneSigner(n, n)
  BY Zenon DEF OneSigner
<1>7. \A e \in evmSigned \cup {n} : Made(e)
  BY <1>5 DEF EvmInv
<1>8. ASSUME NEW e \in evmSigned \cup {n}, NEW d \in evmSigned \cup {n} PROVE OneSigner(e, d)
  <2>1. (e \in evmSigned \/ e = n) /\ (d \in evmSigned \/ d = n)
    OBVIOUS
  <2> QED
    BY <1>4, <1>6, <2>1, Zenon DEF EvmInv
<1>9. (\A e \in evmSigned : Made(e))' /\ (\A e, d \in evmSigned : OneSigner(e, d))'
  <2>1. (\A e \in evmSigned : Made(e))'
    BY <1>3, <1>7
  <2>2. (\A e, d \in evmSigned : OneSigner(e, d))'
    BY <1>3, <1>8
  <2> QED
    BY <2>1, <2>2
<1> QED
  BY <1>9 DEF EvmInv

LEMMA EvmNextPreserves ==
  ASSUME EvmInv, [EvmNext]_evmVars
  PROVE  EvmInv'
<1>1. ASSUME NEW q \in EvmRequest, SignTransaction(q) PROVE EvmInv'
  BY <1>1, SignPreserves DEF SignTransaction
<1>2. ASSUME NEW q \in EvmRequest, SignMessage(q) PROVE EvmInv'
  BY <1>2, SignPreserves DEF SignMessage
<1>3. ASSUME NEW q \in EvmRequest, TronSignTransaction(q) PROVE EvmInv'
  BY <1>3, SignPreserves DEF TronSignTransaction
<1>4. ASSUME NEW q \in EvmRequest, TronSignMessage(q) PROVE EvmInv'
  BY <1>4, SignPreserves DEF TronSignMessage
<1>5. ASSUME evmSigned' = evmSigned PROVE EvmInv'
  BY <1>5 DEF EvmInv
<1>6. ASSUME NEW chain \in Chain, NEW e \in evmSigned, Execute(chain, e.out) PROVE EvmInv'
  <2>1. evmSigned' = evmSigned
    BY <1>6, Zenon DEF Execute
  <2> QED
    BY <1>5, <2>1
<1>7. CASE UNCHANGED evmVars
  BY <1>5, <1>7 DEF evmVars
<1> QED
  BY <1>1, <1>2, <1>3, <1>4, <1>6, <1>7 DEF EvmNext

(* Everything that was signed was made from its request, and a signature   *)
(* is one key's, of one hash: signing again never gives another one        *)
(* (SignPrehash).                                                          *)
THEOREM EvmInvariant == EvmSpec => []EvmInv
<1>1. EvmInit => EvmInv
  BY DEF EvmInit, EvmInv
<1>2. EvmInv /\ [EvmNext]_evmVars => EvmInv'
  BY EvmNextPreserves
<1> QED
  BY <1>1, <1>2, PTL DEF EvmSpec

-----------------------------------------------------------------------------
(* What chains execute *)

(* Somebody asked for that.                                                *)
Wanted(t, from, chain) ==
    \E d \in evmSigned : /\ d.request.kind \in {"type0", "eip1559"}
                         /\ d.request.key = from /\ d.request.chain = chain
                         /\ IsAskedFor(t, d.request)

LEMMA ExecuteMeans ==
  ASSUME EvmInv, NEW chain, NEW e \in evmSigned, e.request.kind \in {"type0", "eip1559"},
         NEW t \in NodeReads(e.out), t.chain \in {chain, 0}, NEW from \in Recovered(NodeHash(t), t.sig)
  PROVE  Wanted(t, from, chain)
<1> DEFINE q == e.request
<1>1. q \in EvmRequest /\ e.sig \in Signature /\ e.out \in Output(q, e.sig)
  BY Zenon DEF EvmInv, Made
<1>2. AsksTransaction(q)
  BY <1>1, RequestKinds
<1>3. PICK f \in ParseFields(q) :
        /\ IsFields(f) /\ Asked(f, q) /\ NodeReads(e.out) = {Tx(f, q, e.sig)}
        /\ Reading(Tx(f, q, e.sig), f, q.kind)
  BY <1>1, <1>2, OutputReads
<1>4. t = Tx(f, q, e.sig) /\ Reading(t, f, q.kind)
  BY <1>3
<1>5. PICK d \in evmSigned : d.hash = NodeHash(t) /\ from = d.request.key
  BY Zenon DEF Recovered
<1>6. d.request \in EvmRequest /\ NodeHash(t) \in HashToSign(d.request)
  BY <1>5, Zenon DEF EvmInv, Made
<1>7. AsksTransaction(d.request) /\ t.chain = d.request.chain /\ IsAskedFor(t, d.request)
  BY <1>3, <1>4, <1>6, HashMeans
<1>8. d.request.chain # 0
  BY <1>7, ChainIs
<1>9. d.request.chain = chain
  BY <1>7, <1>8
<1>10. d.request.kind \in {"type0", "eip1559"}
  BY <1>7, Zenon DEF AsksTransaction
<1> QED
  BY <1>5, <1>7, <1>9, <1>10 DEF Wanted

(* Whatever a chain executes in the name of an owner, the owner asked for, *)
(* with every number and for this chain (sign_eip1559_transaction and      *)
(* sign_legacy_transaction).  Two encodings of different transactions      *)
(* differ (ListInjective), those of messages begin with another byte, and  *)
(* the hashes of Tron are others.                                          *)
THEOREM ExecutesAsAsked == EvmSpec => []ExecutesWhatWasAsked
<1> DEFINE Good(x, signed) ==
             \E d \in signed : /\ d.request.kind \in {"type0", "eip1559"}
                               /\ d.request.key = x.from /\ d.request.chain = x.chain
                               /\ IsAskedFor(x.tx, d.request)
<1>1. EvmInit => ExecutesWhatWasAsked
  BY DEF EvmInit, ExecutesWhatWasAsked
<1>2. ASSUME EvmInv, ExecutesWhatWasAsked, [EvmNext]_evmVars PROVE ExecutesWhatWasAsked'
  <2>0. \A x \in evmExecuted : Good(x, evmSigned)
    BY <1>2, Zenon DEF ExecutesWhatWasAsked
  <2>g. ASSUME \A x \in evmExecuted' : Good(x, evmSigned') PROVE ExecutesWhatWasAsked'
    BY <2>g, Zenon DEF ExecutesWhatWasAsked
  <2>m. ASSUME evmSigned \subseteq evmSigned', NEW x, Good(x, evmSigned) PROVE Good(x, evmSigned')
    BY <2>m, Zenon
  <2>1. ASSUME NEW q, EvmSign(q) PROVE ExecutesWhatWasAsked'
    <3>1. evmSigned \subseteq evmSigned' /\ evmExecuted' = evmExecuted
      BY <2>1 DEF EvmSign
    <3> QED
      BY <2>0, <2>g, <2>m, <3>1
  <2>2. ASSUME NEW chain \in Chain, NEW e \in evmSigned, e.request.kind \in {"type0", "eip1559"},
               Execute(chain, e.out)
        PROVE  ExecutesWhatWasAsked'
    <3>a. PICK t \in {r \in NodeReads(e.out) : r.chain \in {chain, 0}} :
            \E from \in Recovered(NodeHash(t), t.sig) :
              /\ evmExecuted' = evmExecuted \cup {[chain |-> chain, from |-> from, tx |-> t]}
              /\ evmSigned' = evmSigned
      BY <2>2, Zenon DEF Execute
    <3>1. PICK from \in Recovered(NodeHash(t), t.sig) :
            /\ evmExecuted' = evmExecuted \cup {[chain |-> chain, from |-> from, tx |-> t]}
            /\ evmSigned' = evmSigned
      BY <3>a, Zenon
    <3> DEFINE x == [chain |-> chain, from |-> from, tx |-> t]
    <3>2. t \in NodeReads(e.out) /\ t.chain \in {chain, 0}
      BY Zenon
    <3>3. \E d \in evmSigned : /\ d.request.kind \in {"type0", "eip1559"}
                               /\ d.request.key = from /\ d.request.chain = chain
                               /\ IsAskedFor(t, d.request)
      <4>1. Wanted(t, from, chain)
        BY <1>2, <2>2, <3>2, ExecuteMeans
      <4> QED
        BY <4>1, Zenon DEF Wanted
    <3>4. x.chain = chain /\ x.from = from /\ x.tx = t
      OBVIOUS
    <3>5. Good(x, evmSigned)
      BY <3>3, <3>4, Zenon
    <3> HIDE DEF x, Good
    <3>6. \A y \in evmExecuted \cup {x} : Good(y, evmSigned)
      BY <2>0, <3>5
    <3>7. evmExecuted' = evmExecuted \cup {x}
      BY <3>1 DEF x
    <3> QED
      BY <2>g, <3>1, <3>6, <3>7
  <2>3. CASE UNCHANGED evmVars
    BY <1>2, <2>3 DEF evmVars, ExecutesWhatWasAsked
  <2> HIDE DEF Good
  <2> QED
    BY <1>2, <2>1, <2>2, <2>3 DEF EvmNext, SignTransaction, SignMessage, TronSignTransaction, TronSignMessage
<1> QED
  BY <1>1, <1>2, EvmInvariant, PTL DEF EvmSpec

-----------------------------------------------------------------------------
(* What is returned *)

LEMMA HalfOf ==
  ASSUME NEW chain \in Nat, NEW y \in {0, 1}
  PROVE  /\ ((chain * 2 + 35 + y) - 35) \div 2 = chain /\ ((chain * 2 + 35 + y) - 35) % 2 = y
         /\ ~(chain * 2 + 35 + y < 35) /\ chain * 2 + 35 + y < 2 * chain + 37
OBVIOUS

LEMMA VWhole ==
  ASSUME NEW chain, IsNumber(chain), NEW y \in {0, 1}, 2 * chain + 36 < Values(U64Size)
  PROVE  /\ ~(Type0V(chain, y) < 35)
         /\ (Type0V(chain, y) - 35) \div 2 = chain /\ (Type0V(chain, y) - 35) % 2 = y
<1>1. PICK u \in Nat : u = Values(U64Size)
  BY ValuesNat
<1>2. chain \in Nat
  BY Zenon DEF IsNumber
<1>3. PICK v \in Nat : v = chain * 2 + 35 + y
  BY <1>2
<1>4. v < u
  BY <1>1, <1>2, <1>3
<1>5. v % u = v
  BY <1>4
<1>6. Type0V(chain, y) = v
  BY <1>1, <1>3, <1>5, Zenon DEF Type0V
<1>7. (v - 35) \div 2 = chain /\ (v - 35) % 2 = y /\ ~(v < 35)
  BY <1>2, <1>3, HalfOf
<1> QED
  BY <1>6, <1>7, Zenon

LEMMA TxIs ==
  ASSUME NEW q, AsksTransaction(q), NEW f, NEW sig \in Signature, 2 * q.chain + 36 < Values(U64Size)
  PROVE  /\ Tx(f, q, sig).chain = q.chain
         /\ Tx(f, q, sig).sig = <<sig.y, Stripped(sig.r), Stripped(sig.s)>>
<1>0. q.kind \in {"type0", "eip1559"} /\ IsNumber(q.chain) /\ sig.y \in {0, 1}
  BY ChainIs, SignatureIs DEF AsksTransaction
<1>1. CASE q.kind = "type0"
  <2> DEFINE v == Type0V(q.chain, sig.y)
             t == LegacyTx(f, v, Stripped(sig.r), Stripped(sig.s))
  <2>1. ~(v < 35) /\ (v - 35) \div 2 = q.chain /\ (v - 35) % 2 = sig.y
    BY <1>0, VWhole
  <2> HIDE DEF v
  <2>2. t.chain = (IF v < 35 THEN 0 ELSE (v - 35) \div 2)
          /\ t.sig = <<IF v < 35 THEN v - 27 ELSE (v - 35) % 2, Stripped(sig.r), Stripped(sig.s)>>
    BY DEF LegacyTx
  <2>3. t.chain = q.chain /\ t.sig = <<sig.y, Stripped(sig.r), Stripped(sig.s)>>
    BY <2>1, <2>2, Zenon
  <2>4. Tx(f, q, sig) = t
    BY <1>1, Zenon DEF Tx, Type0Tx, v
  <2> QED
    BY <2>3, <2>4, Zenon
<1>2. CASE q.kind = "eip1559"
  <2>1. q.kind # "type0"
    BY <1>2
  <2>2. Tx(f, q, sig) = DynamicTx(f, q.chain, sig.y, Stripped(sig.r), Stripped(sig.s))
    BY <2>1, Zenon DEF Tx, Eip1559Tx
  <2> QED
    BY <2>2 DEF DynamicTx
<1> QED
  BY <1>0, <1>1, <1>2

LEMMA HashIsKeccak ==
  ASSUME NEW q, q.kind \in {"type0", "eip1559"}, NEW h \in HashToSign(q)
  PROVE  \E b : h = Keccak(b)
<1>1. CASE q.kind = "type0"
  <2>1. HashToSign(q) = {Keccak(Type0Preimage(f, q.chain)) : f \in ParseFields(q)}
    BY <1>1 DEF HashToSign
  <2> QED
    BY <2>1, Zenon
<1>2. CASE q.kind = "eip1559"
  <2>1. HashToSign(q) = {Keccak(Eip1559Preimage(f, q.chain)) : f \in ParseFields(q)}
    BY <1>2 DEF HashToSign
  <2> QED
    BY <2>1, Zenon
<1> QED
  BY <1>1, <1>2

(* The hash that was signed is that of the transaction that is read.       *)
LEMMA HashIsRead ==
  ASSUME NEW q, q \in EvmRequest, q.kind \in {"type0", "eip1559"}, NEW h \in HashToSign(q),
         NEW f \in ParseFields(q), NEW t, Reading(t, f, q.kind), t.chain = q.chain
  PROVE  NodeHash(t) = h
<1>0. AsksTransaction(q) /\ IsOneCall(q)
  BY RequestKinds, RequestIs
<1>1. PICK b : h = Keccak(b)
  BY HashIsKeccak
<1>2. HashedLegacy(q, b) \/ HashedDynamic(q, b)
  BY <1>1, HashOfTransaction
<1>3. IsFields(f) /\ Asked(f, q)
  BY <1>0, FieldsOf
<1>c. q.chain # 0 /\ IsNumber(q.chain)
  BY <1>0, ChainIs
<1>4. ASSUME NEW g \in ParseFields(q) PROVE IsFields(g) /\ Reading(t, g, q.kind)
  <2>1. IsFields(g) /\ Asked(g, q)
    BY <1>0, FieldsOf
  <2>2. Same(f, g) /\ Number(f.fees[2]) = Number(g.fees[2])
    BY <1>0, <1>3, <2>1, OneParse
  <2>3. Carries(t, f) /\ t.kind = q.kind /\ t.fees = Fees(f, q.kind) /\ IsNumber(t.chain)
    BY Zenon DEF Reading
  <2>4. Carries(t, g)
    BY <2>2, <2>3, Zenon DEF Carries, Same
  <2>5. Fees(f, q.kind) = Fees(g, q.kind)
    BY <2>2, Zenon DEF Fees, Same
  <2> QED
    BY <2>1, <2>3, <2>4, <2>5, Zenon DEF Reading
<1>5. CASE HashedLegacy(q, b)
  <2>1. PICK g \in ParseFields(q) : b = LegacyList(g, encode_length(q.chain), << >>, << >>)
    BY <1>5, Zenon DEF HashedLegacy
  <2>2. Reading(t, g, "type0") /\ IsFields(g)
    BY <1>4, <1>5, Zenon DEF HashedLegacy
  <2>3. NodeHash(t) = Keccak(LegacyList(g, encode_length(t.chain), << >>, << >>))
    BY <1>c, <2>2, LegacyReadingHash
  <2> QED
    BY <1>1, <2>1, <2>3, Zenon
<1>6. CASE HashedDynamic(q, b)
  <2>1. PICK g \in ParseFields(q) : b = << 2 >> \o UnsignedList(g, q.chain)
    BY <1>6, Zenon DEF HashedDynamic
  <2>2. Reading(t, g, "eip1559") /\ IsFields(g)
    BY <1>4, <1>6, Zenon DEF HashedDynamic
  <2>3. NodeHash(t) = Keccak(<< 2 >> \o UnsignedList(g, t.chain))
    BY <2>2, DynamicReadingHash
  <2> QED
    BY <1>1, <2>1, <2>3, Zenon
<1> QED
  BY <1>2, <1>5, <1>6

Accepted(e) ==
    \E t \in NodeReads(e.out) : /\ t.chain = e.request.chain
                                /\ IsAskedFor(t, e.request)
                                /\ e.request.key \in Recovered(NodeHash(t), t.sig)

LEMMA ReturnedAccepted ==
  ASSUME EvmInv, NEW e \in evmSigned, e.request.kind \in {"type0", "eip1559"},
         2 * e.request.chain + 36 < Values(U64Size)
  PROVE  Accepted(e)
<1> DEFINE q == e.request
<1>1. q \in EvmRequest /\ e.sig \in Signature /\ e.out \in Output(q, e.sig) /\ e.hash \in HashToSign(q)
  BY Zenon DEF EvmInv, Made
<1>2. AsksTransaction(q)
  BY <1>1, RequestKinds
<1>3. PICK f \in ParseFields(q) :
        /\ IsFields(f) /\ Asked(f, q) /\ NodeReads(e.out) = {Tx(f, q, e.sig)}
        /\ Reading(Tx(f, q, e.sig), f, q.kind)
  BY <1>1, <1>2, OutputReads
<1> DEFINE t == Tx(f, q, e.sig)
<1>4. t.chain = q.chain /\ t.sig = <<e.sig.y, Stripped(e.sig.r), Stripped(e.sig.s)>>
  BY <1>1, <1>2, TxIs
<1> HIDE DEF t
<1>5. t \in NodeReads(e.out) /\ Reading(t, f, q.kind)
  BY <1>3 DEF t
<1>6. IsAskedFor(t, q)
  BY <1>2, <1>3, <1>5, IsAsked
<1>7. NodeHash(t) = e.hash
  BY <1>1, <1>4, <1>5, HashIsRead
<1>8. q.key \in Recovered(NodeHash(t), t.sig)
  BY <1>4, <1>7, Zenon DEF Recovered
<1> QED
  BY <1>4, <1>5, <1>6, <1>8, Zenon DEF Accepted

(* What signing a transaction returns is a transaction that the chain      *)
(* takes for the owner's, unless v wraps around (sign_legacy_transaction): *)
(* it is read back whole, whatever its sizes, and its hash is what the     *)
(* owner signed.                                                           *)
THEOREM ReturnedAsAccepted == EvmSpec => []ReturnedIsAccepted
<1>1. EvmInv => ReturnedIsAccepted
  BY ReturnedAccepted DEF ReturnedIsAccepted, Accepted
<1> QED
  BY <1>1, EvmInvariant, PTL

-----------------------------------------------------------------------------
(* Messages *)

LEMMA Trailer ==
  ASSUME NEW sig \in Signature, NEW v \in Octet
  PROVE  /\ sig.r \o sig.s \o <<v>> \in Seq(Octet)
         /\ SubSeq(sig.r \o sig.s \o <<v>>, 1, U256Size) = sig.r
         /\ SubSeq(sig.r \o sig.s \o <<v>>, U256Size + 1, U256Size + U256Size) = sig.s
         /\ (sig.r \o sig.s \o <<v>>)[(U256Size + U256Size) + 1] = v
<1>1. PICK u \in Nat : u = U256Size
  BY Sizes
<1>2. sig.r \in Seq(Octet) /\ Len(sig.r) = u /\ sig.s \in Seq(Octet) /\ Len(sig.s) = u
  BY <1>1, SignatureIs DEF IsWord
<1>3. PICK r \in Seq(Octet), s \in Seq(Octet) : r = sig.r /\ s = sig.s /\ Len(r) = u /\ Len(s) = u
  BY <1>2
<1> DEFINE p == r \o s
           c == p \o <<v>>
<1>4. /\ p \in Seq(Octet) /\ Len(p) = u + u
      /\ SubSeq(p, 1, u) = r /\ SubSeq(p, u + 1, u + u) = s
  <2>1. ComesApart(Octet, r, s, u, u)
    BY <1>3, ConcatSplits
  <2> QED
    BY <2>1, Zenon DEF ComesApart
<1> HIDE DEF p
<1>5. c \in Seq(Octet) /\ Len(c) = (u + u) + 1 /\ c[(u + u) + 1] = v /\ \A i \in 1..(u + u) : c[i] = p[i]
  BY <1>4
<1> HIDE DEF c
<1>6. SubSeq(c, 1, u) = SubSeq(p, 1, u)
  <2>1. \A i \in 1..u : i \in 1..(u + u)
    OBVIOUS
  <2> QED
    BY <1>4, <1>5, <2>1
<1>7. SubSeq(c, u + 1, u + u) = SubSeq(p, u + 1, u + u)
  BY <1>4, <1>5
<1>8. sig.r \o sig.s \o <<v>> = c
  BY <1>3, Zenon DEF c, p
<1> QED
  BY <1>1, <1>3, <1>4, <1>5, <1>6, <1>7, <1>8, Zenon

Appended(sig, v) == sig.r \o sig.s \o <<v>>

(* Signatures that are the same bytes are the same.                        *)
LEMMA SameSignature ==
  ASSUME NEW a \in Signature, NEW b \in Signature, NEW v \in Octet, NEW w \in Octet,
         Appended(a, v) = Appended(b, w)
  PROVE  a.r = b.r /\ a.s = b.s /\ v = w
<1>1. /\ SubSeq(a.r \o a.s \o <<v>>, 1, U256Size) = a.r
      /\ SubSeq(a.r \o a.s \o <<v>>, U256Size + 1, U256Size + U256Size) = a.s
      /\ (a.r \o a.s \o <<v>>)[(U256Size + U256Size) + 1] = v
  BY Trailer
<1>2. /\ SubSeq(b.r \o b.s \o <<w>>, 1, U256Size) = b.r
      /\ SubSeq(b.r \o b.s \o <<w>>, U256Size + 1, U256Size + U256Size) = b.s
      /\ (b.r \o b.s \o <<w>>)[(U256Size + U256Size) + 1] = w
  BY Trailer
<1> QED
  BY <1>1, <1>2, Zenon DEF Appended

LEMMA SameRecord ==
  ASSUME NEW a \in Signature, NEW b \in Signature, a.y = b.y, a.r = b.r, a.s = b.s
  PROVE  a = b
<1>1. /\ a \in [y : {0, 1}, r : [1..U256Size -> Octet], s : [1..U256Size -> Octet]]
      /\ b \in [y : {0, 1}, r : [1..U256Size -> Octet], s : [1..U256Size -> Octet]]
  BY EvmAssumption
<1> QED
  BY <1>1

LEMMA RecoveryBytes ==
  ASSUME NEW y \in {0, 1}
  PROVE  y \in Octet /\ 27 + y \in Octet /\ \A x \in {0, 1} : y # 27 + x /\ (27 + y = 27 + x => y = x)
BY DEF Octet

LEMMA OutputIs ==
  ASSUME NEW q, q \in EvmRequest, NEW sig, NEW out, out \in Output(q, sig)
  PROVE  /\ q.kind \in {"tron_raw", "tron_transaction"} => out = Appended(sig, sig.y)
         /\ q.kind \in {"personal_message", "typed_data", "tron_message", "tron_message_hash"}
              => out = Appended(sig, 27 + sig.y)
<1>1. ASSUME q.kind \in {"tron_raw", "tron_transaction"} PROVE out = Appended(sig, sig.y)
  <2>1. Output(q, sig) = {sig.r \o sig.s \o <<sig.y>>}
    BY <1>1 DEF Output
  <2> QED
    BY <2>1, Zenon DEF Appended
<1>2. ASSUME q.kind \in {"personal_message", "typed_data", "tron_message", "tron_message_hash"}
      PROVE  out = Appended(sig, 27 + sig.y)
  <2>1. Output(q, sig) = {sig.r \o sig.s \o <<27 + sig.y>>}
    BY <1>2 DEF Output
  <2> QED
    BY <2>1, Zenon DEF Appended
<1> QED
  BY <1>1, <1>2

(* What is returned for a message that is signed so.                       *)
IsMessageSigned(out, sig) == out = Appended(sig, 27 + sig.y)

(* Only a message's own signature is that of a message.                    *)
LEMMA SameAppended ==
  ASSUME NEW q, q \in EvmRequest, NEW a \in Signature, NEW out, out \in Output(q, a),
         NEW b \in Signature, IsMessageSigned(out, b)
  PROVE  a = b
<1>0. a.y \in {0, 1} /\ b.y \in {0, 1}
  BY SignatureIs
<1>1. a.y \in Octet /\ 27 + a.y \in Octet /\ 27 + b.y \in Octet /\ a.y # 27 + b.y
        /\ (27 + a.y = 27 + b.y => a.y = b.y)
  BY <1>0, RecoveryBytes
<1>s. out = Appended(b, 27 + b.y)
  BY Zenon DEF IsMessageSigned
<1>2. CASE q.kind \in {"type0", "eip1559"}
  <2>1. AsksTransaction(q)
    BY <1>2, RequestKinds
  <2>2. NodeReads(out) # {}
    BY <2>1, OutputReads
  <2>3. NodeReads(b.r \o b.s \o <<27 + b.y>>) = {}
    BY EvmRequestAssumption
  <2> QED
    BY <1>s, <2>2, <2>3, Zenon DEF Appended
<1>3. CASE q.kind \in {"tron_raw", "tron_transaction"}
  <2>1. Appended(a, a.y) = Appended(b, 27 + b.y)
    BY <1>3, <1>s, OutputIs, Zenon
  <2>2. PICK v \in Octet, w \in Octet : v = a.y /\ w = 27 + b.y
    BY <1>1
  <2>3. Appended(a, v) = Appended(b, w)
    BY <2>1, <2>2, Zenon
  <2>4. v = w
    BY <2>3, SameSignature
  <2> QED
    BY <1>1, <2>2, <2>4, Zenon
<1>4. CASE q.kind \in {"personal_message", "typed_data", "tron_message", "tron_message_hash"}
  <2>1. Appended(a, 27 + a.y) = Appended(b, 27 + b.y)
    BY <1>4, <1>s, OutputIs, Zenon
  <2>2. PICK v \in Octet, w \in Octet : v = 27 + a.y /\ w = 27 + b.y
    BY <1>1
  <2>3. Appended(a, v) = Appended(b, w)
    BY <2>1, <2>2, Zenon
  <2>4. a.r = b.r /\ a.s = b.s /\ v = w
    BY <2>3, SameSignature
  <2>5. a.y = b.y
    BY <1>1, <2>2, <2>4, Zenon
  <2> QED
    BY <2>4, <2>5, SameRecord
<1> QED
  BY <1>2, <1>3, <1>4, RequestKinds

(* Whose hash is that of a message signed the message.                     *)
LEMMA PersonalHash ==
  ASSUME NEW q, q \in EvmRequest, NEW m \in Seq(Octet), Keccak(PersonalMessage(m)) \in HashToSign(q)
  PROVE  q.kind = "personal_message" /\ q.message = m
<1> DEFINE b == PersonalMessage(m)
<1>1. b \in Seq(Octet) /\ b[1] = 25 /\ b[2] = 69
  BY PersonalIs
<1>2. HashedLegacy(q, b) \/ HashedDynamic(q, b) \/ HashedPersonal(q, b) \/ HashedTyped(q, b)
  BY HashOfRequest
<1> HIDE DEF b
<1>3. ~HashedTyped(q, b)
  BY <1>1 DEF HashedTyped
<1>s. Starts(b, 25)
  <2>1. Len(b) > 0
    <3>1. PICK w \in Nat : Len(b) = (2 + w) + Len(m)
      BY PersonalIs DEF b
    <3>2. PICK n \in Nat : n = Len(m)
      OBVIOUS
    <3>3. Len(b) = (2 + w) + n
      BY <3>1, <3>2, Zenon
    <3> QED
      BY <3>3
  <2> QED
    BY <1>1, <2>1, Zenon DEF Starts
<1>t. 25 \in Nat /\ 25 < 192
  OBVIOUS
<1>4. ~HashedLegacy(q, b)
  <2> SUFFICES ASSUME HashedLegacy(q, b) PROVE FALSE
    OBVIOUS
  <2>1. PICK g \in ParseFields(q) : b = LegacyList(g, encode_length(q.chain), << >>, << >>)
    BY Zenon DEF HashedLegacy
  <2>2. AsksTransaction(q)
    BY Zenon DEF HashedLegacy
  <2>3. IsFields(g) /\ IsNumber(q.chain)
    BY <2>2, FieldsOf, ChainIs
  <2>4. ~Starts(b, 25)
    BY <1>t, <2>1, <2>3, ListsStart
  <2> QED
    BY <1>s, <2>4
<1>5. ~HashedDynamic(q, b)
  <2> SUFFICES ASSUME HashedDynamic(q, b) PROVE FALSE
    OBVIOUS
  <2>1. PICK g \in ParseFields(q) : b = << 2 >> \o UnsignedList(g, q.chain)
    BY Zenon DEF HashedDynamic
  <2>2. AsksTransaction(q)
    BY Zenon DEF HashedDynamic
  <2>3. IsFields(g) /\ IsNumber(q.chain)
    BY <2>2, FieldsOf, ChainIs
  <2>4. UnsignedList(g, q.chain) \in Seq(Octet)
    BY <1>t, <2>3, ListsStart
  <2>5. ~Starts(b, 25)
    BY <2>1, <2>4, DynamicStarts
  <2> QED
    BY <1>s, <2>5
<1>6. q.kind = "personal_message" /\ q.message \in Seq(Octet) /\ b = PersonalMessage(q.message)
  BY <1>2, <1>3, <1>4, <1>5, Zenon DEF HashedPersonal
<1> QED
  BY <1>6, PersonalInjective DEF b

Verifies(e, m, key) == key \in MessageSigners(Keccak(<<25, 69>> \o Decimal(Len(m)) \o m), e.out)

LEMMA VerifiedWasAsked ==
  ASSUME EvmInv, NEW e \in evmSigned, NEW m \in Seq(Octet), NEW key, Verifies(e, m, key)
  PROVE  e.request.kind = "personal_message" /\ e.request.message = m /\ e.request.key = key
<1>1. PICK d \in evmSigned : /\ d.hash = Keccak(PersonalMessage(m))
                             /\ e.out = Appended(d.sig, 27 + d.sig.y)
                             /\ key = d.request.key
  BY Zenon DEF Verifies, MessageSigners, PersonalMessage, Appended
<1>2. Made(e) /\ Made(d)
  BY Zenon DEF EvmInv
<1>3. e.sig = d.sig
  BY <1>1, <1>2, SameAppended DEF Made, IsMessageSigned
<1>4. e.request.key = d.request.key /\ e.hash = d.hash
  BY <1>3, Zenon DEF EvmInv, OneSigner
<1>5. e.request.kind = "personal_message" /\ e.request.message = m
  <2>1. e.request \in EvmRequest /\ Keccak(PersonalMessage(m)) \in HashToSign(e.request)
    BY <1>1, <1>2, <1>4, Zenon DEF Made
  <2> QED
    BY <2>1, PersonalHash
<1> QED
  BY <1>1, <1>4, <1>5, Zenon

LEMMA AskedVerifies ==
  ASSUME EvmInv, NEW e \in evmSigned, e.request.kind = "personal_message"
  PROVE  Verifies(e, e.request.message, e.request.key)
<1> DEFINE q == e.request
<1>1. q \in EvmRequest /\ e.hash \in HashToSign(q) /\ e.out \in Output(q, e.sig)
  BY Zenon DEF EvmInv, Made
<1>2. HashToSign(q) = {Keccak(PersonalMessage(q.message))}
  BY DEF HashToSign
<1>3. e.hash = Keccak(PersonalMessage(q.message))
  BY <1>1, <1>2, Zenon
<1>4. e.out = Appended(e.sig, 27 + e.sig.y)
  BY <1>1, OutputIs
<1> QED
  BY <1>3, <1>4, Zenon DEF Verifies, MessageSigners, PersonalMessage, Appended

(* A signature verifies as one of a message exactly for the message and    *)
(* the key that were asked for (sign_personal_message and its siblings):   *)
(* the prefix and the length keep messages apart from transactions, from   *)
(* typed data and from each other, and v keeps them apart from Tron's      *)
(* transactions.                                                           *)
THEOREM MessagesVerify == EvmSpec => []MessagesVerifyAsAsked
<1>1. ASSUME EvmInv PROVE MessagesVerifyAsAsked
  <2>1. ASSUME NEW e \in evmSigned, NEW m \in EvmMessage, NEW key \in EvmKey
        PROVE  Verifies(e, m, key)
                 <=> (e.request.kind = "personal_message" /\ e.request.message = m /\ e.request.key = key)
    <3>1. m \in Seq(Octet)
      BY EvmRequestAssumption
    <3>2. Verifies(e, m, key) =>
            (e.request.kind = "personal_message" /\ e.request.message = m /\ e.request.key = key)
      BY <1>1, <3>1, VerifiedWasAsked
    <3>3. e.request.kind = "personal_message" => Verifies(e, e.request.message, e.request.key)
      BY <1>1, AskedVerifies
    <3> QED
      BY <3>2, <3>3, Zenon
  <2> QED
    BY <2>1, Zenon DEF MessagesVerifyAsAsked, Verifies
<1> QED
  BY <1>1, EvmInvariant, PTL

-----------------------------------------------------------------------------
(* Calls of tokens *)

Accounts(c) == IF c.token = "trc20" THEN {SubSeq(c.to, 2, 1 + AddressSize)} ELSE hex_to_bytes(c.to)

LEMMA TransactionCall ==
  ASSUME EvmInv, NEW e \in evmSigned, NEW c \in e.request.call, e.request.kind \in {"type0", "eip1559"}
  PROVE  CallReads((CHOOSE t \in NodeReads(e.out) : TRUE).data, c, Accounts(c))
<1> DEFINE q == e.request
<1>1. q \in EvmRequest /\ e.sig \in Signature /\ e.out \in Output(q, e.sig)
  BY Zenon DEF EvmInv, Made
<1>2. AsksTransaction(q) /\ IsOneCall(q)
  BY <1>1, RequestKinds, RequestIs
<1>3. PICK f \in ParseFields(q) :
        /\ IsFields(f) /\ Asked(f, q) /\ NodeReads(e.out) = {Tx(f, q, e.sig)}
        /\ Reading(Tx(f, q, e.sig), f, q.kind)
  BY <1>1, <1>2, OutputReads
<1> DEFINE t == CHOOSE t \in NodeReads(e.out) : TRUE
<1>4. t = Tx(f, q, e.sig)
  BY <1>3
<1> HIDE DEF t
<1>5. t.data = f.data
  BY <1>3, <1>4, Zenon DEF Reading, Carries
<1>6. f.data \in UNION {hex_to_bytes(text) : text \in Data(q)}
  BY <1>3, Zenon DEF Asked
<1>7. IsCall(c) /\ f.data \in CallData(c)
  BY <1>2, <1>6, DataOfCall
<1>8. CallReads(f.data, c, hex_to_bytes(c.to))
  BY <1>7, CallDataRead
<1>9. Accounts(c) = hex_to_bytes(c.to)
  BY <1>7 DEF IsCall, Accounts
<1> QED
  BY <1>5, <1>8, <1>9, Zenon DEF t

LEMMA RawCall ==
  ASSUME EvmInv, NEW e \in evmSigned, NEW c \in e.request.call, e.request.kind = "tron_raw"
  PROVE  CallReads(e.hash[2], c, Accounts(c))
<1> DEFINE q == e.request
<1>1. q \in EvmRequest /\ e.hash \in HashToSign(q)
  BY Zenon DEF EvmInv, Made
<1>2. AsksRaw(q) /\ IsOneCall(q)
  BY <1>1, RequestKinds, RequestIs
<1>3. HashToSign(q) = {Sha256(b) : b \in {b \in Raw(q) : \A i \in DOMAIN b : b[i] < 256}}
  BY DEF HashToSign
<1>4. PICK b \in Raw(q) : e.hash = Sha256(b)
  BY <1>1, <1>3, Zenon
<1>5. e.hash[2] = b
  BY <1>4 DEF Sha256
<1>6. q.call # {}
  OBVIOUS
<1>7. PICK x \in q.call : b \in CallData(x)
  BY <1>4, <1>6, Zenon DEF Raw
<1>8. x = c
  BY <1>2, Zenon DEF IsOneCall
<1>9. IsTronCall(c)
  BY <1>2, Zenon DEF AsksRaw, IsTronCall
<1>10. CallReads(b, c, {SubSeq(c.to, 2, 1 + AddressSize)})
  BY <1>7, <1>8, <1>9, TronCallDataRead
<1>11. Accounts(c) = {SubSeq(c.to, 2, 1 + AddressSize)}
  BY <1>9, Zenon DEF IsTronCall, Accounts
<1> QED
  BY <1>5, <1>10, <1>11, Zenon

Called(e) == IF e.request.kind = "tron_raw" THEN e.hash[2] ELSE (CHOOSE t \in NodeReads(e.out) : TRUE).data

LEMMA CalledReads ==
  ASSUME EvmInv, NEW e \in evmSigned, NEW c \in e.request.call
  PROVE  ContractReads(Called(e)) = {Meant(c, account) : account \in Accounts(c)}
<1>1. e.request \in EvmRequest /\ e.request.call # {}
  BY Zenon DEF EvmInv, Made
<1>2. CallReads(Called(e), c, Accounts(c))
  <2>1. CASE e.request.kind \in {"type0", "eip1559"}
    BY <2>1, TransactionCall DEF Called
  <2>2. CASE e.request.kind = "tron_raw"
    BY <2>2, RawCall DEF Called
  <2>3. CASE e.request.kind \in {"personal_message", "tron_message"}
    BY <1>1, <2>3, RequestKinds DEF AsksMessage
  <2>4. CASE e.request.kind \in {"typed_data", "tron_transaction", "tron_message_hash"}
    BY <1>1, <2>4, RequestKinds DEF AsksHash
  <2> QED
    BY <1>1, <2>1, <2>2, <2>3, <2>4, RequestKinds
<1> QED
  BY <1>2, Zenon DEF CallReads

(* A token contract reads from the signed call the account and the amount  *)
(* that were asked for (encode_erc20_transfer, encode_erc20_approve and    *)
(* encode_trc20_transfer), whatever the transaction around it carries.     *)
THEOREM TokenCallsMean == EvmSpec => []TokenCallsMeanWhatWasAsked
<1>1. ASSUME EvmInv PROVE TokenCallsMeanWhatWasAsked
  <2>1. ASSUME NEW e \in evmSigned, NEW c \in e.request.call
        PROVE  ContractReads(Called(e)) = {Meant(c, account) : account \in Accounts(c)}
    BY <1>1, CalledReads
  <2> QED
    BY <2>1, Zenon DEF TokenCallsMeanWhatWasAsked, Called, Meant, Accounts
<1> QED
  BY <1>1, EvmInvariant, PTL
=============================================================================
