-------------------------------- MODULE Bytes --------------------------------
(***************************************************************************)
(* Numbers as bytes, the way the signers lay them out.  A conversion that  *)
(* may fail returns the set of its results: one of them, or none.          *)
(***************************************************************************)
EXTENDS Integers, SequencesExt

Octet == 0..255

Power(base, size) ==
    LET power[i \in 0..size] == IF i = 0 THEN 1 ELSE base * power[i - 1]
    IN power[size]

(* How many numbers fit into that many bytes.                              *)
Values(size) == Power(256, size)

(* to_le_bytes, to_be_bytes: what does not fit is cut off.                 *)
LittleEndian(n, size) == [i \in 1..size |-> (n \div Values(i - 1)) % 256]

BigEndian(n, size) == Reverse(LittleEndian(n, size))

(* The digits of a number, the most significant first: what does not fit   *)
(* is cut off.                                                             *)
DigitsIn(base, n, size) == [i \in 1..size |-> (n \div Power(base, size - i)) % base]

(* The number that digits are, the most significant first.                 *)
NumberIn(base, digits) ==
    LET number[i \in 0..Len(digits)] == IF i = 0 THEN 0 ELSE base * number[i - 1] + digits[i]
    IN number[Len(digits)]

Number(bytes) == NumberIn(256, bytes)

LeadingZeros(s) == Cardinality({i \in DOMAIN s : \A j \in 1..i : s[j] = 0})

Stripped(bytes) == SubSeq(bytes, LeadingZeros(bytes) + 1, Len(bytes))

(* The bytes of a number without leading zeros; a zero is one byte.        *)
MinimalBytes(n) ==
    BigEndian(n, CHOOSE size \in 1..(n + 1) : /\ n \div Values(size - 1) < 256
                                              /\ size = 1 \/ n >= Values(size - 1))

(* Decimal digits as characters.                                           *)
Decimal(n) ==
    LET width == CHOOSE w \in 1..(n + 1) : /\ n < Power(10, w)
                                           /\ w = 1 \/ n >= Power(10, w - 1)
    IN [i \in 1..width |-> 48 + ((n \div Power(10, width - i)) % 10)]

(* A reader takes bytes and a position, and returns what it read there and *)
(* the position after it.  Many reads that many of its items in a row.     *)
Many(Read(_, _), m, at, count) ==
    LET runs[i \in 0..count] ==
          IF i = 0 THEN {<<<< >>, at>>}
          ELSE UNION {{<<Append(run[1], r[1]), r[2]>> : r \in Read(m, run[2])} : run \in runs[i - 1]}
    IN IF count > Len(m) THEN {} ELSE runs[count]

(* The value of an optional field, or its default.                         *)
OrElse(optional, default) ==
    IF optional = {} THEN default ELSE CHOOSE x \in optional : TRUE
=============================================================================
