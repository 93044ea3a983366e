------------------------- MODULE SolanaTransfer_proof -------------------------
(***************************************************************************)
(* Proofs about SolanaTransfer: that the network reads from the message of *)
(* the signer, or from the beginning of one, what was laid out and nothing *)
(* else, and that a transfer therefore does what its owner meant.          *)
(***************************************************************************)
EXTENDS SolanaTransfer, Bytes_proof

-----------------------------------------------------------------------------
(* Short vectors *)

LEMMA Sizes ==
  /\ KeySize \in Nat /\ KeySize > 0 /\ SigSize \in Nat /\ SigSize > 0
  /\ AmountSize \in Nat /\ AmountSize > 0 /\ AmountSize + 4 < 128
BY SizeAssumption

LEMMA PowersHold == \A i \in 1..3 : Power(128, i) \in Nat /\ Power(128, i) >= 128
<1>1. /\ Power(128, 0) = 1
      /\ \A n \in Nat : Power(128, n) \in Nat /\ Power(128, n + 1) = 128 * Power(128, n)
  BY PowerFacts
<1>2. Power(128, 1) = 128 * Power(128, 0)
  <2>1. Power(128, 0 + 1) = 128 * Power(128, 0)
    BY <1>1
  <2> QED
    BY <2>1
<1>3. Power(128, 2) = 128 * Power(128, 1)
  <2>1. Power(128, 1 + 1) = 128 * Power(128, 1)
    BY <1>1
  <2> QED
    BY <2>1
<1>4. Power(128, 3) = 128 * Power(128, 2)
  <2>1. Power(128, 2 + 1) = 128 * Power(128, 2)
    BY <1>1
  <2> QED
    BY <2>1
<1>5. Power(128, 1) = 128 /\ Power(128, 2) = 16384 /\ Power(128, 3) = 2097152
  BY <1>1, <1>2, <1>3, <1>4
<1> QED
  BY <1>5

LEMMA EncodeShort == ASSUME NEW n \in 0..127 PROVE EncodeShortLen(n) = <<n>>
<1> DEFINE size == 1 + Cardinality({i \in 1..3 : n >= Power(128, i)})
           digit(i) == ((n \div Power(128, i - 1)) % 128) + (IF i < size THEN 128 ELSE 0)
<1>1. {i \in 1..3 : n >= Power(128, i)} = {}
  BY PowersHold
<1>2. size = 1
  BY <1>1, FS_EmptySet
<1>3. Power(128, 0) = 1
  BY PowerFacts
<1>4. (n \div 1) % 128 = n
  OBVIOUS
<1>5. EncodeShortLen(n) = [i \in 1..size |-> digit(i)]
  BY Zenon DEF EncodeShortLen
<1>6. digit(1) = n
  <2>1. 1 - 1 = 0
    OBVIOUS
  <2>2. digit(1) = ((n \div Power(128, 0)) % 128) + (IF 1 < size THEN 128 ELSE 0)
    BY <2>1
  <2>3. digit(1) = ((n \div 1) % 128) + 0
    BY <1>2, <1>3, <2>2
  <2> QED
    BY <1>4, <2>3
<1> HIDE DEF size, digit
<1>7. EncodeShortLen(n) = [i \in 1..1 |-> digit(i)]
  BY <1>2, <1>5
<1>8. [i \in 1..1 |-> digit(i)] = <<digit(1)>>
  BY SMT
<1> QED
  BY <1>6, <1>7, <1>8

(* The first byte of a length below 128 is the length.                     *)
ShortIs(data, n) == DecodeShortVec(data) = {<<n, 1>>}

LEMMA ShortRead ==
  ASSUME NEW data \in Seq(Octet), Len(data) > 0, data[1] < 128
  PROVE  ShortIs(data, data[1])
<1> DEFINE T == {i \in 1..4 : /\ i <= Len(data) /\ data[i] < 128
                              /\ \A j \in 1..(i - 1) : data[j] >= 128}
           value(size) == NumberIn(128, [j \in 1..size |-> data[size + 1 - j] % 128])
<1>0. data[1] \in Nat /\ data[1] % 128 = data[1]
  <2>1. data[1] \in Octet
    OBVIOUS
  <2>2. \A n \in 0..127 : n % 128 = n
    OBVIOUS
  <2>3. data[1] \in 0..127
    <3>1. PICK x \in Octet : x = data[1]
      BY <2>1
    <3>2. x \in Nat /\ x < 128
      BY <3>1, OctetNumber
    <3>3. x \in 0..127
      BY <3>2
    <3> QED
      BY <3>1, <3>3, Zenon
  <2>4. data[1] \in Nat
    BY <2>1, OctetNumber
  <2> QED
    BY <2>2, <2>3, <2>4, Zenon
<1>1. T = {1}
  <2>1. 1 \in T
    OBVIOUS
  <2>2. ASSUME NEW i \in T PROVE i = 1
    <3>1. i \in 1..4 /\ \A j \in 1..(i - 1) : data[j] >= 128
      BY <2>2
    <3>2. CASE i # 1
      <4>1. 1 \in 1..(i - 1)
        BY <3>1, <3>2
      <4> QED
        BY <1>0, <3>1, <4>1
    <3> QED
      BY <3>2
  <2> HIDE DEF T
  <2> QED
    BY <2>1, <2>2
<1>2. value(1) = data[1]
  <2>1. [j \in 1..1 |-> data[1 + 1 - j] % 128] = <<data[1]>>
    BY <1>0
  <2>2. NumberIn(128, Append(<< >>, data[1])) = 128 * NumberIn(128, << >>) + data[1]
    <3>1. PICK none \in Seq(Nat) : none = << >>
      <4>1. << >> \in Seq(Nat)
        OBVIOUS
      <4> QED
        BY <4>1, Zenon
    <3>2. PICK d \in Nat, base \in Nat : d = data[1] /\ base = 128
      BY <1>0
    <3>3. NumberIn(base, Append(none, d)) = base * NumberIn(base, none) + d
      BY NumberAppend
    <3> QED
      BY <3>1, <3>2, <3>3, Zenon
  <2>3. NumberIn(128, << >>) = 0
    BY NumberOfNothing
  <2>4. Append(<< >>, data[1]) = <<data[1]>>
    OBVIOUS
  <2> QED
    BY <1>0, <2>1, <2>2, <2>3, <2>4
<1>3. DecodeShortVec(data) = {<<value(size), size>> : size \in T}
  BY Zenon DEF DecodeShortVec
<1> HIDE DEF T, value
<1> QED
  BY <1>1, <1>2, <1>3 DEF ShortIs

LEMMA ShortOfNothing == DecodeShortVec(<< >>) = {}
<1> DEFINE data == << >>
           T == {i \in 1..4 : /\ i <= Len(data) /\ data[i] < 128
                              /\ \A j \in 1..(i - 1) : data[j] >= 128}
<1>1. T = {}
  <2>1. Len(data) = 0
    OBVIOUS
  <2>2. \A i \in T : i <= Len(data) /\ i \in 1..4
    OBVIOUS
  <2> HIDE DEF T, data
  <2> QED
    BY <2>1, <2>2
<1>2. DecodeShortVec(data) = {<<NumberIn(128, [j \in 1..size |-> data[size + 1 - j] % 128]), size>> : size \in T}
  BY Zenon DEF DecodeShortVec
<1> HIDE DEF T
<1> QED
  BY <1>1, <1>2

-----------------------------------------------------------------------------
(* Reading a message, or the beginning of one *)

Begins(p, m) == Len(p) <= Len(m) /\ \A i \in 1..Len(p) : p[i] = m[i]

Block(count, first, next) == [count |-> count, first |-> first, next |-> next]

VectorIs(p, at, width, k, next) ==
    Vector(p, at, width) = IF next <= Len(p) + 1 THEN {Block(k, at + 1, next)} ELSE {}

ShortAt(p, at, k) ==
    DecodeShortVec(SubSeq(p, at, Len(p))) = IF at <= Len(p) THEN {<<k, 1>>} ELSE {}

LEMMA ShortReadAt ==
  ASSUME NEW p \in Seq(Octet), NEW m \in Seq(Octet), Begins(p, m), NEW at \in Nat \ {0}, at <= Len(m),
         NEW k \in 0..127, m[at] = k
  PROVE  ShortAt(p, at, k)
<1> DEFINE data == SubSeq(p, at, Len(p))
           read == DecodeShortVec(data)
<1>1. CASE at > Len(p)
  <2>1. data = << >>
    BY <1>1
  <2>2. read = {}
    BY <2>1, ShortOfNothing
  <2> QED
    BY <1>1, <2>2 DEF ShortAt
<1>2. CASE at <= Len(p)
  <2>1. at \in 1..(Len(p) + 1) /\ Len(p) \in 0..Len(p) /\ at <= Len(p) + 1
    BY <1>2
  <2>2. /\ data \in Seq(Octet) /\ Len(data) = Len(p) - at + 1
        /\ \A i \in 1..(Len(p) - at + 1) : data[i] = p[at + i - 1]
    BY <2>1, SubSeqType
  <2>3. Len(data) > 0 /\ data[1] = k
    <3>1. 1 \in 1..(Len(p) - at + 1) /\ at + 1 - 1 = at /\ p[at] = m[at]
      BY <1>2 DEF Begins
    <3> QED
      BY <1>2, <2>2, <3>1
  <2>4. read = {<<k, 1>>}
    <3> HIDE DEF data
    <3>1. ShortIs(data, data[1])
      <4>1. data[1] < 128
        BY <2>3
      <4> QED
        BY <2>2, <2>3, <4>1, ShortRead
    <3> QED
      BY <2>3, <3>1 DEF ShortIs
  <2> QED
    BY <1>2, <2>4 DEF ShortAt
<1> QED
  BY <1>1, <1>2

LEMMA VectorRead ==
  ASSUME NEW p \in Seq(Octet), NEW m \in Seq(Octet), Begins(p, m), NEW at \in Nat \ {0}, at <= Len(m),
         NEW k \in 0..127, m[at] = k, NEW width \in Nat, NEW next \in Nat, next = at + 1 + k * width
  PROVE  VectorIs(p, at, width, k, next)
<1> DEFINE read == DecodeShortVec(SubSeq(p, at, Len(p)))
           fits(c) == at + c[2] + c[1] * width <= Len(p) + 1
           block(c) == [count |-> c[1], first |-> at + c[2], next |-> at + c[2] + c[1] * width]
<1>1. Vector(p, at, width) = {block(c) : c \in {c \in read : fits(c)}}
  BY Zenon DEF Vector
<1>2. read = IF at <= Len(p) THEN {<<k, 1>>} ELSE {}
  BY ShortReadAt DEF ShortAt
<1>3. fits(<<k, 1>>) <=> next <= Len(p) + 1
  OBVIOUS
<1>4. block(<<k, 1>>) = Block(k, at + 1, next)
  BY DEF Block
<1>5. next <= Len(p) + 1 => at <= Len(p)
  <2>1. k * width \in Nat
    OBVIOUS
  <2> QED
    BY <2>1
<1> HIDE DEF read, fits, block
<1> DEFINE kept == {c \in read : fits(c)}
<1>6. CASE next <= Len(p) + 1
  <2>1. read = {<<k, 1>>}
    BY <1>2, <1>5, <1>6
  <2>2. kept = {<<k, 1>>}
    BY <1>3, <1>6, <2>1
  <2> HIDE DEF kept
  <2>3. Vector(p, at, width) = {Block(k, at + 1, next)}
    BY <1>1, <1>4, <2>2 DEF kept
  <2> QED
    BY <1>6, <2>3 DEF VectorIs
<1>7. CASE ~(next <= Len(p) + 1)
  <2>1. \A c \in read : c = <<k, 1>>
    BY <1>2
  <2>2. kept = {}
    BY <1>3, <1>7, <2>1
  <2> HIDE DEF kept
  <2>3. Vector(p, at, width) = {}
    BY <1>1, <2>2 DEF kept
  <2> QED
    BY <1>7, <2>3 DEF VectorIs
<1> QED
  BY <1>6, <1>7

LEMMA HoldsOne ==
  ASSUME NEW m \in Seq(Octet), NEW at \in Nat, NEW x, Holds(m, at, <<x>>)
  PROVE  m[at] = x /\ at <= Len(m)
<1>1. Len(<<x>>) = 1 /\ <<x>>[1] = x
  OBVIOUS
<1>2. at + 1 <= Len(m) + 1 /\ m[at + 1 - 1] = <<x>>[1]
  <2>1. \A i \in 1..1 : m[at + i - 1] = <<x>>[i]
    BY <1>1, Zenon DEF Holds
  <2>2. at + Len(<<x>>) <= Len(m) + 1
    BY Zenon DEF Holds
  <2> QED
    BY <1>1, <2>1, <2>2
<1> QED
  BY <1>1, <1>2

LEMMA Joined ==
  ASSUME NEW S, NEW a \in Seq(S), NEW b \in Seq(S)
  PROVE  a \o b \in Seq(S) /\ Len(a \o b) = Len(a) + Len(b)
OBVIOUS

(* An instruction as the network tells it.                                 *)
Told(program, accounts, data) ==
    [program |-> program + 1, accounts |-> [i \in 1..Len(accounts) |-> accounts[i] + 1], data |-> data]

IsInstruction(program, accounts, data) ==
    /\ program \in Octet /\ accounts \in Seq(Octet) /\ data \in Seq(Octet)
    /\ Len(accounts) < 128 /\ Len(data) < 128

LEMMA InstructionSizes ==
  ASSUME NEW program, NEW accounts, NEW data, IsInstruction(program, accounts, data)
  PROVE  /\ program \in Octet /\ accounts \in Seq(Octet) /\ data \in Seq(Octet)
         /\ Len(accounts) \in 0..127 /\ Len(data) \in 0..127
         /\ Len(accounts) \in Octet /\ Len(data) \in Octet
<1>1. program \in Octet /\ accounts \in Seq(Octet) /\ data \in Seq(Octet) /\ Len(accounts) < 128 /\ Len(data) < 128
  BY DEF IsInstruction
<1>2. Len(accounts) \in Nat /\ Len(data) \in Nat
  BY <1>1
<1>3. \A n \in Nat : n < 128 => n \in 0..127 /\ n \in Octet
  BY DEF Octet
<1> QED
  BY <1>1, <1>2, <1>3

Parted(program, accounts, data) ==
    Instruction(program, accounts, data)
      = <<program>> \o <<Len(accounts)>> \o accounts \o <<Len(data)>> \o data

LEMMA InstructionParts ==
  ASSUME NEW program, NEW accounts, NEW data, IsInstruction(program, accounts, data)
  PROVE  /\ Parted(program, accounts, data)
         /\ Instruction(program, accounts, data) \in Seq(Octet)
         /\ Len(Instruction(program, accounts, data)) = 3 + Len(accounts) + Len(data)
<1>1. Len(accounts) \in 0..127 /\ Len(data) \in 0..127 /\ program \in Octet /\ accounts \in Seq(Octet) /\ data \in Seq(Octet)
  BY InstructionSizes
<1>2. EncodeShortLen(Len(accounts)) = <<Len(accounts)>> /\ EncodeShortLen(Len(data)) = <<Len(data)>>
  BY <1>1, EncodeShort
<1>3. Instruction(program, accounts, data) = <<program>> \o <<Len(accounts)>> \o accounts \o <<Len(data)>> \o data
  BY <1>2, Zenon DEF Instruction
<1>4. PICK j \in Octet, k \in Octet : j = Len(accounts) /\ k = Len(data)
  BY InstructionSizes
<1> DEFINE a == <<program>> \o <<j>>
           b == a \o accounts
           c == b \o <<k>>
<1>5. /\ <<program>> \in Seq(Octet) /\ Len(<<program>>) = 1
      /\ <<j>> \in Seq(Octet) /\ Len(<<j>>) = 1
      /\ <<k>> \in Seq(Octet) /\ Len(<<k>>) = 1
      /\ Len(accounts) \in Nat /\ Len(data) \in Nat
  BY <1>1
<1>6. a \in Seq(Octet) /\ Len(a) = 2
  BY <1>5
<1>7. b \in Seq(Octet) /\ Len(b) = 2 + Len(accounts)
  <2> HIDE DEF a
  <2>1. a \o accounts \in Seq(Octet) /\ Len(a \o accounts) = Len(a) + Len(accounts)
    BY <1>1, <1>6, Joined
  <2> QED
    BY <1>6, <2>1
<1>8. c \in Seq(Octet) /\ Len(c) = 3 + Len(accounts)
  <2> HIDE DEF b
  <2> QED
    BY <1>1, <1>5, <1>7
<1>9. c \o data \in Seq(Octet) /\ Len(c \o data) = 3 + Len(accounts) + Len(data)
  <2> HIDE DEF c
  <2>1. c \o data \in Seq(Octet) /\ Len(c \o data) = Len(c) + Len(data)
    BY <1>1, <1>8, Joined
  <2> QED
    BY <1>5, <1>8, <2>1
<1>10. Parted(program, accounts, data)
  BY <1>3, Zenon DEF Parted
<1>11. Instruction(program, accounts, data) = c \o data
  BY <1>3, <1>4, Zenon
<1> HIDE DEF c
<1> QED
  BY <1>9, <1>10, <1>11, Zenon

LEMMA InstructionLength ==
  ASSUME NEW program, NEW accounts, NEW data, IsInstruction(program, accounts, data)
  PROVE  /\ Instruction(program, accounts, data) \in Seq(Octet)
         /\ Len(Instruction(program, accounts, data)) = 3 + Len(accounts) + Len(data)
         /\ Len(accounts) \in Nat /\ Len(data) \in Nat
<1>1. /\ Instruction(program, accounts, data) \in Seq(Octet)
      /\ Len(Instruction(program, accounts, data)) = 3 + Len(accounts) + Len(data)
  BY InstructionParts
<1>2. accounts \in Seq(Octet) /\ data \in Seq(Octet)
  BY DEF IsInstruction
<1>3. Len(accounts) \in Nat /\ Len(data) \in Nat
  BY <1>2
<1> QED
  BY <1>1, <1>3

InstructionIs(p, at, ins, next) ==
    InstructionAt(p, at) = IF next <= Len(p) + 1 THEN {<<ins, next>>} ELSE {}

(* What an instruction laid out at a position holds.                       *)
InstructionLies(m, at, program, accounts, data) ==
    /\ Holds(m, at, <<program>>) /\ Holds(m, at + 1, <<Len(accounts)>>)
    /\ Holds(m, at + 2, accounts)
    /\ Holds(m, at + 2 + Len(accounts), <<Len(data)>>)
    /\ Holds(m, at + 3 + Len(accounts), data)

LEMMA InstructionHeld ==
  ASSUME NEW m \in Seq(Octet), NEW at \in Nat \ {0}, NEW program, NEW accounts, NEW data,
         IsInstruction(program, accounts, data), Holds(m, at, Instruction(program, accounts, data))
  PROVE  InstructionLies(m, at, program, accounts, data)
<1>1. program \in Octet /\ accounts \in Seq(Octet) /\ data \in Seq(Octet) /\ Len(accounts) \in Octet /\ Len(data) \in Octet
  BY InstructionSizes
<1>2. PICK j \in Octet, k \in Octet : j = Len(accounts) /\ k = Len(data)
  BY <1>1
<1>3. j \in Nat /\ k \in Nat
  BY <1>2, <1>1
<1> DEFINE a == <<program>> \o <<j>>
           b == a \o accounts
           c == b \o <<k>>
<1>4. Holds(m, at, c \o data)
  <2>1. Instruction(program, accounts, data) = <<program>> \o <<j>> \o accounts \o <<k>> \o data
    <3>1. Instruction(program, accounts, data)
            = <<program>> \o <<Len(accounts)>> \o accounts \o <<Len(data)>> \o data
      <4>1. Parted(program, accounts, data)
        BY InstructionParts
      <4> QED
        BY <4>1, Zenon DEF Parted
    <3> QED
      BY <1>2, <3>1, Zenon
  <2> QED
    BY <2>1, Zenon
<1>5. /\ <<program>> \in Seq(Octet) /\ Len(<<program>>) = 1
      /\ <<j>> \in Seq(Octet) /\ Len(<<j>>) = 1
      /\ <<k>> \in Seq(Octet) /\ Len(<<k>>) = 1
  BY <1>1
<1>6. a \in Seq(Octet) /\ Len(a) = 2
  BY <1>5
<1>7. b \in Seq(Octet) /\ Len(b) = 2 + j
  <2>1. Len(accounts) = j
    BY <1>2
  <2> HIDE DEF a
  <2> QED
    <3>1. a \o accounts \in Seq(Octet) /\ Len(a \o accounts) = Len(a) + Len(accounts)
      BY <1>1, <1>6, Joined
    <3> QED
      BY <1>6, <2>1, <3>1
<1>8. c \in Seq(Octet) /\ Len(c) = 3 + j
  <2> HIDE DEF b
  <2> QED
    BY <1>1, <1>3, <1>5, <1>7
<1>9. Holds(m, at, c) /\ Holds(m, at + Len(c), data)
  <2> HIDE DEF c
  <2> QED
    BY <1>1, <1>4, <1>8, HoldsConcat
<1>10. Holds(m, at, b) /\ Holds(m, at + Len(b), <<k>>)
  <2> HIDE DEF b
  <2> QED
    BY <1>5, <1>7, <1>9, HoldsConcat
<1>11. Holds(m, at, a) /\ Holds(m, at + Len(a), accounts)
  <2> HIDE DEF a
  <2> QED
    BY <1>1, <1>6, <1>10, HoldsConcat
<1>12. Holds(m, at, <<program>>) /\ Holds(m, at + Len(<<program>>), <<j>>)
  BY <1>5, <1>11, HoldsConcat
<1> HIDE DEF a, b, c
<1>13. /\ at + Len(c) = at + 3 + Len(accounts) /\ at + Len(b) = at + 2 + Len(accounts)
       /\ at + Len(a) = at + 2 /\ at + Len(<<program>>) = at + 1
  BY <1>2, <1>3, <1>5, <1>6, <1>7, <1>8
<1> QED
  BY <1>2, <1>9, <1>10, <1>11, <1>12, <1>13, Zenon DEF InstructionLies

LEMMA PlacesFit ==
  \A at, j, k, size \in Nat : at + 3 + j + k <= size + 1 =>
    /\ at + 2 + j <= size /\ at + 2 + j \in Nat
    /\ \A i \in 1..k : at + 3 + j + i - 1 \in 1..size
OBVIOUS

LEMMA InstructionRead ==
  ASSUME NEW p \in Seq(Octet), NEW m \in Seq(Octet), Begins(p, m), NEW at \in Nat \ {0},
         NEW program, NEW accounts, NEW data, IsInstruction(program, accounts, data),
         Holds(m, at, Instruction(program, accounts, data)),
         NEW next \in Nat, next = at + 3 + Len(accounts) + Len(data)
  PROVE  InstructionIs(p, at, Told(program, accounts, data), next)
<1>0. PICK n \in Nat, size \in Nat : n = Len(p) /\ size = Len(m)
  OBVIOUS
<1>1. n <= size /\ \A i \in 1..n : p[i] = m[i]
  BY <1>0 DEF Begins
<1>2. PICK j \in 0..127, k \in 0..127 : j = Len(accounts) /\ k = Len(data)
  BY InstructionSizes
<1>3. InstructionLies(m, at, program, accounts, data)
  BY InstructionHeld
<1>4. /\ at + 2 + j <= size + 1 /\ at + 3 + j + k <= size + 1
      /\ m[at] = program /\ m[at + 1] = j /\ m[at + 2 + j] = k
      /\ \A i \in 1..j : m[at + 2 + i - 1] = accounts[i]
      /\ \A i \in 1..k : m[at + 3 + j + i - 1] = data[i]
  <2>1. Holds(m, at, <<program>>)
    BY <1>3 DEF InstructionLies
  <2>2. Holds(m, at + 1, <<j>>) /\ Holds(m, at + 2, accounts)
    BY <1>2, <1>3 DEF InstructionLies
  <2>3. Holds(m, at + 2 + j, <<k>>) /\ Holds(m, at + 3 + j, data)
    BY <1>2, <1>3 DEF InstructionLies
  <2>4. m[at] = program
    BY <2>1 DEF Holds
  <2>5. m[at + 1] = j
    BY <2>2 DEF Holds
  <2>6. m[at + 2 + j] = k
    BY <2>3 DEF Holds
  <2> QED
    BY <1>0, <1>2, <2>2, <2>3, <2>4, <2>5, <2>6 DEF Holds
<1>5. VectorIs(p, at + 1, 1, j, at + 2 + j)
  <2>1. at + 1 \in Nat \ {0} /\ at + 1 <= Len(m) /\ at + 2 + j \in Nat /\ at + 2 + j = (at + 1) + 1 + j * 1
    BY <1>0, <1>4
  <2> QED
    BY <1>4, <2>1, VectorRead
<1>6. VectorIs(p, at + 2 + j, 1, k, next)
  <2>1. at + 2 + j \in Nat \ {0} /\ at + 2 + j <= Len(m) /\ next = (at + 2 + j) + 1 + k * 1
    <3>1. at + 2 + j <= size
      <4>1. at + 3 + j + k <= size + 1
        BY <1>4, Zenon
      <4>2. at \in Nat /\ j \in Nat /\ k \in Nat
        OBVIOUS
      <4> QED
        BY <4>1, <4>2, PlacesFit, Zenon
    <3>2. next = at + 3 + j + k
      BY <1>2
    <3> QED
      <4>1. at + 2 + j \in Nat \ {0} /\ at + 3 + j + k = (at + 2 + j) + 1 + k * 1
        OBVIOUS
      <4> QED
        BY <1>0, <3>1, <3>2, <4>1, Zenon
  <2> QED
    BY <1>4, <2>1, VectorRead
<1> DEFINE a == Block(j, at + 2, at + 2 + j)
           d == Block(k, at + 3 + j, next)
           Of(x, y) == <<[program  |-> p[at] + 1, accounts |-> [i \in 1..x.count |-> p[x.first + i - 1] + 1],
                          data     |-> SubSeq(p, y.first, y.next - 1)], y.next>>
<1>7. InstructionAt(p, at) =
        IF at > Len(p) THEN {}
        ELSE UNION {{Of(x, y) : y \in Vector(p, x.next, 1)} : x \in Vector(p, at + 1, 1)}
  BY Zenon DEF InstructionAt
<1>8. Vector(p, at + 1, 1) = IF at + 2 + j <= Len(p) + 1 THEN {a} ELSE {}
  <2>1. (at + 1) + 1 = at + 2
    OBVIOUS
  <2> QED
    BY <1>5, <2>1 DEF VectorIs
<1>9. Vector(p, at + 2 + j, 1) = IF next <= Len(p) + 1 THEN {d} ELSE {}
  <2>1. (at + 2 + j) + 1 = at + 3 + j
    OBVIOUS
  <2> QED
    BY <1>6, <2>1 DEF VectorIs
<1>10. a.next = at + 2 + j
  BY DEF Block
<1>11. CASE ~(next <= n + 1)
  <2>1. Vector(p, a.next, 1) = {}
    BY <1>0, <1>9, <1>10, <1>11
  <2>2. \A x \in Vector(p, at + 1, 1) : x = a
    BY <1>8
  <2> HIDE DEF a, Of
  <2>3. \A x \in Vector(p, at + 1, 1) : {Of(x, y) : y \in Vector(p, x.next, 1)} = {}
    BY <2>1, <2>2
  <2>4. InstructionAt(p, at) = {}
    BY <1>7, <2>3
  <2> QED
    BY <1>0, <1>11, <2>4 DEF InstructionIs
<1>12. CASE next <= n + 1
  <2>1. at + 2 + j <= n + 1 /\ ~(at > n)
    BY <1>2, <1>12
  <2>2. Vector(p, at + 1, 1) = {a} /\ Vector(p, a.next, 1) = {d}
    BY <1>0, <1>8, <1>9, <1>10, <1>12, <2>1
  <2>3. InstructionAt(p, at) = {Of(a, d)}
    <3>1. InstructionAt(p, at) = UNION {{Of(x, y) : y \in Vector(p, x.next, 1)} : x \in Vector(p, at + 1, 1)}
      BY <1>0, <1>7, <2>1
    <3> HIDE DEF a, d, Of
    <3>2. InstructionAt(p, at) = UNION {{Of(x, y) : y \in Vector(p, x.next, 1)} : x \in {a}}
      BY <2>2, <3>1
    <3>3. {{Of(x, y) : y \in Vector(p, x.next, 1)} : x \in {a}} = {{Of(a, y) : y \in Vector(p, a.next, 1)}}
      OBVIOUS
    <3>4. {Of(a, y) : y \in Vector(p, a.next, 1)} = {Of(a, d)}
      BY <2>2
    <3> QED
      BY <3>2, <3>3, <3>4
  <2>4. Of(a, d) = <<Told(program, accounts, data), next>>
    <3>1. p[at] = program
      BY <1>1, <1>4, <2>1
    <3>2. [i \in 1..a.count |-> p[a.first + i - 1] + 1] = [i \in 1..Len(accounts) |-> accounts[i] + 1]
      <4>1. a.count = j /\ a.first = at + 2
        BY DEF Block
      <4>2. \A i \in 1..j : p[at + 2 + i - 1] = accounts[i]
        BY <1>1, <1>4, <2>1
      <4> HIDE DEF a
      <4> QED
        BY <1>2, <4>1, <4>2
    <3>3. SubSeq(p, d.first, d.next - 1) = data
      <4>1. d.first = at + 3 + j /\ d.next - 1 = at + 3 + j + k - 1
        BY <1>2 DEF Block
      <4>2. /\ at + 3 + j + k <= n + 1
            /\ \A i \in 1..k : p[at + 3 + j + i - 1] = data[i]
        <5>1. at + 3 + j + k <= n + 1
          BY <1>2, <1>12
        <5>2. ASSUME NEW i \in 1..k PROVE p[at + 3 + j + i - 1] = data[i]
          <6>1. at + 3 + j + i - 1 \in 1..n
            <7>1. at \in Nat /\ j \in Nat /\ k \in Nat
              OBVIOUS
            <7> QED
              BY <5>1, <7>1, PlacesFit, Zenon
          <6>2. p[at + 3 + j + i - 1] = m[at + 3 + j + i - 1]
            BY <1>1, <6>1, Zenon
          <6>3. m[at + 3 + j + i - 1] = data[i]
            BY <1>4, Zenon
          <6> QED
            BY <6>2, <6>3, Zenon
        <5> QED
          BY <5>1, <5>2
      <4>3. Holds(p, at + 3 + j, data)
        BY <1>0, <1>2, <4>2 DEF Holds
      <4>4. at + 3 + j \in Nat \ {0} /\ data \in Seq(Octet)
        BY InstructionSizes
      <4>5. SubSeq(p, at + 3 + j, at + 3 + j + Len(data) - 1) = data
        BY <4>3, <4>4, HoldsSubSeq
      <4> HIDE DEF d
      <4> QED
        BY <1>2, <4>1, <4>5
    <3>4. d.next = next
      BY DEF Block
    <3> HIDE DEF a, d
    <3> QED
      BY <3>1, <3>2, <3>3, <3>4, Zenon DEF Told
  <2> QED
    BY <1>0, <1>12, <2>3, <2>4 DEF InstructionIs
<1> QED
  BY <1>11, <1>12

-----------------------------------------------------------------------------
(* Several instructions *)

Extended(p, runs) == UNION {{<<Append(run[1], r[1]), r[2]>> : r \in InstructionAt(p, run[2])} : run \in runs}

Begun(at) == {<< << >>, at>>}

LEMMA ExtendedRead ==
  ASSUME NEW p, NEW at, NEW ins, NEW next, InstructionIs(p, at, ins, next), NEW run
  PROVE  Extended(p, {<<run, at>>}) = IF next <= Len(p) + 1 THEN {<<Append(run, ins), next>>} ELSE {}
<1> DEFINE of(r) == {<<Append(r[1], i[1]), i[2]>> : i \in InstructionAt(p, r[2])}
<1>1. Extended(p, {<<run, at>>}) = UNION {of(r) : r \in {<<run, at>>}}
  BY Zenon DEF Extended
<1>2. UNION {of(r) : r \in {<<run, at>>}} = of(<<run, at>>)
  <2> HIDE DEF of
  <2> QED
    OBVIOUS
<1>3. of(<<run, at>>) = {<<Append(run, i[1]), i[2]>> : i \in InstructionAt(p, at)}
  OBVIOUS
<1>4. CASE next <= Len(p) + 1
  <2>1. InstructionAt(p, at) = {<<ins, next>>}
    BY <1>4 DEF InstructionIs
  <2> HIDE DEF of
  <2>2. of(<<run, at>>) = {<<Append(run, ins), next>>}
    BY <1>3, <2>1
  <2> QED
    BY <1>1, <1>2, <1>4, <2>2
<1>5. CASE ~(next <= Len(p) + 1)
  <2>1. InstructionAt(p, at) = {}
    BY <1>5 DEF InstructionIs
  <2> HIDE DEF of
  <2>2. of(<<run, at>>) = {}
    BY <1>3, <2>1
  <2> QED
    BY <1>1, <1>2, <1>5, <2>2
<1> QED
  BY <1>4, <1>5

LEMMA ExtendedNothing == \A p : Extended(p, {}) = {}
BY DEF Extended

RunsAre(f, p, at, n) ==
    f = [i \in 0..n |-> IF i = 0 THEN Begun(at) ELSE Extended(p, f[i - 1])]

LEMMA RunsExist ==
  ASSUME NEW p, NEW at, NEW n \in 1..2
  PROVE  \E f : RunsAre(f, p, at, n)
<1> DEFINE one == Extended(p, Begun(at))
           two == Extended(p, one)
           f == [i \in 0..n |-> IF i = 0 THEN Begun(at) ELSE IF i = 1 THEN one ELSE two]
<1>1. ASSUME NEW i \in 0..n
      PROVE  f[i] = IF i = 0 THEN Begun(at) ELSE Extended(p, f[i - 1])
  <2>1. i = 0 \/ i = 1 \/ i = 2
    OBVIOUS
  <2>2. CASE i = 0
    BY <2>2
  <2>3. CASE i = 1
    <3>1. i - 1 = 0 /\ 0 \in 0..n
      BY <2>3
    <3>2. f[i - 1] = Begun(at)
      BY <3>1
    <3>3. f[i] = one
      BY <2>3
    <3> QED
      BY <2>3, <3>2, <3>3
  <2>4. CASE i = 2
    <3>1. i - 1 = 1 /\ 1 \in 0..n
      BY <2>4
    <3> HIDE DEF one, two
    <3>2. f[i - 1] = one
      BY <3>1
    <3>3. f[i] = two
      BY <2>4
    <3> QED
      BY <2>4, <3>2, <3>3 DEF two
  <2> QED
    BY <2>1, <2>2, <2>3, <2>4
<1>2. f = [i \in 0..n |-> f[i]]
  OBVIOUS
<1> HIDE DEF f
<1>3. f = [i \in 0..n |-> IF i = 0 THEN Begun(at) ELSE Extended(p, f[i - 1])]
  BY <1>1, <1>2, Zenon
<1> QED
  BY <1>3, Zenon DEF RunsAre

ManyIs(p, at, n, items, next) ==
    Many(InstructionAt, p, at, n) = IF next <= Len(p) + 1 THEN {<<items, next>>} ELSE {}

LEMMA ManyAre ==
  ASSUME NEW p, NEW at, NEW n \in 1..2
  PROVE  \E f : /\ f[0] = Begun(at) /\ f[1] = Extended(p, f[0]) /\ (n = 2 => f[2] = Extended(p, f[1]))
                /\ Many(InstructionAt, p, at, n) = IF n > Len(p) THEN {} ELSE f[n]
<1> DEFINE Is(h) == h = [i \in 0..n |-> IF i = 0 THEN {<<<< >>, at>>} ELSE UNION {{<<Append(run[1], r[1]), r[2]>> : r \in InstructionAt(p, run[2])} : run \in h[i - 1]}]
           g == CHOOSE h : Is(h)
<1>1. \A R : Extended(p, R) = UNION {{<<Append(run[1], r[1]), r[2]>> : r \in InstructionAt(p, run[2])} : run \in R}
  BY ZenonT(40) DEF Extended
<1>2. \A h : Is(h) <=> RunsAre(h, p, at, n)
  BY <1>1, Zenon DEF RunsAre, Begun
<1>3. \E h : Is(h)
  BY <1>2, RunsExist, Zenon
<1>4. Is(g)
  BY <1>3, Zenon
<1>5. RunsAre(g, p, at, n)
  BY <1>2, <1>4, Zenon
<1>6. Many(InstructionAt, p, at, n) = IF n > Len(p) THEN {} ELSE g[n]
  BY Zenon DEF Many
<1> HIDE DEF g, Is
<1>7. \A i \in 0..n : g[i] = IF i = 0 THEN Begun(at) ELSE Extended(p, g[i - 1])
  BY <1>5, Zenon DEF RunsAre
<1>8. g[0] = Begun(at) /\ g[1] = Extended(p, g[0]) /\ (n = 2 => g[2] = Extended(p, g[1]))
  <2>1. 0 \in 0..n /\ 1 \in 0..n /\ (n = 2 => 2 \in 0..n) /\ 1 - 1 = 0 /\ 2 - 1 = 1 /\ 1 # 0 /\ 2 # 0
    OBVIOUS
  <2>2. g[0] = Begun(at)
    BY <1>7, <2>1
  <2>3. g[1] = Extended(p, g[1 - 1])
    BY <1>7, <2>1
  <2>4. n = 2 => g[2] = Extended(p, g[2 - 1])
    BY <1>7, <2>1
  <2> QED
    BY <2>1, <2>2, <2>3, <2>4
<1> QED
  BY <1>6, <1>8, Zenon

LEMMA OneInstruction ==
  ASSUME NEW p \in Seq(Octet), NEW at \in Nat \ {0}, NEW ins, NEW next \in Nat, at < next,
         InstructionIs(p, at, ins, next)
  PROVE  ManyIs(p, at, 1, <<ins>>, next)
<1>1. PICK f : /\ f[0] = Begun(at) /\ f[1] = Extended(p, f[0])
               /\ Many(InstructionAt, p, at, 1) = IF 1 > Len(p) THEN {} ELSE f[1]
  <2>1. 1 \in 1..2
    OBVIOUS
  <2> QED
    BY <2>1, ManyAre
<1>2. f[1] = IF next <= Len(p) + 1 THEN {<<Append(<< >>, ins), next>>} ELSE {}
  BY <1>1, ExtendedRead DEF Begun
<1>3. Append(<< >>, ins) = <<ins>>
  OBVIOUS
<1>4. next <= Len(p) + 1 => ~(1 > Len(p))
  OBVIOUS
<1> QED
  BY <1>1, <1>2, <1>3, <1>4 DEF ManyIs

LEMMA TwoInstructions ==
  ASSUME NEW p \in Seq(Octet), NEW at \in Nat \ {0}, NEW ins, NEW between \in Nat, at < between,
         InstructionIs(p, at, ins, between),
         NEW more, NEW next \in Nat, between < next, InstructionIs(p, between, more, next)
  PROVE  ManyIs(p, at, 2, <<ins, more>>, next)
<1>1. PICK f : /\ f[0] = Begun(at) /\ f[1] = Extended(p, f[0]) /\ f[2] = Extended(p, f[1])
               /\ Many(InstructionAt, p, at, 2) = IF 2 > Len(p) THEN {} ELSE f[2]
  <2>1. 2 \in 1..2
    OBVIOUS
  <2> QED
    BY <2>1, ManyAre
<1>2. f[1] = IF between <= Len(p) + 1 THEN {<<Append(<< >>, ins), between>>} ELSE {}
  <2>1. Extended(p, {<< << >>, at>>}) = IF between <= Len(p) + 1 THEN {<<Append(<< >>, ins), between>>} ELSE {}
    BY ExtendedRead
  <2> QED
    BY <1>1, <2>1, Zenon DEF Begun
<1>3. Append(<< >>, ins) = <<ins>> /\ Append(<<ins>>, more) = <<ins, more>>
  <2> DEFINE S == {ins, more}
  <2>1. ins \in S /\ more \in S
    OBVIOUS
  <2> HIDE DEF S
  <2>2. <<ins>> \in Seq(S) /\ << >> \in Seq(S)
    BY <2>1
  <2>3. Append(<< >>, ins) = <<ins>>
    OBVIOUS
  <2>4. Append(<<ins>>, more) = <<ins, more>>
    <3>1. /\ Append(<<ins>>, more) \in Seq(S) /\ Len(Append(<<ins>>, more)) = 2
          /\ Append(<<ins>>, more)[1] = ins /\ Append(<<ins>>, more)[2] = more
      BY <2>1, <2>2, AppendProperties
    <3>2. /\ <<ins, more>> \in Seq(S) /\ Len(<<ins, more>>) = 2
          /\ <<ins, more>>[1] = ins /\ <<ins, more>>[2] = more
      BY <2>1
    <3>3. \A i \in 1..2 : Append(<<ins>>, more)[i] = <<ins, more>>[i]
      BY <3>1, <3>2
    <3> QED
      BY <3>1, <3>2, <3>3, SameElements
  <2> QED
    BY <2>3, <2>4
<1>4. Extended(p, {<< <<ins>>, between>>})
        = IF next <= Len(p) + 1 THEN {<<Append(<<ins>>, more), next>>} ELSE {}
  BY ExtendedRead
<1>5. CASE next <= Len(p) + 1
  <2>1. between <= Len(p) + 1 /\ ~(2 > Len(p))
    BY <1>5
  <2>2. f[1] = {<< <<ins>>, between>>}
    BY <1>2, <1>3, <2>1
  <2>3. f[2] = {<< <<ins, more>>, next>>}
    BY <1>1, <1>3, <1>4, <1>5, <2>2
  <2> QED
    BY <1>1, <1>5, <2>1, <2>3 DEF ManyIs
<1>6. CASE ~(next <= Len(p) + 1)
  <2>1. CASE between <= Len(p) + 1
    <3>1. f[1] = {<< <<ins>>, between>>}
      BY <1>2, <1>3, <2>1
    <3>2. f[2] = {}
      BY <1>1, <1>4, <1>6, <3>1
    <3> QED
      BY <1>1, <1>6, <3>2 DEF ManyIs
  <2>2. CASE ~(between <= Len(p) + 1)
    <3>1. f[2] = {}
      BY <1>1, <1>2, <2>2, ExtendedNothing
    <3> QED
      BY <1>1, <1>6, <3>1 DEF ManyIs
  <2> QED
    BY <2>1, <2>2
<1> QED
  BY <1>5, <1>6

-----------------------------------------------------------------------------
(* Keys *)

AreKeys(keys) == keys \in Seq(Seq(Octet)) /\ \A i \in 1..Len(keys) : Len(keys[i]) = KeySize

KeyPlace(keys, place, at, i) == place[i] = at + i * KeySize

LEMMA KeyPlaces ==
  ASSUME NEW m, NEW at \in Nat, NEW keys, AreKeys(keys), NEW place, PlacesOf(place, m, at, keys)
  PROVE  \A i \in 0..Len(keys) : KeyPlace(keys, place, at, i)
<1>0. PICK n \in Nat : n = Len(keys)
  BY DEF AreKeys
<1>1. /\ place[0] = at
      /\ \A i \in 1..n : place[i] = place[i - 1] + KeySize
  BY <1>0 DEF PlacesOf, AreKeys
<1> DEFINE T == {i \in 0..n : KeyPlace(keys, place, at, i)}
<1>2. 0 \in T
  <2>1. 0 * KeySize = 0
    BY Sizes
  <2> QED
    BY <1>1, <2>1 DEF KeyPlace
<1>3. ASSUME NEW i \in 1..n, i - 1 \in T PROVE i \in T
  <2>1. place[i - 1] = at + (i - 1) * KeySize
    BY <1>3 DEF KeyPlace
  <2>2. (i - 1) * KeySize + KeySize = i * KeySize /\ (i - 1) * KeySize \in Nat
    BY Sizes
  <2>3. place[i] = place[i - 1] + KeySize
    BY <1>1
  <2>4. place[i] = at + i * KeySize
    BY Sizes, <2>1, <2>2, <2>3
  <2> QED
    BY <1>3, <2>4 DEF KeyPlace
<1> HIDE DEF T
<1>4. 0..n \subseteq T
  BY <1>2, <1>3, InductUpTo
<1> QED
  BY <1>0, <1>4 DEF T

LEMMA KeysHeld ==
  ASSUME NEW m \in Seq(Octet), NEW at \in Nat \ {0}, NEW keys, AreKeys(keys), Holds(m, at, FlattenSeq(keys))
  PROVE  /\ FlattenSeq(keys) \in Seq(Octet)
         /\ Len(FlattenSeq(keys)) = Len(keys) * KeySize
         /\ \A i \in 1..Len(keys) : Holds(m, at + (i - 1) * KeySize, keys[i])
<1>1. keys \in Seq(Seq(Octet))
  BY DEF AreKeys
<1>2. PICK place : PlacesOf(place, m, at, keys)
  BY <1>1, PlacesExist
<1>3. PICK n \in Nat : n = Len(keys)
  BY <1>1
<1>4. \A i \in 0..n : place[i] = at + i * KeySize
  BY <1>2, <1>3, KeyPlaces DEF KeyPlace
<1>5. FlattenSeq(keys) \in Seq(Octet)
  BY <1>1, FlattenType
<1>6. Len(FlattenSeq(keys)) = n * KeySize
  <2>1. place[n] = at + Len(FlattenSeq(keys))
    BY <1>2, <1>3 DEF PlacesOf
  <2>2. place[n] = at + n * KeySize
    BY <1>4
  <2>3. n * KeySize \in Nat /\ Len(FlattenSeq(keys)) \in Nat
    BY <1>5, Sizes
  <2> QED
    BY <2>1, <2>2, <2>3
<1>7. ASSUME NEW i \in 1..n PROVE Holds(m, at + (i - 1) * KeySize, keys[i])
  <2>1. Holds(m, place[i - 1], keys[i])
    BY <1>2, <1>3 DEF PlacesOf
  <2>2. i - 1 \in 0..n
    OBVIOUS
  <2>3. place[i - 1] = at + (i - 1) * KeySize
    BY <1>4, <2>2, Zenon
  <2> QED
    BY <2>1, <2>3, Zenon
<1> QED
  BY <1>3, <1>5, <1>6, <1>7

LEMMA FlattenedKeys ==
  ASSUME NEW keys, AreKeys(keys)
  PROVE  FlattenSeq(keys) \in Seq(Octet) /\ Len(FlattenSeq(keys)) = Len(keys) * KeySize
<1>1. FlattenSeq(keys) \in Seq(Octet)
  BY FlattenType DEF AreKeys
<1>2. Holds(FlattenSeq(keys), 1, FlattenSeq(keys))
  BY <1>1, HoldsItself
<1> QED
  BY <1>1, <1>2, KeysHeld

LEMMA KeysRead ==
  ASSUME NEW p \in Seq(Octet), NEW m \in Seq(Octet), Begins(p, m), NEW at \in Nat \ {0}, NEW keys, AreKeys(keys),
         Holds(m, at, FlattenSeq(keys)), NEW next \in Nat, next = at + Len(keys) * KeySize, next <= Len(p) + 1
  PROVE  Keys(p, Block(Len(keys), at, next)) = keys
<1>1. PICK n \in Nat, size \in Nat : n = Len(keys) /\ size = Len(p)
  BY DEF AreKeys
<1>2. \A i \in 1..n : Holds(m, at + (i - 1) * KeySize, keys[i]) /\ Len(keys[i]) = KeySize /\ keys[i] \in Seq(Octet)
  <2>1. \A i \in 1..n : Holds(m, at + (i - 1) * KeySize, keys[i])
    BY <1>1, KeysHeld
  <2>2. \A i \in 1..n : Len(keys[i]) = KeySize /\ keys[i] \in Seq(Octet)
    BY <1>1 DEF AreKeys
  <2> QED
    BY <2>1, <2>2
<1>3. ASSUME NEW i \in 1..n
      PROVE  SubSeq(p, at + (i - 1) * KeySize, at + i * KeySize - 1) = keys[i]
  <2>1. PICK q \in Nat : q = (i - 1) * KeySize
    BY Sizes
  <2>2. PICK r \in Nat : r = (n - i) * KeySize
    BY Sizes
  <2>3. i * KeySize = q + KeySize /\ n * KeySize = q + KeySize + r
    BY <2>1, <2>2, Sizes
  <2>4. Holds(m, at + q, keys[i]) /\ Len(keys[i]) = KeySize /\ keys[i] \in Seq(Octet)
    BY <1>2, <2>1
  <2>5. at + q + KeySize <= size + 1
    BY <1>1, <2>3, Sizes
  <2>6. Holds(p, at + q, keys[i])
    <3>1. \A j \in 1..KeySize : m[at + q + j - 1] = keys[i][j]
      BY <2>4 DEF Holds
    <3>2. \A j \in 1..size : p[j] = m[j]
      BY <1>1 DEF Begins
    <3>3. \A j \in 1..KeySize : at + q + j - 1 \in 1..size
      BY <2>5, Sizes
    <3>4. \A j \in 1..KeySize : p[at + q + j - 1] = keys[i][j]
      BY <3>1, <3>2, <3>3
    <3> QED
      BY <1>1, <2>4, <2>5, <3>4 DEF Holds
  <2>7. at + q \in Nat \ {0}
    OBVIOUS
  <2>8. SubSeq(p, at + q, at + q + Len(keys[i]) - 1) = keys[i]
    BY <2>4, <2>6, <2>7, HoldsSubSeq
  <2>9. at + q + Len(keys[i]) - 1 = at + i * KeySize - 1
    BY <2>3, <2>4, Sizes
  <2> QED
    BY <2>1, <2>8, <2>9
<1> DEFINE v == Block(n, at, next)
<1>4. v.count = n /\ v.first = at
  BY DEF Block
<1>5. Keys(p, v) = [i \in 1..v.count |-> SubSeq(p, v.first + (i - 1) * KeySize, v.first + i * KeySize - 1)]
  BY Zenon DEF Keys
<1> HIDE DEF v
<1>6. Keys(p, v) = [i \in 1..n |-> SubSeq(p, at + (i - 1) * KeySize, at + i * KeySize - 1)]
  BY <1>4, <1>5, Zenon
<1>7. [i \in 1..n |-> SubSeq(p, at + (i - 1) * KeySize, at + i * KeySize - 1)] = [i \in 1..n |-> keys[i]]
  BY <1>3, Zenon
<1>8. [i \in 1..n |-> keys[i]] = keys
  BY <1>1 DEF AreKeys
<1> QED
  BY <1>1, <1>6, <1>7, <1>8 DEF v

-----------------------------------------------------------------------------
(* Messages *)

IsHeader(header) == header \in Seq(Octet) /\ Len(header) = 3

(* The instructions of a message, as bytes one behind another, and the     *)
(* place where they begin.                                                 *)
Body(keys) == 6 + Len(keys) * KeySize + KeySize

IsMessage(m, header, keys, count, body) ==
    m = header \o <<Len(keys)>> \o FlattenSeq(keys) \o Blockhash \o <<count>> \o body

LEMMA BlockhashIsKey == Blockhash \in Seq(Octet) /\ Len(Blockhash) = KeySize
<1>1. IsKey(Blockhash)
  BY AddressAssumption, Zenon
<1> QED
  BY <1>1, Zenon DEF IsKey

LEMMA MessageIs ==
  ASSUME NEW header, NEW keys, NEW instructions, Len(keys) \in 0..127, Len(instructions) \in 0..127
  PROVE  IsMessage(Message(header, keys, instructions), header, keys, Len(instructions), FlattenSeq(instructions))
<1>1. EncodeShortLen(Len(keys)) = <<Len(keys)>> /\ EncodeShortLen(Len(instructions)) = <<Len(instructions)>>
  BY EncodeShort
<1> QED
  BY <1>1, Zenon DEF Message, IsMessage

MessageLies(m, header, keys, count, body) ==
    /\ m \in Seq(Octet) /\ Len(m) + 1 = Body(keys) + Len(body)
    /\ Holds(m, 1, header) /\ Holds(m, 4, <<Len(keys)>>) /\ Holds(m, 5, FlattenSeq(keys))
    /\ Holds(m, 5 + Len(keys) * KeySize, Blockhash)
    /\ Holds(m, 5 + Len(keys) * KeySize + KeySize, <<count>>)
    /\ Holds(m, Body(keys), body)

LEMMA MessageHeld ==
  ASSUME NEW m, NEW header, IsHeader(header), NEW keys, AreKeys(keys), Len(keys) \in 0..127,
         NEW count \in 0..127, NEW body \in Seq(Octet), IsMessage(m, header, keys, count, body)
  PROVE  MessageLies(m, header, keys, count, body)
<1>1. PICK n \in 0..127, l \in Nat, size \in Nat : n = Len(keys) /\ l = Len(keys) * KeySize /\ size = Len(body)
  BY Sizes
<1>2. \A i \in 0..127 : i \in Octet
  BY DEF Octet
<1> DEFINE flat == FlattenSeq(keys)
           a == header \o <<n>>
           b == a \o flat
           c == b \o Blockhash
           d == c \o <<count>>
<1>3. /\ header \in Seq(Octet) /\ Len(header) = 3
      /\ <<n>> \in Seq(Octet) /\ Len(<<n>>) = 1
      /\ <<count>> \in Seq(Octet) /\ Len(<<count>>) = 1
      /\ flat \in Seq(Octet) /\ Len(flat) = l
      /\ Blockhash \in Seq(Octet) /\ Len(Blockhash) = KeySize
  <2>1. flat \in Seq(Octet) /\ Len(flat) = l
    BY <1>1, FlattenedKeys
  <2>2. header \in Seq(Octet) /\ Len(header) = 3
    BY DEF IsHeader
  <2>3. n \in Octet /\ count \in Octet
    BY <1>2
  <2> HIDE DEF flat
  <2> QED
    BY <2>1, <2>2, <2>3, BlockhashIsKey
<1> HIDE DEF flat
<1>4. a \in Seq(Octet) /\ Len(a) = 4
  <2>1. a \in Seq(Octet) /\ Len(a) = Len(header) + Len(<<n>>)
    BY <1>3, Joined
  <2> HIDE DEF a
  <2> QED
    BY <1>3, <2>1
<1>5. b \in Seq(Octet) /\ Len(b) = 4 + l
  <2> HIDE DEF a
  <2>1. b \in Seq(Octet) /\ Len(b) = Len(a) + Len(flat)
    BY <1>3, <1>4, Joined
  <2> HIDE DEF b
  <2> QED
    BY <1>3, <1>4, <2>1
<1>6. c \in Seq(Octet) /\ Len(c) = 4 + l + KeySize
  <2> HIDE DEF b
  <2>1. c \in Seq(Octet) /\ Len(c) = Len(b) + Len(Blockhash)
    BY <1>3, <1>5, Joined
  <2> HIDE DEF c
  <2> QED
    BY <1>3, <1>5, <2>1
<1>7. d \in Seq(Octet) /\ Len(d) = 5 + l + KeySize
  <2> HIDE DEF c
  <2>1. d \in Seq(Octet) /\ Len(d) = Len(c) + Len(<<count>>)
    BY <1>3, <1>6, Joined
  <2> HIDE DEF d
  <2> QED
    BY <1>3, <1>6, <2>1, Sizes
<1>8. m = d \o body
  BY <1>1, Zenon DEF IsMessage, flat
<1>9. m \in Seq(Octet) /\ Len(m) = 5 + l + KeySize + size
  <2> HIDE DEF d
  <2>1. m \in Seq(Octet) /\ Len(m) = Len(d) + Len(body)
    BY <1>7, <1>8, Joined
  <2> QED
    BY <1>1, <1>7, <2>1, Sizes
<1>10. Holds(m, 1, d \o body)
  BY <1>8, <1>9, HoldsItself
<1>11. Holds(m, 1, d) /\ Holds(m, 1 + Len(d), body)
  <2> HIDE DEF d
  <2> QED
    BY <1>7, <1>9, <1>10, HoldsConcat
<1>12. Holds(m, 1, c) /\ Holds(m, 1 + Len(c), <<count>>)
  <2> HIDE DEF c
  <2> QED
    BY <1>3, <1>6, <1>9, <1>11, HoldsConcat
<1>13. Holds(m, 1, b) /\ Holds(m, 1 + Len(b), Blockhash)
  <2> HIDE DEF b
  <2> QED
    BY <1>3, <1>5, <1>9, <1>12, HoldsConcat
<1>14. Holds(m, 1, a) /\ Holds(m, 1 + Len(a), flat)
  <2> HIDE DEF a
  <2> QED
    BY <1>3, <1>4, <1>9, <1>13, HoldsConcat
<1>15. Holds(m, 1, header) /\ Holds(m, 1 + Len(header), <<n>>)
  BY <1>3, <1>9, <1>14, HoldsConcat
<1> HIDE DEF a, b, c, d
<1>16. /\ 1 + Len(header) = 4 /\ 1 + Len(a) = 5 /\ 1 + Len(b) = 5 + Len(keys) * KeySize
       /\ 1 + Len(c) = 5 + Len(keys) * KeySize + KeySize
       /\ 1 + Len(d) = 6 + Len(keys) * KeySize + KeySize
  <2>1. 1 + Len(header) = 4 /\ 1 + Len(a) = 5
    BY <1>3, <1>4
  <2>2. 1 + Len(b) = 5 + l
    BY <1>1, <1>5
  <2>3. 1 + Len(c) = 5 + l + KeySize
    BY <1>1, <1>6, Sizes
  <2>4. 1 + Len(d) = 6 + l + KeySize
    BY <1>1, <1>7, Sizes
  <2> QED
    BY <1>1, <2>1, <2>2, <2>3, <2>4, Zenon
<1>17. Len(m) + 1 = 6 + Len(keys) * KeySize + KeySize + Len(body)
  BY <1>1, <1>9, Sizes
<1> QED
  BY <1>1, <1>9, <1>11, <1>12, <1>13, <1>14, <1>15, <1>16, <1>17, Zenon DEF MessageLies, Body, flat

(* A transaction as the network tells it.                                  *)
Read(header, keys, items) ==
    [required |-> header[1], readonly_signed |-> header[2], readonly |-> header[3],
     keys |-> keys, instructions |-> items]

ReadsAs(p, m, t) == Parse(p) = IF Len(p) = Len(m) THEN {t} ELSE {}

(* From a whole message the network reads what was laid out, and from the  *)
(* beginning of one nothing.                                               *)
THEOREM MessageRead ==
  ASSUME NEW p \in Seq(Octet), NEW m \in Seq(Octet), Begins(p, m),
         NEW header, IsHeader(header), header[1] < 128, NEW keys, AreKeys(keys), Len(keys) \in 0..127,
         NEW count \in 1..2, NEW body \in Seq(Octet), MessageLies(m, header, keys, count, body), NEW items,
         ManyIs(p, Body(keys), count, items, Len(m) + 1)
  PROVE  ReadsAs(p, m, Read(header, keys, items))
<1>1. PICK n \in 0..127, l \in Nat, size \in Nat, whole \in Nat, rest \in Nat :
        n = Len(keys) /\ l = n * KeySize /\ size = Len(p) /\ whole = Len(m) /\ rest = Len(body)
  <2>1. Len(keys) * KeySize \in Nat
    BY Sizes
  <2>2. Len(p) \in Nat /\ Len(m) \in Nat /\ Len(body) \in Nat
    OBVIOUS
  <2> QED
    BY <2>1, <2>2
<1>2. whole + 1 = 6 + l + KeySize + rest /\ Body(keys) = 6 + l + KeySize
  BY <1>1 DEF MessageLies, Body
<1>3. size <= whole /\ \A i \in 1..size : p[i] = m[i]
  BY <1>1 DEF Begins
<1>4. m[1] = header[1] /\ m[2] = header[2] /\ m[3] = header[3]
  <2>1. Holds(m, 1, header) /\ Len(header) = 3
    BY DEF MessageLies, IsHeader
  <2>2. \A i \in 1..3 : m[1 + i - 1] = header[i]
    BY <2>1 DEF Holds
  <2> QED
    BY <2>2
<1>5. m[4] = n
  <2>1. Holds(m, 4, <<n>>)
    BY <1>1 DEF MessageLies
  <2> QED
    BY <2>1, HoldsOne
<1>6. m[5 + l + KeySize] = count
  <2>1. Holds(m, 5 + l + KeySize, <<count>>)
    BY <1>1 DEF MessageLies
  <2> QED
    <3>1. 5 + l + KeySize \in Nat
      BY Sizes
    <3> QED
      BY <2>1, <3>1, HoldsOne
<1>7. Holds(m, 5, FlattenSeq(keys))
  BY DEF MessageLies
<1> DEFINE v == Block(n, 5, 5 + l)
           short(at) == DecodeShortVec(SubSeq(p, at, Len(p)))
           told(w, run) == [required |-> p[1], readonly_signed |-> p[2], readonly |-> p[3],
                            keys |-> Keys(p, w), instructions |-> run[1]]
           runs(w, c) == {run \in Many(InstructionAt, p, w.next + KeySize + c[2], c[1]) : run[2] = Len(p) + 1}
           from(w) == UNION {{told(w, run) : run \in runs(w, c)} : c \in short(w.next + KeySize)}
<1>8. Parse(p) = IF Len(p) < 4 \/ p[1] >= 128 THEN {} ELSE UNION {from(w) : w \in Vector(p, 4, KeySize)}
  BY Zenon DEF Parse
<1>9. Vector(p, 4, KeySize) = IF 5 + l <= size + 1 THEN {v} ELSE {}
  <2>1. 4 \in Nat \ {0} /\ 4 <= Len(m) /\ 5 + l \in Nat /\ 5 + l = 4 + 1 + n * KeySize /\ KeySize \in Nat /\ n \in 0..127
    <3>1. 5 + l = 4 + 1 + l
      OBVIOUS
    <3>2. 4 <= Len(m)
      BY <1>1, <1>2, Sizes, SMTT(30)
    <3>3. 5 + l = 4 + 1 + n * KeySize
      BY <1>1, <3>1, Zenon
    <3>4. 4 \in Nat \ {0} /\ 5 + l \in Nat /\ KeySize \in Nat
      BY Sizes
    <3> QED
      BY <3>2, <3>3, <3>4, Zenon
  <2>2. VectorIs(p, 4, KeySize, n, 5 + l)
    BY <1>5, <2>1, VectorRead
  <2>3. 4 + 1 = 5
    OBVIOUS
  <2> QED
    BY <1>1, <2>2, <2>3 DEF VectorIs
<1>10. short(5 + l + KeySize) = IF 5 + l + KeySize <= size THEN {<<count, 1>>} ELSE {}
  <2>1. 5 + l + KeySize \in Nat \ {0} /\ 5 + l + KeySize <= Len(m) /\ count \in 0..127
    BY <1>1, <1>2, Sizes
  <2>2. ShortAt(p, 5 + l + KeySize, count)
    BY <1>6, <2>1, ShortReadAt
  <2> QED
    BY <1>1, <2>2 DEF ShortAt
<1>11. Many(InstructionAt, p, 6 + l + KeySize, count) = IF whole + 1 <= size + 1 THEN {<<items, whole + 1>>} ELSE {}
  BY <1>1, <1>2 DEF ManyIs
<1>12. v.next = 5 + l
  BY DEF Block
<1>13. from(v) = UNION {{told(v, run) : run \in runs(v, c)} : c \in short(5 + l + KeySize)}
  BY <1>12
<1>14. runs(v, <<count, 1>>) = IF size = whole THEN {<<items, whole + 1>>} ELSE {}
  <2>1. v.next + KeySize + 1 = 6 + l + KeySize
    BY <1>12, Sizes
  <2>2. runs(v, <<count, 1>>) = {run \in Many(InstructionAt, p, 6 + l + KeySize, count) : run[2] = Len(p) + 1}
    BY <2>1
  <2>3. CASE size = whole
    <3>1. Many(InstructionAt, p, 6 + l + KeySize, count) = {<<items, whole + 1>>}
      BY <1>11, <2>3
    <3>2. <<items, whole + 1>>[2] = Len(p) + 1
      BY <1>1, <2>3
    <3> HIDE DEF runs, v
    <3> QED
      BY <2>2, <2>3, <3>1, <3>2
  <2>4. CASE size # whole
    <3>1. Many(InstructionAt, p, 6 + l + KeySize, count) = {}
      BY <1>3, <1>11, <2>4
    <3> HIDE DEF runs, v
    <3> QED
      BY <2>2, <2>4, <3>1
  <2> QED
    BY <2>3, <2>4
<1>15. CASE size = whole
  <2>1. ~(Len(p) < 4 \/ p[1] >= 128)
    <3>1. p[1] = header[1] /\ size >= 4
      BY <1>2, <1>3, <1>4, <1>15, Sizes
    <3>2. header[1] \in Nat
      <4>1. header[1] \in Octet
        <5>1. header \in Seq(Octet) /\ Len(header) = 3
          BY DEF IsHeader
        <5>2. 1 \in 1..Len(header)
          BY <5>1
        <5> QED
          BY <5>1, <5>2, Elements
      <4> QED
        BY <4>1, OctetNumber
    <3> QED
      BY <1>1, <3>1, <3>2
  <2>2. Vector(p, 4, KeySize) = {v}
    BY <1>2, <1>9, <1>15, Sizes
  <2>3. short(5 + l + KeySize) = {<<count, 1>>}
    BY <1>2, <1>10, <1>15, Sizes
  <2>4. runs(v, <<count, 1>>) = {<<items, whole + 1>>}
    BY <1>14, <1>15
  <2>5. told(v, <<items, whole + 1>>) = Read(header, keys, items)
    <3>1. p[1] = header[1] /\ p[2] = header[2] /\ p[3] = header[3]
      BY <1>2, <1>3, <1>4, <1>15, Sizes
    <3>2. Keys(p, v) = keys
      <4>1. 5 \in Nat \ {0} /\ 5 + l \in Nat /\ 5 + l = 5 + Len(keys) * KeySize /\ 5 + l <= Len(p) + 1
        BY <1>1, <1>2, <1>15, Sizes, SMTT(30)
      <4>2. Keys(p, Block(Len(keys), 5, 5 + l)) = keys
        BY <1>7, <4>1, KeysRead
      <4> QED
        BY <1>1, <4>2
    <3> HIDE DEF v
    <3> QED
      BY <3>1, <3>2 DEF Read
  <2> DEFINE of(c) == {told(v, run) : run \in runs(v, c)}
  <2>8. of(<<count, 1>>) = {Read(header, keys, items)}
    <3> DEFINE run0 == <<items, whole + 1>>
    <3> HIDE DEF v, told, runs, run0
    <3>1. runs(v, <<count, 1>>) = {run0}
      BY <2>4 DEF run0
    <3>2. told(v, run0) = Read(header, keys, items)
      BY <2>5 DEF run0
    <3>3. of(<<count, 1>>) = {told(v, run) : run \in {run0}}
      BY <3>1
    <3>4. {told(v, run) : run \in {run0}} = {told(v, run0)}
      OBVIOUS
    <3> QED
      BY <3>2, <3>3, <3>4
  <2>9. from(v) = UNION {of(c) : c \in short(5 + l + KeySize)}
    BY <1>13
  <2> HIDE DEF of, v, short, told, runs, from
  <2>6. from(v) = {Read(header, keys, items)}
    <3>1. from(v) = UNION {of(c) : c \in {<<count, 1>>}}
      BY <2>3, <2>9
    <3>2. UNION {of(c) : c \in {<<count, 1>>}} = of(<<count, 1>>)
      OBVIOUS
    <3> QED
      BY <2>8, <3>1, <3>2
  <2>7. Parse(p) = {Read(header, keys, items)}
    BY <1>8, <2>1, <2>2, <2>6
  <2> QED
    BY <1>1, <1>15, <2>7, Zenon DEF ReadsAs
<1>16. CASE size # whole
  <2>1. runs(v, <<count, 1>>) = {}
    BY <1>14, <1>16
  <2> DEFINE of(c) == {told(v, run) : run \in runs(v, c)}
  <2>6. of(<<count, 1>>) = {}
    <3> HIDE DEF v, told, runs
    <3> QED
      BY <2>1
  <2>7. from(v) = UNION {of(c) : c \in short(5 + l + KeySize)}
    BY <1>13
  <2> HIDE DEF v, short, told, runs, of, from
  <2>2. \A c \in short(5 + l + KeySize) : c = <<count, 1>>
    BY <1>10
  <2>3. from(v) = {}
    BY <2>2, <2>6, <2>7
  <2>4. \A w \in Vector(p, 4, KeySize) : w = v
    BY <1>9
  <2>5. Parse(p) = {}
    BY <1>8, <2>3, <2>4
  <2> QED
    BY <1>1, <1>16, <2>5, Zenon DEF ReadsAs
<1> QED
  BY <1>15, <1>16, Zenon

LEMMA BodyType == ASSUME NEW keys, AreKeys(keys) PROVE Body(keys) \in Nat \ {0}
<1>1. Len(keys) \in Nat
  BY DEF AreKeys
<1>2. Len(keys) * KeySize \in Nat
  BY <1>1, Sizes
<1> QED
  BY <1>2, Sizes DEF Body

LEMMA OneInstructionLies ==
  ASSUME NEW header, IsHeader(header), NEW keys, AreKeys(keys), Len(keys) \in 0..127,
         NEW program, NEW accounts, NEW data, IsInstruction(program, accounts, data),
         NEW m, m = Message(header, keys, <<Instruction(program, accounts, data)>>)
  PROVE  MessageLies(m, header, keys, 1, Instruction(program, accounts, data))
<1> DEFINE body == Instruction(program, accounts, data)
<1>1. body \in Seq(Octet)
  BY InstructionLength
<1> HIDE DEF body
<1>2. Len(<<body>>) = 1 /\ 1 \in 0..127
  OBVIOUS
<1>3. IsMessage(m, header, keys, Len(<<body>>), FlattenSeq(<<body>>))
  BY <1>2, MessageIs DEF body
<1>4. FlattenSeq(<<body>>) = body
  BY <1>1, FlattenOne
<1>5. IsMessage(m, header, keys, 1, body)
  BY <1>2, <1>3, <1>4
<1> QED
  BY <1>1, <1>2, <1>5, MessageHeld DEF body

LEMMA OneInstructionMessage ==
  ASSUME NEW header, IsHeader(header), header[1] < 128, NEW keys, AreKeys(keys), Len(keys) \in 0..127,
         NEW program, NEW accounts, NEW data, IsInstruction(program, accounts, data),
         NEW m, m = Message(header, keys, <<Instruction(program, accounts, data)>>)
  PROVE  /\ m \in Seq(Octet)
         /\ \A p \in Seq(Octet) : Begins(p, m) =>
              ReadsAs(p, m, Read(header, keys, <<Told(program, accounts, data)>>))
<1> DEFINE body == Instruction(program, accounts, data)
           start == Body(keys)
           next == start + 3 + Len(accounts) + Len(data)
<1>1. /\ body \in Seq(Octet) /\ Len(body) = 3 + Len(accounts) + Len(data)
      /\ Len(accounts) \in Nat /\ Len(data) \in Nat
  BY InstructionLength
<1>2. start \in Nat \ {0}
  BY BodyType
<1>3. MessageLies(m, header, keys, 1, body)
  BY OneInstructionLies
<1>4. m \in Seq(Octet) /\ Len(m) + 1 = start + Len(body) /\ Holds(m, start, body)
  BY <1>3, Zenon DEF MessageLies
<1>5. Len(m) + 1 = next /\ next \in Nat /\ start < next
  <2> HIDE DEF body, start
  <2> QED
    BY <1>1, <1>2, <1>4
<1> HIDE DEF start, next
<1>6. ASSUME NEW p \in Seq(Octet), Begins(p, m)
      PROVE  ReadsAs(p, m, Read(header, keys, <<Told(program, accounts, data)>>))
  <2>1. InstructionIs(p, start, Told(program, accounts, data), next)
    BY <1>2, <1>4, <1>5, <1>6, InstructionRead DEF next
  <2>2. ManyIs(p, start, 1, <<Told(program, accounts, data)>>, next)
    BY <1>2, <1>5, <2>1, OneInstruction
  <2>3. 1 \in 1..2
    OBVIOUS
  <2>4. ManyIs(p, Body(keys), 1, <<Told(program, accounts, data)>>, Len(m) + 1)
    BY <1>5, <2>2, Zenon DEF start
  <2> HIDE DEF body
  <2> QED
    BY <1>1, <1>3, <1>4, <1>6, <2>3, <2>4, MessageRead
<1> QED
  BY <1>4, <1>6

LEMMA FlattenTwo ==
  ASSUME NEW S, NEW a \in Seq(S), NEW b \in Seq(S)
  PROVE  FlattenSeq(<<a, b>>) = a \o b
<1>1. <<a>> \in Seq(Seq(S)) /\ <<a, b>> = Append(<<a>>, b)
  OBVIOUS
<1>2. FlattenSeq(Append(<<a>>, b)) = FlattenSeq(<<a>>) \o b
  BY <1>1, FlattenAppend
<1>3. FlattenSeq(<<a>>) = a
  BY FlattenOne
<1> QED
  BY <1>1, <1>2, <1>3

LEMMA TwoInstructionMessage ==
  ASSUME NEW header, IsHeader(header), header[1] < 128, NEW keys, AreKeys(keys), Len(keys) \in 0..127,
         NEW program, NEW accounts, NEW data, IsInstruction(program, accounts, data),
         NEW program2, NEW accounts2, NEW data2, IsInstruction(program2, accounts2, data2),
         NEW m, m = Message(header, keys, <<Instruction(program, accounts, data),
                                            Instruction(program2, accounts2, data2)>>)
  PROVE  /\ m \in Seq(Octet)
         /\ \A p \in Seq(Octet) : Begins(p, m) =>
              ReadsAs(p, m, Read(header, keys, <<Told(program, accounts, data),
                                                 Told(program2, accounts2, data2)>>))
<1> DEFINE one == Instruction(program, accounts, data)
           two == Instruction(program2, accounts2, data2)
           start == Body(keys)
           between == start + 3 + Len(accounts) + Len(data)
           next == between + 3 + Len(accounts2) + Len(data2)
<1>1. /\ one \in Seq(Octet) /\ Len(one) = 3 + Len(accounts) + Len(data)
      /\ Len(accounts) \in Nat /\ Len(data) \in Nat
  BY InstructionLength
<1>2. /\ two \in Seq(Octet) /\ Len(two) = 3 + Len(accounts2) + Len(data2)
      /\ Len(accounts2) \in Nat /\ Len(data2) \in Nat
  BY InstructionLength
<1>3. start \in Nat \ {0}
  BY BodyType
<1>4. one \o two \in Seq(Octet) /\ Len(one \o two) = Len(one) + Len(two)
  <2> HIDE DEF one, two
  <2> QED
    BY <1>1, <1>2, Joined
<1>5. MessageLies(m, header, keys, 2, one \o two)
  <2> HIDE DEF one, two
  <2>1. Len(<<one, two>>) = 2 /\ 2 \in 0..127
    OBVIOUS
  <2>2. IsMessage(m, header, keys, Len(<<one, two>>), FlattenSeq(<<one, two>>))
    BY <2>1, MessageIs DEF one, two
  <2>3. FlattenSeq(<<one, two>>) = one \o two
    BY <1>1, <1>2, FlattenTwo
  <2>4. IsMessage(m, header, keys, 2, one \o two)
    BY <2>1, <2>2, <2>3
  <2> QED
    BY <1>4, <2>1, <2>4, MessageHeld
<1>6. m \in Seq(Octet) /\ Len(m) + 1 = start + Len(one \o two) /\ Holds(m, start, one \o two)
  BY <1>5, Zenon DEF MessageLies
<1>7. Holds(m, start, one) /\ Holds(m, between, two)
  <2> HIDE DEF one, two, start
  <2>1. Holds(m, start, one) /\ Holds(m, start + Len(one), two)
    BY <1>1, <1>2, <1>3, <1>6, HoldsConcat
  <2>2. start + Len(one) = between
    BY <1>1, <1>3
  <2> QED
    BY <2>1, <2>2
<1>8. Len(m) + 1 = next /\ next \in Nat /\ between < next /\ between \in Nat \ {0} /\ start < between
  <2> HIDE DEF one, two, start
  <2>1. Len(m) + 1 = start + Len(one) + Len(two)
    BY <1>1, <1>2, <1>3, <1>4, <1>6
  <2> QED
    BY <1>1, <1>2, <1>3, <2>1
<1> HIDE DEF start, between, next
<1>9. ASSUME NEW p \in Seq(Octet), Begins(p, m)
      PROVE  ReadsAs(p, m, Read(header, keys, <<Told(program, accounts, data), Told(program2, accounts2, data2)>>))
  <2>1. InstructionIs(p, start, Told(program, accounts, data), between)
    BY <1>3, <1>6, <1>7, <1>8, <1>9, InstructionRead DEF between
  <2>2. InstructionIs(p, between, Told(program2, accounts2, data2), next)
    BY <1>6, <1>7, <1>8, <1>9, InstructionRead DEF next
  <2>3. ManyIs(p, start, 2, <<Told(program, accounts, data), Told(program2, accounts2, data2)>>, next)
    BY <1>3, <1>8, <2>1, <2>2, TwoInstructions
  <2>4. 2 \in 1..2
    OBVIOUS
  <2>5. ManyIs(p, Body(keys), 2, <<Told(program, accounts, data), Told(program2, accounts2, data2)>>, Len(m) + 1)
    BY <1>8, <2>3, Zenon DEF start
  <2> HIDE DEF one, two
  <2> QED
    BY <1>4, <1>5, <1>6, <1>9, <2>4, <2>5, MessageRead
<1> QED
  BY <1>6, <1>9

-----------------------------------------------------------------------------
(* The messages of the signer *)

Key == {k \in Seq(Octet) : Len(k) = KeySize}

(* The token account of a wallet and a mint.                               *)
Ata(wallet, mint) == TokenAccount[wallet, mint]

LEMMA KeyFacts ==
  /\ Wallet \subseteq Key /\ Mint \subseteq Key /\ Programs \subseteq Key
  /\ \A w \in Wallet, mint \in Mint : Ata(w, mint) \in Key
<1>1. \A k : IsKey(k) <=> k \in Key
  BY Zenon DEF IsKey, Key
<1>2. \A k \in Wallet \cup Mint \cup Programs : IsKey(k)
  BY AddressAssumption, Zenon
<1>3. \A w \in Wallet, mint \in Mint : IsKey(Ata(w, mint))
  BY AddressAssumption, Zenon DEF Ata
<1> QED
  BY <1>1, <1>2, <1>3, Zenon

LEMMA KeySequences == ASSUME NEW keys \in Seq(Key) PROVE AreKeys(keys)
<1>1. \A i \in 1..Len(keys) : keys[i] \in Key
  BY Elements
<1>2. \A i \in 1..Len(keys) : keys[i] \in Seq(Octet) /\ Len(keys[i]) = KeySize
  BY <1>1, Zenon DEF Key
<1>3. keys = [i \in 1..Len(keys) |-> keys[i]] /\ Len(keys) \in Nat
  OBVIOUS
<1>4. keys \in Seq(Seq(Octet))
  BY <1>2, <1>3
<1> QED
  BY <1>2, <1>4, Zenon DEF AreKeys

LEMMA ProgramsAreKeys == {SYSTEM_PROGRAM_ID, SPL_TOKEN_PROGRAM_ID, ATA_PROGRAM_ID} \subseteq Key
BY KeyFacts DEF Programs

TagData == LittleEndian(2, 4)

AmountData(amount) == LittleEndian(amount, AmountSize)

LEMMA AmountFacts ==
  ASSUME NEW amount \in Amount
  PROVE  /\ amount \in Nat /\ AmountData(amount) \in Seq(Octet) /\ Len(AmountData(amount)) = AmountSize
         /\ Number(Reverse(AmountData(amount))) = amount
<1>1. amount \in Nat /\ amount < Values(AmountSize)
  BY SizeAssumption
<1>2. IsFieldOf(AmountData(amount), amount, AmountSize)
  BY <1>1, Sizes, LittleEndianNumber DEF AmountData
<1> QED
  BY <1>1, <1>2, Zenon DEF IsFieldOf

(* The amount behind a tag is the amount that was written there.           *)
LEMMA AmountIsBehind ==
  ASSUME NEW tag \in Seq(Octet), NEW amount \in Amount
  PROVE  AmountBehind(tag, tag \o AmountData(amount)) = {amount}
<1> DEFINE data == tag \o AmountData(amount)
<1>1. PICK n \in Nat : n = Len(tag)
  OBVIOUS
<1>2. AmountData(amount) \in Seq(Octet) /\ Len(AmountData(amount)) = AmountSize /\ AmountSize \in Nat
  BY AmountFacts, Sizes
<1>3. ComesApart(Octet, tag, AmountData(amount), n, AmountSize)
  BY <1>1, <1>2, ConcatSplits
<1>4. /\ Len(data) = n + AmountSize /\ SubSeq(data, 1, n) = tag
      /\ SubSeq(data, n + 1, n + AmountSize) = AmountData(amount)
  BY <1>3, Zenon DEF ComesApart
<1>5. AmountBehind(tag, data) =
        IF Len(data) = Len(tag) + AmountSize /\ SubSeq(data, 1, Len(tag)) = tag
        THEN {Number(Reverse(SubSeq(data, Len(tag) + 1, Len(data))))} ELSE {}
  BY Zenon DEF AmountBehind
<1> HIDE DEF data
<1>6. AmountBehind(tag, data) = {Number(Reverse(SubSeq(data, n + 1, n + AmountSize)))}
  BY <1>1, <1>4, <1>5
<1>7. Number(Reverse(SubSeq(data, n + 1, n + AmountSize))) = amount
  BY <1>4, AmountFacts
<1> QED
  BY <1>6, <1>7 DEF data

(* The data of a transfer are short enough for one byte of length.         *)
LEMMA DataShort ==
  ASSUME NEW tag \in Seq(Octet), Len(tag) <= 4, NEW amount \in Amount
  PROVE  tag \o AmountData(amount) \in Seq(Octet) /\ Len(tag \o AmountData(amount)) < 128
<1>1. AmountData(amount) \in Seq(Octet) /\ Len(AmountData(amount)) = AmountSize
  BY AmountFacts
<1>2. /\ tag \o AmountData(amount) \in Seq(Octet)
      /\ Len(tag \o AmountData(amount)) = Len(tag) + Len(AmountData(amount))
  BY <1>1, Joined
<1> HIDE DEF AmountData
<1> QED
  BY <1>1, <1>2, Sizes

LEMMA TagsAre ==
  /\ TagData \in Seq(Octet) /\ Len(TagData) = 4
  /\ << 3 >> \in Seq(Octet) /\ Len(<< 3 >>) = 1
<1>1. TagData \in Seq(Octet) /\ Len(TagData) = 4
  <2>1. PICK two \in Nat, four \in Nat : two = 2 /\ four = 4
    OBVIOUS
  <2>2. LittleEndian(two, four) \in Seq(Octet) /\ Len(LittleEndian(two, four)) = four
    BY LittleEndianType
  <2> QED
    BY <2>1, <2>2, Zenon DEF TagData
<1>2. 3 \in Octet
  BY DEF Octet
<1> QED
  BY <1>1, <1>2

LEMMA TransferData ==
  ASSUME NEW amount \in Amount
  PROVE  /\ TagData \o AmountData(amount) \in Seq(Octet) /\ Len(TagData \o AmountData(amount)) < 128
         /\ <<3>> \o AmountData(amount) \in Seq(Octet) /\ Len(<<3>> \o AmountData(amount)) < 128
<1>1. PICK tag \in Seq(Octet) : tag = TagData
  BY TagsAre
<1>2. PICK three \in Seq(Octet) : three = <<3>>
  BY TagsAre
<1>3. Len(tag) <= 4 /\ Len(three) <= 4
  BY <1>1, <1>2, TagsAre
<1>4. tag \o AmountData(amount) \in Seq(Octet) /\ Len(tag \o AmountData(amount)) < 128
  BY <1>3, DataShort
<1>5. three \o AmountData(amount) \in Seq(Octet) /\ Len(three \o AmountData(amount)) < 128
  BY <1>3, DataShort
<1> QED
  BY <1>1, <1>2, <1>4, <1>5, Zenon

Told1(program, accounts, data) == [program |-> program, accounts |-> accounts, data |-> data]

SystemTold(from, to, amount) ==
    Read(<<1, 0, 1>>, <<from, to, SYSTEM_PROGRAM_ID>>,
         <<Told1(3, <<1, 2>>, TagData \o AmountData(amount))>>)

CosignedTold(from, to, amount) ==
    Read(<<2, 0, 1>>, <<from, to, SYSTEM_PROGRAM_ID>>,
         <<Told1(3, <<2, 1>>, TagData \o AmountData(amount))>>)

SplTold(source, dest, owner, amount) ==
    Read(<<1, 0, 1>>, <<owner, source, dest, SPL_TOKEN_PROGRAM_ID>>,
         <<Told1(4, <<2, 3, 1>>, <<3>> \o AmountData(amount))>>)

CreateTold(source, dest, owner, to, mint, amount) ==
    Read(<<1, 0, 5>>,
         <<owner, source, dest, to, mint, SYSTEM_PROGRAM_ID, SPL_TOKEN_PROGRAM_ID, ATA_PROGRAM_ID>>,
         <<Told1(8, <<1, 3, 4, 5, 6, 7>>, << >>), Told1(7, <<2, 3, 1>>, <<3>> \o AmountData(amount))>>)

(* The message reads as t, and what is only the beginning of it as nothing. *)
Tells(m, t) == m \in Seq(Octet) /\ \A p \in Seq(Octet) : Begins(p, m) => ReadsAs(p, m, t)

LEMMA ToldOne ==
  ASSUME NEW data
  PROVE  /\ Told(2, <<0, 1>>, data) = Told1(3, <<1, 2>>, data)
         /\ Told(2, <<1, 0>>, data) = Told1(3, <<2, 1>>, data)
         /\ Told(3, <<1, 2, 0>>, data) = Told1(4, <<2, 3, 1>>, data)
         /\ Told(6, <<1, 2, 0>>, data) = Told1(7, <<2, 3, 1>>, data)
         /\ Told(7, <<0, 2, 3, 4, 5, 6>>, data) = Told1(8, <<1, 3, 4, 5, 6, 7>>, data)
<1> DEFINE Up(accounts) == [i \in 1..Len(accounts) |-> accounts[i] + 1]
<1>1. Up(<<0, 1>>) = <<1, 2>>
  OBVIOUS
<1>2. Up(<<1, 0>>) = <<2, 1>>
  OBVIOUS
<1>3. Up(<<1, 2, 0>>) = <<2, 3, 1>>
  OBVIOUS
<1>4. Up(<<0, 2, 3, 4, 5, 6>>) = <<1, 3, 4, 5, 6, 7>>
  OBVIOUS
<1>5. \A program, accounts : Told(program, accounts, data) = Told1(program + 1, Up(accounts), data)
  BY Zenon DEF Told, Told1
<1>6. 2 + 1 = 3 /\ 3 + 1 = 4 /\ 6 + 1 = 7 /\ 7 + 1 = 8
  OBVIOUS
<1> HIDE DEF Up
<1> QED
  BY <1>1, <1>2, <1>3, <1>4, <1>5, <1>6, Zenon

LEMMA SystemTells ==
  ASSUME NEW from \in Wallet, NEW to \in Wallet, NEW amount \in Amount
  PROVE  Tells(SystemTransferMessage(from, to, amount), SystemTold(from, to, amount))
<1> DEFINE header == <<1, 0, 1>>
           keys == <<from, to, SYSTEM_PROGRAM_ID>>
           accounts == <<0, 1>>
           data == TagData \o AmountData(amount)
           m == SystemTransferMessage(from, to, amount)
<1>1. IsHeader(header) /\ header[1] < 128
  BY DEF IsHeader, Octet
<1>2. AreKeys(keys) /\ Len(keys) \in 0..127
  <2>1. from \in Key /\ to \in Key /\ SYSTEM_PROGRAM_ID \in Key
    BY KeyFacts, ProgramsAreKeys
  <2>2. keys \in Seq(Key) /\ Len(keys) = 3
    BY <2>1
  <2> HIDE DEF keys
  <2> QED
    BY <2>2, KeySequences
<1>3. IsInstruction(2, accounts, data)
  <2>1. data \in Seq(Octet) /\ Len(data) < 128
    BY TransferData, Zenon
  <2>2. accounts \in Seq(Octet) /\ Len(accounts) = 2 /\ 2 \in Octet
    BY DEF Octet
  <2> HIDE DEF accounts, data
  <2> QED
    BY <2>1, <2>2 DEF IsInstruction
<1>4. m = Message(header, keys, <<Instruction(2, accounts, data)>>)
  BY Zenon DEF SystemTransferMessage, TagData, AmountData
<1>5. SystemTold(from, to, amount) = Read(header, keys, <<Told(2, accounts, data)>>)
  BY ToldOne, Zenon DEF SystemTold
<1> HIDE DEF header, keys, accounts, data, m
<1> QED
  BY <1>1, <1>2, <1>3, <1>4, <1>5, OneInstructionMessage DEF Tells, m

CosignedMessage(from, to, amount) ==
    Message(<<2, 0, 1>>, <<from, to, SYSTEM_PROGRAM_ID>>,
            <<Instruction(2, <<1, 0>>, TagData \o AmountData(amount))>>)

LEMMA CosignedTells ==
  ASSUME NEW from \in Wallet, NEW to \in Wallet, NEW amount \in Amount
  PROVE  Tells(CosignedMessage(from, to, amount), CosignedTold(from, to, amount))
<1> DEFINE header == <<2, 0, 1>>
           keys == <<from, to, SYSTEM_PROGRAM_ID>>
           accounts == <<1, 0>>
           data == TagData \o AmountData(amount)
           m == CosignedMessage(from, to, amount)
<1>1. IsHeader(header) /\ header[1] < 128
  BY DEF IsHeader, Octet
<1>2. AreKeys(keys) /\ Len(keys) \in 0..127
  <2>1. from \in Key /\ to \in Key /\ SYSTEM_PROGRAM_ID \in Key
    BY KeyFacts, ProgramsAreKeys
  <2>2. keys \in Seq(Key) /\ Len(keys) = 3
    BY <2>1
  <2> HIDE DEF keys
  <2> QED
    BY <2>2, KeySequences
<1>3. IsInstruction(2, accounts, data)
  <2>1. data \in Seq(Octet) /\ Len(data) < 128
    BY TransferData, Zenon
  <2>2. accounts \in Seq(Octet) /\ Len(accounts) = 2 /\ 2 \in Octet
    BY DEF Octet
  <2> HIDE DEF accounts, data
  <2> QED
    BY <2>1, <2>2 DEF IsInstruction
<1>4. m = Message(header, keys, <<Instruction(2, accounts, data)>>)
  BY Zenon DEF CosignedMessage
<1>5. CosignedTold(from, to, amount) = Read(header, keys, <<Told(2, accounts, data)>>)
  BY ToldOne, Zenon DEF CosignedTold
<1> HIDE DEF header, keys, accounts, data, m
<1> QED
  BY <1>1, <1>2, <1>3, <1>4, <1>5, OneInstructionMessage DEF Tells, m

LEMMA SplTells ==
  ASSUME NEW source \in Key, NEW dest \in Key, NEW owner \in Wallet, NEW amount \in Amount
  PROVE  Tells(SplTransferMessage(source, dest, owner, amount), SplTold(source, dest, owner, amount))
<1> DEFINE header == <<1, 0, 1>>
           keys == <<owner, source, dest, SPL_TOKEN_PROGRAM_ID>>
           accounts == <<1, 2, 0>>
           data == <<3>> \o AmountData(amount)
           m == SplTransferMessage(source, dest, owner, amount)
<1>1. IsHeader(header) /\ header[1] < 128
  BY DEF IsHeader, Octet
<1>2. AreKeys(keys) /\ Len(keys) \in 0..127
  <2>1. owner \in Key /\ SPL_TOKEN_PROGRAM_ID \in Key
    BY KeyFacts, ProgramsAreKeys
  <2>2. keys \in Seq(Key) /\ Len(keys) = 4
    BY <2>1
  <2> HIDE DEF keys
  <2> QED
    BY <2>2, KeySequences
<1>3. IsInstruction(3, accounts, data)
  <2>1. data \in Seq(Octet) /\ Len(data) < 128
    BY TransferData, Zenon
  <2>2. accounts \in Seq(Octet) /\ Len(accounts) = 3 /\ 3 \in Octet
    BY DEF Octet
  <2> HIDE DEF accounts, data
  <2> QED
    BY <2>1, <2>2 DEF IsInstruction
<1>4. m = Message(header, keys, <<Instruction(3, accounts, data)>>)
  BY Zenon DEF SplTransferMessage, SplTransferData, AmountData
<1>5. SplTold(source, dest, owner, amount) = Read(header, keys, <<Told(3, accounts, data)>>)
  BY ToldOne, Zenon DEF SplTold
<1> HIDE DEF header, keys, accounts, data, m
<1> QED
  BY <1>1, <1>2, <1>3, <1>4, <1>5, OneInstructionMessage DEF Tells, m

LEMMA CreateTells ==
  ASSUME NEW source \in Key, NEW dest \in Key, NEW owner \in Wallet, NEW to \in Wallet,
         NEW mint \in Mint, NEW amount \in Amount
  PROVE  Tells(CreateAtaMessage(source, dest, owner, to, mint, amount),
               CreateTold(source, dest, owner, to, mint, amount))
<1> DEFINE header == <<1, 0, 5>>
           keys == <<owner, source, dest, to, mint,
                     SYSTEM_PROGRAM_ID, SPL_TOKEN_PROGRAM_ID, ATA_PROGRAM_ID>>
           accounts == <<0, 2, 3, 4, 5, 6>>
           accounts2 == <<1, 2, 0>>
           nothing == << >>
           data == <<3>> \o AmountData(amount)
           m == CreateAtaMessage(source, dest, owner, to, mint, amount)
<1>1. IsHeader(header) /\ header[1] < 128
  BY DEF IsHeader, Octet
<1>2. AreKeys(keys) /\ Len(keys) \in 0..127
  <2>1. /\ owner \in Key /\ to \in Key /\ mint \in Key
        /\ SYSTEM_PROGRAM_ID \in Key /\ SPL_TOKEN_PROGRAM_ID \in Key /\ ATA_PROGRAM_ID \in Key
    BY KeyFacts, ProgramsAreKeys
  <2>2. keys \in Seq(Key) /\ Len(keys) = 8
    BY <2>1
  <2> HIDE DEF keys
  <2> QED
    BY <2>2, KeySequences
<1>3. IsInstruction(7, accounts, nothing)
  <2>1. accounts \in Seq(Octet) /\ Len(accounts) = 6 /\ 7 \in Octet
    BY DEF Octet
  <2>2. nothing \in Seq(Octet) /\ Len(nothing) = 0
    OBVIOUS
  <2> HIDE DEF accounts, nothing
  <2> QED
    BY <2>1, <2>2 DEF IsInstruction
<1>4. IsInstruction(6, accounts2, data)
  <2>1. data \in Seq(Octet) /\ Len(data) < 128
    BY TransferData, Zenon
  <2>2. accounts2 \in Seq(Octet) /\ Len(accounts2) = 3 /\ 6 \in Octet
    BY DEF Octet
  <2> HIDE DEF accounts2, data
  <2> QED
    BY <2>1, <2>2 DEF IsInstruction
<1>5. m = Message(header, keys, <<Instruction(7, accounts, nothing), Instruction(6, accounts2, data)>>)
  BY Zenon DEF CreateAtaMessage, SplTransferData, AmountData
<1>6. CreateTold(source, dest, owner, to, mint, amount)
        = Read(header, keys, <<Told(7, accounts, nothing), Told(6, accounts2, data)>>)
  BY ToldOne, Zenon DEF CreateTold
<1> HIDE DEF header, keys, accounts, accounts2, nothing, data, m
<1> QED
  BY <1>1, <1>2, <1>3, <1>4, <1>5, <1>6, TwoInstructionMessage DEF Tells, m

-----------------------------------------------------------------------------
(* What the network does with them *)

LEMMA BeginsItself == ASSUME NEW m \in Seq(Octet) PROVE Begins(m, m)
BY DEF Begins

LEMMA ToldIsParsed == ASSUME NEW m, NEW t, Tells(m, t) PROVE Parse(m) = {t}
<1>1. m \in Seq(Octet) /\ ReadsAs(m, m, t)
  BY BeginsItself DEF Tells
<1> QED
  BY <1>1, Zenon DEF ReadsAs

(* One signature, by pk: enough for what one key has to sign.              *)
LEMMA Judged ==
  ASSUME NEW m, NEW t, Tells(m, t), NEW pk, t.required = 1, t.keys[1] = pk
  PROVE  Outcomes(Transaction(pk, m)) = IF IsInjective(t.keys) THEN RunAll(t) ELSE {}
<1> DEFINE tx == Transaction(pk, m)
           sig == [pk |-> pk, msg |-> m]
<1>1. tx.msg = m /\ tx.sigs = <<sig>>
  BY DEF Transaction
<1>2. Accepted(t, tx) <=> IsInjective(t.keys)
  <2>1. Accepted(t, tx) <=> /\ tx.sigs = [i \in 1..t.required |-> [pk |-> t.keys[i], msg |-> tx.msg]]
                            /\ IsInjective(t.keys)
    BY Zenon DEF Accepted
  <2>2. [i \in 1..t.required |-> [pk |-> t.keys[i], msg |-> tx.msg]] = [i \in 1..1 |-> sig]
    <3> HIDE DEF tx
    <3>1. \A i \in 1..1 : [pk |-> t.keys[i], msg |-> tx.msg] = sig
      <4>1. \A i \in 1..1 : i = 1
        OBVIOUS
      <4> QED
        BY <1>1, <4>1, Zenon
    <3> QED
      BY <3>1, Zenon
  <2>3. [i \in 1..1 |-> sig] = <<sig>>
    <3> HIDE DEF sig
    <3> QED
      BY SMT
  <2> QED
    BY <1>1, <2>1, <2>2, <2>3, Zenon
<1>3. Parse(tx.msg) = {t}
  BY <1>1, ToldIsParsed, Zenon
<1>4. Outcomes(tx) = UNION {RunAll(u) : u \in {u \in Parse(tx.msg) : Accepted(u, tx)}}
  BY Zenon DEF Outcomes
<1> HIDE DEF tx
<1>5. CASE IsInjective(t.keys)
  <2>1. {u \in Parse(tx.msg) : Accepted(u, tx)} = {t}
    BY <1>2, <1>3, <1>5, Zenon
  <2>2. Outcomes(tx) = UNION {RunAll(u) : u \in {t}}
    BY <1>4, <2>1
  <2>3. UNION {RunAll(u) : u \in {t}} = RunAll(t)
    OBVIOUS
  <2> QED
    BY <1>5, <2>2, <2>3 DEF tx
<1>6. CASE ~IsInjective(t.keys)
  <2>1. {u \in Parse(tx.msg) : Accepted(u, tx)} = {}
    BY <1>2, <1>3, <1>6, Zenon
  <2>2. Outcomes(tx) = UNION {RunAll(u) : u \in {}}
    BY <1>4, <2>1
  <2>3. UNION {RunAll(u) : u \in {}} = {}
    OBVIOUS
  <2> QED
    BY <1>6, <2>2, <2>3 DEF tx
<1> QED
  BY <1>5, <1>6

(* Nobody reads it, or somebody else has to sign it too.                   *)
Useless(tx) == \A t \in Parse(tx.msg) : t.required \in Nat \ {Len(tx.sigs)}

LEMMA UselessMovesNothing == ASSUME NEW tx, Useless(tx) PROVE Outcomes(tx) = {}
<1>1. ASSUME NEW t \in Parse(tx.msg) PROVE ~Accepted(t, tx)
  <2> DEFINE sig(i) == [pk |-> t.keys[i], msg |-> tx.msg]
  <2>1. PICK n \in Nat : n = t.required /\ n # Len(tx.sigs)
    BY <1>1 DEF Useless
  <2>2. Len([i \in 1..n |-> sig(i)]) = n
    <3> HIDE DEF sig
    <3> QED
      BY SMT
  <2> QED
    BY <2>1, <2>2, Zenon DEF Accepted
<1>2. Outcomes(tx) = UNION {RunAll(u) : u \in {u \in Parse(tx.msg) : Accepted(u, tx)}}
  BY Zenon DEF Outcomes
<1>3. {u \in Parse(tx.msg) : Accepted(u, tx)} = {}
  BY <1>1, Zenon
<1>4. UNION {RunAll(u) : u \in {}} = {}
  OBVIOUS
<1> QED
  BY <1>2, <1>3, <1>4

(* The ledgers after one more instruction.                                 *)
After(t, ins, ledgers) == UNION {Run(t, ins, l) : l \in ledgers}

LEMMA AfterOne == ASSUME NEW t, NEW ins, NEW l PROVE After(t, ins, {l}) = Run(t, ins, l)
<1>1. After(t, ins, {l}) = UNION {Run(t, ins, x) : x \in {l}}
  BY Zenon DEF After
<1>2. UNION {Run(t, ins, x) : x \in {l}} = Run(t, ins, l)
  OBVIOUS
<1> QED
  BY <1>1, <1>2

LEMMA AfterNothing == ASSUME NEW t, NEW ins PROVE After(t, ins, {}) = {}
BY DEF After

RanAre(f, t, n) ==
    f = [i \in 0..n |-> IF i = 0 THEN {Ledger} ELSE After(t, t.instructions[i], f[i - 1])]

LEMMA RanExist ==
  ASSUME NEW t, NEW n \in 1..2
  PROVE  \E f : RanAre(f, t, n)
<1> DEFINE one == After(t, t.instructions[1], {Ledger})
           two == After(t, t.instructions[2], one)
           f == [i \in 0..n |-> IF i = 0 THEN {Ledger} ELSE IF i = 1 THEN one ELSE two]
<1>1. ASSUME NEW i \in 0..n
      PROVE  f[i] = IF i = 0 THEN {Ledger} ELSE After(t, t.instructions[i], f[i - 1])
  <2> HIDE DEF Ledger
  <2>1. i = 0 \/ i = 1 \/ i = 2
    OBVIOUS
  <2>2. CASE i = 0
    BY <2>2
  <2>3. CASE i = 1
    <3>1. i - 1 = 0 /\ 0 \in 0..n
      BY <2>3
    <3>2. f[i - 1] = {Ledger}
      BY <3>1
    <3>3. f[i] = one
      BY <2>3
    <3> QED
      BY <2>3, <3>2, <3>3
  <2>4. CASE i = 2
    <3>1. i - 1 = 1 /\ 1 \in 0..n
      BY <2>4
    <3> HIDE DEF one, two
    <3>2. f[i - 1] = one
      BY <3>1
    <3>3. f[i] = two
      BY <2>4
    <3> QED
      BY <2>4, <3>2, <3>3 DEF two
  <2> QED
    BY <2>1, <2>2, <2>3, <2>4
<1>2. f = [i \in 0..n |-> f[i]]
  OBVIOUS
<1> HIDE DEF f
<1>3. f = [i \in 0..n |-> IF i = 0 THEN {Ledger} ELSE After(t, t.instructions[i], f[i - 1])]
  BY <1>1, <1>2, Zenon
<1> QED
  BY <1>3, Zenon DEF RanAre

LEMMA RunAllAre ==
  ASSUME NEW t, NEW n \in 1..2, Len(t.instructions) = n
  PROVE  \E f : /\ f[1] = Run(t, t.instructions[1], Ledger)
                /\ n = 2 => f[2] = After(t, t.instructions[2], f[1])
                /\ RunAll(t) = f[n]
<1> DEFINE Is(h) == h = [i \in 0..n |-> IF i = 0 THEN {Ledger} ELSE UNION {Run(t, t.instructions[i], l) : l \in h[i - 1]}]
           g == CHOOSE h : Is(h)
<1>2. \A h : Is(h) <=> RanAre(h, t, n)
  BY Zenon DEF RanAre, After
<1>3. \E h : Is(h)
  BY <1>2, RanExist, Zenon
<1>4. Is(g)
  BY <1>3, Zenon
<1>5. RanAre(g, t, n)
  BY <1>2, <1>4, Zenon
<1>6. RunAll(t) = g[n]
  BY Zenon DEF RunAll
<1> HIDE DEF g, Is
<1>7. \A i \in 0..n : g[i] = IF i = 0 THEN {Ledger} ELSE After(t, t.instructions[i], g[i - 1])
  BY <1>5, Zenon DEF RanAre
<1>8. /\ g[0] = {Ledger} /\ g[1] = After(t, t.instructions[1], g[0])
      /\ n = 2 => g[2] = After(t, t.instructions[2], g[1])
  <2>1. 0 \in 0..n /\ 1 \in 0..n /\ (n = 2 => 2 \in 0..n) /\ 1 - 1 = 0 /\ 2 - 1 = 1 /\ 1 # 0 /\ 2 # 0
    OBVIOUS
  <2>2. g[0] = {Ledger}
    BY <1>7, <2>1, Zenon
  <2>3. g[1] = After(t, t.instructions[1], g[1 - 1])
    BY <1>7, <2>1, Zenon
  <2>4. n = 2 => g[2] = After(t, t.instructions[2], g[2 - 1])
    BY <1>7, <2>1, Zenon
  <2> QED
    BY <2>1, <2>2, <2>3, <2>4, Zenon
<1>9. g[1] = Run(t, t.instructions[1], Ledger)
  BY <1>8, AfterOne, ZenonT(40)
<1> QED
  BY <1>6, <1>8, <1>9, Zenon

LEMMA RunAllOne ==
  ASSUME NEW t, NEW ins, t.instructions = <<ins>>
  PROVE  RunAll(t) = Run(t, ins, Ledger)
<1>1. Len(t.instructions) = 1 /\ t.instructions[1] = ins /\ 1 \in 1..2
  OBVIOUS
<1>2. PICK f : /\ f[1] = Run(t, t.instructions[1], Ledger)
               /\ 1 = 2 => f[2] = After(t, t.instructions[2], f[1])
               /\ RunAll(t) = f[1]
  BY <1>1, RunAllAre, Zenon
<1> QED
  BY <1>1, <1>2, Zenon

LEMMA RunAllTwo ==
  ASSUME NEW t, NEW ins, NEW more, t.instructions = <<ins, more>>
  PROVE  RunAll(t) = After(t, more, Run(t, ins, Ledger))
<1>1. Len(t.instructions) = 2 /\ t.instructions[1] = ins /\ t.instructions[2] = more /\ 2 \in 1..2
  OBVIOUS
<1>2. PICK f : /\ f[1] = Run(t, t.instructions[1], Ledger)
               /\ f[2] = After(t, t.instructions[2], f[1])
               /\ RunAll(t) = f[2]
  BY <1>1, RunAllAre, ZenonT(40)
<1> QED
  BY <1>1, <1>2, Zenon

Indexes(t, ins) == {ins.program} \cup Range(ins.accounts) \subseteq DOMAIN t.keys

LEMMA Dispatch ==
  ASSUME NEW t, NEW ins, NEW l, Indexes(t, ins)
  PROVE  /\ t.keys[ins.program] = SYSTEM_PROGRAM_ID /\ Len(ins.accounts) = 2
              => Run(t, ins, l) = TransferLamports(t, ins, l)
         /\ t.keys[ins.program] = SPL_TOKEN_PROGRAM_ID /\ Len(ins.accounts) = 3
              => Run(t, ins, l) = TransferTokens(t, ins, l)
         /\ t.keys[ins.program] = ATA_PROGRAM_ID /\ Len(ins.accounts) = 6
              => Run(t, ins, l) = CreateTokenAccount(t, ins, l)
<1> DEFINE program == t.keys[ins.program]
           accounts == Len(ins.accounts)
           fits == {ins.program} \cup Range(ins.accounts) \subseteq DOMAIN t.keys
           first == TransferLamports(t, ins, l)
           second == TransferTokens(t, ins, l)
           third == CreateTokenAccount(t, ins, l)
<1>1. fits
  BY Zenon DEF Indexes
<1>2. Run(t, ins, l) = IF ~(fits) THEN {}
                       ELSE CASE program = SYSTEM_PROGRAM_ID /\ accounts = 2 -> first
                              [] program = SPL_TOKEN_PROGRAM_ID /\ accounts = 3 -> second
                              [] program = ATA_PROGRAM_ID /\ accounts = 6 -> third
                              [] OTHER -> {}
  BY Zenon DEF Run
<1>3. SYSTEM_PROGRAM_ID # SPL_TOKEN_PROGRAM_ID /\ SYSTEM_PROGRAM_ID # ATA_PROGRAM_ID
      /\ SPL_TOKEN_PROGRAM_ID # ATA_PROGRAM_ID
  BY AddressAssumption, Zenon
<1>4. program = SYSTEM_PROGRAM_ID /\ accounts = 2 => Run(t, ins, l) = first
  <2> HIDE DEF program, accounts, fits, first, second, third
  <2> QED
    BY <1>1, <1>2, <1>3
<1>5. program = SPL_TOKEN_PROGRAM_ID /\ accounts = 3 => Run(t, ins, l) = second
  <2> HIDE DEF program, accounts, fits, first, second, third
  <2> QED
    BY <1>1, <1>2, <1>3
<1>6. program = ATA_PROGRAM_ID /\ accounts = 6 => Run(t, ins, l) = third
  <2> HIDE DEF program, accounts, fits, first, second, third
  <2> QED
    BY <1>1, <1>2, <1>3
<1> QED
  BY <1>4, <1>5, <1>6, Zenon

LamportsMoved(from, to, amount) == [Ledger EXCEPT !.lamports = Moved(@, from, to, amount)]

LEMMA SystemRuns ==
  ASSUME NEW from \in Wallet, NEW to \in Wallet, NEW amount \in Amount
  PROVE  RunAll(SystemTold(from, to, amount))
           = IF lamports[from] >= amount THEN {LamportsMoved(from, to, amount)} ELSE {}
<1> DEFINE t == SystemTold(from, to, amount)
           ins == Told1(3, <<1, 2>>, TagData \o AmountData(amount))
<1>1. /\ t.required = 1 /\ t.readonly_signed = 0 /\ t.readonly = 1
      /\ t.keys = <<from, to, SYSTEM_PROGRAM_ID>> /\ t.instructions = <<ins>>
  BY Zenon DEF SystemTold, Read
<1>2. ins.program = 3 /\ ins.accounts = <<1, 2>> /\ ins.data = TagData \o AmountData(amount)
  BY Zenon DEF Told1
<1> HIDE DEF t, ins
<1>3. /\ DOMAIN t.keys = 1..3 /\ Len(t.keys) = 3
      /\ t.keys[1] = from /\ t.keys[2] = to /\ t.keys[3] = SYSTEM_PROGRAM_ID
  BY <1>1
<1>4. Len(ins.accounts) = 2 /\ ins.accounts[1] = 1 /\ ins.accounts[2] = 2 /\ Range(ins.accounts) \subseteq 1..2
  BY <1>2 DEF Range
<1>5. RunAll(t) = TransferLamports(t, ins, Ledger)
  <2>1. Indexes(t, ins)
    BY <1>2, <1>3, <1>4 DEF Indexes
  <2> QED
    BY <1>1, <1>2, <1>3, <1>4, <2>1, RunAllOne, Dispatch, Zenon
<1>6. AmountBehind(LittleEndian(2, 4), ins.data) = {amount}
  BY <1>2, TagsAre, AmountIsBehind DEF TagData
<1>7. KeyAt(t, ins, 1) = from /\ KeyAt(t, ins, 2) = to
  BY <1>3, <1>4 DEF KeyAt
<1>8. Signs(t, ins.accounts[1]) /\ MayWrite(t, ins.accounts[1]) /\ MayWrite(t, ins.accounts[2])
  BY <1>1, <1>3, <1>4 DEF Signs, MayWrite
<1>9. TransferLamports(t, ins, Ledger) =
        {[Ledger EXCEPT !.lamports = Moved(@, KeyAt(t, ins, 1), KeyAt(t, ins, 2), a)] :
           a \in {a \in AmountBehind(LittleEndian(2, 4), ins.data) :
                    /\ Signs(t, ins.accounts[1])
                    /\ MayWrite(t, ins.accounts[1]) /\ MayWrite(t, ins.accounts[2])
                    /\ {KeyAt(t, ins, 1), KeyAt(t, ins, 2)} \subseteq Wallet
                    /\ Ledger.lamports[KeyAt(t, ins, 1)] >= a}}
  BY Zenon DEF TransferLamports
<1> DEFINE moved(a) == LamportsMoved(from, to, a)
           able(a) == lamports[from] >= a
<1>10. TransferLamports(t, ins, Ledger) = {moved(a) : a \in {a \in {amount} : able(a)}}
  <2>1. Ledger.lamports = lamports
    BY DEF Ledger
  <2>2. {from, to} \subseteq Wallet
    OBVIOUS
  <2> HIDE DEF Ledger
  <2>3. TransferLamports(t, ins, Ledger) =
          {[Ledger EXCEPT !.lamports = Moved(@, from, to, a)] : a \in {a \in {amount} : able(a)}}
    BY <1>6, <1>7, <1>8, <1>9, <2>1, <2>2
  <2> QED
    BY <2>3, Zenon DEF LamportsMoved
<1> HIDE DEF moved, able
<1>11. CASE able(amount)
  <2>1. {a \in {amount} : able(a)} = {amount}
    BY <1>11
  <2>2. {moved(a) : a \in {amount}} = {moved(amount)}
    OBVIOUS
  <2>3. RunAll(t) = {moved(amount)}
    BY <1>5, <1>10, <2>1, <2>2
  <2> QED
    BY <1>11, <2>3, Zenon DEF t, able, moved
<1>12. CASE ~able(amount)
  <2>1. {a \in {amount} : able(a)} = {}
    BY <1>12
  <2>2. {moved(a) : a \in {}} = {}
    OBVIOUS
  <2>3. RunAll(t) = {}
    BY <1>5, <1>10, <2>1, <2>2
  <2> QED
    BY <1>12, <2>3, Zenon DEF t, able
<1> QED
  BY <1>11, <1>12

TokensMoved(l, source, dest, amount) == [l EXCEPT !.tokens = Moved(@, source, dest, amount)]

HasTokens(l, source, dest, amount) == {source, dest} \subseteq DOMAIN l.tokens /\ l.tokens[source] >= amount

(* The instruction names the accounts of a transfer of tokens, with the    *)
(* rights that it takes.                                                   *)
Names(t, ins, source, dest, owner, amount) ==
    /\ AmountBehind(<<3>>, ins.data) = {amount}
    /\ KeyAt(t, ins, 1) = source /\ KeyAt(t, ins, 2) = dest /\ KeyAt(t, ins, 3) = owner
    /\ Signs(t, ins.accounts[3]) /\ MayWrite(t, ins.accounts[1]) /\ MayWrite(t, ins.accounts[2])

MovesTokens(ledgers, l, source, dest, amount) ==
    ledgers = IF HasTokens(l, source, dest, amount) THEN {TokensMoved(l, source, dest, amount)} ELSE {}

LEMMA TokensRun ==
  ASSUME NEW from \in Wallet, NEW to \in Wallet, NEW mint \in Mint, NEW source, NEW dest,
         source = Ata(from, mint), dest = Ata(to, mint),
         NEW t, NEW ins, NEW amount, Names(t, ins, source, dest, from, amount), NEW l
  PROVE  MovesTokens(TransferTokens(t, ins, l), l, source, dest, amount)
<1> DEFINE known == \E m \in Mint, w \in Wallet : /\ <<from, m>> \in DOMAIN TokenAccount
                                                  /\ source = Ata(from, m)
                                                  /\ dest = Ata(w, m)
           moved(a) == TokensMoved(l, source, dest, a)
           able(a) == HasTokens(l, source, dest, a)
<1>0. /\ AmountBehind(<<3>>, ins.data) = {amount}
      /\ KeyAt(t, ins, 1) = source /\ KeyAt(t, ins, 2) = dest /\ KeyAt(t, ins, 3) = from
      /\ Signs(t, ins.accounts[3]) /\ MayWrite(t, ins.accounts[1]) /\ MayWrite(t, ins.accounts[2])
  BY Zenon DEF Names
<1>1. known
  <2>1. <<from, mint>> \in DOMAIN TokenAccount
    <3>1. DOMAIN TokenAccount = Wallet \X Mint
      BY AddressAssumption, Zenon
    <3> QED
      BY <3>1
  <2> QED
    BY <2>1, Zenon
<1>2. TransferTokens(t, ins, l) =
        {[l EXCEPT !.tokens = Moved(@, source, dest, a)] :
           a \in {a \in {amount} : /\ {source, dest} \subseteq DOMAIN l.tokens
                                   /\ l.tokens[source] >= a}}
  <2> DEFINE knownAs(s, d, o) == \E m \in Mint, w \in Wallet : /\ <<o, m>> \in DOMAIN TokenAccount
                                                               /\ s = Ata(o, m)
                                                               /\ d = Ata(w, m)
             allowed(s, d, o, a) == /\ Signs(t, ins.accounts[3])
                                    /\ MayWrite(t, ins.accounts[1]) /\ MayWrite(t, ins.accounts[2])
                                    /\ {s, d} \subseteq DOMAIN l.tokens
                                    /\ knownAs(s, d, o)
                                    /\ l.tokens[s] >= a
             after(s, d, o, amounts) == {[l EXCEPT !.tokens = Moved(@, s, d, a)] :
                                           a \in {a \in amounts : allowed(s, d, o, a)}}
  <2>1. TransferTokens(t, ins, l)
          = after(KeyAt(t, ins, 1), KeyAt(t, ins, 2), KeyAt(t, ins, 3), AmountBehind(<<3>>, ins.data))
    BY Zenon DEF TransferTokens, Ata
  <2>2. TransferTokens(t, ins, l) = after(source, dest, from, {amount})
    <3> HIDE DEF after
    <3> QED
      BY <1>0, <2>1, Zenon
  <2>3. \A a : allowed(source, dest, from, a)
                 <=> {source, dest} \subseteq DOMAIN l.tokens /\ l.tokens[source] >= a
    BY <1>0, <1>1, Zenon
  <2> HIDE DEF knownAs, allowed
  <2>4. {a \in {amount} : allowed(source, dest, from, a)}
          = {a \in {amount} : /\ {source, dest} \subseteq DOMAIN l.tokens
                              /\ l.tokens[source] >= a}
    BY <2>3, Zenon
  <2> QED
    BY <2>2, <2>4, Zenon
<1>3. TransferTokens(t, ins, l) = {moved(a) : a \in {a \in {amount} : able(a)}}
  BY <1>2, Zenon DEF TokensMoved, HasTokens
<1> HIDE DEF moved, able
<1>4. CASE able(amount)
  <2>1. {a \in {amount} : able(a)} = {amount}
    BY <1>4
  <2>2. {moved(a) : a \in {amount}} = {moved(amount)}
    OBVIOUS
  <2>3. TransferTokens(t, ins, l) = {moved(amount)}
    BY <1>3, <2>1, <2>2
  <2> QED
    BY <1>4, <2>3, Zenon DEF able, moved, MovesTokens
<1>5. CASE ~able(amount)
  <2>1. {a \in {amount} : able(a)} = {}
    BY <1>5
  <2>2. {moved(a) : a \in {}} = {}
    OBVIOUS
  <2>3. TransferTokens(t, ins, l) = {}
    BY <1>3, <2>1, <2>2
  <2> QED
    BY <1>5, <2>3, Zenon DEF able, MovesTokens
<1> QED
  BY <1>4, <1>5

LEMMA ThreeIsBehind ==
  ASSUME NEW amount \in Amount
  PROVE  AmountBehind(<< 3 >>, << 3 >> \o AmountData(amount)) = {amount}
<1>1. PICK tag \in Seq(Octet) : tag = <<3>>
  BY TagsAre
<1>2. AmountBehind(tag, tag \o AmountData(amount)) = {amount}
  BY AmountIsBehind
<1> QED
  BY <1>1, <1>2, Zenon

LEMMA FourKeys ==
  ASSUME NEW keys, NEW a, NEW b, NEW c, NEW d, keys = <<a, b, c, d>>
  PROVE  /\ DOMAIN keys = 1..4 /\ Len(keys) = 4
         /\ keys[1] = a /\ keys[2] = b /\ keys[3] = c /\ keys[4] = d
OBVIOUS

LEMMA TransferAccounts ==
  ASSUME NEW accounts, accounts = << 2, 3, 1 >>
  PROVE  /\ Len(accounts) = 3 /\ accounts[1] = 2 /\ accounts[2] = 3 /\ accounts[3] = 1
         /\ Range(accounts) \subseteq 1..3
BY DEF Range

(* The keys and the instructions that the network reads.                   *)
Lists(t, keys, instructions) == t.required = 1 /\ t.keys = keys /\ t.instructions = instructions

Calls(t, ins, program, accounts) ==
    Indexes(t, ins) /\ t.keys[ins.program] = program /\ Len(ins.accounts) = accounts

LEMMA SplToldIs ==
  ASSUME NEW source, NEW dest, NEW owner, NEW amount \in Amount, NEW t, t = SplTold(source, dest, owner, amount)
  PROVE  \E ins : /\ Lists(t, <<owner, source, dest, SPL_TOKEN_PROGRAM_ID>>, <<ins>>)
                  /\ Calls(t, ins, SPL_TOKEN_PROGRAM_ID, 3)
                  /\ Names(t, ins, source, dest, owner, amount)
<1> DEFINE ins == Told1(4, <<2, 3, 1>>, <<3>> \o AmountData(amount))
<1>1. /\ t.required = 1 /\ t.readonly_signed = 0 /\ t.readonly = 1
      /\ t.keys = <<owner, source, dest, SPL_TOKEN_PROGRAM_ID>> /\ t.instructions = <<ins>>
  BY Zenon DEF SplTold, Read
<1>2. ins.program = 4 /\ ins.accounts = <<2, 3, 1>> /\ ins.data = <<3>> \o AmountData(amount)
  BY Zenon DEF Told1
<1> HIDE DEF ins
<1>3. PICK keys : keys = t.keys
  OBVIOUS
<1>4. PICK accounts : accounts = ins.accounts
  OBVIOUS
<1>5. /\ DOMAIN keys = 1..4 /\ Len(keys) = 4
      /\ keys[1] = owner /\ keys[2] = source /\ keys[3] = dest /\ keys[4] = SPL_TOKEN_PROGRAM_ID
  <2>1. keys = <<owner, source, dest, SPL_TOKEN_PROGRAM_ID>>
    BY <1>1, <1>3, Zenon
  <2> QED
    BY <2>1, FourKeys
<1>6. /\ Len(accounts) = 3 /\ accounts[1] = 2 /\ accounts[2] = 3 /\ accounts[3] = 1
      /\ Range(accounts) \subseteq 1..3
  <2>1. accounts = <<2, 3, 1>>
    BY <1>2, <1>4, Zenon
  <2> QED
    BY <2>1, TransferAccounts
<1>7. Indexes(t, ins)
  BY <1>2, <1>3, <1>4, <1>5, <1>6 DEF Indexes
<1>8. KeyAt(t, ins, 1) = source /\ KeyAt(t, ins, 2) = dest /\ KeyAt(t, ins, 3) = owner
  BY <1>3, <1>4, <1>5, <1>6, Zenon DEF KeyAt
<1>9. Signs(t, ins.accounts[3]) /\ MayWrite(t, ins.accounts[1]) /\ MayWrite(t, ins.accounts[2])
  BY <1>1, <1>3, <1>4, <1>5, <1>6 DEF Signs, MayWrite
<1>10. AmountBehind(<<3>>, ins.data) = {amount}
  BY <1>2, ThreeIsBehind, Zenon
<1>11. Names(t, ins, source, dest, owner, amount)
  BY <1>8, <1>9, <1>10, Zenon DEF Names
<1>12. t.keys[ins.program] = SPL_TOKEN_PROGRAM_ID /\ Len(ins.accounts) = 3
  BY <1>2, <1>3, <1>4, <1>5, <1>6, Zenon
<1> QED
  BY <1>1, <1>7, <1>11, <1>12, Zenon DEF Lists, Calls

LEMMA SplRuns ==
  ASSUME NEW from \in Wallet, NEW to \in Wallet, NEW mint \in Mint, NEW amount \in Amount,
         NEW source, source = Ata(from, mint), NEW dest, dest = Ata(to, mint)
  PROVE  MovesTokens(RunAll(SplTold(source, dest, from, amount)), Ledger, source, dest, amount)
<1>0. PICK t : t = SplTold(source, dest, from, amount)
  OBVIOUS
<1>1. PICK ins : /\ Lists(t, <<from, source, dest, SPL_TOKEN_PROGRAM_ID>>, <<ins>>)
                 /\ Calls(t, ins, SPL_TOKEN_PROGRAM_ID, 3)
                 /\ Names(t, ins, source, dest, from, amount)
  BY <1>0, SplToldIs
<1>2. RunAll(t) = TransferTokens(t, ins, Ledger)
  BY <1>1, RunAllOne, Dispatch, Zenon DEF Lists, Calls
<1>3. PICK l : l = Ledger
  OBVIOUS
<1>4. MovesTokens(TransferTokens(t, ins, l), l, source, dest, amount)
  BY <1>1, TokensRun
<1> QED
  BY <1>0, <1>2, <1>3, <1>4, Zenon

(* The instruction names the accounts that creating one takes.             *)
Creates(t, ins, account, owner, mint) ==
    /\ ins.data = << >> /\ Signs(t, ins.accounts[1])
    /\ MayWrite(t, ins.accounts[1]) /\ MayWrite(t, ins.accounts[2])
    /\ KeyAt(t, ins, 2) = account /\ KeyAt(t, ins, 3) = owner /\ KeyAt(t, ins, 4) = mint
    /\ KeyAt(t, ins, 5) = SYSTEM_PROGRAM_ID /\ KeyAt(t, ins, 6) = SPL_TOKEN_PROGRAM_ID

AccountOpened(l, account) == [l EXCEPT !.tokens = Opened(@, account)]

OpensAccount(ledgers, l, account) ==
    ledgers = IF account \in DOMAIN l.tokens THEN {} ELSE {AccountOpened(l, account)}

LEMMA CreateRun ==
  ASSUME NEW to \in Wallet, NEW mint \in Mint, NEW dest, dest = Ata(to, mint),
         NEW t, NEW ins, Creates(t, ins, dest, to, mint), NEW l
  PROVE  OpensAccount(CreateTokenAccount(t, ins, l), l, dest)
<1> DEFINE able(account, owner, m, fifth, sixth) ==
             /\ ins.data = << >>
             /\ Signs(t, ins.accounts[1])
             /\ MayWrite(t, ins.accounts[1]) /\ MayWrite(t, ins.accounts[2])
             /\ <<owner, m>> \in DOMAIN TokenAccount /\ account = TokenAccount[<<owner, m>>]
             /\ account \notin DOMAIN l.tokens
             /\ fifth = SYSTEM_PROGRAM_ID /\ sixth = SPL_TOKEN_PROGRAM_ID
           after(account, owner, m, fifth, sixth) ==
             IF able(account, owner, m, fifth, sixth) THEN {[l EXCEPT !.tokens = Opened(@, account)]} ELSE {}
<1>1. CreateTokenAccount(t, ins, l)
        = after(KeyAt(t, ins, 2), KeyAt(t, ins, 3), KeyAt(t, ins, 4),
                KeyAt(t, ins, 5), KeyAt(t, ins, 6))
  BY Zenon DEF CreateTokenAccount
<1>2. CreateTokenAccount(t, ins, l) = after(dest, to, mint, SYSTEM_PROGRAM_ID, SPL_TOKEN_PROGRAM_ID)
  <2> HIDE DEF after
  <2> QED
    BY <1>1, Zenon DEF Creates
<1>3. <<to, mint>> \in DOMAIN TokenAccount
  <2>1. DOMAIN TokenAccount = Wallet \X Mint
    BY AddressAssumption, Zenon
  <2> QED
    BY <2>1
<1>4. able(dest, to, mint, SYSTEM_PROGRAM_ID, SPL_TOKEN_PROGRAM_ID) <=> dest \notin DOMAIN l.tokens
  BY <1>3, Zenon DEF Creates, Ata
<1>5. CreateTokenAccount(t, ins, l) = IF able(dest, to, mint, SYSTEM_PROGRAM_ID, SPL_TOKEN_PROGRAM_ID)
                                      THEN {[l EXCEPT !.tokens = Opened(@, dest)]} ELSE {}
  BY <1>2, Zenon
<1>6. AccountOpened(l, dest) = [l EXCEPT !.tokens = Opened(@, dest)]
  BY Zenon DEF AccountOpened
<1> HIDE DEF able, after
<1> QED
  BY <1>4, <1>5, <1>6, Zenon DEF OpensAccount

LEMMA EightKeys ==
  ASSUME NEW keys, NEW a, NEW b, NEW c, NEW d, NEW e, NEW f, NEW g, NEW h, keys = <<a, b, c, d, e, f, g, h>>
  PROVE  /\ DOMAIN keys = 1..8 /\ Len(keys) = 8
         /\ keys[1] = a /\ keys[2] = b /\ keys[3] = c /\ keys[4] = d
         /\ keys[5] = e /\ keys[6] = f /\ keys[7] = g /\ keys[8] = h
OBVIOUS

LEMMA CreateAccounts ==
  ASSUME NEW accounts, accounts = << 1, 3, 4, 5, 6, 7 >>
  PROVE  /\ Len(accounts) = 6 /\ accounts[1] = 1 /\ accounts[2] = 3 /\ accounts[3] = 4
         /\ accounts[4] = 5 /\ accounts[5] = 6 /\ accounts[6] = 7
         /\ Range(accounts) \subseteq 1..7
BY DEF Range

LEMMA CreateToldIs ==
  ASSUME NEW source, NEW dest, NEW owner, NEW to, NEW mint, NEW amount \in Amount, NEW t,
         t = CreateTold(source, dest, owner, to, mint, amount)
  PROVE  \E ins, more :
           /\ Lists(t, <<owner, source, dest, to, mint,
                         SYSTEM_PROGRAM_ID, SPL_TOKEN_PROGRAM_ID, ATA_PROGRAM_ID>>, <<ins, more>>)
           /\ Calls(t, ins, ATA_PROGRAM_ID, 6) /\ Creates(t, ins, dest, to, mint)
           /\ Calls(t, more, SPL_TOKEN_PROGRAM_ID, 3) /\ Names(t, more, source, dest, owner, amount)
<1> DEFINE ins == Told1(8, <<1, 3, 4, 5, 6, 7>>, << >>)
           more == Told1(7, <<2, 3, 1>>, <<3>> \o AmountData(amount))
<1>1. /\ t.required = 1 /\ t.readonly_signed = 0 /\ t.readonly = 5
      /\ t.keys = <<owner, source, dest, to, mint,
                    SYSTEM_PROGRAM_ID, SPL_TOKEN_PROGRAM_ID, ATA_PROGRAM_ID>>
      /\ t.instructions = <<ins, more>>
  BY Zenon DEF CreateTold, Read
<1>2. ins.program = 8 /\ ins.accounts = <<1, 3, 4, 5, 6, 7>> /\ ins.data = << >>
  BY Zenon DEF Told1
<1>3. more.program = 7 /\ more.accounts = <<2, 3, 1>> /\ more.data = <<3>> \o AmountData(amount)
  BY Zenon DEF Told1
<1> HIDE DEF ins, more
<1>4. PICK keys : keys = t.keys
  OBVIOUS
<1>5. PICK accounts : accounts = ins.accounts
  OBVIOUS
<1>6. PICK others : others = more.accounts
  OBVIOUS
<1>7. /\ DOMAIN keys = 1..8 /\ Len(keys) = 8
      /\ keys[1] = owner /\ keys[2] = source /\ keys[3] = dest /\ keys[4] = to
      /\ keys[5] = mint /\ keys[6] = SYSTEM_PROGRAM_ID /\ keys[7] = SPL_TOKEN_PROGRAM_ID /\ keys[8] = ATA_PROGRAM_ID
  <2>1. keys = <<owner, source, dest, to, mint, SYSTEM_PROGRAM_ID, SPL_TOKEN_PROGRAM_ID, ATA_PROGRAM_ID>>
    BY <1>1, <1>4, Zenon
  <2> QED
    BY <2>1, EightKeys
<1>8. /\ Len(accounts) = 6 /\ accounts[1] = 1 /\ accounts[2] = 3 /\ accounts[3] = 4
      /\ accounts[4] = 5 /\ accounts[5] = 6 /\ accounts[6] = 7
      /\ Range(accounts) \subseteq 1..7
  <2>1. accounts = <<1, 3, 4, 5, 6, 7>>
    BY <1>2, <1>5, Zenon
  <2> QED
    BY <2>1, CreateAccounts
<1>9. /\ Len(others) = 3 /\ others[1] = 2 /\ others[2] = 3 /\ others[3] = 1
      /\ Range(others) \subseteq 1..3
  <2>1. others = <<2, 3, 1>>
    BY <1>3, <1>6, Zenon
  <2> QED
    BY <2>1, TransferAccounts
<1>10. Indexes(t, ins)
  BY <1>2, <1>4, <1>5, <1>7, <1>8 DEF Indexes
<1>11. Indexes(t, more)
  BY <1>3, <1>4, <1>6, <1>7, <1>9 DEF Indexes
<1>12. /\ KeyAt(t, ins, 2) = dest /\ KeyAt(t, ins, 3) = to /\ KeyAt(t, ins, 4) = mint
       /\ KeyAt(t, ins, 5) = SYSTEM_PROGRAM_ID /\ KeyAt(t, ins, 6) = SPL_TOKEN_PROGRAM_ID
  BY <1>4, <1>5, <1>7, <1>8, Zenon DEF KeyAt
<1>13. KeyAt(t, more, 1) = source /\ KeyAt(t, more, 2) = dest /\ KeyAt(t, more, 3) = owner
  BY <1>4, <1>6, <1>7, <1>9, Zenon DEF KeyAt
<1>14. Signs(t, ins.accounts[1]) /\ MayWrite(t, ins.accounts[1]) /\ MayWrite(t, ins.accounts[2])
  BY <1>1, <1>4, <1>5, <1>7, <1>8 DEF Signs, MayWrite
<1>15. Signs(t, more.accounts[3]) /\ MayWrite(t, more.accounts[1]) /\ MayWrite(t, more.accounts[2])
  BY <1>1, <1>4, <1>6, <1>7, <1>9 DEF Signs, MayWrite
<1>16. AmountBehind(<<3>>, more.data) = {amount}
  BY <1>3, ThreeIsBehind, Zenon
<1>17. Names(t, more, source, dest, owner, amount)
  BY <1>13, <1>15, <1>16, Zenon DEF Names
<1>18. Creates(t, ins, dest, to, mint)
  BY <1>2, <1>12, <1>14, Zenon DEF Creates
<1>19. Calls(t, ins, ATA_PROGRAM_ID, 6)
  BY <1>2, <1>4, <1>5, <1>7, <1>8, <1>10, Zenon DEF Calls
<1>20. Calls(t, more, SPL_TOKEN_PROGRAM_ID, 3)
  BY <1>3, <1>4, <1>6, <1>7, <1>9, <1>11, Zenon DEF Calls
<1> QED
  BY <1>1, <1>17, <1>18, <1>19, <1>20, Zenon DEF Lists

LEMMA CreateRuns ==
  ASSUME NEW from \in Wallet, NEW to \in Wallet, NEW mint \in Mint, NEW amount \in Amount,
         NEW source, source = Ata(from, mint), NEW dest, dest = Ata(to, mint),
         NEW result, result = RunAll(CreateTold(source, dest, from, to, mint, amount))
  PROVE  /\ dest \in DOMAIN tokens => result = {}
         /\ dest \notin DOMAIN tokens => MovesTokens(result, AccountOpened(Ledger, dest), source, dest, amount)
<1>0. PICK t : t = CreateTold(source, dest, from, to, mint, amount)
  OBVIOUS
<1>1. PICK ins, more :
           /\ Lists(t, <<from, source, dest, to, mint,
                         SYSTEM_PROGRAM_ID, SPL_TOKEN_PROGRAM_ID, ATA_PROGRAM_ID>>, <<ins, more>>)
           /\ Calls(t, ins, ATA_PROGRAM_ID, 6) /\ Creates(t, ins, dest, to, mint)
           /\ Calls(t, more, SPL_TOKEN_PROGRAM_ID, 3) /\ Names(t, more, source, dest, from, amount)
  BY <1>0, CreateToldIs
<1>2. RunAll(t) = After(t, more, Run(t, ins, Ledger))
  BY <1>1, RunAllTwo, Zenon DEF Lists
<1>3. PICK l : l = Ledger
  OBVIOUS
<1>4. PICK opened : opened = AccountOpened(Ledger, dest)
  OBVIOUS
<1>5. Run(t, ins, l) = CreateTokenAccount(t, ins, l)
  BY <1>1, Dispatch, Zenon DEF Calls
<1>6. Run(t, more, opened) = TransferTokens(t, more, opened)
  BY <1>1, Dispatch, Zenon DEF Calls
<1>7. OpensAccount(CreateTokenAccount(t, ins, l), l, dest)
  BY <1>1, CreateRun
<1>8. MovesTokens(TransferTokens(t, more, opened), opened, source, dest, amount)
  BY <1>1, TokensRun
<1>9. l.tokens = tokens
  BY <1>3 DEF Ledger
<1>10. CASE dest \in DOMAIN tokens
  <2>1. Run(t, ins, l) = {}
    BY <1>5, <1>7, <1>9, <1>10, Zenon DEF OpensAccount
  <2> QED
    BY <1>0, <1>2, <1>3, <1>10, <2>1, AfterNothing, Zenon
<1>11. CASE dest \notin DOMAIN tokens
  <2>1. Run(t, ins, l) = {opened}
    BY <1>3, <1>4, <1>5, <1>7, <1>9, <1>11, Zenon DEF OpensAccount
  <2>2. After(t, more, Run(t, ins, l)) = Run(t, more, opened)
    BY <2>1, AfterOne, Zenon
  <2> QED
    BY <1>0, <1>2, <1>3, <1>4, <1>6, <1>8, <1>11, <2>2, Zenon
<1> QED
  BY <1>10, <1>11

-----------------------------------------------------------------------------
(* What was meant *)

Kinds ==
    /\ SYSTEM_PROGRAM_ID # SPL_TOKEN_PROGRAM_ID /\ SYSTEM_PROGRAM_ID # ATA_PROGRAM_ID
    /\ SPL_TOKEN_PROGRAM_ID # ATA_PROGRAM_ID
    /\ \A w \in Wallet : w \notin Mint /\ w \notin Programs
    /\ \A m \in Mint : m \notin Programs
    /\ \A w \in Wallet, m \in Mint : Ata(w, m) \notin Wallet \cup Mint \cup Programs
    /\ \A w, v \in Wallet, m \in Mint : Ata(w, m) = Ata(v, m) => w = v

LEMMA PairsEqual == \A a, b, c, d : <<a, b>> = <<c, d>> => a = c /\ b = d
OBVIOUS

LEMMA KindsDiffer == Kinds
<1>1. Wallet \cap Mint = {} /\ (Wallet \cup Mint) \cap Programs = {}
  BY AddressAssumption, Zenon
<1>2. \A w \in Wallet, m \in Mint : Ata(w, m) \notin Wallet \cup Mint \cup Programs
  BY AddressAssumption, Zenon DEF Ata
<1>3. ASSUME NEW w \in Wallet, NEW v \in Wallet, NEW m \in Mint, Ata(w, m) = Ata(v, m)
      PROVE  w = v
  <2>1. PICK f, a, b : f = TokenAccount /\ a = <<w, m>> /\ b = <<v, m>>
    OBVIOUS
  <2>2. IsInjective(f) /\ DOMAIN f = Wallet \X Mint
    BY <2>1, AddressAssumption, Zenon
  <2>3. a \in Wallet \X Mint /\ b \in Wallet \X Mint
    BY <2>1, Zenon
  <2>4. f[a] = f[b]
    BY <1>3, <2>1, Zenon DEF Ata
  <2>5. a = b
    BY <2>2, <2>3, <2>4, Zenon DEF IsInjective
  <2>6. <<w, m>> = <<v, m>>
    BY <2>1, <2>5, Zenon
  <2> QED
    BY <2>6, PairsEqual, Zenon
<1>4. SYSTEM_PROGRAM_ID # SPL_TOKEN_PROGRAM_ID /\ SYSTEM_PROGRAM_ID # ATA_PROGRAM_ID
      /\ SPL_TOKEN_PROGRAM_ID # ATA_PROGRAM_ID
  BY AddressAssumption, Zenon
<1>5. (\A w \in Wallet : w \notin Mint /\ w \notin Programs) /\ \A m \in Mint : m \notin Programs
  BY <1>1, Zenon
<1> QED
  BY <1>2, <1>3, <1>4, <1>5, Zenon DEF Kinds

LEMMA SystemKeys ==
  ASSUME NEW from \in Wallet, NEW to \in Wallet
  PROVE  IsInjective(<<from, to, SYSTEM_PROGRAM_ID>>) <=> from # to
<1>1. from # SYSTEM_PROGRAM_ID /\ to # SYSTEM_PROGRAM_ID
  BY KindsDiffer DEF Kinds, Programs
<1>2. PICK keys, sys : keys = <<from, to, sys>> /\ sys = SYSTEM_PROGRAM_ID
  OBVIOUS
<1>3. DOMAIN keys = 1..3 /\ keys[1] = from /\ keys[2] = to /\ keys[3] = sys
  BY <1>2
<1>4. IsInjective(keys) <=> \A i, j \in 1..3 : keys[i] = keys[j] => i = j
  BY <1>3, Zenon DEF IsInjective
<1>5. IsInjective(keys) <=> from # to
  BY <1>1, <1>2, <1>3, <1>4
<1> QED
  BY <1>2, <1>5, Zenon

LEMMA UpToFour ==
  /\ \A i \in 1..4 : i = 1 \/ i = 2 \/ i = 3 \/ i = 4
  /\ 2 \in 1..4 /\ 3 \in 1..4 /\ 2 # 3
OBVIOUS

LEMMA UpToEight ==
  /\ \A i \in 1..8 : i = 1 \/ i = 2 \/ i = 3 \/ i = 4 \/ i = 5 \/ i = 6 \/ i = 7 \/ i = 8
  /\ 1 \in 1..8 /\ 4 \in 1..8 /\ 1 # 4
OBVIOUS

LEMMA SplKeys ==
  ASSUME NEW from \in Wallet, NEW to \in Wallet, NEW mint \in Mint,
         NEW source, source = Ata(from, mint), NEW dest, dest = Ata(to, mint)
  PROVE  IsInjective(<<from, source, dest, SPL_TOKEN_PROGRAM_ID>>) <=> from # to
<1>1. PICK keys, token : keys = <<from, source, dest, token>> /\ token = SPL_TOKEN_PROGRAM_ID
  OBVIOUS
<1>2. DOMAIN keys = 1..4 /\ keys[1] = from /\ keys[2] = source /\ keys[3] = dest /\ keys[4] = token
  BY <1>1, FourKeys
<1>3. /\ from # source /\ from # dest /\ from # token /\ source # token /\ dest # token
      /\ source = dest <=> from = to
  <2>1. source \notin Wallet \cup Mint \cup Programs /\ dest \notin Wallet \cup Mint \cup Programs
    BY KindsDiffer, Zenon DEF Kinds
  <2>2. source = dest <=> from = to
    BY KindsDiffer, Zenon DEF Kinds
  <2>3. token \in Programs /\ from \notin Programs
    BY <1>1, KindsDiffer DEF Kinds, Programs
  <2> QED
    BY <2>1, <2>2, <2>3, Zenon
<1>4. IsInjective(keys) <=> \A i, j \in 1..4 : keys[i] = keys[j] => i = j
  BY <1>2, Zenon DEF IsInjective
<1>5. CASE source = dest
  <2>1. keys[2] = keys[3] /\ 2 \in 1..4 /\ 3 \in 1..4 /\ 2 # 3
    BY <1>2, <1>5, UpToFour, Zenon
  <2> QED
    BY <1>1, <1>3, <1>4, <1>5, <2>1, Zenon
<1>6. CASE source # dest
  <2>1. \A i, j \in 1..4 : keys[i] = keys[j] => i = j
    <3>1. \A i \in 1..4 : i = 1 \/ i = 2 \/ i = 3 \/ i = 4
      BY UpToFour, Zenon
    <3> QED
      BY <1>2, <1>3, <1>6, <3>1, Zenon
  <2> QED
    BY <1>1, <1>3, <1>4, <1>6, <2>1, Zenon
<1> QED
  BY <1>5, <1>6

LEMMA CreateKeys ==
  ASSUME NEW from \in Wallet, NEW to \in Wallet, NEW mint \in Mint,
         NEW source, source = Ata(from, mint), NEW dest, dest = Ata(to, mint)
  PROVE  IsInjective(<<from, source, dest, to, mint,
                       SYSTEM_PROGRAM_ID, SPL_TOKEN_PROGRAM_ID, ATA_PROGRAM_ID>>) <=> from # to
<1>1. PICK keys, sys, token, ata : /\ keys = <<from, source, dest, to, mint, sys, token, ata>>
                                   /\ sys = SYSTEM_PROGRAM_ID /\ token = SPL_TOKEN_PROGRAM_ID
                                   /\ ata = ATA_PROGRAM_ID
  OBVIOUS
<1>2. /\ DOMAIN keys = 1..8 /\ keys[1] = from /\ keys[2] = source /\ keys[3] = dest /\ keys[4] = to
      /\ keys[5] = mint /\ keys[6] = sys /\ keys[7] = token /\ keys[8] = ata
  BY <1>1, EightKeys
<1>3. /\ sys \in Programs /\ token \in Programs /\ ata \in Programs
      /\ sys # token /\ sys # ata /\ token # ata
  BY <1>1, KindsDiffer DEF Kinds, Programs
<1>4. /\ source \notin Wallet \cup Mint \cup Programs /\ dest \notin Wallet \cup Mint \cup Programs
      /\ source = dest <=> from = to
  BY KindsDiffer, Zenon DEF Kinds
<1>5. /\ from \notin Mint /\ from \notin Programs /\ to \notin Mint /\ to \notin Programs
      /\ mint \notin Programs
  BY KindsDiffer, Zenon DEF Kinds
<1>6. IsInjective(keys) <=> \A i, j \in 1..8 : keys[i] = keys[j] => i = j
  BY <1>2, Zenon DEF IsInjective
<1>7. CASE from = to
  <2>1. keys[1] = keys[4] /\ 1 \in 1..8 /\ 4 \in 1..8 /\ 1 # 4
    BY <1>2, <1>7, UpToEight, Zenon
  <2> QED
    BY <1>1, <1>6, <1>7, <2>1, Zenon
<1>8. CASE from # to
  <2>1. /\ from # source /\ from # dest /\ from # to /\ from # mint /\ from # sys /\ from # token /\ from # ata
        /\ source # dest /\ source # to /\ source # mint /\ source # sys /\ source # token /\ source # ata
        /\ dest # to /\ dest # mint /\ dest # sys /\ dest # token /\ dest # ata
        /\ to # mint /\ to # sys /\ to # token /\ to # ata
        /\ mint # sys /\ mint # token /\ mint # ata
        /\ sys # token /\ sys # ata /\ token # ata
    BY <1>3, <1>4, <1>5, <1>8, Zenon
  <2>2. \A i, j \in 1..8 : keys[i] = keys[j] => i = j
    <3>1. \A i \in 1..8 : i = 1 \/ i = 2 \/ i = 3 \/ i = 4 \/ i = 5 \/ i = 6 \/ i = 7 \/ i = 8
      BY UpToEight, Zenon
    <3> SUFFICES ASSUME NEW i \in 1..8, NEW j \in 1..8, keys[i] = keys[j] PROVE i = j
      OBVIOUS
    <3>2. j = 1 \/ j = 2 \/ j = 3 \/ j = 4 \/ j = 5 \/ j = 6 \/ j = 7 \/ j = 8
      BY <3>1, Zenon
    <3>3. CASE i = 1
      BY <1>2, <2>1, <3>2, <3>3, Zenon
    <3>4. CASE i = 2
      BY <1>2, <2>1, <3>2, <3>4, Zenon
    <3>5. CASE i = 3
      BY <1>2, <2>1, <3>2, <3>5, Zenon
    <3>6. CASE i = 4
      BY <1>2, <2>1, <3>2, <3>6, Zenon
    <3>7. CASE i = 5
      BY <1>2, <2>1, <3>2, <3>7, Zenon
    <3>8. CASE i = 6
      BY <1>2, <2>1, <3>2, <3>8, Zenon
    <3>9. CASE i = 7
      BY <1>2, <2>1, <3>2, <3>9, Zenon
    <3>10. CASE i = 8
      BY <1>2, <2>1, <3>2, <3>10, Zenon
    <3> QED
      BY <3>1, <3>3, <3>4, <3>5, <3>6, <3>7, <3>8, <3>9, <3>10, Zenon
  <2> QED
    BY <1>1, <1>6, <1>8, <2>2, Zenon
<1> QED
  BY <1>7, <1>8

(* Ledgers, and what a call does to one                                    *)

TokenAccounts == {TokenAccount[owner] : owner \in Wallet \X Mint}

LedgerOf(lam, tok) == [lamports |-> lam, tokens |-> tok]

IsLedger(l) ==
    \E lam \in [Wallet -> Nat], S \in SUBSET TokenAccounts :
      \E tok \in [S -> Nat] : l = LedgerOf(lam, tok)

LEMMA MovedType ==
  ASSUME NEW S, NEW balances \in [S -> Nat], NEW from \in S, NEW to \in S, from # to,
         NEW amount \in Nat, balances[from] >= amount
  PROVE  Moved(balances, from, to, amount) \in [S -> Nat]
<1>1. balances[from] - amount \in Nat /\ balances[to] + amount \in Nat
  OBVIOUS
<1>2. Moved(balances, from, to, amount)
        = [[balances EXCEPT ![from] = balances[from] - amount] EXCEPT ![to] = balances[to] + amount]
  BY DEF Moved
<1>3. [balances EXCEPT ![from] = balances[from] - amount] \in [S -> Nat]
  BY <1>1
<1> QED
  BY <1>1, <1>2, <1>3

LEMMA AtLeast == \A n, k \in Nat : n >= k <=> ~(n < k)
OBVIOUS

LEMMA OpenedType ==
  ASSUME NEW S, NEW tok \in [S -> Nat], NEW account, account \notin S
  PROVE  /\ Opened(tok, account) \in [S \cup {account} -> Nat]
         /\ \A x \in S : Opened(tok, account)[x] = tok[x]
<1>1. Opened(tok, account) = [a \in S \cup {account} |-> IF a = account THEN 0 ELSE tok[a]]
  BY DEF Opened
<1>2. \A a \in S \cup {account} : (IF a = account THEN 0 ELSE tok[a]) \in Nat
  OBVIOUS
<1> QED
  BY <1>1, <1>2

MeantIs(a, ledger) == Meant(a) = ledger

LEMMA MeantLamports ==
  ASSUME NEW a, a.kind \in {"system", "legacy"}
  PROVE  /\ a.from = a.to => Meant(a) = Ledger
         /\ a.from # a.to /\ lamports[a.from] < a.amount => Meant(a) = Ledger
         /\ a.from # a.to /\ ~(lamports[a.from] < a.amount)
              => Meant(a) = LamportsMoved(a.from, a.to, a.amount)
<1> DEFINE source == Ata(a.from, a.mint)
           dest   == Ata(a.to, a.mint)
           exists == IF a.kind = "spl_create" THEN Opened(tokens, dest) ELSE tokens
           poor == \/ source \notin DOMAIN tokens \/ dest \notin DOMAIN exists
                   \/ a.kind = "spl_create" /\ dest \in DOMAIN tokens
                   \/ tokens[source] < a.amount
           second == IF poor THEN Ledger
                     ELSE [Ledger EXCEPT !.tokens = Moved(exists, source, dest, a.amount)]
           moved == [Ledger EXCEPT !.lamports = Moved(@, a.from, a.to, a.amount)]
           first == IF lamports[a.from] < a.amount THEN Ledger ELSE moved
<1>1. Meant(a) = IF a.from = a.to THEN Ledger
                 ELSE CASE a.kind \in {"system", "legacy"} -> first
                        [] a.kind \in {"spl", "spl_create"} -> second
                        [] OTHER -> Ledger
  BY Zenon DEF Meant
<1>2. LamportsMoved(a.from, a.to, a.amount) = moved
  BY Zenon DEF LamportsMoved
<1>3. a.from # a.to => Meant(a) = first
  <2> HIDE DEF first, second, moved, poor
  <2> QED
    BY <1>1
<1>4. a.from = a.to => Meant(a) = Ledger
  BY <1>1, Zenon
<1> QED
  BY <1>2, <1>3, <1>4, Zenon

LEMMA LedgerIs == Ledger = LedgerOf(lamports, tokens)
BY Zenon DEF Ledger, LedgerOf

LEMMA TokensReplaced == \A tok : [Ledger EXCEPT !.tokens = tok] = LedgerOf(lamports, tok)
BY DEF Ledger, LedgerOf

LEMMA AfterMoves ==
  ASSUME NEW from, NEW to, NEW amount, NEW account
  PROVE  /\ LamportsMoved(from, to, amount) = LedgerOf(Moved(lamports, from, to, amount), tokens)
         /\ TokensMoved(Ledger, from, to, amount) = LedgerOf(lamports, Moved(tokens, from, to, amount))
         /\ AccountOpened(Ledger, account) = LedgerOf(lamports, Opened(tokens, account))
         /\ TokensMoved(AccountOpened(Ledger, account), from, to, amount)
              = LedgerOf(lamports, Moved(Opened(tokens, account), from, to, amount))
<1>1. LamportsMoved(from, to, amount) = LedgerOf(Moved(lamports, from, to, amount), tokens)
  BY DEF LamportsMoved, Ledger, LedgerOf
<1>2. TokensMoved(Ledger, from, to, amount) = LedgerOf(lamports, Moved(tokens, from, to, amount))
  BY DEF TokensMoved, Ledger, LedgerOf
<1>3. AccountOpened(Ledger, account) = LedgerOf(lamports, Opened(tokens, account))
  BY DEF AccountOpened, Ledger, LedgerOf
<1>4. \A l, tok : TokensMoved(LedgerOf(l, tok), from, to, amount) = LedgerOf(l, Moved(tok, from, to, amount))
  BY DEF TokensMoved, LedgerOf
<1> QED
  BY <1>1, <1>2, <1>3, <1>4, Zenon

TransferMeant(a, source, dest) ==
    /\ a.from = a.to => Meant(a) = Ledger
    /\ a.from # a.to /\ a.kind = "spl" =>
         Meant(a) = IF source \notin DOMAIN tokens \/ dest \notin DOMAIN tokens
                       \/ tokens[source] < a.amount
                    THEN Ledger ELSE LedgerOf(lamports, Moved(tokens, source, dest, a.amount))
    /\ a.from # a.to /\ a.kind = "spl_create" =>
         Meant(a) = IF source \notin DOMAIN tokens \/ dest \notin DOMAIN Opened(tokens, dest)
                       \/ dest \in DOMAIN tokens \/ tokens[source] < a.amount
                    THEN Ledger
                    ELSE LedgerOf(lamports, Moved(Opened(tokens, dest), source, dest, a.amount))

LEMMA MeantTokens ==
  ASSUME NEW a, a.kind \in {"spl", "spl_create"},
         NEW source, source = Ata(a.from, a.mint), NEW dest, dest = Ata(a.to, a.mint)
  PROVE  TransferMeant(a, source, dest)
<1> DEFINE poor(s, d, exists) ==
             \/ s \notin DOMAIN tokens \/ d \notin DOMAIN exists
             \/ a.kind = "spl_create" /\ d \in DOMAIN tokens
             \/ tokens[s] < a.amount
           exists(d) == IF a.kind = "spl_create" THEN Opened(tokens, d) ELSE tokens
           second(s, d) == IF poor(s, d, exists(d)) THEN Ledger
                           ELSE [Ledger EXCEPT !.tokens = Moved(exists(d), s, d, a.amount)]
           first == IF lamports[a.from] < a.amount THEN Ledger
                    ELSE [Ledger EXCEPT !.lamports = Moved(@, a.from, a.to, a.amount)]
<1>1. Meant(a) = IF a.from = a.to THEN Ledger
                 ELSE CASE a.kind \in {"system", "legacy"} -> first
                        [] a.kind \in {"spl", "spl_create"} ->
                             second(Ata(a.from, a.mint), Ata(a.to, a.mint))
                        [] OTHER -> Ledger
  BY Zenon DEF Meant, Ata
<1>2. Meant(a) = IF a.from = a.to THEN Ledger
                 ELSE CASE a.kind \in {"system", "legacy"} -> first
                        [] a.kind \in {"spl", "spl_create"} -> second(source, dest)
                        [] OTHER -> Ledger
  <2> HIDE DEF first, second
  <2> QED
    BY <1>1, Zenon
<1>3. a.from = a.to => Meant(a) = Ledger
  BY <1>2, Zenon
<1>4. PICK s, d : s = source /\ d = dest
  OBVIOUS
<1>5. a.from # a.to => Meant(a) = second(s, d)
  <2> HIDE DEF first, second
  <2>1. a.kind \notin {"system", "legacy"}
    BY Zenon
  <2> QED
    BY <1>2, <1>4, <2>1, Zenon
<1>6. \A tok : [Ledger EXCEPT !.tokens = Moved(tok, s, d, a.amount)] = LedgerOf(lamports, Moved(tok, s, d, a.amount))
  BY TokensReplaced, Zenon
<1>7. ASSUME a.kind = "spl"
      PROVE  second(s, d) = IF s \notin DOMAIN tokens \/ d \notin DOMAIN tokens \/ tokens[s] < a.amount
                            THEN Ledger ELSE LedgerOf(lamports, Moved(tokens, s, d, a.amount))
  <2>1. a.kind # "spl_create"
    BY <1>7, Zenon
  <2>2. exists(d) = tokens
    BY <2>1, Zenon
  <2>3. poor(s, d, tokens) <=> s \notin DOMAIN tokens \/ d \notin DOMAIN tokens \/ tokens[s] < a.amount
    BY <2>1, Zenon
  <2>4. second(s, d) = IF poor(s, d, tokens) THEN Ledger
                       ELSE LedgerOf(lamports, Moved(tokens, s, d, a.amount))
    BY <2>2, <1>6, Zenon
  <2> HIDE DEF poor, second, exists
  <2> QED
    BY <2>3, <2>4, Zenon
<1>8. ASSUME a.kind = "spl_create"
      PROVE  second(s, d) = IF s \notin DOMAIN tokens \/ d \notin DOMAIN Opened(tokens, d)
                               \/ d \in DOMAIN tokens \/ tokens[s] < a.amount
                            THEN Ledger ELSE LedgerOf(lamports, Moved(Opened(tokens, d), s, d, a.amount))
  <2>2. exists(d) = Opened(tokens, d)
    BY <1>8, Zenon
  <2>3. poor(s, d, Opened(tokens, d))
          <=> s \notin DOMAIN tokens \/ d \notin DOMAIN Opened(tokens, d) \/ d \in DOMAIN tokens \/ tokens[s] < a.amount
    BY <1>8, Zenon
  <2>4. second(s, d) = IF poor(s, d, Opened(tokens, d)) THEN Ledger
                       ELSE LedgerOf(lamports, Moved(Opened(tokens, d), s, d, a.amount))
    BY <2>2, <1>6, Zenon
  <2> HIDE DEF poor, second, exists
  <2> QED
    BY <2>3, <2>4, Zenon
<1> HIDE DEF second
<1> QED
  BY <1>3, <1>4, <1>5, <1>7, <1>8, Zenon DEF TransferMeant

(* What a transaction carries, by the call that signed it.                 *)
SignedLamports(a) ==
    /\ a.kind \in {"system", "legacy"} /\ a.from \in Wallet /\ a.to \in Wallet /\ a.amount \in Amount
    /\ a.tx = Transaction(a.from, SystemTransferMessage(a.from, a.to, a.amount))

SignedTokens(a) ==
    /\ a.kind = "spl" /\ a.from \in Wallet /\ a.to \in Wallet /\ a.mint \in Mint /\ a.amount \in Amount
    /\ a.tx = Transaction(a.from, SplTransferMessage(Ata(a.from, a.mint), Ata(a.to, a.mint),
                                                     a.from, a.amount))

SignedCreation(a) ==
    /\ a.kind = "spl_create" /\ a.from \in Wallet /\ a.to \in Wallet /\ a.mint \in Mint /\ a.amount \in Amount
    /\ a.tx = Transaction(a.from, CreateAtaMessage(Ata(a.from, a.mint), Ata(a.to, a.mint),
                                                   a.from, a.to, a.mint, a.amount))

SignedInVain(a) == a.kind \in {"versioned", "cosigned", "cut"} /\ Useless(a.tx)

(* The network does what was meant, or cannot do it and nothing was meant. *)
Done(a) ==
    \/ Outcomes(a.tx) = {} /\ Meant(a) = Ledger
    \/ Outcomes(a.tx) = {Meant(a)} /\ IsLedger(Meant(a))

LEMMA TypedLedger ==
  ASSUME IsLedger(Ledger)
  PROVE  lamports \in [Wallet -> Nat] /\ \E S \in SUBSET TokenAccounts : tokens \in [S -> Nat]
<1>1. PICK lam \in [Wallet -> Nat], S \in SUBSET TokenAccounts :
        \E tok \in [S -> Nat] : Ledger = LedgerOf(lam, tok)
  BY DEF IsLedger
<1>2. PICK tok \in [S -> Nat] : Ledger = LedgerOf(lam, tok)
  BY <1>1
<1>3. lamports = lam /\ tokens = tok
  BY <1>2 DEF Ledger, LedgerOf
<1> QED
  BY <1>3

LEMMA LamportsDone == ASSUME IsLedger(Ledger), NEW a, SignedLamports(a) PROVE Done(a)
<1>1. PICK from \in Wallet, to \in Wallet, amount \in Amount :
        from = a.from /\ to = a.to /\ amount = a.amount
  BY DEF SignedLamports
<1>2. a.kind \in {"system", "legacy"}
  BY DEF SignedLamports
<1>3. a.tx = Transaction(from, SystemTransferMessage(from, to, amount))
  BY <1>1, Zenon DEF SignedLamports
<1>4. PICK t, m : t = SystemTold(from, to, amount) /\ m = SystemTransferMessage(from, to, amount)
  OBVIOUS
<1>5. t.required = 1 /\ t.keys = <<from, to, SYSTEM_PROGRAM_ID>>
  BY <1>4, Zenon DEF SystemTold, Read
<1>6. Outcomes(a.tx) = IF IsInjective(t.keys) THEN RunAll(t) ELSE {}
  <2>1. t.keys[1] = from
    BY <1>5
  <2>2. Tells(m, t)
    BY <1>4, SystemTells, Zenon
  <2> QED
    BY <1>3, <1>4, <1>5, <2>1, <2>2, Judged, Zenon
<1>7. IsInjective(t.keys) <=> from # to
  BY <1>5, SystemKeys, Zenon
<1>8. RunAll(t) = IF lamports[from] >= amount THEN {LamportsMoved(from, to, amount)} ELSE {}
  BY <1>4, SystemRuns, Zenon
<1>9. /\ from = to => Meant(a) = Ledger
      /\ from # to /\ lamports[from] < amount => Meant(a) = Ledger
      /\ from # to /\ ~(lamports[from] < amount) => Meant(a) = LamportsMoved(from, to, amount)
  <2>1. /\ a.from = a.to => Meant(a) = Ledger
        /\ a.from # a.to /\ lamports[a.from] < a.amount => Meant(a) = Ledger
        /\ a.from # a.to /\ ~(lamports[a.from] < a.amount)
             => Meant(a) = LamportsMoved(a.from, a.to, a.amount)
    BY <1>2, MeantLamports
  <2> QED
    BY <1>1, <2>1, Zenon
<1>10. lamports \in [Wallet -> Nat] /\ amount \in Nat
  BY TypedLedger, AmountFacts
<1>11. lamports[from] >= amount <=> ~(lamports[from] < amount)
  BY <1>10
<1>12. ASSUME from # to, lamports[from] >= amount PROVE IsLedger(LamportsMoved(from, to, amount))
  <2>1. Moved(lamports, from, to, amount) \in [Wallet -> Nat]
    BY <1>10, <1>12, MovedType
  <2>2. LamportsMoved(from, to, amount) = LedgerOf(Moved(lamports, from, to, amount), tokens)
    BY AfterMoves
  <2>3. PICK S \in SUBSET TokenAccounts : tokens \in [S -> Nat]
    BY TypedLedger
  <2> QED
    BY <2>1, <2>2, <2>3, Zenon DEF IsLedger
<1>13. CASE from # to /\ lamports[from] >= amount
  <2>1. Meant(a) = LamportsMoved(from, to, amount)
    BY <1>9, <1>11, <1>13, Zenon
  <2>2. Outcomes(a.tx) = {LamportsMoved(from, to, amount)}
    BY <1>6, <1>7, <1>8, <1>13, Zenon
  <2> QED
    BY <1>12, <1>13, <2>1, <2>2, Zenon DEF Done
<1>14. CASE ~(from # to /\ lamports[from] >= amount)
  <2>1. Meant(a) = Ledger
    BY <1>9, <1>11, <1>14, Zenon
  <2>2. Outcomes(a.tx) = {}
    BY <1>6, <1>7, <1>8, <1>14, Zenon
  <2> QED
    BY <2>1, <2>2, Zenon DEF Done
<1> QED
  BY <1>13, <1>14

LEMMA TokensDoneType ==
  ASSUME NEW S, NEW tok \in [S -> Nat], S \in SUBSET TokenAccounts, lamports \in [Wallet -> Nat],
         NEW source \in S, NEW dest \in S, source # dest, NEW amount \in Nat, tok[source] >= amount
  PROVE  IsLedger(LedgerOf(lamports, Moved(tok, source, dest, amount)))
<1>1. Moved(tok, source, dest, amount) \in [S -> Nat]
  BY MovedType
<1> QED
  BY <1>1, Zenon DEF IsLedger

LEMMA AccountsDiffer ==
  ASSUME NEW from \in Wallet, NEW to \in Wallet, NEW mint \in Mint, from # to
  PROVE  Ata(from, mint) # Ata(to, mint)
BY KindsDiffer, Zenon DEF Kinds

LEMMA AccountsAreAccounts ==
  ASSUME NEW from \in Wallet, NEW mint \in Mint
  PROVE  Ata(from, mint) \in TokenAccounts /\ Ata(from, mint) \in Key
<1>1. Ata(from, mint) \in TokenAccounts
  <2>1. Ata(from, mint) = TokenAccount[<<from, mint>>]
    BY Zenon DEF Ata
  <2>2. <<from, mint>> \in Wallet \X Mint
    OBVIOUS
  <2>3. TokenAccount[<<from, mint>>] \in TokenAccounts
    BY <2>2, Zenon DEF TokenAccounts
  <2> QED
    BY <2>1, <2>3, Zenon
<1>2. Ata(from, mint) \in Key
  BY KeyFacts
<1> QED
  BY <1>1, <1>2

(* The cases of a transfer between existing accounts.                      *)
LEMMA MovesOrNot ==
  ASSUME IsLedger(Ledger), NEW source, NEW dest, source # dest, NEW amount \in Nat, NEW result,
         MovesTokens(result, Ledger, source, dest, amount)
  PROVE  LET poor == source \notin DOMAIN tokens \/ dest \notin DOMAIN tokens \/ tokens[source] < amount
             moved == LedgerOf(lamports, Moved(tokens, source, dest, amount))
         IN /\ poor => result = {}
            /\ ~poor => result = {moved} /\ IsLedger(moved)
<1> DEFINE poor == source \notin DOMAIN tokens \/ dest \notin DOMAIN tokens \/ tokens[source] < amount
           moved == LedgerOf(lamports, Moved(tokens, source, dest, amount))
<1>1. PICK S \in SUBSET TokenAccounts : tokens \in [S -> Nat]
  BY TypedLedger
<1>2. lamports \in [Wallet -> Nat] /\ DOMAIN tokens = S
  BY <1>1, TypedLedger
<1>3. HasTokens(Ledger, source, dest, amount) <=> ~poor
  <2>1. Ledger.tokens = tokens
    BY DEF Ledger
  <2>2. HasTokens(Ledger, source, dest, amount) <=> {source, dest} \subseteq DOMAIN tokens /\ tokens[source] >= amount
    BY <2>1, Zenon DEF HasTokens
  <2>3. source \in S => (tokens[source] >= amount <=> ~(tokens[source] < amount))
    BY <1>1
  <2> QED
    BY <1>2, <2>2, <2>3
<1>4. TokensMoved(Ledger, source, dest, amount) = moved
  BY AfterMoves
<1>5. result = IF HasTokens(Ledger, source, dest, amount) THEN {TokensMoved(Ledger, source, dest, amount)} ELSE {}
  BY Zenon DEF MovesTokens
<1>6. ASSUME ~poor PROVE IsLedger(moved)
  <2>1. source \in S /\ dest \in S /\ tokens[source] >= amount
    BY <1>1, <1>2, <1>6
  <2> QED
    BY <1>1, <1>2, <2>1, TokensDoneType
<1> HIDE DEF poor, moved
<1>7. (poor => result = {}) /\ (~poor => result = {moved} /\ IsLedger(moved))
  BY <1>3, <1>4, <1>5, <1>6, Zenon
<1> QED
  BY <1>7, Zenon DEF poor, moved

LEMMA TokensDone == ASSUME IsLedger(Ledger), NEW a, SignedTokens(a) PROVE Done(a)
<1>1. PICK from \in Wallet, to \in Wallet, mint \in Mint, amount \in Amount :
        from = a.from /\ to = a.to /\ mint = a.mint /\ amount = a.amount
  BY Zenon DEF SignedTokens
<1>2. PICK source, dest : source = Ata(from, mint) /\ dest = Ata(to, mint)
  OBVIOUS
<1>3. a.tx = Transaction(from, SplTransferMessage(source, dest, from, amount)) /\ a.kind = "spl"
  BY <1>1, <1>2, Zenon DEF SignedTokens
<1>4. PICK t, m : t = SplTold(source, dest, from, amount) /\ m = SplTransferMessage(source, dest, from, amount)
  OBVIOUS
<1>5. t.required = 1 /\ t.keys = <<from, source, dest, SPL_TOKEN_PROGRAM_ID>> /\ t.keys[1] = from
  <2>1. t.required = 1 /\ t.keys = <<from, source, dest, SPL_TOKEN_PROGRAM_ID>>
    BY <1>4, Zenon DEF SplTold, Read
  <2>2. t.keys[1] = from
    BY <2>1
  <2> QED
    BY <2>1, <2>2, Zenon
<1>6. Outcomes(a.tx) = IF IsInjective(t.keys) THEN RunAll(t) ELSE {}
  <2>1. source \in Key /\ dest \in Key
    BY <1>2, AccountsAreAccounts, Zenon
  <2>2. Tells(m, t)
    BY <1>4, <2>1, SplTells, Zenon
  <2> QED
    BY <1>3, <1>4, <1>5, <2>2, Judged, Zenon
<1>7. IsInjective(t.keys) <=> from # to
  <2>1. IsInjective(<<from, source, dest, SPL_TOKEN_PROGRAM_ID>>) <=> from # to
    BY <1>2, SplKeys
  <2> QED
    BY <1>5, <2>1, Zenon
<1>8. MovesTokens(RunAll(t), Ledger, source, dest, amount)
  BY <1>2, <1>4, SplRuns, Zenon
<1> DEFINE poor == source \notin DOMAIN tokens \/ dest \notin DOMAIN tokens \/ tokens[source] < amount
           moved == LedgerOf(lamports, Moved(tokens, source, dest, amount))
<1>9. TransferMeant(a, source, dest)
  <2>1. a.kind \in {"spl", "spl_create"}
    BY <1>3, Zenon
  <2>2. source = Ata(a.from, a.mint) /\ dest = Ata(a.to, a.mint)
    BY <1>1, <1>2, Zenon
  <2> QED
    BY <2>1, <2>2, MeantTokens
<1>10. /\ from = to => Meant(a) = Ledger
       /\ from # to => Meant(a) = IF poor THEN Ledger ELSE moved
  BY <1>1, <1>3, <1>9, Zenon DEF TransferMeant
<1>11. amount \in Nat
  BY AmountFacts
<1>12. ASSUME from # to
       PROVE  (poor => RunAll(t) = {}) /\ (~poor => RunAll(t) = {moved} /\ IsLedger(moved))
  <2>1. source # dest
    BY <1>2, <1>12, AccountsDiffer, Zenon
  <2> QED
    BY <1>8, <1>11, <2>1, MovesOrNot, Zenon
<1> HIDE DEF poor, moved
<1>13. CASE from # to /\ ~poor
  <2>1. Meant(a) = moved /\ Outcomes(a.tx) = {moved} /\ IsLedger(moved)
    BY <1>6, <1>7, <1>10, <1>12, <1>13, Zenon
  <2> QED
    BY <2>1, Zenon DEF Done
<1>14. CASE ~(from # to /\ ~poor)
  <2>1. Meant(a) = Ledger /\ Outcomes(a.tx) = {}
    BY <1>6, <1>7, <1>10, <1>12, <1>14, Zenon
  <2> QED
    BY <2>1, Zenon DEF Done
<1> QED
  BY <1>13, <1>14, Zenon

(* The cases of a transfer to an account that is created first.            *)
LEMMA CreatesOrNot ==
  ASSUME IsLedger(Ledger), NEW source, NEW dest \in TokenAccounts, source # dest, NEW amount \in Nat,
         dest \notin DOMAIN tokens,
         NEW result, MovesTokens(result, AccountOpened(Ledger, dest), source, dest, amount)
  PROVE  LET poor == \/ source \notin DOMAIN tokens \/ dest \notin DOMAIN Opened(tokens, dest)
                     \/ dest \in DOMAIN tokens \/ tokens[source] < amount
             moved == LedgerOf(lamports, Moved(Opened(tokens, dest), source, dest, amount))
         IN /\ poor => result = {}
            /\ ~poor => result = {moved} /\ IsLedger(moved)
<1> DEFINE opened == AccountOpened(Ledger, dest)
           tok == Opened(tokens, dest)
           poor == \/ source \notin DOMAIN tokens \/ dest \notin DOMAIN tok
                   \/ dest \in DOMAIN tokens \/ tokens[source] < amount
           moved == LedgerOf(lamports, Moved(tok, source, dest, amount))
<1>1. PICK S \in SUBSET TokenAccounts : tokens \in [S -> Nat]
  BY TypedLedger
<1>2. lamports \in [Wallet -> Nat] /\ DOMAIN tokens = S
  BY <1>1, TypedLedger
<1>3. tok \in [S \cup {dest} -> Nat] /\ \A x \in S : tok[x] = tokens[x]
  BY <1>1, <1>2, OpenedType
<1>4. opened.tokens = tok
  <2>1. opened = LedgerOf(lamports, tok)
    BY AfterMoves
  <2> QED
    BY <2>1 DEF LedgerOf
<1>5. TokensMoved(opened, source, dest, amount) = moved
  BY AfterMoves
<1> HIDE DEF tok, opened
<1>6. HasTokens(opened, source, dest, amount) <=> ~poor
  <2>1. HasTokens(opened, source, dest, amount) <=> {source, dest} \subseteq DOMAIN tok /\ tok[source] >= amount
    BY <1>4, Zenon DEF HasTokens
  <2>2. DOMAIN tok = S \cup {dest}
    BY <1>3
  <2>3. source \in S => tok[source] = tokens[source] /\ (tokens[source] >= amount <=> ~(tokens[source] < amount))
    BY <1>1, <1>3
  <2>4. source \in DOMAIN tok <=> source \in DOMAIN tokens
    BY <1>2, <2>2
  <2>5. dest \in DOMAIN tok
    BY <2>2
  <2> QED
    BY <1>2, <2>1, <2>3, <2>4, <2>5
<1>7. result = IF HasTokens(opened, source, dest, amount) THEN {TokensMoved(opened, source, dest, amount)} ELSE {}
  BY Zenon DEF MovesTokens, opened
<1>8. ASSUME ~poor PROVE IsLedger(moved)
  <2>1. source \in S /\ tok[source] >= amount
    BY <1>1, <1>2, <1>3, <1>8
  <2>2. PICK U : U = S \cup {dest}
    OBVIOUS
  <2>3. tok \in [U -> Nat] /\ source \in U /\ dest \in U /\ U \in SUBSET TokenAccounts
    BY <1>3, <2>1, <2>2
  <2> QED
    BY <1>2, <2>1, <2>3, TokensDoneType
<1> HIDE DEF poor, moved
<1>9. (poor => result = {}) /\ (~poor => result = {moved} /\ IsLedger(moved))
  BY <1>5, <1>6, <1>7, <1>8, Zenon
<1> QED
  BY <1>9, Zenon DEF poor, moved, tok

LEMMA CreationDone == ASSUME IsLedger(Ledger), NEW a, SignedCreation(a) PROVE Done(a)
<1>1. PICK from \in Wallet, to \in Wallet, mint \in Mint, amount \in Amount :
        from = a.from /\ to = a.to /\ mint = a.mint /\ amount = a.amount
  BY Zenon DEF SignedCreation
<1>2. PICK source, dest : source = Ata(from, mint) /\ dest = Ata(to, mint)
  OBVIOUS
<1>3. a.tx = Transaction(from, CreateAtaMessage(source, dest, from, to, mint, amount)) /\ a.kind = "spl_create"
  BY <1>1, <1>2, Zenon DEF SignedCreation
<1>4. PICK t, m : /\ t = CreateTold(source, dest, from, to, mint, amount)
                  /\ m = CreateAtaMessage(source, dest, from, to, mint, amount)
  OBVIOUS
<1>5. /\ t.required = 1 /\ t.keys[1] = from
      /\ t.keys = <<from, source, dest, to, mint,
                    SYSTEM_PROGRAM_ID, SPL_TOKEN_PROGRAM_ID, ATA_PROGRAM_ID>>
  <2>1. /\ t.required = 1
        /\ t.keys = <<from, source, dest, to, mint,
                      SYSTEM_PROGRAM_ID, SPL_TOKEN_PROGRAM_ID, ATA_PROGRAM_ID>>
    BY <1>4, Zenon DEF CreateTold, Read
  <2>2. t.keys[1] = from
    BY <2>1
  <2> QED
    BY <2>1, <2>2, Zenon
<1>6. Outcomes(a.tx) = IF IsInjective(t.keys) THEN RunAll(t) ELSE {}
  <2>1. source \in Key /\ dest \in Key
    BY <1>2, AccountsAreAccounts, Zenon
  <2>2. Tells(m, t)
    BY <1>4, <2>1, CreateTells, Zenon
  <2> QED
    BY <1>3, <1>4, <1>5, <2>2, Judged, Zenon
<1>7. IsInjective(t.keys) <=> from # to
  <2>1. IsInjective(<<from, source, dest, to, mint,
                      SYSTEM_PROGRAM_ID, SPL_TOKEN_PROGRAM_ID, ATA_PROGRAM_ID>>) <=> from # to
    BY <1>2, CreateKeys
  <2> QED
    BY <1>5, <2>1, Zenon
<1>8. PICK result : result = RunAll(t)
  OBVIOUS
<1>9. /\ dest \in DOMAIN tokens => result = {}
      /\ dest \notin DOMAIN tokens => MovesTokens(result, AccountOpened(Ledger, dest), source, dest, amount)
  <2>1. result = RunAll(CreateTold(source, dest, from, to, mint, amount))
    BY <1>4, <1>8, Zenon
  <2> QED
    BY <1>2, <2>1, CreateRuns
<1> DEFINE poor == \/ source \notin DOMAIN tokens \/ dest \notin DOMAIN Opened(tokens, dest)
                   \/ dest \in DOMAIN tokens \/ tokens[source] < amount
           moved == LedgerOf(lamports, Moved(Opened(tokens, dest), source, dest, amount))
<1>10. TransferMeant(a, source, dest)
  <2>1. a.kind \in {"spl", "spl_create"}
    BY <1>3, Zenon
  <2>2. source = Ata(a.from, a.mint) /\ dest = Ata(a.to, a.mint)
    BY <1>1, <1>2, Zenon
  <2> QED
    BY <2>1, <2>2, MeantTokens
<1>11. /\ from = to => Meant(a) = Ledger
       /\ from # to => Meant(a) = IF poor THEN Ledger ELSE moved
  BY <1>1, <1>3, <1>10, Zenon DEF TransferMeant
<1>12. amount \in Nat
  BY AmountFacts
<1>13. ASSUME from # to
       PROVE  (poor => result = {}) /\ (~poor => result = {moved} /\ IsLedger(moved))
  <2>1. source # dest /\ dest \in TokenAccounts
    BY <1>2, <1>13, AccountsDiffer, AccountsAreAccounts, Zenon
  <2>2. CASE dest \in DOMAIN tokens
    BY <1>9, <2>2, Zenon
  <2>3. CASE dest \notin DOMAIN tokens
    BY <1>9, <1>12, <2>1, <2>3, CreatesOrNot, Zenon
  <2> QED
    BY <2>2, <2>3
<1> HIDE DEF poor, moved
<1>14. CASE from # to /\ ~poor
  <2>1. Meant(a) = moved /\ Outcomes(a.tx) = {moved} /\ IsLedger(moved)
    BY <1>6, <1>7, <1>8, <1>11, <1>13, <1>14, Zenon
  <2> QED
    BY <2>1, Zenon DEF Done
<1>15. CASE ~(from # to /\ ~poor)
  <2>1. Meant(a) = Ledger /\ Outcomes(a.tx) = {}
    BY <1>6, <1>7, <1>8, <1>11, <1>13, <1>15, Zenon
  <2> QED
    BY <2>1, Zenon DEF Done
<1> QED
  BY <1>14, <1>15, Zenon

LEMMA InVainDone == ASSUME NEW a, SignedInVain(a) PROVE Done(a)
<1>1. Outcomes(a.tx) = {}
  BY UselessMovesNothing, Zenon DEF SignedInVain
<1>2. a.kind \notin {"system", "legacy"} /\ a.kind \notin {"spl", "spl_create"}
  BY DEF SignedInVain
<1> DEFINE source == TokenAccount[a.from, a.mint]
           dest   == TokenAccount[a.to, a.mint]
           exists == IF a.kind = "spl_create" THEN Opened(tokens, dest) ELSE tokens
           poor == \/ source \notin DOMAIN tokens \/ dest \notin DOMAIN exists
                   \/ a.kind = "spl_create" /\ dest \in DOMAIN tokens
                   \/ tokens[source] < a.amount
           second == IF poor THEN Ledger
                     ELSE [Ledger EXCEPT !.tokens = Moved(exists, source, dest, a.amount)]
           first == IF lamports[a.from] < a.amount THEN Ledger
                    ELSE [Ledger EXCEPT !.lamports = Moved(@, a.from, a.to, a.amount)]
<1>3. Meant(a) = IF a.from = a.to THEN Ledger
                 ELSE CASE a.kind \in {"system", "legacy"} -> first
                        [] a.kind \in {"spl", "spl_create"} -> second
                        [] OTHER -> Ledger
  BY Zenon DEF Meant
<1> HIDE DEF first, second
<1>4. Meant(a) = Ledger
  BY <1>2, <1>3
<1> QED
  BY <1>1, <1>4, Zenon DEF Done

-----------------------------------------------------------------------------
(* What is signed *)

Hash(wallet, mint, b) == Pda[wallet, mint, b]

LEMMA DerivedIsKnown ==
  ASSUME NEW w \in Wallet, NEW mint \in Mint, NEW s \in AssociatedTokenAddress(w, mint)
  PROVE  s = Ata(w, mint)
<1> DEFINE found == {b \in Bump : Hash(w, mint, b) \notin OnCurve}
<1>1. AssociatedTokenAddress(w, mint) = {Hash(w, mint, b) : b \in {b \in found : \A c \in found : c <= b}}
  BY Zenon DEF AssociatedTokenAddress, Hash
<1>2. PICK b \in Bump : s = Hash(w, mint, b) /\ b \in found /\ \A c \in found : c <= b
  BY <1>1
<1>3. Hash(w, mint, b) \notin OnCurve
  BY <1>2
<1>4. ASSUME NEW c \in Bump, c > b PROVE Hash(w, mint, c) \in OnCurve
  <2>1. b \in Nat /\ c \in Nat
    BY SizeAssumption
  <2>2. ~(c <= b)
    BY <1>4, <2>1
  <2> QED
    BY <1>2, <2>2
<1>5. \A x \in Bump : Hash(w, mint, x) \notin OnCurve /\ (\A c \in Bump : c > x => Hash(w, mint, c) \in OnCurve)
                        => Ata(w, mint) = Hash(w, mint, x)
  BY AddressAssumption, Zenon DEF Hash, Ata
<1> QED
  BY <1>2, <1>3, <1>4, <1>5, Zenon

(* The first account of a message, as the signer looks for it.             *)
SignerIs(pk, message) ==
    /\ Len(message) >= 4
    /\ \E n \in DecodeShortVec(SubSeq(message, 4, Len(message))) :
         /\ n[1] # 0
         /\ 3 + n[2] + KeySize <= Len(message)
         /\ SubSeq(message, 3 + n[2] + 1, 3 + n[2] + KeySize) = pk

LEMMA FirstKey ==
  ASSUME NEW m, NEW header, NEW keys, AreKeys(keys), Len(keys) \in 1..127, NEW count, NEW body,
         MessageLies(m, header, keys, count, body), NEW pk, SignerIs(pk, m)
  PROVE  pk = keys[1]
<1>1. m \in Seq(Octet) /\ Holds(m, 4, <<Len(keys)>>) /\ Holds(m, 5, FlattenSeq(keys))
  BY Zenon DEF MessageLies
<1>2. PICK k \in 1..127 : k = Len(keys)
  OBVIOUS
<1>3. m[4] = k /\ 4 <= Len(m)
  BY <1>1, <1>2, HoldsOne
<1>4. DecodeShortVec(SubSeq(m, 4, Len(m))) = {<<k, 1>>}
  <2>1. Begins(m, m) /\ 4 \in Nat \ {0} /\ k \in 0..127
    BY <1>1, BeginsItself
  <2>2. ShortAt(m, 4, k)
    BY <1>1, <1>3, <2>1, ShortReadAt
  <2> QED
    BY <1>3, <2>2 DEF ShortAt
<1>5. SubSeq(m, 5, 4 + KeySize) = pk
  <2>1. PICK n \in {<<k, 1>>} : SubSeq(m, 3 + n[2] + 1, 3 + n[2] + KeySize) = pk
    BY <1>4, Zenon DEF SignerIs
  <2>2. 3 + n[2] + 1 = 5 /\ 3 + n[2] + KeySize = 4 + KeySize
    BY <2>1, Sizes
  <2> QED
    BY <2>1, <2>2, Zenon
<1>6. Holds(m, 5, keys[1]) /\ keys[1] \in Seq(Octet) /\ Len(keys[1]) = KeySize
  <2>1. 5 \in Nat \ {0} /\ 1 \in 1..Len(keys)
    BY <1>2
  <2>2. \A i \in 1..Len(keys) : Holds(m, 5 + (i - 1) * KeySize, keys[i])
    BY <1>1, <2>1, KeysHeld
  <2>3. Holds(m, 5 + (1 - 1) * KeySize, keys[1])
    BY <2>1, <2>2, Zenon
  <2>4. 5 + (1 - 1) * KeySize = 5
    BY Sizes
  <2>5. keys[1] \in Seq(Octet) /\ Len(keys[1]) = KeySize
    BY <2>1 DEF AreKeys
  <2> QED
    BY <2>3, <2>4, <2>5, Zenon
<1>7. SubSeq(m, 5, 5 + Len(keys[1]) - 1) = keys[1]
  <2>1. PICK part \in Seq(Octet), at \in Nat \ {0} : part = keys[1] /\ at = 5
    BY <1>6
  <2>2. Holds(m, at, part)
    BY <1>6, <2>1, Zenon
  <2>3. SubSeq(m, at, at + Len(part) - 1) = part
    BY <1>1, <2>2, HoldsSubSeq
  <2> QED
    BY <2>1, <2>3, Zenon
<1>8. 5 + Len(keys[1]) - 1 = 4 + KeySize
  BY <1>6, Sizes
<1> QED
  BY <1>5, <1>7, <1>8, Zenon

(* What an application hands over, before it is cut.                       *)
Unsigned(sigs) == [i \in 1..(sigs * SigSize) |-> 0]

Whole(sigs, version, message) == EncodeShortLen(sigs) \o Unsigned(sigs) \o version \o message

FrontSize(sigs) == 1 + sigs * SigSize

LEMMA UnsignedType ==
  ASSUME NEW sigs \in 1..2
  PROVE  /\ FrontSize(sigs) \in Nat \ {0} /\ Unsigned(sigs) \in Seq(Octet)
         /\ Len(<<sigs>>) + Len(Unsigned(sigs)) = FrontSize(sigs)
         /\ <<sigs>> \in Seq(Octet) /\ EncodeShortLen(sigs) = <<sigs>> /\ <<sigs>>[1] = sigs /\ Len(<<sigs>>) = 1
<1>1. PICK n \in Nat : n = sigs * SigSize
  BY Sizes
<1>2. Unsigned(sigs) = [i \in 1..n |-> 0]
  BY <1>1 DEF Unsigned
<1>3. 0 \in Octet /\ sigs \in Octet
  BY DEF Octet
<1>4. Unsigned(sigs) \in Seq(Octet) /\ Len(Unsigned(sigs)) = n
  BY <1>2, <1>3
<1>5. <<sigs>> \in Seq(Octet) /\ Len(<<sigs>>) = 1 /\ <<sigs>>[1] = sigs
  BY <1>3
<1>6. EncodeShortLen(sigs) = <<sigs>>
  <2>1. sigs \in 0..127
    OBVIOUS
  <2> QED
    BY <2>1, EncodeShort
<1> QED
  BY <1>1, <1>4, <1>5, <1>6 DEF FrontSize

Laid(whole, sigs, version, message, k, v, n) ==
    /\ k = FrontSize(sigs) /\ v = Len(version) /\ n = Len(message)
    /\ whole \in Seq(Octet) /\ Len(whole) = k + v + n /\ whole[1] = sigs
    /\ \A i \in 1..v : whole[k + i] = version[i]
    /\ \A i \in 1..n : whole[k + v + i] = message[i]

IsWhole(whole, sigs, version, message) ==
    \E k \in Nat \ {0}, v \in Nat, n \in Nat : Laid(whole, sigs, version, message, k, v, n)

LEMMA WholeIs ==
  ASSUME NEW sigs \in 1..2, NEW version \in Seq(Octet), NEW message \in Seq(Octet),
         NEW whole, whole = Whole(sigs, version, message)
  PROVE  IsWhole(whole, sigs, version, message)
<1> DEFINE a == <<sigs>> \o Unsigned(sigs)
           b == a \o version
<1>1. PICK k \in Nat \ {0}, v \in Nat, n \in Nat : k = FrontSize(sigs) /\ v = Len(version) /\ n = Len(message)
  BY UnsignedType
<1>2. a \in Seq(Octet) /\ Len(a) = k /\ a[1] = sigs
  <2>1. PICK u \in Nat : u = Len(Unsigned(sigs)) /\ 1 + u = k
    BY <1>1, UnsignedType
  <2>2. a \in Seq(Octet) /\ Concatenates(<<sigs>>, Unsigned(sigs), 1, u)
    BY <2>1, UnsignedType, ConcatenatesAt
  <2>3. 1 \in 1..1
    OBVIOUS
  <2> QED
    BY <2>1, <2>2, <2>3, UnsignedType, Zenon DEF Concatenates
<1>3. b \in Seq(Octet) /\ Concatenates(a, version, k, v)
  <2> HIDE DEF a
  <2> QED
    BY <1>1, <1>2, ConcatenatesAt
<1>4. Len(b) = k + v /\ b[1] = sigs /\ \A i \in 1..v : b[k + i] = version[i]
  <2>1. 1 \in 1..k
    OBVIOUS
  <2> QED
    BY <1>2, <1>3, <2>1, Zenon DEF Concatenates
<1>5. whole = b \o message
  BY UnsignedType, Zenon DEF Whole
<1>6. whole \in Seq(Octet) /\ Concatenates(b, message, k + v, n)
  <2> HIDE DEF b
  <2>1. k + v \in Nat
    OBVIOUS
  <2> QED
    BY <1>1, <1>3, <1>4, <1>5, <2>1, ConcatenatesAt
<1>7. whole[1] = sigs /\ \A i \in 1..v : whole[k + i] = version[i]
  <2> HIDE DEF b
  <2>1. 1 \in 1..(k + v) /\ \A i \in 1..v : k + i \in 1..(k + v)
    OBVIOUS
  <2>2. \A j \in 1..(k + v) : whole[j] = b[j]
    BY <1>5, <1>6, Zenon DEF Concatenates
  <2>3. whole[1] = b[1] /\ \A i \in 1..v : whole[k + i] = b[k + i]
    BY <2>1, <2>2, Zenon
  <2> QED
    BY <1>4, <2>3
<1>8. Len(whole) = k + v + n /\ \A i \in 1..n : whole[k + v + i] = message[i]
  <2> HIDE DEF b
  <2> QED
    BY <1>5, <1>6, Zenon DEF Concatenates
<1>9. Laid(whole, sigs, version, message, k, v, n)
  BY <1>1, <1>6, <1>7, <1>8, Zenon DEF Laid
<1> QED
  BY <1>1, <1>9, Zenon DEF IsWhole

LEMMA NoneIsShort == << >> \in Seq(Octet) /\ Len(<< >>) = 0
OBVIOUS

(* What is behind the signatures, of the whole or the beginning of it.     *)
Behind(m, bytes, sigs) ==
    /\ m \in Seq(Octet) /\ FrontSize(sigs) <= Len(bytes) /\ Len(m) = Len(bytes) - FrontSize(sigs)
    /\ \A i \in 1..Len(m) : m[i] = bytes[FrontSize(sigs) + i]

LEMMA Unwrapped ==
  ASSUME NEW sigs \in 1..2, NEW bytes \in Seq(Octet), Len(bytes) > 0, bytes[1] = sigs,
         NEW pk, NEW m \in SerializedMessage(pk, bytes)
  PROVE  Behind(m, bytes, sigs) /\ SignerIs(pk, m)
<1> DEFINE start(count) == count[2] + count[1] * SigSize
           after(count) == SubSeq(bytes, start(count) + 1, Len(bytes))
           counts == {c \in DecodeShortVec(bytes) : start(c) <= Len(bytes)}
<1>1. SerializedMessage(pk, bytes) = {x \in {after(c) : c \in counts} : SignerIs(pk, x)}
  BY Zenon DEF SerializedMessage, SignerIs
<1>2. ShortIs(bytes, sigs)
  <2>1. bytes[1] < 128
    OBVIOUS
  <2> QED
    BY <2>1, ShortRead
<1>3. PICK k \in Nat \ {0}, n \in Nat : k = FrontSize(sigs) /\ n = Len(bytes)
  BY UnsignedType
<1>4. start(<<sigs, 1>>) = k
  BY <1>3 DEF FrontSize
<1>5. m = after(<<sigs, 1>>) /\ start(<<sigs, 1>>) <= Len(bytes) /\ SignerIs(pk, m)
  <2>1. SignerIs(pk, m) /\ \E c \in counts : m = after(c)
    <3> HIDE DEF after, counts, start
    <3> QED
      BY <1>1
  <2>2. PICK c \in counts : m = after(c)
    BY <2>1
  <2>3. c = <<sigs, 1>> /\ start(c) <= Len(bytes)
    <3> HIDE DEF start
    <3> QED
      BY <1>2 DEF ShortIs
  <2> QED
    BY <2>1, <2>2, <2>3, Zenon
<1>6. k <= n /\ m = SubSeq(bytes, k + 1, n)
  BY <1>3, <1>4, <1>5
<1>7. /\ m \in Seq(Octet) /\ Len(m) = n - (k + 1) + 1
      /\ \A i \in 1..(n - (k + 1) + 1) : m[i] = bytes[k + 1 + i - 1]
  <2>1. k + 1 \in 1..(Len(bytes) + 1) /\ n \in 0..Len(bytes) /\ k + 1 <= n + 1
    BY <1>3, <1>6
  <2> QED
    BY <1>6, <2>1, SubSeqType
<1>8. Len(m) = n - k /\ \A i \in 1..(n - k) : m[i] = bytes[k + i]
  <2>1. n - (k + 1) + 1 = n - k /\ \A i \in 1..(n - k) : k + 1 + i - 1 = k + i
    BY <1>6
  <2> QED
    BY <1>7, <2>1
<1> QED
  BY <1>3, <1>5, <1>6, <1>7, <1>8 DEF Behind

LEMMA SystemSigner ==
  ASSUME NEW from \in Wallet, NEW to \in Wallet, NEW amount \in Amount,
         NEW pk, SignerIs(pk, SystemTransferMessage(from, to, amount))
  PROVE  pk = from
<1> DEFINE header == <<1, 0, 1>>
           keys == <<from, to, SYSTEM_PROGRAM_ID>>
           accounts == <<0, 1>>
           data == TagData \o AmountData(amount)
           m == SystemTransferMessage(from, to, amount)
<1>1. IsHeader(header)
  BY DEF IsHeader, Octet
<1>2. AreKeys(keys) /\ Len(keys) \in 0..127 /\ Len(keys) \in 1..127 /\ keys[1] = from
  <2>1. from \in Key /\ to \in Key /\ SYSTEM_PROGRAM_ID \in Key
    BY KeyFacts, ProgramsAreKeys
  <2>2. keys \in Seq(Key) /\ Len(keys) = 3 /\ keys[1] = from
    BY <2>1
  <2> HIDE DEF keys
  <2> QED
    BY <2>2, KeySequences
<1>3. IsInstruction(2, accounts, data)
  <2>1. data \in Seq(Octet) /\ Len(data) < 128
    BY TransferData, Zenon
  <2>2. accounts \in Seq(Octet) /\ Len(accounts) = 2 /\ 2 \in Octet
    BY DEF Octet
  <2> HIDE DEF accounts, data
  <2> QED
    BY <2>1, <2>2 DEF IsInstruction
<1>4. m = Message(header, keys, <<Instruction(2, accounts, data)>>)
  BY Zenon DEF SystemTransferMessage, TagData, AmountData
<1>5. SignerIs(pk, m)
  OBVIOUS
<1> HIDE DEF header, keys, accounts, data, m
<1>6. MessageLies(m, header, keys, 1, Instruction(2, accounts, data))
  BY <1>1, <1>2, <1>3, <1>4, OneInstructionLies
<1>7. pk = keys[1]
  BY <1>2, <1>5, <1>6, FirstKey
<1> QED
  BY <1>2, <1>7, Zenon

(* The message comes back from behind the signatures.                      *)
LEMMA WholeMessage ==
  ASSUME NEW sigs \in 1..2, NEW message \in Seq(Octet), NEW pk,
         NEW m \in SerializedMessage(pk, Whole(sigs, << >>, message))
  PROVE  m = message /\ SignerIs(pk, m)
<1>1. PICK none \in Seq(Octet) : none = << >> /\ Len(none) = 0
  BY NoneIsShort, Zenon
<1>2. PICK whole : whole = Whole(sigs, none, message)
  OBVIOUS
<1>3. PICK k \in Nat \ {0}, v \in Nat, n \in Nat : Laid(whole, sigs, none, message, k, v, n)
  BY <1>2, WholeIs DEF IsWhole
<1>4. /\ k = FrontSize(sigs) /\ n = Len(message)
      /\ whole \in Seq(Octet) /\ Len(whole) = k + n /\ whole[1] = sigs
      /\ \A i \in 1..n : whole[k + i] = message[i]
  BY <1>1, <1>3 DEF Laid
<1>5. m \in SerializedMessage(pk, whole)
  BY <1>1, <1>2, Zenon
<1>6. Behind(m, whole, sigs) /\ SignerIs(pk, m)
  <2>1. Len(whole) > 0
    BY <1>4
  <2> QED
    BY <1>4, <1>5, <2>1, Unwrapped
<1>7. m \in Seq(Octet) /\ Len(m) = n /\ \A i \in 1..n : m[i] = message[i]
  <2>1. m \in Seq(Octet) /\ Len(m) = Len(whole) - k /\ \A i \in 1..Len(m) : m[i] = whole[k + i]
    BY <1>4, <1>6, Zenon DEF Behind
  <2>2. Len(m) = n
    BY <1>4, <2>1
  <2>3. \A i \in 1..n : m[i] = message[i]
    BY <1>4, <2>1, <2>2, Zenon
  <2> QED
    BY <2>1, <2>2, <2>3, Zenon
<1> QED
  BY <1>4, <1>6, <1>7, SMTT(30)

LEMMA FirstOnes ==
  ASSUME NEW s \in Seq(Octet), NEW n \in 0..Len(s)
  PROVE  /\ SubSeq(s, 1, n) \in Seq(Octet) /\ Len(SubSeq(s, 1, n)) = n - 1 + 1
         /\ \A i \in 1..(n - 1 + 1) : SubSeq(s, 1, n)[i] = s[1 + i - 1]
<1>1. PICK first \in 1..(Len(s) + 1) : first = 1
  OBVIOUS
<1>2. first <= n + 1
  BY <1>1
<1>3. /\ SubSeq(s, first, n) \in Seq(Octet) /\ Len(SubSeq(s, first, n)) = n - first + 1
      /\ \A i \in 1..(n - first + 1) : SubSeq(s, first, n)[i] = s[first + i - 1]
  BY <1>2, SubSeqType
<1> QED
  BY <1>1, <1>3, Zenon

(* Cut short, what is left of the message is its beginning.                *)
LEMMA CutMessage ==
  ASSUME NEW message \in Seq(Octet), NEW whole, whole = Whole(1, << >>, message),
         NEW n \in 1..(Len(whole) - 1), NEW pk,
         NEW m \in SerializedMessage(pk, SubSeq(whole, 1, n))
  PROVE  m \in Seq(Octet) /\ Begins(m, message) /\ Len(m) # Len(message)
<1>1. PICK none \in Seq(Octet) : none = << >> /\ Len(none) = 0
  BY NoneIsShort, Zenon
<1>2. PICK sigs \in 1..2 : sigs = 1
  OBVIOUS
<1>3. whole = Whole(sigs, none, message)
  BY <1>1, <1>2, Zenon
<1>4. PICK k \in Nat \ {0}, v \in Nat, l \in Nat : Laid(whole, sigs, none, message, k, v, l)
  BY <1>3, WholeIs DEF IsWhole
<1>5. /\ k = FrontSize(sigs) /\ l = Len(message)
      /\ whole \in Seq(Octet) /\ Len(whole) = k + l /\ whole[1] = sigs
      /\ \A i \in 1..l : whole[k + i] = message[i]
  BY <1>1, <1>4 DEF Laid
<1>6. PICK bytes : bytes = SubSeq(whole, 1, n)
  OBVIOUS
<1>7. bytes \in Seq(Octet) /\ Len(bytes) = n /\ (\A i \in 1..n : bytes[i] = whole[i]) /\ n < k + l /\ n \in Nat \ {0}
  <2>1. 1 \in 1..(Len(whole) + 1) /\ n \in 0..Len(whole) /\ 1 <= n + 1
    BY <1>5
  <2>2. /\ SubSeq(whole, 1, n) \in Seq(Octet) /\ Len(SubSeq(whole, 1, n)) = n - 1 + 1
        /\ \A i \in 1..(n - 1 + 1) : SubSeq(whole, 1, n)[i] = whole[1 + i - 1]
    BY <1>5, <2>1, FirstOnes
  <2>3. n \in Nat \ {0} /\ n < k + l
    BY <1>5
  <2>4. n - 1 + 1 = n /\ \A i \in 1..n : 1 + i - 1 = i
    BY <2>3
  <2>5. /\ bytes \in Seq(Octet) /\ Len(bytes) = n
        /\ \A i \in 1..n : bytes[i] = whole[1 + i - 1]
    BY <1>6, <2>2, <2>4, Zenon
  <2> QED
    BY <2>3, <2>4, <2>5, Zenon
<1>8. Behind(m, bytes, sigs)
  <2>1. Len(bytes) > 0 /\ bytes[1] = sigs
    BY <1>5, <1>7
  <2>2. m \in SerializedMessage(pk, bytes)
    BY <1>6, Zenon
  <2> QED
    BY <1>7, <2>1, <2>2, Unwrapped
<1>9. m \in Seq(Octet) /\ Len(m) = n - k /\ k <= n /\ \A i \in 1..Len(m) : m[i] = bytes[k + i]
  BY <1>5, <1>7, <1>8, Zenon DEF Behind
<1>10. ASSUME NEW i \in 1..Len(m) PROVE m[i] = message[i]
  <2>1. k + i \in 1..n /\ i \in 1..l
    BY <1>7, <1>9
  <2>2. m[i] = bytes[k + i] /\ bytes[k + i] = whole[k + i] /\ whole[k + i] = message[i]
    BY <1>5, <1>7, <1>9, <2>1, Zenon
  <2> QED
    BY <2>2
<1> QED
  BY <1>5, <1>7, <1>9, <1>10 DEF Begins

(* With a version in front, the first byte is not one of a legacy message. *)
LEMMA VersionedMessage ==
  ASSUME NEW message \in Seq(Octet), NEW pk,
         NEW m \in SerializedMessage(pk, Whole(1, << 128 >>, message))
  PROVE  Parse(m) = {}
<1>1. PICK version \in Seq(Octet) : version = << 128 >> /\ Len(version) = 1 /\ version[1] = 128
  <2>1. 128 \in Octet
    BY DEF Octet
  <2>2. << 128 >> \in Seq(Octet) /\ Len(<< 128 >>) = 1 /\ << 128 >>[1] = 128
    BY <2>1
  <2> QED
    BY <2>2, Zenon
<1>2. PICK sigs \in 1..2 : sigs = 1
  OBVIOUS
<1>3. PICK whole : whole = Whole(sigs, version, message)
  OBVIOUS
<1>4. PICK k \in Nat \ {0}, v \in Nat, l \in Nat : Laid(whole, sigs, version, message, k, v, l)
  BY <1>3, WholeIs DEF IsWhole
<1>5. /\ k = FrontSize(sigs)
      /\ whole \in Seq(Octet) /\ Len(whole) = k + 1 + l /\ whole[1] = sigs
      /\ whole[k + 1] = version[1]
  BY <1>1, <1>4 DEF Laid
<1>6. Behind(m, whole, sigs)
  <2>1. Len(whole) > 0
    BY <1>5
  <2>2. m \in SerializedMessage(pk, whole)
    BY <1>1, <1>2, <1>3, Zenon
  <2> QED
    BY <1>5, <2>1, <2>2, Unwrapped
<1>7. Len(m) = 1 + l /\ \A i \in 1..Len(m) : m[i] = whole[k + i]
  <2>1. Len(m) = Len(whole) - k /\ \A i \in 1..Len(m) : m[i] = whole[k + i]
    BY <1>5, <1>6, Zenon DEF Behind
  <2> QED
    BY <1>5, <2>1
<1>8. m[1] = 128
  <2>1. 1 \in 1..Len(m)
    BY <1>7
  <2>2. m[1] = whole[k + 1]
    BY <1>7, <2>1, Zenon
  <2> QED
    BY <1>1, <1>5, <2>2
<1>9. Len(m) < 4 \/ m[1] >= 128
  BY <1>8
<1> QED
  BY <1>9, Zenon DEF Parse

SystemWhole(from, to, amount) == Whole(1, << >>, SystemTransferMessage(from, to, amount))

HandedOver(bytes, from, to, amount, form) ==
    CASE form = "legacy"    -> bytes = SystemWhole(from, to, amount)
      [] form = "versioned" -> bytes = Whole(1, << 128 >>, SystemTransferMessage(from, to, amount))
      [] form = "cosigned"  -> bytes = Whole(2, << >>, CosignedMessage(from, to, amount))
      [] form = "cut"       -> \E n \in 1..(Len(SystemWhole(from, to, amount)) - 1) :
                                 bytes = SubSeq(SystemWhole(from, to, amount), 1, n)

FormsDiffer == \A f \in Form :
    \/ f = "legacy" /\ f # "versioned" /\ f # "cosigned" /\ f # "cut"
    \/ f = "versioned" /\ f # "legacy" /\ f # "cosigned" /\ f # "cut"
    \/ f = "cosigned" /\ f # "legacy" /\ f # "versioned" /\ f # "cut"
    \/ f = "cut" /\ f # "legacy" /\ f # "versioned" /\ f # "cosigned"

LEMMA FormsAre == FormsDiffer
BY DEF FormsDiffer, Form

LEMMA SerializedIs ==
  ASSUME NEW from, NEW to, NEW amount, NEW form \in Form, NEW bytes \in Serialized(from, to, amount, form)
  PROVE  HandedOver(bytes, from, to, amount, form)
<1> DEFINE message == IF form = "cosigned" THEN CosignedMessage(from, to, amount)
                      ELSE SystemTransferMessage(from, to, amount)
           sigs == IF form = "cosigned" THEN 2 ELSE 1
           whole == Whole(sigs, IF form = "versioned" THEN <<128>> ELSE << >>, message)
<1>1. bytes \in {IF form = "cut" THEN SubSeq(whole, 1, n) ELSE whole : n \in 1..(Len(whole) - 1)}
  BY Zenon DEF Serialized, Whole, Unsigned, CosignedMessage, TagData, AmountData
<1>2. PICK n \in 1..(Len(whole) - 1) : bytes = IF form = "cut" THEN SubSeq(whole, 1, n) ELSE whole
  <2> HIDE DEF whole
  <2> QED
    BY <1>1, Zenon
<1>3. FormsDiffer
  BY FormsAre
<1>4. CASE form = "legacy" /\ form # "versioned" /\ form # "cosigned" /\ form # "cut"
  <2>1. whole = SystemWhole(from, to, amount) /\ bytes = whole
    BY <1>2, <1>4, Zenon DEF SystemWhole
  <2> HIDE DEF whole
  <2> QED
    BY <1>4, <2>1 DEF HandedOver
<1>5. CASE form = "versioned" /\ form # "legacy" /\ form # "cosigned" /\ form # "cut"
  <2>1. whole = Whole(1, <<128>>, SystemTransferMessage(from, to, amount)) /\ bytes = whole
    BY <1>2, <1>5, Zenon
  <2> HIDE DEF whole
  <2> QED
    BY <1>5, <2>1 DEF HandedOver
<1>6. CASE form = "cosigned" /\ form # "legacy" /\ form # "versioned" /\ form # "cut"
  <2>1. whole = Whole(2, << >>, CosignedMessage(from, to, amount)) /\ bytes = whole
    BY <1>2, <1>6, Zenon
  <2> HIDE DEF whole
  <2> QED
    BY <1>6, <2>1 DEF HandedOver
<1>7. CASE form = "cut" /\ form # "legacy" /\ form # "versioned" /\ form # "cosigned"
  <2>1. whole = SystemWhole(from, to, amount) /\ bytes = SubSeq(whole, 1, n)
    BY <1>2, <1>7, Zenon DEF SystemWhole
  <2>2. n \in 1..(Len(whole) - 1)
    BY <1>2, Zenon
  <2> HIDE DEF whole
  <2> QED
    BY <1>7, <2>1, <2>2 DEF HandedOver
<1> QED
  BY <1>3, <1>4, <1>5, <1>6, <1>7, Zenon DEF FormsDiffer

(* What was asked for, with the transaction signed for it.                 *)
Asked(kind, from, to, mint, amount, tx) ==
    [kind |-> kind, from |-> from, to |-> to, mint |-> mint, amount |-> amount, tx |-> tx]

Known(a) == SignedLamports(a) \/ SignedTokens(a) \/ SignedCreation(a) \/ SignedInVain(a)

LEMMA KnownDone == ASSUME IsLedger(Ledger), NEW a, Known(a) PROVE Done(a)
BY LamportsDone, TokensDone, CreationDone, InVainDone DEF Known

LEMMA AskedFields ==
  ASSUME NEW kind, NEW from, NEW to, NEW mint, NEW amount, NEW tx,
         NEW a, a = Asked(kind, from, to, mint, amount, tx)
  PROVE  /\ a.kind = kind /\ a.from = from /\ a.to = to /\ a.mint = mint
         /\ a.amount = amount /\ a.tx = tx
BY DEF Asked

LEMMA TransactionFields ==
  ASSUME NEW pk, NEW m
  PROVE  Len(Transaction(pk, m).sigs) = 1 /\ Transaction(pk, m).msg = m
BY DEF Transaction

LEMMA NotParsed ==
  ASSUME NEW pk, NEW m, Parse(m) = {} PROVE Useless(Transaction(pk, m))
BY TransactionFields, Zenon DEF Useless

LEMMA SerializedKnown ==
  ASSUME NEW from \in Wallet, NEW to \in Wallet, NEW amount \in Amount, NEW pk, NEW form \in Form,
         NEW bytes \in Serialized(from, to, amount, form), NEW m \in SerializedMessage(pk, bytes),
         NEW a, a = Asked(form, from, to, << >>, amount, Transaction(pk, m))
  PROVE  Known(a)
<1>0. /\ a.kind = form /\ a.from = from /\ a.to = to /\ a.amount = amount /\ a.tx = Transaction(pk, m)
  BY AskedFields
<1>1. PICK system \in Seq(Octet) : /\ system = SystemTransferMessage(from, to, amount)
                                   /\ Tells(system, SystemTold(from, to, amount))
  BY SystemTells DEF Tells
<1>2. PICK two \in Seq(Octet) : /\ two = CosignedMessage(from, to, amount)
                                /\ Tells(two, CosignedTold(from, to, amount))
  BY CosignedTells DEF Tells
<1>3. HandedOver(bytes, from, to, amount, form)
  BY SerializedIs
<1>4. CASE form = "legacy" /\ form # "versioned" /\ form # "cosigned" /\ form # "cut"
  <2>1. bytes = Whole(1, << >>, system)
    BY <1>1, <1>3, <1>4 DEF HandedOver, SystemWhole
  <2>2. PICK sigs \in 1..2 : sigs = 1
    OBVIOUS
  <2>3. m \in SerializedMessage(pk, Whole(sigs, << >>, system))
    BY <2>1, <2>2, Zenon
  <2>4. m = system /\ SignerIs(pk, m)
    BY <2>3, WholeMessage
  <2>5. pk = from
    BY <1>1, <2>4, SystemSigner
  <2>6. a.tx = Transaction(a.from, SystemTransferMessage(a.from, a.to, a.amount))
    BY <1>0, <1>1, <2>4, <2>5, Zenon
  <2>7. a.kind \in {"system", "legacy"}
    BY <1>0, <1>4
  <2> QED
    BY <1>0, <2>6, <2>7, Zenon DEF Known, SignedLamports
<1>5. ASSUME Useless(a.tx), form \in {"versioned", "cosigned", "cut"} PROVE Known(a)
  BY <1>0, <1>5, Zenon DEF Known, SignedInVain
<1>6. CASE form = "versioned" /\ form # "legacy" /\ form # "cosigned" /\ form # "cut"
  <2>1. m \in SerializedMessage(pk, Whole(1, << 128 >>, system))
    BY <1>1, <1>3, <1>6 DEF HandedOver
  <2>2. Parse(m) = {}
    BY <2>1, VersionedMessage
  <2> QED
    BY <1>0, <1>5, <1>6, <2>2, NotParsed
<1>7. CASE form = "cosigned" /\ form # "legacy" /\ form # "versioned" /\ form # "cut"
  <2>1. bytes = Whole(2, << >>, two)
    BY <1>2, <1>3, <1>7 DEF HandedOver
  <2>2. PICK sigs \in 1..2 : sigs = 2
    OBVIOUS
  <2>3. m \in SerializedMessage(pk, Whole(sigs, << >>, two))
    BY <2>1, <2>2, Zenon
  <2>4. m = two
    BY <2>3, WholeMessage
  <2>5. Parse(m) = {CosignedTold(from, to, amount)}
    BY <1>2, <2>4, ToldIsParsed
  <2>6. CosignedTold(from, to, amount).required = 2
    BY DEF CosignedTold, Read
  <2>7. Useless(Transaction(pk, m))
    <3>1. PICK tx : tx = Transaction(pk, m) /\ Len(tx.sigs) = 1 /\ tx.msg = m
      BY TransactionFields, Zenon
    <3>2. 2 \in Nat \ {1}
      OBVIOUS
    <3> QED
      BY <2>5, <2>6, <3>1, <3>2, Zenon DEF Useless
  <2> QED
    BY <1>0, <1>5, <1>7, <2>7
<1>8. CASE form = "cut" /\ form # "legacy" /\ form # "versioned" /\ form # "cosigned"
  <2>1. PICK whole : whole = Whole(1, << >>, system)
    OBVIOUS
  <2>2. PICK n \in 1..(Len(whole) - 1) : bytes = SubSeq(whole, 1, n)
    BY <1>1, <1>3, <1>8, <2>1 DEF HandedOver, SystemWhole
  <2>3. m \in Seq(Octet) /\ Begins(m, system) /\ Len(m) # Len(system)
    BY <2>1, <2>2, CutMessage
  <2>4. ReadsAs(m, system, SystemTold(from, to, amount))
    BY <1>1, <2>3, Zenon DEF Tells
  <2>5. Parse(m) = {}
    BY <2>3, <2>4, Zenon DEF ReadsAs
  <2> QED
    BY <1>0, <1>5, <1>8, <2>5, NotParsed
<1>9. FormsDiffer
  BY FormsAre
<1> QED
  BY <1>4, <1>6, <1>7, <1>8, <1>9, Zenon DEF FormsDiffer

LEMMA SystemKnown ==
  ASSUME NEW from \in Wallet, NEW to \in Wallet, NEW amount \in Amount,
         NEW a, a = Asked("system", from, to, << >>, amount,
                          Transaction(from, SystemTransferMessage(from, to, amount)))
  PROVE  Known(a)
<1>1. /\ a.kind = "system" /\ a.from = from /\ a.to = to /\ a.amount = amount
      /\ a.tx = Transaction(from, SystemTransferMessage(from, to, amount))
  BY AskedFields
<1>2. a.kind \in {"system", "legacy"}
  BY <1>1
<1> QED
  BY <1>1, <1>2, Zenon DEF Known, SignedLamports

LEMMA SplKnown ==
  ASSUME NEW from \in Wallet, NEW to \in Wallet, NEW mint \in Mint, NEW amount \in Amount,
         NEW s \in AssociatedTokenAddress(from, mint), NEW d \in AssociatedTokenAddress(to, mint),
         NEW a, a = Asked("spl", from, to, mint, amount,
                          Transaction(from, SplTransferMessage(s, d, from, amount)))
  PROVE  Known(a)
<1>1. /\ a.kind = "spl" /\ a.from = from /\ a.to = to /\ a.mint = mint /\ a.amount = amount
      /\ a.tx = Transaction(from, SplTransferMessage(s, d, from, amount))
  BY AskedFields
<1>2. s = Ata(from, mint) /\ d = Ata(to, mint)
  BY DerivedIsKnown
<1> QED
  BY <1>1, <1>2, Zenon DEF Known, SignedTokens

LEMMA CreateKnown ==
  ASSUME NEW from \in Wallet, NEW to \in Wallet, NEW mint \in Mint, NEW amount \in Amount,
         NEW s \in AssociatedTokenAddress(from, mint), NEW d \in AssociatedTokenAddress(to, mint),
         NEW a, a = Asked("spl_create", from, to, mint, amount,
                          Transaction(from, CreateAtaMessage(s, d, from, to, mint, amount)))
  PROVE  Known(a)
<1>1. /\ a.kind = "spl_create" /\ a.from = from /\ a.to = to /\ a.mint = mint /\ a.amount = amount
      /\ a.tx = Transaction(from, CreateAtaMessage(s, d, from, to, mint, amount))
  BY AskedFields
<1>2. s = Ata(from, mint) /\ d = Ata(to, mint)
  BY DerivedIsKnown
<1> QED
  BY <1>1, <1>2, Zenon DEF Known, SignedCreation

-----------------------------------------------------------------------------
(* Theorems *)

(* The ledger is one, and every signed transaction is the message that the *)
(* call stands for, or one the network can do nothing with.                *)
LedgerInv == IsLedger(Ledger) /\ \A a \in signed : Known(a)

Signing(kind, from, to, mint, amount, txs) ==
    /\ signed' = signed \cup {Asked(kind, from, to, mint, amount, tx) : tx \in txs}
    /\ lamports' = lamports /\ tokens' = tokens

LEMMA SignIs ==
  ASSUME NEW kind, NEW from, NEW to, NEW mint, NEW amount, NEW txs,
         Sign(kind, from, to, mint, amount, txs)
  PROVE  Signing(kind, from, to, mint, amount, txs)
BY Zenon DEF Sign, Signing, Asked

SignedMore == /\ signed \subseteq signed' /\ (\A a \in signed' \ signed : Known(a))
              /\ lamports' = lamports /\ tokens' = tokens

LEMMA SignsMore ==
  ASSUME NEW kind, NEW from, NEW to, NEW mint, NEW amount, NEW txs,
         Signing(kind, from, to, mint, amount, txs),
         \A tx \in txs : Known(Asked(kind, from, to, mint, amount, tx))
  PROVE  SignedMore
<1>1. signed \subseteq signed'
  BY Zenon DEF Signing
<1>2. ASSUME NEW a \in signed' \ signed PROVE Known(a)
  <2>1. PICK tx \in txs : a = Asked(kind, from, to, mint, amount, tx)
    BY <1>2, Zenon DEF Signing
  <2> QED
    BY <2>1, Zenon
<1> QED
  BY <1>1, <1>2, Zenon DEF Signing, SignedMore

LEMMA SignStepSigns == ASSUME SignStep PROVE SignedMore
<1>1. PICK from \in Wallet, to \in Wallet, amount \in Amount :
        \/ SignSystemTransfer(from, to, amount)
        \/ \E mint \in Mint : \/ SignSplTransfer(from, to, mint, amount)
                              \/ SignSplTransferWithCreateAta(from, to, mint, amount)
        \/ \E pk \in Wallet, form \in Form : \E bytes \in Serialized(from, to, amount, form) :
             SignSerialized(pk, bytes, from, to, amount, form)
  BY Zenon DEF SignStep
<1>2. CASE SignSystemTransfer(from, to, amount)
  <2> DEFINE txs == {Transaction(from, SystemTransferMessage(from, to, amount))}
  <2>1. Signing("system", from, to, << >>, amount, txs)
    BY <1>2, SignIs DEF SignSystemTransfer
  <2>2. ASSUME NEW tx \in txs PROVE Known(Asked("system", from, to, << >>, amount, tx))
    <3>1. PICK a : a = Asked("system", from, to, << >>, amount,
                            Transaction(from, SystemTransferMessage(from, to, amount)))
      OBVIOUS
    <3>2. a = Asked("system", from, to, << >>, amount, tx)
      BY <2>2, <3>1
    <3>3. Known(a)
      BY <3>1, SystemKnown
    <3> QED
      BY <3>2, <3>3
  <2> HIDE DEF txs
  <2> QED
    BY <2>1, <2>2, SignsMore
<1>3. ASSUME NEW mint \in Mint, SignSplTransfer(from, to, mint, amount) PROVE SignedMore
  <2> DEFINE tx(s, d) == Transaction(from, SplTransferMessage(s, d, from, amount))
             txs == {tx(s, d) : s \in AssociatedTokenAddress(from, mint), d \in AssociatedTokenAddress(to, mint)}
  <2>1. Signing("spl", from, to, mint, amount, txs)
    BY <1>3, SignIs DEF SignSplTransfer
  <2>2. ASSUME NEW t \in txs PROVE Known(Asked("spl", from, to, mint, amount, t))
    <3>1. PICK s \in AssociatedTokenAddress(from, mint), d \in AssociatedTokenAddress(to, mint) : t = tx(s, d)
      <4> HIDE DEF tx
      <4> QED
        BY <2>2
    <3>2. PICK a : a = Asked("spl", from, to, mint, amount, Transaction(from, SplTransferMessage(s, d, from, amount)))
      OBVIOUS
    <3>3. Known(a)
      BY <3>2, SplKnown
    <3>4. a = Asked("spl", from, to, mint, amount, t)
      BY <3>1, <3>2
    <3> QED
      BY <3>3, <3>4
  <2> HIDE DEF txs
  <2> QED
    BY <2>1, <2>2, SignsMore
<1>4. ASSUME NEW mint \in Mint, SignSplTransferWithCreateAta(from, to, mint, amount) PROVE SignedMore
  <2> DEFINE tx(s, d) == Transaction(from, CreateAtaMessage(s, d, from, to, mint, amount))
             txs == {tx(s, d) : s \in AssociatedTokenAddress(from, mint), d \in AssociatedTokenAddress(to, mint)}
  <2>1. Signing("spl_create", from, to, mint, amount, txs)
    BY <1>4, SignIs DEF SignSplTransferWithCreateAta
  <2>2. ASSUME NEW t \in txs PROVE Known(Asked("spl_create", from, to, mint, amount, t))
    <3>1. PICK s \in AssociatedTokenAddress(from, mint), d \in AssociatedTokenAddress(to, mint) : t = tx(s, d)
      <4> HIDE DEF tx
      <4> QED
        BY <2>2
    <3>2. PICK a : a = Asked("spl_create", from, to, mint, amount,
                             Transaction(from, CreateAtaMessage(s, d, from, to, mint, amount)))
      OBVIOUS
    <3>3. Known(a)
      BY <3>2, CreateKnown
    <3>4. a = Asked("spl_create", from, to, mint, amount, t)
      BY <3>1, <3>2
    <3> QED
      BY <3>3, <3>4
  <2> HIDE DEF txs
  <2> QED
    BY <2>1, <2>2, SignsMore
<1>5. ASSUME NEW pk \in Wallet, NEW form \in Form, NEW bytes \in Serialized(from, to, amount, form),
             SignSerialized(pk, bytes, from, to, amount, form)
      PROVE  SignedMore
  <2> DEFINE txs == {Transaction(pk, m) : m \in SerializedMessage(pk, bytes)}
  <2>1. Signing(form, from, to, << >>, amount, txs)
    BY <1>5, SignIs DEF SignSerialized
  <2>2. ASSUME NEW tx \in txs PROVE Known(Asked(form, from, to, << >>, amount, tx))
    <3>1. PICK m \in SerializedMessage(pk, bytes) : tx = Transaction(pk, m)
      BY <2>2
    <3>2. PICK a : a = Asked(form, from, to, << >>, amount, Transaction(pk, m))
      OBVIOUS
    <3>3. Known(a)
      BY <3>2, SerializedKnown
    <3> QED
      BY <3>1, <3>2, <3>3, Zenon
  <2> HIDE DEF txs
  <2> QED
    BY <2>1, <2>2, SignsMore
<1> QED
  BY <1>1, <1>2, <1>3, <1>4, <1>5, Zenon

(* One judgement: what was meant, by a known transaction.                  *)
LEMMA JudgeDoes ==
  ASSUME LedgerInv, NEW a \in signed, Judge(a)
  PROVE  Ledger' = Meant(a) /\ IsLedger(Meant(a)) /\ signed' = signed \ {a}
<1>1. Done(a)
  BY KnownDone, Zenon DEF LedgerInv
<1>2. signed' = signed \ {a}
  BY Zenon DEF Judge
<1>3. Ledger' = LedgerOf(lamports', tokens')
  BY Zenon DEF Ledger, LedgerOf
<1>4. CASE Outcomes(a.tx) = {} /\ Meant(a) = Ledger
  <2>1. UNCHANGED <<lamports, tokens>>
    BY <1>4, Zenon DEF Judge
  <2>2. Ledger' = Ledger
    BY <2>1, Zenon DEF Ledger
  <2> QED
    BY <1>2, <1>4, <2>2, Zenon DEF LedgerInv
<1>5. CASE Outcomes(a.tx) = {Meant(a)} /\ IsLedger(Meant(a))
  <2>1. \E l \in {Meant(a)} : lamports' = l.lamports /\ tokens' = l.tokens
    <3>1. {Meant(a)} # {}
      BY Zenon
    <3> QED
      BY <1>5, <3>1, Zenon DEF Judge
  <2>2. lamports' = Meant(a).lamports /\ tokens' = Meant(a).tokens
    BY <2>1, Zenon
  <2>3. PICK lam, tok : Meant(a) = LedgerOf(lam, tok)
    BY <1>5, Zenon DEF IsLedger
  <2>4. lam = lamports' /\ tok = tokens'
    BY <2>2, <2>3 DEF LedgerOf
  <2> QED
    BY <1>2, <1>3, <1>5, <2>3, <2>4, Zenon
<1> QED
  BY <1>1, <1>4, <1>5, Zenon DEF Done

LEMMA InitLedger == ASSUME Init PROVE LedgerInv
<1>1. PICK without \in Wallet :
        tokens = [account \in {TokenAccount[owner] : owner \in (Wallet \ {without}) \X Mint} |-> Funds]
  BY Zenon DEF Init
<1> DEFINE S == {TokenAccount[owner] : owner \in (Wallet \ {without}) \X Mint}
<1>2. tokens = [account \in S |-> Funds]
  BY <1>1, Zenon
<1>3. S \in SUBSET TokenAccounts
  BY DEF TokenAccounts
<1>4. lamports = [w \in Wallet |-> Funds]
  BY Zenon DEF Init
<1>5. Funds \in Nat
  BY SizeAssumption, Zenon
<1> HIDE DEF S
<1>6. lamports \in [Wallet -> Nat] /\ tokens \in [S -> Nat]
  BY <1>2, <1>4, <1>5
<1>7. IsLedger(Ledger)
  BY <1>3, <1>6, LedgerIs, Zenon DEF IsLedger
<1> QED
  BY <1>7, Zenon DEF LedgerInv, Init

LEMMA NextLedger == ASSUME LedgerInv, [Next]_vars PROVE LedgerInv'
<1>1. CASE UNCHANGED vars
  BY <1>1, Zenon DEF vars, LedgerInv, Ledger
<1>2. CASE SignStep
  <2>1. SignedMore
    BY <1>2, SignStepSigns
  <2>2. Ledger' = Ledger
    BY <2>1, Zenon DEF SignedMore, Ledger
  <2> QED
    BY <2>1, <2>2, Zenon DEF SignedMore, LedgerInv
<1>3. ASSUME NEW a \in signed, Judge(a) PROVE LedgerInv'
  <2>1. Ledger' = Meant(a) /\ IsLedger(Meant(a)) /\ signed' = signed \ {a}
    BY <1>3, JudgeDoes
  <2> QED
    BY <2>1, Zenon DEF LedgerInv
<1> QED
  BY <1>1, <1>2, <1>3, Zenon DEF Next

(* Every transaction that was signed and not yet judged is the message     *)
(* that the call stands for, with the accounts and the signer it names, or *)
(* one that the network can do nothing with; and the network's ledger has  *)
(* no negative balance and no account that nobody owns.                    *)
THEOREM SignedAreKnown == Spec => []LedgerInv
<1>1. Init => LedgerInv
  BY InitLedger
<1>2. LedgerInv /\ [Next]_vars => LedgerInv'
  BY NextLedger
<1> QED
  BY <1>1, <1>2, PTL DEF Spec

(* A signed transfer does what was asked for or nothing, whatever is       *)
(* signed and judged in between: TransfersDoWhatWasMeant.                  *)
THEOREM TransfersMeant == Spec => TransfersDoWhatWasMeant
<1> DEFINE Step == \A a \in signed : a \notin signed' => Ledger' = Meant(a)
<1>1. ASSUME LedgerInv, [Next]_vars PROVE [Step]_vars
  <2>1. CASE UNCHANGED vars
    BY <2>1
  <2>2. CASE SignStep
    BY <2>2, SignStepSigns, Zenon DEF SignedMore
  <2>3. ASSUME NEW a \in signed, Judge(a) PROVE Step
    <3>1. Ledger' = Meant(a) /\ signed' = signed \ {a}
      BY <1>1, <2>3, JudgeDoes
    <3> QED
      BY <3>1, Zenon
  <2> QED
    BY <1>1, <2>1, <2>2, <2>3, Zenon DEF Next
<1> QED
  BY <1>1, SignedAreKnown, PTL DEF Spec, TransfersDoWhatWasMeant
=============================================================================
