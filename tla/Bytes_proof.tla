----------------------------- MODULE Bytes_proof -----------------------------
(***************************************************************************)
(* What proofs about the ledgers and about vault contexts need of numbers, *)
(* bytes and sequences:                                                    *)
(*   - induction over numbers, and functions defined by recursion;         *)
(*   - powers, and the number that digits are;                             *)
(*   - concatenations of many sequences;                                   *)
(*   - numbers as bytes, in both orders;                                   *)
(*   - parts of sequences, and where they lie.                             *)
(***************************************************************************)
EXTENDS Bytes, WellFoundedInduction, SequenceTheorems, FiniteSetTheorems, TLAPS

LEMMA LessThan ==
  \E R, N : N = Nat /\ IsWellFoundedOn(R, N) /\ \A i, j \in N : i < j => <<i, j>> \in R
<1>1. IsWellFoundedOn({pair \in Nat \X Nat : pair[1] < pair[2]}, Nat)
  BY NatLessThanWellFounded DEF OpToRel
<1> QED
  BY <1>1

LEMMA Least ==
  ASSUME NEW T, T \subseteq Nat, T # {}
  PROVE  \E x \in T : \A y \in T : x <= y
<1>1. PICK R, N : N = Nat /\ IsWellFoundedOn(R, N) /\ \A i, j \in N : i < j => <<i, j>> \in R
  BY LessThan
<1>2. T \subseteq N /\ IsWellFoundedOn(R, N)
  BY <1>1
<1>3. \E x \in T : \A y \in T : ~ (<<y, x>> \in R)
  BY <1>2, WFMin
<1>4. PICK x \in T : \A y \in T : ~ (<<y, x>> \in R)
  BY <1>3
<1>5. \A y \in T : x \in Nat /\ y \in Nat /\ ~ (y < x)
  BY <1>1, <1>4
<1> QED
  BY <1>5

LEMMA Induct ==
  ASSUME NEW T, 0 \in T, \A n \in Nat : n \in T => n + 1 \in T
  PROVE  Nat \subseteq T
<1> SUFFICES ASSUME NEW n \in Nat, n \notin T PROVE FALSE
  OBVIOUS
<1>1. PICK x \in Nat \ T : \A y \in Nat \ T : x <= y
  BY Least
<1>2. x # 0 /\ x - 1 \in Nat
  BY <1>1
<1>3. x - 1 \in T
  BY <1>1, <1>2
<1> QED
  BY <1>1, <1>2, <1>3

LEMMA InductUpTo ==
  ASSUME NEW n \in Nat, NEW T, 0 \in T, \A i \in 1..n : i - 1 \in T => i \in T
  PROVE  0..n \subseteq T
<1> DEFINE U == {i \in Nat : i <= n => i \in T}
<1>1. 0 \in U
  OBVIOUS
<1>2. ASSUME NEW i \in Nat, i \in U PROVE i + 1 \in U
  <2>1. i + 1 <= n => i + 1 \in 1..n /\ (i + 1) - 1 = i /\ i <= n
    OBVIOUS
  <2> QED
    BY <1>2, <2>1
<1> HIDE DEF U
<1>3. Nat \subseteq U
  BY <1>1, <1>2, Induct
<1> QED
  BY <1>3 DEF U

(* There is a function from 0..n to S that starts with base and goes on    *)
(* with the steps.                                                         *)
Recursive(S, base, n, step) ==
    \E f \in [0..n -> S] : f[0] = base /\ \A i \in 1..n : f[i] = step[i][f[i - 1]]

(* A function defined by recursion exists, and has the type of its steps.  *)
LEMMA Recursion ==
  ASSUME NEW S, NEW base \in S, NEW n \in Nat, NEW step \in [1..n -> [S -> S]]
  PROVE  Recursive(S, base, n, step)
<1> DEFINE P(m) == \E f \in [0..m -> S] : f[0] = base /\ \A i \in 1..m : f[i] = step[i][f[i - 1]]
           T == {m \in 0..n : P(m)}
<1>1. 0 \in T
  <2> DEFINE f == [i \in 0..0 |-> base]
  <2>1. f \in [0..0 -> S] /\ f[0] = base /\ 1..0 = {}
    OBVIOUS
  <2> HIDE DEF f
  <2>2. P(0)
    BY <2>1
  <2> QED
    BY <2>2
<1>2. ASSUME NEW m \in 1..n, m - 1 \in T PROVE m \in T
  <2>1. PICK f \in [0..m - 1 -> S] : f[0] = base /\ \A i \in 1..m - 1 : f[i] = step[i][f[i - 1]]
    BY <1>2
  <2> DEFINE last == step[m][f[m - 1]]
             g == [i \in 0..m |-> IF i < m THEN f[i] ELSE last]
  <2>2. last \in S
    <3>1. f[m - 1] \in S /\ step[m] \in [S -> S]
      BY <2>1
    <3> QED
      BY <3>1
  <2>3. \A i \in 0..m : g[i] = IF i < m THEN f[i] ELSE last
    OBVIOUS
  <2>4. g \in [0..m -> S]
    <3> HIDE DEF last
    <3> QED
      BY <2>1, <2>2
  <2> HIDE DEF g
  <2>5. g[0] = base
    BY <2>1, <2>3
  <2>6. ASSUME NEW i \in 1..m PROVE g[i] = step[i][g[i - 1]]
    <3>1. g[i - 1] = f[i - 1]
      BY <2>3
    <3>2. CASE i = m
      BY <2>3, <3>1, <3>2
    <3>3. CASE i < m
      <4>1. g[i] = f[i] /\ i \in 1..m - 1
        BY <2>3, <3>3
      <4> QED
        BY <2>1, <3>1, <4>1
    <3> QED
      BY <3>2, <3>3
  <2>7. P(m)
    BY <2>4, <2>5, <2>6
  <2>8. m \in 0..n
    OBVIOUS
  <2> HIDE DEF P
  <2> QED
    BY <2>7, <2>8
<1> HIDE DEF T
<1>3. 0..n \subseteq T
  BY <1>1, <1>2, InductUpTo
<1>4. n \in T
  BY <1>3
<1> QED
  BY <1>4 DEF T, Recursive

-----------------------------------------------------------------------------
LEMMA PowerRecursion ==
  ASSUME NEW base \in Nat, NEW n \in Nat
  PROVE  \E f \in [0..n -> Nat] : f = [i \in 0..n |-> IF i = 0 THEN 1 ELSE base * f[i - 1]]
<1> DEFINE step == [i \in 1..n |-> [x \in Nat |-> base * x]]
<1>1. step \in [1..n -> [Nat -> Nat]]
  OBVIOUS
<1>2. \A i \in 1..n, x \in Nat : step[i][x] = base * x
  OBVIOUS
<1> HIDE DEF step
<1>a. \E f \in [0..n -> Nat] : f[0] = 1 /\ \A i \in 1..n : f[i] = step[i][f[i - 1]]
  <2>1. 1 \in Nat
    OBVIOUS
  <2>2. Recursive(Nat, 1, n, step)
    BY <1>1, <2>1, Recursion
  <2> QED
    BY <2>2 DEF Recursive
<1>b. PICK f \in [0..n -> Nat] : f[0] = 1 /\ \A i \in 1..n : f[i] = step[i][f[i - 1]]
  BY <1>a
<1>4. ASSUME NEW i \in 1..n PROVE f[i] = base * f[i - 1]
  <2>1. f[i - 1] \in Nat
    BY <1>b
  <2> QED
    BY <1>2, <1>b, <2>1
<1>5. f = [i \in 0..n |-> IF i = 0 THEN 1 ELSE base * f[i - 1]]
  BY <1>b, <1>4
<1> QED
  BY <1>5

PowerAre(base, f, n) == f = [i \in 0..n |-> IF i = 0 THEN 1 ELSE base * f[i - 1]]

LEMMA PowerUnique ==
  ASSUME NEW base \in Nat, NEW n \in Nat, NEW m \in Nat, n <= m, NEW f, NEW g, PowerAre(base, f, n), PowerAre(base, g, m)
  PROVE  f[n] = g[n]
<1> DEFINE T == {i \in 0..n : f[i] = g[i]}
<1>1. /\ f[0] = 1 /\ g[0] = 1
      /\ \A i \in 1..n : f[i] = base * f[i - 1] /\ g[i] = base * g[i - 1]
  BY DEF PowerAre
<1>2. 0 \in T
  BY <1>1
<1>3. ASSUME NEW i \in 1..n, i - 1 \in T PROVE i \in T
  BY <1>1, <1>3
<1> HIDE DEF T
<1>4. 0..n \subseteq T
  BY <1>2, <1>3, InductUpTo
<1>5. n \in T
  BY <1>4
<1> QED
  BY <1>5 DEF T

LEMMA PowerFunction ==
  ASSUME NEW base \in Nat, NEW n \in Nat
  PROVE  \E f \in [0..n -> Nat] : PowerAre(base, f, n) /\ f[n] = Power(base, n)
<1>1. PICK f \in [0..n -> Nat] : PowerAre(base, f, n)
  BY PowerRecursion DEF PowerAre
<1> DEFINE g == CHOOSE h : h = [i \in 0..n |-> IF i = 0 THEN 1 ELSE base * h[i - 1]]
<1>2. Power(base, n) = g[n]
  BY DEF Power
<1>3. PowerAre(base, g, n)
  BY <1>1 DEF PowerAre
<1> HIDE DEF g
<1>4. f[n] = g[n]
  BY <1>1, <1>3, PowerUnique
<1> QED
  BY <1>1, <1>2, <1>4

LEMMA PowerFacts ==
  ASSUME NEW base \in Nat
  PROVE
  /\ Power(base, 0) = 1
  /\ \A n \in Nat : Power(base, n) \in Nat
  /\ \A n \in Nat : Power(base, n + 1) = base * Power(base, n)
<1>1. ASSUME NEW n \in Nat PROVE Power(base, n) \in Nat
  <2>1. PICK f \in [0..n -> Nat] : PowerAre(base, f, n) /\ f[n] = Power(base, n)
    BY PowerFunction
  <2> QED
    BY <2>1
<1>2. Power(base, 0) = 1
  BY PowerFunction DEF PowerAre
<1>3. ASSUME NEW n \in Nat PROVE Power(base, n + 1) = base * Power(base, n)
  <2>1. PICK f \in [0..n -> Nat] : PowerAre(base, f, n) /\ f[n] = Power(base, n)
    BY PowerFunction
  <2>2. n + 1 \in Nat
    OBVIOUS
  <2>3. PICK g \in [0..n + 1 -> Nat] : PowerAre(base, g, n + 1) /\ g[n + 1] = Power(base, n + 1)
    BY <2>2, PowerFunction
  <2>4. f[n] = g[n]
    BY <2>1, <2>2, <2>3, PowerUnique
  <2>5. g[n + 1] = base * g[n]
    BY <2>3 DEF PowerAre
  <2> QED
    BY <2>1, <2>3, <2>4, <2>5
<1> QED
  BY <1>1, <1>2, <1>3

LEMMA ValuesFacts ==
  /\ Values(0) = 1
  /\ \A n \in Nat : Values(n) \in Nat
  /\ \A n \in Nat : Values(n + 1) = 256 * Values(n)
<1>1. 256 \in Nat
  OBVIOUS
<1>2. Power(256, 0) = 1
  BY <1>1, PowerFacts
<1>3. \A n \in Nat : Power(256, n) \in Nat
  BY <1>1, PowerFacts
<1>4. \A n \in Nat : Power(256, n + 1) = 256 * Power(256, n)
  BY <1>1, PowerFacts
<1> QED
  BY <1>2, <1>3, <1>4, Zenon DEF Values

LEMMA ValuesPositive == \A n \in Nat : Values(n) \in Nat /\ Values(n) > 0
<1> DEFINE T == {n \in Nat : Values(n) > 0}
<1>1. 0 \in T
  BY ValuesFacts
<1>2. ASSUME NEW n \in Nat, n \in T PROVE n + 1 \in T
  BY <1>2, ValuesFacts
<1> HIDE DEF T
<1>3. Nat \subseteq T
  BY <1>1, <1>2, Induct
<1> QED
  BY <1>3, ValuesFacts DEF T

LEMMA ValuesGrow == ASSUME NEW n \in Nat, NEW k \in Nat PROVE Values(n) <= Values(n + k)
<1> DEFINE T == {i \in Nat : Values(n) <= Values(n + i)}
<1>1. 0 \in T
  BY ValuesPositive
<1>2. ASSUME NEW i \in Nat, i \in T PROVE i + 1 \in T
  <2>1. Values(n + (i + 1)) = 256 * Values(n + i)
    <3>1. Values((n + i) + 1) = 256 * Values(n + i)
      BY ValuesFacts
    <3>2. (n + i) + 1 = n + (i + 1)
      OBVIOUS
    <3> QED
      BY <3>1, <3>2
  <2>2. Values(n) \in Nat /\ Values(n + i) \in Nat /\ Values(n) <= Values(n + i)
    BY <1>2, ValuesPositive
  <2> QED
    BY <2>1, <2>2
<1> HIDE DEF T
<1>3. Nat \subseteq T
  BY <1>1, <1>2, Induct
<1> QED
  BY <1>3 DEF T

-----------------------------------------------------------------------------
(* Numbers and digits *)

NumbersAre(f, base, s) ==
    f = [i \in 0..Len(s) |-> IF i = 0 THEN 0 ELSE base * f[i - 1] + s[i]]

LEMMA NumberRecursion ==
  ASSUME NEW base \in Nat, NEW s \in Seq(Nat)
  PROVE  \E f \in [0..Len(s) -> Nat] : NumbersAre(f, base, s)
<1>0. PICK n \in Nat : n = Len(s)
  OBVIOUS
<1> DEFINE step == [i \in 1..n |-> [x \in Nat |-> base * x + s[i]]]
<1>1. n \in Nat /\ \A i \in 1..n : s[i] \in Nat
  BY <1>0
<1>2. step \in [1..n -> [Nat -> Nat]]
  BY <1>1
<1>3. \A i \in 1..n, x \in Nat : step[i][x] = base * x + s[i]
  OBVIOUS
<1> HIDE DEF step
<1>4. PICK f \in [0..n -> Nat] : f[0] = 0 /\ \A i \in 1..n : f[i] = step[i][f[i - 1]]
  <2>1. 0 \in Nat
    OBVIOUS
  <2>2. Recursive(Nat, 0, n, step)
    BY <1>1, <1>2, <2>1, Recursion
  <2> QED
    BY <2>2 DEF Recursive
<1>5. ASSUME NEW i \in 1..n PROVE f[i] = base * f[i - 1] + s[i]
  <2>1. f[i - 1] \in Nat
    BY <1>1, <1>4
  <2> QED
    BY <1>3, <1>4, <2>1
<1>6. NumbersAre(f, base, s)
  BY <1>0, <1>4, <1>5 DEF NumbersAre
<1> QED
  BY <1>0, <1>4, <1>6

LEMMA NumberStep ==
  ASSUME NEW base \in Nat, NEW s \in Seq(Nat), NEW f, NumbersAre(f, base, s)
  PROVE  f[0] = 0 /\ \A i \in 1..Len(s) : f[i] = base * f[i - 1] + s[i]
<1>0. PICK n \in Nat : n = Len(s)
  OBVIOUS
<1>1. f = [i \in 0..n |-> IF i = 0 THEN 0 ELSE base * f[i - 1] + s[i]]
  BY <1>0 DEF NumbersAre
<1>2. \A j \in 0..n : f[j] = IF j = 0 THEN 0 ELSE base * f[j - 1] + s[j]
  BY <1>1, Zenon
<1>3. 0 \in 0..n /\ \A j \in 1..n : j \in 0..n /\ j # 0
  OBVIOUS
<1> QED
  BY <1>0, <1>2, <1>3, Zenon

(* t goes on from s.                                                       *)
GoesOn(s, t) == Len(s) <= Len(t) /\ \A i \in 1..Len(s) : s[i] = t[i]

SameAt(f, g, i) == f[i] = g[i]

LEMMA NumberUnique ==
  ASSUME NEW base \in Nat, NEW s \in Seq(Nat), NEW t \in Seq(Nat), GoesOn(s, t),
         NEW f, NEW g, NumbersAre(f, base, s), NumbersAre(g, base, t)
  PROVE  SameAt(f, g, Len(s))
<1> DEFINE n == Len(s)
           T == {i \in 0..n : f[i] = g[i]}
<1>1. n \in Nat /\ Len(t) \in Nat /\ n <= Len(t) /\ \A i \in 1..n : s[i] = t[i]
  BY DEF GoesOn
<1>a. f[0] = 0 /\ \A i \in 1..n : f[i] = base * f[i - 1] + s[i]
  BY NumberStep
<1>b. g[0] = 0 /\ \A i \in 1..Len(t) : g[i] = base * g[i - 1] + t[i]
  BY NumberStep
<1>2. /\ f[0] = 0 /\ g[0] = 0
      /\ \A i \in 1..n : f[i] = base * f[i - 1] + s[i] /\ g[i] = base * g[i - 1] + s[i]
  <2>1. \A i \in 1..n : i \in 1..Len(t) /\ s[i] = t[i]
    BY <1>1
  <2> QED
    BY <1>a, <1>b, <2>1
<1> HIDE DEF n
<1>3. 0 \in T
  BY <1>1, <1>2
<1>4. ASSUME NEW i \in 1..n, i - 1 \in T PROVE i \in T
  BY <1>2, <1>4
<1> HIDE DEF T
<1>5. 0..n \subseteq T
  BY <1>1, <1>3, <1>4, InductUpTo
<1>6. n \in T
  BY <1>1, <1>5
<1> QED
  BY <1>6 DEF T, n, SameAt

LEMMA NumberFunction ==
  ASSUME NEW base \in Nat, NEW s \in Seq(Nat)
  PROVE  \E f \in [0..Len(s) -> Nat] : NumbersAre(f, base, s) /\ f[Len(s)] = NumberIn(base, s)
<1>1. PICK f \in [0..Len(s) -> Nat] : NumbersAre(f, base, s)
  BY NumberRecursion
<1> DEFINE g == CHOOSE h : h = [i \in 0..Len(s) |-> IF i = 0 THEN 0 ELSE base * h[i - 1] + s[i]]
<1>2. NumberIn(base, s) = g[Len(s)]
  BY DEF NumberIn
<1>3. NumbersAre(g, base, s)
  BY <1>1 DEF NumbersAre
<1> HIDE DEF g
<1>4. GoesOn(s, s)
  BY DEF GoesOn
<1>5. SameAt(f, g, Len(s))
  BY <1>1, <1>3, <1>4, NumberUnique, Zenon
<1>6. f[Len(s)] = g[Len(s)]
  BY <1>5, Zenon DEF SameAt
<1> QED
  BY <1>1, <1>2, <1>6

Numbers(f, base, s) ==
    /\ f \in [0..Len(s) -> Nat]
    /\ f[0] = 0
    /\ \A i \in 1..Len(s) : f[i] = base * f[i - 1] + s[i]
    /\ f[Len(s)] = NumberIn(base, s)

LEMMA NumbersExist ==
  ASSUME NEW base \in Nat, NEW s \in Seq(Nat)
  PROVE  \E f : Numbers(f, base, s)
<1>1. PICK f \in [0..Len(s) -> Nat] : NumbersAre(f, base, s) /\ f[Len(s)] = NumberIn(base, s)
  BY NumberFunction
<1>2. f[0] = 0 /\ \A i \in 1..Len(s) : f[i] = base * f[i - 1] + s[i]
  BY <1>1, NumberStep
<1>3. Numbers(f, base, s)
  BY <1>1, <1>2 DEF Numbers
<1> QED
  BY <1>3

LEMMA NumberType ==
  ASSUME NEW base \in Nat, NEW s \in Seq(Nat)
  PROVE  NumberIn(base, s) \in Nat
<1>1. PICK f \in [0..Len(s) -> Nat] : NumbersAre(f, base, s) /\ f[Len(s)] = NumberIn(base, s)
  BY NumberFunction
<1>2. Len(s) \in 0..Len(s)
  OBVIOUS
<1> QED
  BY <1>1, <1>2

LEMMA NumberOfNothing ==
  ASSUME NEW base \in Nat
  PROVE  NumberIn(base, << >>) = 0
<1> DEFINE s == << >>
<1>1. s \in Seq(Nat) /\ Len(s) = 0
  OBVIOUS
<1> HIDE DEF s
<1>2. PICK f \in [0..Len(s) -> Nat] : NumbersAre(f, base, s) /\ f[Len(s)] = NumberIn(base, s)
  BY <1>1, NumberFunction
<1>3. NumberIn(base, s) = 0
  BY <1>1, <1>2 DEF NumbersAre
<1> QED
  BY <1>3 DEF s

LEMMA NumberAppend ==
  ASSUME NEW base \in Nat, NEW s \in Seq(Nat), NEW d \in Nat
  PROVE  NumberIn(base, Append(s, d)) = base * NumberIn(base, s) + d
<1> DEFINE t == Append(s, d)
<1>1. /\ t \in Seq(Nat) /\ Len(t) = Len(s) + 1 /\ t[Len(s) + 1] = d
      /\ \A i \in 1..Len(s) : t[i] = s[i]
  OBVIOUS
<1> HIDE DEF t
<1>2. PICK f \in [0..Len(s) -> Nat] : NumbersAre(f, base, s) /\ f[Len(s)] = NumberIn(base, s)
  BY NumberFunction
<1>3. PICK g \in [0..Len(t) -> Nat] : NumbersAre(g, base, t) /\ g[Len(t)] = NumberIn(base, t)
  BY <1>1, NumberFunction
<1>4. Len(s) \in Nat
  OBVIOUS
<1>5. f[Len(s)] = g[Len(s)]
  <2>1. GoesOn(s, t)
    BY <1>1, <1>4 DEF GoesOn
  <2>2. SameAt(f, g, Len(s))
    BY <1>1, <1>2, <1>3, <2>1, NumberUnique, Zenon
  <2> QED
    BY <2>2, Zenon DEF SameAt
<1>6. g[Len(s) + 1] = base * g[Len(s)] + t[Len(s) + 1]
  <2>1. Len(s) + 1 \in 1..Len(t) /\ (Len(s) + 1) - 1 = Len(s)
    BY <1>1, <1>4
  <2>2. \A i \in 1..Len(t) : g[i] = base * g[i - 1] + t[i]
    BY <1>1, <1>3, NumberStep, ZenonT(40)
  <2> QED
    BY <2>1, <2>2
<1>7. NumberIn(base, t) = base * NumberIn(base, s) + d
  BY <1>1, <1>2, <1>3, <1>5, <1>6
<1> QED
  BY <1>7 DEF t

-----------------------------------------------------------------------------
(* Concatenations of many sequences *)

Associates(a, b, c) == (a \o b) \o c = a \o (b \o c)

LEMMA Associativity ==
  ASSUME NEW S, NEW a \in Seq(S), NEW b \in Seq(S), NEW c \in Seq(S)
  PROVE  Associates(a, b, c)
BY DEF Associates

FlattensTo(f, seqs) ==
    f = [i \in 1..Len(seqs) |-> IF i = 1 THEN seqs[i] ELSE f[i - 1] \o seqs[i]]

LEMMA FlattenRecursion ==
  ASSUME NEW S, NEW seqs \in Seq(Seq(S))
  PROVE  \E f \in [1..Len(seqs) -> Seq(S)] : FlattensTo(f, seqs)
<1>0. PICK n \in Nat : n = Len(seqs)
  OBVIOUS
<1> DEFINE step == [i \in 1..n |-> [x \in Seq(S) |-> IF i = 1 THEN seqs[i] ELSE x \o seqs[i]]]
<1>1. \A i \in 1..n : seqs[i] \in Seq(S)
  BY <1>0
<1>2. step \in [1..n -> [Seq(S) -> Seq(S)]]
  BY <1>1
<1>3. \A i \in 1..n, x \in Seq(S) : step[i][x] = IF i = 1 THEN seqs[i] ELSE x \o seqs[i]
  OBVIOUS
<1> HIDE DEF step
<1>4. << >> \in Seq(S)
  OBVIOUS
<1>5. Recursive(Seq(S), << >>, n, step)
  BY <1>2, <1>4, Recursion
<1>6. PICK g \in [0..n -> Seq(S)] : \A i \in 1..n : g[i] = step[i][g[i - 1]]
  BY <1>5 DEF Recursive
<1> DEFINE f == [i \in 1..n |-> g[i]]
<1>7. f \in [1..n -> Seq(S)] /\ \A i \in 1..n : f[i] = g[i]
  BY <1>6
<1>8. f = [i \in 1..n |-> IF i = 1 THEN seqs[i] ELSE f[i - 1] \o seqs[i]]
  <2> SUFFICES ASSUME NEW i \in 1..n
               PROVE  g[i] = IF i = 1 THEN seqs[i] ELSE f[i - 1] \o seqs[i]
    BY <1>7
  <2>1. g[i - 1] \in Seq(S)
    BY <1>6
  <2>2. g[i] = IF i = 1 THEN seqs[i] ELSE g[i - 1] \o seqs[i]
    BY <1>3, <1>6, <2>1
  <2>3. i # 1 => i - 1 \in 1..n
    OBVIOUS
  <2> QED
    BY <1>7, <2>2, <2>3
<1> HIDE DEF f
<1> QED
  BY <1>0, <1>7, <1>8 DEF FlattensTo

LEMMA FlattenStep ==
  ASSUME NEW S, NEW seqs \in Seq(Seq(S)), NEW f, FlattensTo(f, seqs)
  PROVE  \A i \in 1..Len(seqs) : f[i] = IF i = 1 THEN seqs[i] ELSE f[i - 1] \o seqs[i]
BY Zenon DEF FlattensTo

LEMMA FlattenUnique ==
  ASSUME NEW S, NEW s \in Seq(Seq(S)), NEW t \in Seq(Seq(S)), Len(s) <= Len(t),
         \A i \in 1..Len(s) : s[i] = t[i], Len(s) # 0,
         NEW f, NEW g, FlattensTo(f, s), FlattensTo(g, t)
  PROVE  f[Len(s)] = g[Len(s)]
<1>0. PICK n \in Nat : n = Len(s)
  OBVIOUS
<1> DEFINE T == {i \in 0..n : i = 0 \/ f[i] = g[i]}
<1>1. \A i \in 1..n : f[i] = IF i = 1 THEN s[i] ELSE f[i - 1] \o s[i]
  BY <1>0, FlattenStep
<1>2. \A i \in 1..Len(t) : g[i] = IF i = 1 THEN t[i] ELSE g[i - 1] \o t[i]
  BY FlattenStep
<1>3. \A i \in 1..n : i \in 1..Len(t) /\ s[i] = t[i]
  BY <1>0
<1>4. 0 \in T
  OBVIOUS
<1>5. ASSUME NEW i \in 1..n, i - 1 \in T PROVE i \in T
  BY <1>1, <1>2, <1>3, <1>5
<1> HIDE DEF T
<1>6. 0..n \subseteq T
  BY <1>4, <1>5, InductUpTo
<1>7. n \in T
  BY <1>6
<1> QED
  BY <1>0, <1>7 DEF T

LEMMA FlattenFunction ==
  ASSUME NEW S, NEW seqs \in Seq(Seq(S)), Len(seqs) # 0
  PROVE  \E f \in [1..Len(seqs) -> Seq(S)] : FlattensTo(f, seqs) /\ f[Len(seqs)] = FlattenSeq(seqs)
<1>1. PICK f \in [1..Len(seqs) -> Seq(S)] : FlattensTo(f, seqs)
  BY FlattenRecursion
<1> DEFINE g == CHOOSE h : h = [i \in 1..Len(seqs) |-> IF i = 1 THEN seqs[i] ELSE h[i - 1] \o seqs[i]]
<1>2. FlattenSeq(seqs) = g[Len(seqs)]
  BY DEF FlattenSeq
<1>3. FlattensTo(g, seqs)
  BY <1>1 DEF FlattensTo
<1> HIDE DEF g
<1>4. f[Len(seqs)] = g[Len(seqs)]
  BY <1>1, <1>3, FlattenUnique
<1> QED
  BY <1>1, <1>2, <1>4

LEMMA FlattenNothing == FlattenSeq(<< >>) = << >>
BY DEF FlattenSeq

LEMMA FlattenType ==
  ASSUME NEW S, NEW seqs \in Seq(Seq(S))
  PROVE  FlattenSeq(seqs) \in Seq(S)
<1>1. CASE Len(seqs) = 0
  <2>1. seqs = << >>
    BY <1>1
  <2>2. << >> \in Seq(S)
    OBVIOUS
  <2> QED
    BY <2>1, <2>2, FlattenNothing
<1>2. CASE Len(seqs) # 0
  <2>1. PICK f \in [1..Len(seqs) -> Seq(S)] : f[Len(seqs)] = FlattenSeq(seqs)
    BY <1>2, FlattenFunction
  <2>2. Len(seqs) \in 1..Len(seqs)
    BY <1>2
  <2> QED
    BY <2>1, <2>2
<1> QED
  BY <1>1, <1>2

LEMMA FlattenAppend ==
  ASSUME NEW S, NEW seqs \in Seq(Seq(S)), NEW s \in Seq(S)
  PROVE  FlattenSeq(Append(seqs, s)) = FlattenSeq(seqs) \o s
<1> DEFINE t == Append(seqs, s)
<1>0. PICK n \in Nat : n = Len(seqs)
  OBVIOUS
<1>1. /\ t \in Seq(Seq(S)) /\ Len(t) = n + 1 /\ t[n + 1] = s
      /\ \A i \in 1..n : t[i] = seqs[i]
  BY <1>0
<1> HIDE DEF t
<1>2. PICK g \in [1..Len(t) -> Seq(S)] : FlattensTo(g, t) /\ g[Len(t)] = FlattenSeq(t)
  <2>1. Len(t) # 0
    BY <1>1
  <2> QED
    BY <1>1, <2>1, FlattenFunction
<1>3. \A i \in 1..n + 1 : g[i] = IF i = 1 THEN t[i] ELSE g[i - 1] \o t[i]
  <2>1. \A i \in 1..Len(t) : g[i] = IF i = 1 THEN t[i] ELSE g[i - 1] \o t[i]
    BY <1>1, <1>2, FlattenStep, ZenonT(40)
  <2> QED
    BY <1>1, <2>1
<1>4. FlattenSeq(t) = IF n = 0 THEN s ELSE g[n] \o s
  <2>1. n + 1 \in 1..n + 1 /\ (n + 1) - 1 = n /\ (n + 1 = 1 <=> n = 0)
    OBVIOUS
  <2>2. g[n + 1] = IF n = 0 THEN t[n + 1] ELSE g[n] \o t[n + 1]
    BY <1>3, <2>1
  <2> QED
    BY <1>1, <1>2, <2>2
<1>5. CASE n = 0
  <2>1. seqs = << >>
    BY <1>0, <1>5, EmptySeq
  <2>3. FlattenSeq(t) = s
    BY <1>4, <1>5
  <2>2. << >> \o s = s
    BY ConcatEmptySeq
  <2> QED
    BY <2>1, <2>2, <2>3, FlattenNothing DEF t
<1>6. CASE n # 0
  <2>1. PICK f \in [1..Len(seqs) -> Seq(S)] : FlattensTo(f, seqs) /\ f[Len(seqs)] = FlattenSeq(seqs)
    BY <1>0, <1>6, FlattenFunction
  <2>2. f[n] = g[n]
    <3>1. Len(seqs) <= Len(t) /\ Len(seqs) # 0 /\ \A i \in 1..Len(seqs) : seqs[i] = t[i]
      BY <1>0, <1>1, <1>6
    <3>2. f[Len(seqs)] = g[Len(seqs)]
      BY <1>1, <1>2, <2>1, <3>1, FlattenUnique
    <3> QED
      BY <1>0, <3>2
  <2>3. FlattenSeq(t) = FlattenSeq(seqs) \o s
    BY <1>0, <1>4, <1>6, <2>1, <2>2
  <2> QED
    BY <2>3 DEF t
<1> QED
  BY <1>5, <1>6

LEMMA FlattenOne ==
  ASSUME NEW S, NEW s \in Seq(S)
  PROVE  FlattenSeq(<<s>>) = s
<1>1. << >> \in Seq(Seq(S)) /\ <<s>> = Append(<< >>, s)
  OBVIOUS
<1>2. FlattenSeq(Append(<< >>, s)) = << >> \o s
  BY <1>1, FlattenAppend, FlattenNothing
<1>3. << >> \o s = s
  BY ConcatEmptySeq
<1> QED
  BY <1>1, <1>2, <1>3

LEMMA FlattenConcat ==
  ASSUME NEW S, NEW s \in Seq(Seq(S)), NEW t \in Seq(Seq(S))
  PROVE  FlattenSeq(s \o t) = FlattenSeq(s) \o FlattenSeq(t)
<1> DEFINE P(u) == FlattenSeq(s \o u) = FlattenSeq(s) \o FlattenSeq(u)
           T == {n \in Nat : \A u \in Seq(Seq(S)) : Len(u) = n => P(u)}
<1>1. 0 \in T
  <2> SUFFICES ASSUME NEW u \in Seq(Seq(S)), Len(u) = 0 PROVE P(u)
    OBVIOUS
  <2>1. u = << >>
    OBVIOUS
  <2>2. s \o << >> = s
    BY ConcatEmptySeq
  <2>3. FlattenSeq(s) \o << >> = FlattenSeq(s)
    BY FlattenType, ConcatEmptySeq
  <2> QED
    BY <2>1, <2>2, <2>3, FlattenNothing
<1>2. ASSUME NEW n \in Nat, n \in T PROVE n + 1 \in T
  <2> SUFFICES ASSUME NEW u \in Seq(Seq(S)), Len(u) = n + 1 PROVE P(u)
    OBVIOUS
  <2>1. u # << >>
    OBVIOUS
  <2>2. PICK v \in Seq(Seq(S)), x \in Seq(S) : u = Append(v, x)
    BY <2>1, SequenceEmptyOrAppend
  <2>3. Len(v) = n
    BY <2>2
  <2>4. P(v)
    BY <1>2, <2>3
  <2>5. s \o u = Append(s \o v, x) /\ s \o v \in Seq(Seq(S))
    BY <2>2
  <2>6. FlattenSeq(s \o u) = FlattenSeq(s \o v) \o x
    BY <2>5, FlattenAppend
  <2>7. FlattenSeq(u) = FlattenSeq(v) \o x
    BY <2>2, FlattenAppend
  <2>8. (FlattenSeq(s) \o FlattenSeq(v)) \o x = FlattenSeq(s) \o (FlattenSeq(v) \o x)
    <3>1. FlattenSeq(s) \in Seq(S) /\ FlattenSeq(v) \in Seq(S)
      BY FlattenType
    <3>2. Associates(FlattenSeq(s), FlattenSeq(v), x)
      BY <3>1, Associativity
    <3> QED
      BY <3>2 DEF Associates
  <2> QED
    BY <2>4, <2>6, <2>7, <2>8
<1> HIDE DEF T
<1>3. Nat \subseteq T
  BY <1>1, <1>2, Induct
<1>4. Len(t) \in T
  BY <1>3
<1> QED
  BY <1>4 DEF T

-----------------------------------------------------------------------------
(* Numbers as bytes *)

LEMMA BytesAreNumbers == ASSUME NEW s \in Seq(Octet) PROVE s \in Seq(Nat)
<1>1. \A i \in 1..Len(s) : s[i] \in Nat
  <2>1. \A b \in Octet : b \in Nat
    BY DEF Octet
  <2>2. \A i \in 1..Len(s) : s[i] \in Octet
    OBVIOUS
  <2> QED
    BY <2>1, <2>2
<1> QED
  BY <1>1

(* A shift to the right by leading zeros changes nothing.                  *)
LEMMA NumberShift ==
  ASSUME NEW base \in Nat, NEW t \in Seq(Nat), NEW u \in Seq(Nat), NEW k \in Nat,
         Len(t) = k + Len(u), \A i \in 1..k : t[i] = 0, \A i \in 1..Len(u) : u[i] = t[k + i]
  PROVE  NumberIn(base, t) = NumberIn(base, u)
<1>0. PICK n \in Nat : n = Len(u)
  OBVIOUS
<1>1. PICK f : Numbers(f, base, t)
  BY NumbersExist
<1>2. PICK g : Numbers(g, base, u)
  BY NumbersExist
<1>3. f[0] = 0 /\ \A i \in 1..k + n : f[i] = base * f[i - 1] + t[i]
  BY <1>0, <1>1 DEF Numbers
<1>4. g[0] = 0 /\ \A i \in 1..n : g[i] = base * g[i - 1] + u[i]
  BY <1>0, <1>2 DEF Numbers
<1>a. f[k + n] = NumberIn(base, t) /\ g[n] = NumberIn(base, u)
  BY <1>0, <1>1, <1>2 DEF Numbers
<1> DEFINE Z == {i \in 0..k : f[i] = 0}
           T == {i \in 0..n : f[k + i] = g[i]}
<1>5. f[k] = 0
  <2>1. 0 \in Z
    BY <1>3
  <2>2. ASSUME NEW i \in 1..k, i - 1 \in Z PROVE i \in Z
    <3>3. i \in 1..k + n /\ t[i] = 0
      OBVIOUS
    <3>1. f[i] = base * f[i - 1] + t[i] /\ t[i] = 0 /\ f[i - 1] = 0
      BY <1>3, <2>2, <3>3
    <3>2. base * 0 + 0 = 0
      OBVIOUS
    <3> QED
      BY <3>1, <3>2
  <2> HIDE DEF Z
  <2>3. 0..k \subseteq Z
    BY <2>1, <2>2, InductUpTo
  <2>4. k \in Z
    BY <2>3
  <2> QED
    BY <2>4 DEF Z
<1>6. 0 \in T
  BY <1>4, <1>5
<1>7. ASSUME NEW i \in 1..n, i - 1 \in T PROVE i \in T
  <2>1. k + i \in 1..k + n /\ (k + i) - 1 = k + (i - 1)
    OBVIOUS
  <2>2. f[k + i] = base * f[k + (i - 1)] + t[k + i]
    BY <1>3, <2>1
  <2>3. g[i] = base * g[i - 1] + u[i] /\ u[i] = t[k + i]
    BY <1>0, <1>4
  <2> QED
    BY <1>7, <2>2, <2>3
<1> HIDE DEF T
<1>8. 0..n \subseteq T
  BY <1>6, <1>7, InductUpTo
<1>9. n \in T
  BY <1>8
<1> QED
  BY <1>a, <1>9 DEF T

LEMMA LeadingZerosFacts ==
  ASSUME NEW s \in Seq(Nat)
  PROVE  /\ LeadingZeros(s) \in 0..Len(s)
         /\ \A i \in 1..LeadingZeros(s) : s[i] = 0
         /\ LeadingZeros(s) < Len(s) => s[LeadingZeros(s) + 1] # 0
<1>0. PICK n \in Nat : n = Len(s)
  OBVIOUS
<1> DEFINE Zeros == {i \in 1..n : \A j \in 1..i : s[j] = 0}
           Ends == {k \in 0..n : k = n \/ s[k + 1] # 0}
<1>1. PICK k \in Ends : \A j \in Ends : k <= j
  <2>1. n \in Ends /\ Ends \subseteq Nat
    OBVIOUS
  <2> HIDE DEF Ends
  <2> QED
    BY <2>1, Least
<1>2. k \in 0..n /\ (k = n \/ s[k + 1] # 0)
  OBVIOUS
<1>3. \A i \in 1..k : s[i] = 0
  <2> SUFFICES ASSUME NEW i \in 1..k, s[i] # 0 PROVE FALSE
    OBVIOUS
  <2>1. i - 1 \in 0..n /\ (i - 1) + 1 = i /\ ~(k <= i - 1)
    BY <1>2
  <2>2. i - 1 \in Ends
    BY <2>1
  <2> QED
    BY <1>1, <2>1, <2>2
<1>4. Zeros = 1..k
  <2>1. ASSUME NEW i \in Zeros PROVE i \in 1..k
    BY <1>2
  <2>2. ASSUME NEW i \in 1..k PROVE i \in Zeros
    BY <1>2, <1>3
  <2> QED
    BY <2>1, <2>2
<1>5. Cardinality(1..k) = k
  <2>1. 1 \in Int /\ k \in Int
    BY <1>2
  <2>2. Cardinality(1..k) = IF 1 > k THEN 0 ELSE k - 1 + 1
    BY <2>1, FS_Interval
  <2> QED
    BY <1>2, <2>2
<1>6. LeadingZeros(s) = k
  <2>1. DOMAIN s = 1..n
    BY <1>0
  <2>2. LeadingZeros(s) = Cardinality(Zeros)
    BY <2>1, Zenon DEF LeadingZeros
  <2> QED
    BY <1>4, <1>5, <2>2, Zenon
<1> QED
  BY <1>0, <1>2, <1>3, <1>6

(* Bytes without leading zeros.                                            *)
IsCanonical(bytes) == bytes = << >> \/ bytes[1] # 0

LEMMA StrippedFacts ==
  ASSUME NEW s \in Seq(Octet)
  PROVE  /\ Stripped(s) \in Seq(Octet)
         /\ Len(Stripped(s)) <= Len(s)
         /\ IsCanonical(Stripped(s))
         /\ Number(Stripped(s)) = Number(s)
<1>0. PICK n \in Nat : n = Len(s)
  OBVIOUS
<1>n. s \in Seq(Nat)
  BY BytesAreNumbers
<1>1. PICK k \in 0..n : k = LeadingZeros(s)
  BY <1>0, <1>n, LeadingZerosFacts
<1>z. \A i \in 1..k : s[i] = 0
  BY <1>1, <1>n, LeadingZerosFacts
<1>k. k < n => s[k + 1] # 0
  BY <1>0, <1>1, <1>n, LeadingZerosFacts
<1> DEFINE u == SubSeq(s, k + 1, n)
<1>2. u \in Seq(Octet) /\ Len(u) = n - k /\ \A i \in 1..n - k : u[i] = s[k + i]
  <2>1. \A i \in k + 1..n : s[i] \in Octet
    BY <1>0
  <2>2. k + 1 \in Int /\ n \in Int /\ (n - (k + 1)) + 1 = n - k
    OBVIOUS
  <2>3. /\ u \in Seq(Octet)
        /\ Len(u) = IF k + 1 <= n THEN n - (k + 1) + 1 ELSE 0
        /\ \A i \in 1..n - (k + 1) + 1 : u[i] = s[(k + 1) + i - 1]
    BY <2>1, <2>2, SubSeqProperties
  <2> QED
    BY <2>2, <2>3
<1> HIDE DEF u
<1>3. Stripped(s) = u
  BY <1>0, <1>1 DEF Stripped, u
<1>4. IsCanonical(u)
  <2>1. CASE k = n
    BY <1>2, <2>1 DEF IsCanonical
  <2>2. CASE k < n
    <3>1. 1 \in 1..n - k
      BY <2>2
    <3>2. u[1] = s[k + 1]
      BY <1>2, <3>1
    <3> QED
      BY <1>k, <2>2, <3>2 DEF IsCanonical
  <2> QED
    BY <2>1, <2>2
<1>5. NumberIn(256, s) = NumberIn(256, u)
  <2>1. /\ u \in Seq(Nat) /\ s \in Seq(Nat) /\ k \in Nat /\ Len(s) = k + Len(u)
        /\ \A i \in 1..k : s[i] = 0
        /\ \A i \in 1..Len(u) : u[i] = s[k + i]
    <3>1. u \in Seq(Nat) /\ s \in Seq(Nat)
      BY <1>2, BytesAreNumbers
    <3>2. k \in Nat /\ Len(s) = k + Len(u)
      BY <1>0, <1>2
    <3>3. \A i \in 1..k : s[i] = 0
      BY <1>z
    <3>4. \A i \in 1..Len(u) : u[i] = s[k + i]
      BY <1>2
    <3> QED
      BY <3>1, <3>2, <3>3, <3>4
  <2> QED
    BY <2>1, NumberShift, SMTT(30)
<1> QED
  BY <1>0, <1>2, <1>3, <1>4, <1>5 DEF Number

LEMMA DigitsBelow ==
  ASSUME NEW a \in Nat, NEW b \in Nat, NEW x \in 0..255, a < b
  PROVE  256 * a + x < 256 * b
OBVIOUS

WithDigit(n, digit) == 256 * n + digit

LEMMA DigitsOfNumber ==
  \A n \in Nat : \A d \in 0..255 : WithDigit(n, d) \div 256 = n /\ WithDigit(n, d) % 256 = d
BY DEF WithDigit

LEMMA NumberOfAppended ==
  ASSUME NEW s \in Seq(Octet), NEW x \in Octet
  PROVE  Number(Append(s, x)) = 256 * Number(s) + x
<1>1. s \in Seq(Nat)
  BY BytesAreNumbers
<1>2. x \in Nat /\ 256 \in Nat
  BY DEF Octet
<1> QED
  BY <1>1, <1>2, NumberAppend DEF Number

LEMMA NumberBound ==
  ASSUME NEW s \in Seq(Octet)
  PROVE  Number(s) \in Nat /\ Number(s) < Values(Len(s))
<1>0. PICK n \in Nat : n = Len(s)
  OBVIOUS
<1>1. s \in Seq(Nat)
  BY BytesAreNumbers
<1>2. PICK f : Numbers(f, 256, s)
  BY <1>1, NumbersExist
<1>3. f \in [0..n -> Nat] /\ f[0] = 0 /\ f[n] = Number(s)
  BY <1>0, <1>2 DEF Numbers, Number
<1>4. \A i \in 1..n : f[i] = 256 * f[i - 1] + s[i]
  BY <1>0, <1>2 DEF Numbers
<1> DEFINE T == {i \in 0..n : f[i] < Values(i)}
<1>5. 0 \in T
  BY <1>3, ValuesFacts
<1>6. ASSUME NEW i \in 1..n, i - 1 \in T PROVE i \in T
  <2>1. f[i - 1] \in Nat /\ Values(i - 1) \in Nat /\ f[i - 1] < Values(i - 1)
    BY <1>3, <1>6, ValuesFacts
  <2>2. s[i] \in 0..255
    BY <1>0 DEF Octet
  <2>3. Values(i) = 256 * Values(i - 1)
    <3>1. i - 1 \in Nat /\ (i - 1) + 1 = i
      OBVIOUS
    <3>2. Values((i - 1) + 1) = 256 * Values(i - 1)
      BY <3>1, ValuesFacts
    <3> QED
      BY <3>1, <3>2
  <2>4. 256 * f[i - 1] + s[i] < 256 * Values(i - 1)
    BY <2>1, <2>2, DigitsBelow, ZenonT(40)
  <2>5. f[i] < Values(i)
    BY <1>4, <2>3, <2>4
  <2> QED
    BY <2>5
<1> HIDE DEF T
<1>7. 0..n \subseteq T
  BY <1>5, <1>6, InductUpTo
<1>8. n \in T
  BY <1>7
<1> QED
  BY <1>0, <1>3, <1>8 DEF T

(* Bytes of one length that are the same number are the same bytes: an     *)
(* amount in a word of an ABI call or in a field of a transaction can be   *)
(* read in one way only (rlp_encode_u256, AbiCall).                        *)
THEOREM NumberInjective ==
  ASSUME NEW s \in Seq(Octet), NEW t \in Seq(Octet), Len(s) = Len(t), Number(s) = Number(t)
  PROVE  s = t
<1> DEFINE T == {n \in Nat : \A a, b \in Seq(Octet) :
                   Len(a) = n /\ Len(b) = n /\ Number(a) = Number(b) => a = b}
<1>1. 0 \in T
  OBVIOUS
<1>2. ASSUME NEW n \in Nat, n \in T PROVE n + 1 \in T
  <2> SUFFICES ASSUME NEW a \in Seq(Octet), NEW b \in Seq(Octet),
                      Len(a) = n + 1, Len(b) = n + 1, Number(a) = Number(b)
               PROVE  a = b
    OBVIOUS
  <2>1. a # << >> /\ b # << >>
    OBVIOUS
  <2>2. PICK c \in Seq(Octet), x \in Octet : a = Append(c, x)
    BY <2>1, SequenceEmptyOrAppend
  <2>3. PICK d \in Seq(Octet), y \in Octet : b = Append(d, y)
    BY <2>1, SequenceEmptyOrAppend
  <2>4. Len(c) = n /\ Len(d) = n
    BY <2>2, <2>3
  <2>5. Number(c) \in Nat /\ Number(d) \in Nat
    BY NumberBound
  <2>6. x \in 0..255 /\ y \in 0..255 /\ 256 \in Nat
    BY DEF Octet
  <2>7. Number(a) = 256 * Number(c) + x
    BY <2>2, NumberOfAppended
  <2>8. Number(b) = 256 * Number(d) + y
    BY <2>3, NumberOfAppended
  <2>9. Number(c) = Number(d) /\ x = y
    <3>1. PICK p \in Nat : p = Number(c)
      BY <2>5
    <3>2. PICK q \in Nat : q = Number(d)
      BY <2>5
    <3>3. WithDigit(p, x) = WithDigit(q, y)
      BY <2>7, <2>8, <3>1, <3>2, ZenonT(40) DEF WithDigit
    <3>4. WithDigit(p, x) \div 256 = p /\ WithDigit(p, x) % 256 = x
      BY <2>6, DigitsOfNumber, ZenonT(40)
    <3>5. WithDigit(q, y) \div 256 = q /\ WithDigit(q, y) % 256 = y
      BY <2>6, DigitsOfNumber, ZenonT(40)
    <3> QED
      BY <3>1, <3>2, <3>3, <3>4, <3>5, ZenonT(40)
  <2>10. c = d
    BY <1>2, <2>4, <2>9
  <2> QED
    BY <2>2, <2>3, <2>9, <2>10
<1> HIDE DEF T
<1>3. Nat \subseteq T
  BY <1>1, <1>2, Induct
<1>4. Len(s) \in T
  BY <1>3
<1> QED
  BY <1>4 DEF T

(* Bytes that do not begin with a zero are no small number.                *)
LEMMA NumberAtLeast ==
  ASSUME NEW n \in Nat, NEW s \in Seq(Octet), Len(s) = n + 1, s[1] # 0
  PROVE  Values(n) <= Number(s)
<1>1. s \in Seq(Nat)
  BY BytesAreNumbers
<1>2. PICK f : Numbers(f, 256, s)
  BY <1>1, NumbersExist
<1>3. f \in [0..n + 1 -> Nat] /\ f[0] = 0 /\ f[n + 1] = Number(s)
  BY <1>2 DEF Numbers, Number
<1>4. \A i \in 1..n + 1 : f[i] = 256 * f[i - 1] + s[i]
  BY <1>2 DEF Numbers
<1> DEFINE T == {i \in 0..n : Values(i) <= f[i + 1]}
<1>5. 0 \in T
  <2>1. 1 \in 1..n + 1 /\ 1 - 1 = 0 /\ s[1] \in Nat
    BY <1>1
  <2>2. f[1] = 256 * f[0] + s[1]
    BY <1>4, <2>1
  <2>3. f[1] >= 1
    BY <1>3, <2>1, <2>2
  <2>4. 0 + 1 = 1 /\ 0 \in 0..n
    OBVIOUS
  <2> QED
    BY <2>3, <2>4, ValuesFacts
<1>6. ASSUME NEW i \in 1..n, i - 1 \in T PROVE i \in T
  <2>0. i + 1 \in 1..n + 1 /\ (i + 1) - 1 = i /\ (i - 1) + 1 = i /\ i - 1 \in Nat
    OBVIOUS
  <2>1. f[i] \in Nat /\ Values(i - 1) \in Nat /\ Values(i - 1) <= f[i]
    BY <1>3, <1>6, <2>0, ValuesFacts
  <2>2. s[i + 1] \in Nat
    BY <1>1, <2>0
  <2>3. Values(i) = 256 * Values(i - 1)
    <3>2. Values((i - 1) + 1) = 256 * Values(i - 1)
      BY <2>0, ValuesFacts
    <3> QED
      BY <2>0, <3>2
  <2>4. f[i + 1] = 256 * f[i] + s[i + 1]
    BY <1>4, <2>0
  <2>5. Values(i) <= f[i + 1]
    BY <2>1, <2>2, <2>3, <2>4
  <2> QED
    BY <2>5
<1> HIDE DEF T
<1>7. 0..n \subseteq T
  BY <1>5, <1>6, InductUpTo
<1>8. n \in T
  BY <1>7
<1> QED
  BY <1>3, <1>8 DEF T

LEMMA CanonicalShorter ==
  ASSUME NEW s \in Seq(Octet), NEW t \in Seq(Octet), IsCanonical(t), Number(s) = Number(t)
  PROVE  Len(t) <= Len(s)
<1> SUFFICES ASSUME Len(s) < Len(t) PROVE FALSE
  OBVIOUS
<1>0. PICK n \in Nat, m \in Nat : n = Len(s) /\ m + 1 = Len(t)
  <2>1. Len(s) \in Nat /\ Len(t) - 1 \in Nat /\ (Len(t) - 1) + 1 = Len(t)
    OBVIOUS
  <2> QED
    BY <2>1
<1>1. t[1] # 0
  BY <1>0 DEF IsCanonical
<1>2. Values(m) <= Number(t)
  BY <1>0, <1>1, NumberAtLeast
<1>3. m - n \in Nat /\ n + (m - n) = m
  BY <1>0
<1>4. Values(n) <= Values(m)
  <2>1. Values(n) <= Values(n + (m - n))
    BY <1>3, ValuesGrow
  <2> QED
    BY <1>3, <2>1
<1>5. Number(s) \in Nat /\ Number(s) < Values(n) /\ Values(n) \in Nat /\ Values(m) \in Nat
  BY <1>0, NumberBound, ValuesFacts
<1> QED
  BY <1>2, <1>4, <1>5

LEMMA CanonicalUnique ==
  ASSUME NEW s \in Seq(Octet), NEW t \in Seq(Octet), IsCanonical(s), IsCanonical(t),
         Number(s) = Number(t)
  PROVE  s = t
<1>1. Len(t) <= Len(s) /\ Len(s) <= Len(t)
  BY CanonicalShorter
<1> QED
  BY <1>1, NumberInjective

LEMMA LittleEndianType ==
  ASSUME NEW n \in Nat, NEW size \in Nat
  PROVE  /\ LittleEndian(n, size) \in Seq(Octet)
         /\ Len(LittleEndian(n, size)) = size
         /\ \A i \in 1..size : LittleEndian(n, size)[i] = (n \div Values(i - 1)) % 256
<1> DEFINE l == LittleEndian(n, size)
<1>1. \A i \in 1..size : (n \div Values(i - 1)) % 256 \in Octet
  <2> SUFFICES ASSUME NEW i \in 1..size PROVE (n \div Values(i - 1)) % 256 \in Octet
    OBVIOUS
  <2>1. Values(i - 1) \in Nat /\ Values(i - 1) > 0
    BY ValuesPositive
  <2> QED
    BY <2>1 DEF Octet
<1>2. l \in [1..size -> Octet]
  BY <1>1 DEF LittleEndian
<1>3. \A i \in 1..size : l[i] = (n \div Values(i - 1)) % 256
  BY DEF LittleEndian
<1> HIDE DEF l
<1>4. l \in Seq(Octet) /\ Len(l) = size
  BY <1>2
<1> QED
  BY <1>3, <1>4 DEF l

LEMMA BigEndianType ==
  ASSUME NEW n \in Nat, NEW size \in Nat
  PROVE  /\ BigEndian(n, size) \in Seq(Octet)
         /\ Len(BigEndian(n, size)) = size
         /\ \A i \in 1..size : BigEndian(n, size)[i] = (n \div Values(size - i)) % 256
<1> DEFINE l == LittleEndian(n, size)
<1>1. l \in Seq(Octet) /\ Len(l) = size /\ \A i \in 1..size : l[i] = (n \div Values(i - 1)) % 256
  BY LittleEndianType
<1>2. BigEndian(n, size) = Reverse(l)
  BY DEF BigEndian
<1> HIDE DEF l
<1> DEFINE b == Reverse(l)
<1>3. b = [i \in 1..size |-> l[(size - i) + 1]]
  BY <1>1 DEF Reverse
<1>4. \A i \in 1..size : (size - i) + 1 \in 1..size /\ ((size - i) + 1) - 1 = size - i
  OBVIOUS
<1>5. b \in [1..size -> Octet]
  <2>1. \A i \in 1..size : l[i] \in Octet
    BY <1>1
  <2> QED
    BY <1>3, <1>4, <2>1
<1>6. \A i \in 1..size : b[i] = (n \div Values(size - i)) % 256
  BY <1>1, <1>3, <1>4
<1> HIDE DEF b
<1>7. b \in Seq(Octet) /\ Len(b) = size
  BY <1>5
<1> QED
  BY <1>2, <1>6, <1>7 DEF b

LEMMA BigEndianAppend ==
  ASSUME NEW n \in Nat, NEW size \in Nat
  PROVE  BigEndian(n, size + 1) = Append(BigEndian(n \div 256, size), n % 256)
<1>1. n \div 256 \in Nat /\ n % 256 \in Octet /\ size + 1 \in Nat
  BY DEF Octet
<1> DEFINE a == BigEndian(n, size + 1)
           b == BigEndian(n \div 256, size)
<1>2. a \in Seq(Octet) /\ Len(a) = size + 1
  BY <1>1, BigEndianType
<1>2a. \A i \in 1..size + 1 : a[i] = (n \div Values((size + 1) - i)) % 256
  <2>1. PICK next \in Nat : next = size + 1
    BY <1>1
  <2>2. \A i \in 1..next : BigEndian(n, next)[i] = (n \div Values(next - i)) % 256
    BY BigEndianType
  <2> QED
    BY <2>1, <2>2, Zenon
<1>3. b \in Seq(Octet) /\ Len(b) = size
  BY <1>1, BigEndianType, ZenonT(40)
<1>3a. \A i \in 1..size : b[i] = ((n \div 256) \div Values(size - i)) % 256
  <2>1. PICK rest \in Nat : rest = n \div 256
    BY <1>1
  <2>2. \A i \in 1..size : BigEndian(rest, size)[i] = (rest \div Values(size - i)) % 256
    BY BigEndianType
  <2> QED
    BY <2>1, <2>2, ZenonT(40)
<1> HIDE DEF a, b
<1>4. ASSUME NEW i \in 1..size PROVE a[i] = b[i]
  <2>1. PICK k \in Nat : k = size - i
    OBVIOUS
  <2>2. (size + 1) - i = k + 1 /\ i \in 1..size + 1
    BY <2>1
  <2>3. Values(k) \in Nat /\ Values(k) > 0 /\ Values(k + 1) = 256 * Values(k)
    BY ValuesPositive, ValuesFacts
  <2>4. (n \div 256) \div Values(k) = n \div (256 * Values(k))
    BY <2>3
  <2> QED
    BY <1>2a, <1>3a, <2>1, <2>2, <2>3, <2>4
<1>5. a[size + 1] = n % 256
  <2>1. (size + 1) - (size + 1) = 0 /\ size + 1 \in 1..size + 1 /\ n \div 1 = n
    OBVIOUS
  <2> QED
    BY <1>2a, <2>1, ValuesFacts
<1>6. a = Append(b, n % 256)
  BY <1>1, <1>2, <1>3, <1>4, <1>5
<1> QED
  BY <1>6 DEF a, b

LEMMA BigEndianNumber ==
  ASSUME NEW n \in Nat, NEW size \in Nat, n < Values(size)
  PROVE  Number(BigEndian(n, size)) = n
<1> DEFINE T == {k \in Nat : \A m \in Nat : m < Values(k) => Number(BigEndian(m, k)) = m}
<1>1. 0 \in T
  <2> SUFFICES ASSUME NEW m \in Nat, m < Values(0) PROVE Number(BigEndian(m, 0)) = m
    OBVIOUS
  <2>1. m = 0
    BY ValuesFacts
  <2>2. BigEndian(m, 0) \in Seq(Octet) /\ Len(BigEndian(m, 0)) = 0
    BY BigEndianType
  <2>3. BigEndian(m, 0) = << >>
    BY <2>2, EmptySeq
  <2> QED
    BY <2>1, <2>3, NumberOfNothing DEF Number
<1>2. ASSUME NEW k \in Nat, k \in T PROVE k + 1 \in T
  <2> SUFFICES ASSUME NEW m \in Nat, m < Values(k + 1) PROVE Number(BigEndian(m, k + 1)) = m
    OBVIOUS
  <2>0. Values(k + 1) = 256 * Values(k) /\ Values(k) \in Nat
    BY ValuesFacts
  <2>1. m \div 256 \in Nat /\ m % 256 \in Nat /\ m \div 256 < Values(k) /\ m = 256 * (m \div 256) + (m % 256)
    BY <2>0
  <2>2. Number(BigEndian(m \div 256, k)) = m \div 256
    BY <1>2, <2>1
  <2>3. BigEndian(m, k + 1) = Append(BigEndian(m \div 256, k), m % 256)
    BY BigEndianAppend
  <2>4. BigEndian(m \div 256, k) \in Seq(Octet) /\ m % 256 \in Octet
    BY <2>1, BigEndianType DEF Octet
  <2>5. Number(Append(BigEndian(m \div 256, k), m % 256)) = 256 * Number(BigEndian(m \div 256, k)) + (m % 256)
    BY <2>1, <2>4, NumberOfAppended
  <2> QED
    BY <2>1, <2>2, <2>3, <2>5, ZenonT(40)
<1> HIDE DEF T
<1>3. Nat \subseteq T
  BY <1>1, <1>2, Induct
<1> QED
  BY <1>3 DEF T

LEMMA BigEndianOfNumber ==
  ASSUME NEW s \in Seq(Octet)
  PROVE  BigEndian(Number(s), Len(s)) = s
<1>1. Number(s) \in Nat /\ Number(s) < Values(Len(s)) /\ Len(s) \in Nat
  BY NumberBound
<1>2. BigEndian(Number(s), Len(s)) \in Seq(Octet) /\ Len(BigEndian(Number(s), Len(s))) = Len(s)
  BY <1>1, BigEndianType
<1>3. Number(BigEndian(Number(s), Len(s))) = Number(s)
  BY <1>1, BigEndianNumber
<1> QED
  BY <1>2, <1>3, NumberInjective

-----------------------------------------------------------------------------
(* Parts of sequences *)

LEMMA Elements == ASSUME NEW S, NEW s \in Seq(S) PROVE \A i \in 1..Len(s) : s[i] \in S
OBVIOUS

LEMMA OctetNumber == \A x \in Octet : x \in Nat
BY DEF Octet

LEMMA SameElements ==
  ASSUME NEW S, NEW s \in Seq(S), NEW t \in Seq(S), Len(s) = Len(t), \A i \in 1..Len(s) : s[i] = t[i]
  PROVE  s = t
OBVIOUS

Prefixed(s, i) == SubSeq(s, 1, i + 1) = Append(SubSeq(s, 1, i), s[i + 1])

LEMMA SubSeqType ==
  ASSUME NEW S, NEW s \in Seq(S), NEW i \in 1..(Len(s) + 1), NEW j \in 0..Len(s), i <= j + 1
  PROVE  /\ SubSeq(s, i, j) \in Seq(S) /\ Len(SubSeq(s, i, j)) = j - i + 1
         /\ \A k \in 1..(j - i + 1) : SubSeq(s, i, j)[k] = s[i + k - 1]
<1>1. \A k \in i..j : s[k] \in S
  <2>1. \A k \in i..j : k \in 1..Len(s)
    OBVIOUS
  <2> QED
    BY <2>1, Elements, Zenon
<1>2. /\ SubSeq(s, i, j) \in Seq(S)
      /\ Len(SubSeq(s, i, j)) = IF i <= j THEN j - i + 1 ELSE 0
      /\ \A k \in 1..(j - i + 1) : SubSeq(s, i, j)[k] = s[i + k - 1]
  BY <1>1, SubSeqProperties
<1> QED
  BY <1>2

LEMMA PrefixGrows ==
  ASSUME NEW S, NEW s \in Seq(S), NEW i \in Nat, i < Len(s)
  PROVE  Prefixed(s, i)
<1>0. PICK n \in Nat : n = Len(s)
  OBVIOUS
<1> DEFINE a == SubSeq(s, 1, i + 1)
           b == SubSeq(s, 1, i)
<1>1. a \in Seq(S) /\ Len(a) = i + 1 /\ \A k \in 1..i + 1 : a[k] = s[k]
  <2>1. i + 1 \in 0..Len(s) /\ 1 \in 1..(Len(s) + 1) /\ 1 <= i + 1 + 1
    BY <1>0
  <2>2. /\ a \in Seq(S) /\ Len(a) = (i + 1) - 1 + 1
        /\ \A k \in 1..((i + 1) - 1 + 1) : a[k] = s[1 + k - 1]
    BY <2>1, SubSeqType
  <2> QED
    BY <2>2
<1>2. b \in Seq(S) /\ Len(b) = i /\ \A k \in 1..i : b[k] = s[k]
  <2>1. i \in 0..Len(s) /\ 1 \in 1..(Len(s) + 1) /\ 1 <= i + 1
    BY <1>0
  <2>2. /\ b \in Seq(S) /\ Len(b) = i - 1 + 1
        /\ \A k \in 1..(i - 1 + 1) : b[k] = s[1 + k - 1]
    BY <2>1, SubSeqType
  <2> QED
    BY <2>2
<1>3. s[i + 1] \in S
  <2>1. i + 1 \in 1..Len(s)
    BY <1>0
  <2> QED
    BY <2>1, Elements, Zenon
<1> HIDE DEF a, b
<1>4. a = Append(b, s[i + 1])
  <2>1. PICK x : x \in S /\ x = s[i + 1]
    BY <1>3
  <2> DEFINE c == Append(b, x)
  <2>2. c \in Seq(S) /\ Len(c) = i + 1 /\ c[i + 1] = x /\ \A k \in 1..i : c[k] = b[k]
    BY <1>2, <2>1
  <2> HIDE DEF c
  <2>3. \A k \in 1..(i + 1) : a[k] = c[k]
    <3> SUFFICES ASSUME NEW k \in 1..(i + 1) PROVE a[k] = c[k]
      OBVIOUS
    <3>1. CASE k = i + 1
      BY <1>1, <2>1, <2>2, <3>1
    <3>2. CASE k # i + 1
      <4>1. k \in 1..i
        BY <3>2
      <4> QED
        BY <1>1, <1>2, <2>2, <4>1
    <3> QED
      BY <3>1, <3>2
  <2>4. a = c
    <3>1. Len(a) = Len(c) /\ \A k \in 1..Len(a) : a[k] = c[k]
      BY <1>1, <2>2, <2>3
    <3> QED
      BY <1>1, <2>2, <3>1, SameElements
  <2> QED
    BY <2>1, <2>4, Zenon DEF c
<1> QED
  BY <1>4 DEF a, b, Prefixed

Split(s, i) == s = SubSeq(s, 1, i) \o SubSeq(s, i + 1, Len(s))

LEMMA Splits ==
  ASSUME NEW S, NEW s \in Seq(S), NEW i \in Nat, i <= Len(s)
  PROVE  /\ SubSeq(s, 1, i) \in Seq(S) /\ SubSeq(s, i + 1, Len(s)) \in Seq(S)
         /\ Split(s, i)
<1>0. PICK n \in Nat : n = Len(s)
  OBVIOUS
<1> DEFINE a == SubSeq(s, 1, i)
           b == SubSeq(s, i + 1, n)
<1>1. a \in Seq(S) /\ Len(a) = i /\ \A k \in 1..i : a[k] = s[k]
  <2>1. i \in 0..Len(s) /\ 1 \in 1..(Len(s) + 1) /\ 1 <= i + 1
    BY <1>0
  <2>2. /\ a \in Seq(S) /\ Len(a) = i - 1 + 1
        /\ \A k \in 1..(i - 1 + 1) : a[k] = s[1 + k - 1]
    BY <2>1, SubSeqType
  <2> QED
    BY <2>2
<1>2. b \in Seq(S) /\ Len(b) = n - i /\ \A k \in 1..n - i : b[k] = s[i + k]
  <2>1. n \in 0..Len(s) /\ i + 1 \in 1..(Len(s) + 1) /\ i + 1 <= n + 1
    BY <1>0
  <2>2. /\ b \in Seq(S) /\ Len(b) = n - (i + 1) + 1
        /\ \A k \in 1..(n - (i + 1) + 1) : b[k] = s[(i + 1) + k - 1]
    BY <1>0, <2>1, SubSeqType
  <2>3. n - (i + 1) + 1 = n - i /\ \A k \in 1..n - i : (i + 1) + k - 1 = i + k
    OBVIOUS
  <2> HIDE DEF b
  <2> QED
    BY <2>2, <2>3
<1> HIDE DEF a, b
<1>3. s = a \o b
  <2>1. a \o b \in Seq(S) /\ Len(a \o b) = n
    BY <1>0, <1>1, <1>2
  <2>2. ASSUME NEW k \in 1..n PROVE (a \o b)[k] = s[k]
    <3>1. CASE k <= i
      BY <1>1, <1>2, <3>1
    <3>2. CASE k > i
      <4>1. k - i \in 1..n - i /\ i + (k - i) = k
        BY <1>0, <3>2
      <4>2. (a \o b)[k] = b[k - i]
        BY <1>1, <1>2, <3>2, <1>0
      <4>3. b[k - i] = s[i + (k - i)]
        BY <1>2, <4>1
      <4> QED
        BY <4>1, <4>2, <4>3
    <3>3. k <= i \/ k > i
      OBVIOUS
    <3> QED
      BY <3>1, <3>2, <3>3, Zenon
  <2>3. Len(s) = Len(a \o b) /\ \A k \in 1..Len(s) : s[k] = (a \o b)[k]
    BY <1>0, <2>1, <2>2
  <2> QED
    BY <2>1, <2>3, SameElements
<1> QED
  BY <1>0, <1>1, <1>2, <1>3 DEF a, b, Split

Concatenates(p, q, j, k) ==
    /\ Len(p \o q) = j + k
    /\ \A i \in 1..j : (p \o q)[i] = p[i]
    /\ \A i \in 1..k : (p \o q)[j + i] = q[i]

LEMMA ConcatenatesAt ==
  ASSUME NEW S, NEW p \in Seq(S), NEW q \in Seq(S), NEW j \in Nat, NEW k \in Nat, Len(p) = j, Len(q) = k
  PROVE  p \o q \in Seq(S) /\ Concatenates(p, q, j, k)
<1>1. /\ p \o q \in Seq(S) /\ Len(p \o q) = Len(p) + Len(q)
      /\ \A l \in 1..Len(p) + Len(q) : (p \o q)[l] = IF l <= Len(p) THEN p[l] ELSE q[l - Len(p)]
  BY ConcatProperties
<1>2. ASSUME NEW i \in 1..j PROVE (p \o q)[i] = p[i]
  <2>1. i \in 1..Len(p) + Len(q) /\ i <= Len(p)
    OBVIOUS
  <2> QED
    BY <1>1, <2>1, Zenon
<1>3. ASSUME NEW i \in 1..k PROVE (p \o q)[j + i] = q[i]
  <2>1. j + i \in 1..Len(p) + Len(q) /\ ~(j + i <= Len(p)) /\ (j + i) - Len(p) = i
    OBVIOUS
  <2>2. (p \o q)[j + i] = q[(j + i) - Len(p)]
    BY <1>1, <2>1, Zenon
  <2> QED
    BY <2>1, <2>2, Zenon
<1>4. Len(p \o q) = j + k
  BY <1>1
<1> QED
  BY <1>1, <1>2, <1>3, <1>4, Zenon DEF Concatenates

(* Two sequences behind each other can be taken apart again.               *)
ComesApart(S, a, b, j, k) ==
    /\ a \o b \in Seq(S) /\ Len(a \o b) = j + k
    /\ SubSeq(a \o b, 1, j) = a /\ SubSeq(a \o b, j + 1, j + k) = b

LEMMA ConcatSplits ==
  ASSUME NEW S, NEW a, a \in Seq(S), NEW b, b \in Seq(S), NEW j, j \in Nat, NEW k, k \in Nat, Len(a) = j, Len(b) = k
  PROVE  ComesApart(S, a, b, j, k)
<1> DEFINE c == a \o b
<1>1. c \in Seq(S) /\ Len(c) = j + k /\ (\A i \in 1..j : c[i] = a[i]) /\ (\A i \in 1..k : c[j + i] = b[i])
  <2>1. a \o b \in Seq(S) /\ Concatenates(a, b, j, k)
    BY ConcatenatesAt
  <2> QED
    BY <2>1, Zenon DEF Concatenates
<1> HIDE DEF c
<1>2. \A i \in 1..(j + k) : c[i] \in S
  BY <1>1
<1>3. SubSeq(c, 1, j) = a
  <2> DEFINE s == SubSeq(c, 1, j)
  <2>1. s \in Seq(S) /\ Len(s) = j /\ \A i \in 1..j : s[i] = c[i]
    <3>1. \A i \in 1..j : c[i] \in S
      BY <1>2
    <3>2. 1 \in Int /\ j \in Int
      OBVIOUS
    <3>3. /\ s \in Seq(S)
          /\ Len(s) = IF 1 <= j THEN j - 1 + 1 ELSE 0
          /\ \A i \in 1..j - 1 + 1 : s[i] = c[1 + i - 1]
      BY <3>1, <3>2, SubSeqProperties
    <3> QED
      BY <3>3
  <2> HIDE DEF s
  <2>2. Len(s) = Len(a) /\ \A i \in 1..Len(s) : s[i] = a[i]
    BY <1>1, <2>1
  <2>3. s = a
    BY <2>1, <2>2, SameElements
  <2> QED
    BY <2>3 DEF s
<1>4. SubSeq(c, j + 1, j + k) = b
  <2> DEFINE s == SubSeq(c, j + 1, j + k)
  <2>1. s \in Seq(S) /\ Len(s) = k /\ \A i \in 1..k : s[i] = c[j + i]
    <3>1. \A i \in (j + 1)..(j + k) : c[i] \in S
      BY <1>2
    <3>2. j + 1 \in Int /\ j + k \in Int
      OBVIOUS
    <3>3. /\ s \in Seq(S)
          /\ Len(s) = IF j + 1 <= j + k THEN (j + k) - (j + 1) + 1 ELSE 0
          /\ \A i \in 1..(j + k) - (j + 1) + 1 : s[i] = c[(j + 1) + i - 1]
      BY <3>1, <3>2, SubSeqProperties
    <3> QED
      BY <3>3
  <2> HIDE DEF s
  <2>2. Len(s) = Len(b) /\ \A i \in 1..Len(s) : s[i] = b[i]
    BY <1>1, <2>1
  <2>3. s = b
    BY <2>1, <2>2, SameElements
  <2> QED
    BY <2>3 DEF s
<1> QED
  BY <1>1, <1>3, <1>4, Zenon DEF c, ComesApart

(* The bytes of part are in m from a position on.                          *)
Holds(m, at, part) ==
    /\ at + Len(part) <= Len(m) + 1
    /\ \A i \in 1..Len(part) : m[at + i - 1] = part[i]

LEMMA HoldsItself == ASSUME NEW m \in Seq(Octet) PROVE Holds(m, 1, m)
BY DEF Holds

LEMMA HoldsConcat ==
  ASSUME NEW S, NEW m \in Seq(S), NEW at \in Nat, NEW a \in Seq(S), NEW b \in Seq(S), Holds(m, at, a \o b)
  PROVE  Holds(m, at, a) /\ Holds(m, at + Len(a), b)
<1>0. PICK j \in Nat, k \in Nat, n \in Nat : j = Len(a) /\ k = Len(b) /\ n = Len(m)
  OBVIOUS
<1> DEFINE c == a \o b
<1>1. /\ Len(c) = j + k
      /\ \A i \in 1..j : c[i] = a[i]
      /\ \A i \in 1..k : c[j + i] = b[i]
  BY <1>0
<1>2. Holds(m, at, c)
  OBVIOUS
<1> HIDE DEF c
<1>3. at + (j + k) <= n + 1 /\ \A i \in 1..j + k : m[at + i - 1] = c[i]
  BY <1>0, <1>1, <1>2 DEF Holds
<1>4. Holds(m, at, a)
  <2>1. \A i \in 1..j : i \in 1..j + k
    OBVIOUS
  <2> QED
    BY <1>0, <1>1, <1>3, <2>1 DEF Holds
<1>5. Holds(m, at + j, b)
  <2>1. \A i \in 1..k : j + i \in 1..j + k /\ at + (j + i) - 1 = (at + j) + i - 1
    OBVIOUS
  <2>2. \A i \in 1..k : m[(at + j) + i - 1] = b[i]
    BY <1>1, <1>3, <2>1
  <2>3. (at + j) + k <= n + 1
    BY <1>3
  <2> QED
    BY <1>0, <2>2, <2>3 DEF Holds
<1> QED
  BY <1>0, <1>4, <1>5

LEMMA HoldsSubSeq ==
  ASSUME NEW S, NEW m \in Seq(S), NEW at \in Nat \ {0}, NEW part \in Seq(S), Holds(m, at, part)
  PROVE  SubSeq(m, at, at + Len(part) - 1) = part
<1>0. PICK k \in Nat, n \in Nat : k = Len(part) /\ n = Len(m)
  OBVIOUS
<1>1. at + k <= n + 1 /\ \A i \in 1..k : m[at + i - 1] = part[i]
  BY <1>0 DEF Holds
<1> DEFINE s == SubSeq(m, at, at + k - 1)
<1>2. s \in Seq(S) /\ Len(s) = k /\ \A i \in 1..k : s[i] = m[at + i - 1]
  <2>1. \A i \in at..(at + k - 1) : m[i] \in S
    BY <1>0, <1>1
  <2>2. at \in Int /\ at + k - 1 \in Int /\ ((at + k - 1) - at) + 1 = k
    OBVIOUS
  <2>3. /\ s \in Seq(S)
        /\ Len(s) = IF at <= at + k - 1 THEN (at + k - 1) - at + 1 ELSE 0
        /\ \A i \in 1..(at + k - 1) - at + 1 : s[i] = m[at + i - 1]
    BY <2>1, <2>2, SubSeqProperties
  <2> QED
    BY <2>2, <2>3
<1> HIDE DEF s
<1>3. s = part
  BY <1>0, <1>1, <1>2
<1> QED
  BY <1>0, <1>3 DEF s

-----------------------------------------------------------------------------
(* Numbers in fields *)

IsFieldOf(s, n, size) == s \in Seq(Octet) /\ Len(s) = size /\ Number(Reverse(s)) = n

LEMMA LittleEndianNumber ==
  ASSUME NEW n \in Nat, NEW size \in Nat, n < Values(size)
  PROVE  IsFieldOf(LittleEndian(n, size), n, size)
<1>1. LittleEndian(n, size) \in Seq(Octet) /\ Len(LittleEndian(n, size)) = size
  BY LittleEndianType
<1>2. Number(Reverse(LittleEndian(n, size))) = n
  BY BigEndianNumber DEF BigEndian
<1> QED
  BY <1>1, <1>2 DEF IsFieldOf

(* Places of the parts of a concatenation.                                 *)
PlacesOf(place, m, at, seqs) ==
    /\ place \in [0..Len(seqs) -> Nat]
    /\ place[0] = at /\ place[Len(seqs)] = at + Len(FlattenSeq(seqs))
    /\ \A i \in 1..Len(seqs) : /\ place[i] = place[i - 1] + Len(seqs[i])
                               /\ Holds(m, place[i - 1], seqs[i])

LEMMA PlacesAppend ==
  ASSUME NEW S, NEW m \in Seq(S), NEW at \in Nat, NEW v \in Seq(Seq(S)), NEW x \in Seq(S),
         NEW place, PlacesOf(place, m, at, v), Holds(m, at + Len(FlattenSeq(v)), x)
  PROVE  \E longer : PlacesOf(longer, m, at, Append(v, x))
<1>0. PICK n \in Nat : n = Len(v)
  OBVIOUS
<1> DEFINE u == Append(v, x)
<1>1. u \in Seq(Seq(S)) /\ Len(u) = n + 1 /\ u[n + 1] = x /\ \A i \in 1..n : u[i] = v[i]
  BY <1>0
<1>2. FlattenSeq(u) = FlattenSeq(v) \o x
  BY FlattenAppend
<1> HIDE DEF u
<1>3. FlattenSeq(v) \in Seq(S)
  BY FlattenType
<1>4. PICK a \in Nat, b \in Nat : a = Len(FlattenSeq(v)) /\ b = Len(x) /\ Len(FlattenSeq(u)) = a + b
  BY <1>2, <1>3
<1>5. /\ place \in [0..n -> Nat] /\ place[0] = at /\ place[n] = at + a
      /\ \A i \in 1..n : place[i] = place[i - 1] + Len(v[i]) /\ Holds(m, place[i - 1], v[i])
  BY <1>0, <1>4 DEF PlacesOf
<1> DEFINE longer == [i \in 0..n + 1 |-> IF i = n + 1 THEN at + (a + b) ELSE place[i]]
<1>6. longer \in [0..n + 1 -> Nat] /\ longer[n + 1] = at + (a + b) /\ \A i \in 0..n : longer[i] = place[i]
  <2>1. \A i \in 0..n + 1 : i = n + 1 \/ i \in 0..n
    OBVIOUS
  <2>2. \A i \in 0..n : i # n + 1 /\ i \in 0..n + 1
    OBVIOUS
  <2> QED
    BY <1>5, <2>1, <2>2
<1> HIDE DEF longer
<1>7. ASSUME NEW i \in 1..n + 1
      PROVE  longer[i] = longer[i - 1] + Len(u[i]) /\ Holds(m, longer[i - 1], u[i])
  <2>1. CASE i = n + 1
    <3>1. i - 1 = n /\ n \in 0..n
      BY <2>1
    <3>2. longer[i - 1] = at + a
      BY <1>5, <1>6, <3>1
    <3>3. Holds(m, at + a, x)
      BY <1>4
    <3> QED
      BY <1>1, <1>4, <1>6, <2>1, <3>2, <3>3
  <2>2. CASE i # n + 1
    <3>1. i \in 1..n /\ i \in 0..n /\ i - 1 \in 0..n
      BY <2>2
    <3>2. longer[i] = place[i] /\ longer[i - 1] = place[i - 1] /\ u[i] = v[i]
      BY <1>1, <1>6, <3>1
    <3> QED
      BY <1>5, <3>1, <3>2
  <2> QED
    BY <2>1, <2>2
<1>8. longer[0] = at
  BY <1>5, <1>6
<1>9. PlacesOf(longer, m, at, u)
  BY <1>1, <1>4, <1>6, <1>7, <1>8 DEF PlacesOf
<1> QED
  BY <1>9 DEF u

LEMMA PlacesExist ==
  ASSUME NEW S, NEW m \in Seq(S), NEW at \in Nat, NEW seqs \in Seq(Seq(S)), Holds(m, at, FlattenSeq(seqs))
  PROVE  \E place : PlacesOf(place, m, at, seqs)
<1> DEFINE P(u) == Holds(m, at, FlattenSeq(u)) => \E place : PlacesOf(place, m, at, u)
           T == {n \in Nat : \A u \in Seq(Seq(S)) : Len(u) = n => P(u)}
<1>1. 0 \in T
  <2> SUFFICES ASSUME NEW u \in Seq(Seq(S)), Len(u) = 0 PROVE P(u)
    OBVIOUS
  <2>1. u = << >> /\ Len(FlattenSeq(u)) = 0
    BY FlattenNothing
  <2> DEFINE place == [i \in 0..0 |-> at]
  <2>2. place \in [0..0 -> Nat] /\ place[0] = at
    OBVIOUS
  <2> HIDE DEF place
  <2>3. Len(u) = 0 /\ at + Len(FlattenSeq(u)) = at /\ \A i \in 1..0 : FALSE
    BY <2>1
  <2>4. PlacesOf(place, m, at, u)
    BY <2>2, <2>3 DEF PlacesOf
  <2> QED
    BY <2>4
<1>2. ASSUME NEW n \in Nat, n \in T PROVE n + 1 \in T
  <2> SUFFICES ASSUME NEW u \in Seq(Seq(S)), Len(u) = n + 1, Holds(m, at, FlattenSeq(u))
               PROVE  \E place : PlacesOf(place, m, at, u)
    OBVIOUS
  <2>1. u # << >>
    OBVIOUS
  <2>2. PICK v \in Seq(Seq(S)), x \in Seq(S) : u = Append(v, x)
    BY <2>1, SequenceEmptyOrAppend
  <2>3. Len(v) = n
    BY <2>2
  <2>4. FlattenSeq(u) = FlattenSeq(v) \o x /\ FlattenSeq(v) \in Seq(S)
    BY <2>2, FlattenAppend, FlattenType
  <2>5. Holds(m, at, FlattenSeq(v)) /\ Holds(m, at + Len(FlattenSeq(v)), x)
    BY <2>4, HoldsConcat
  <2>6. PICK place : PlacesOf(place, m, at, v)
    BY <1>2, <2>3, <2>5
  <2> QED
    BY <2>2, <2>5, <2>6, PlacesAppend
<1> HIDE DEF T
<1>3. Nat \subseteq T
  BY <1>1, <1>2, Induct
<1>4. Len(seqs) \in T
  BY <1>3
<1> QED
  BY <1>4 DEF T

(* Parts of one size can be told from their concatenation.                 *)
LEMMA FlattenInjective ==
  ASSUME NEW S, NEW a \in Seq(Seq(S)), NEW b \in Seq(Seq(S)), NEW size \in Nat, Len(a) = Len(b),
         \A i \in 1..Len(a) : Len(a[i]) = size, \A i \in 1..Len(b) : Len(b[i]) = size,
         FlattenSeq(a) = FlattenSeq(b)
  PROVE  a = b
<1>0. PICK n \in Nat : n = Len(a) /\ n = Len(b)
  OBVIOUS
<1>1. PICK m \in Seq(S) : m = FlattenSeq(a) /\ m = FlattenSeq(b)
  BY FlattenType
<1>2. Holds(m, 1, m) /\ 1 \in Nat
  BY DEF Holds
<1>3. PICK p : PlacesOf(p, m, 1, a)
  BY <1>1, <1>2, PlacesExist
<1>4. PICK q : PlacesOf(q, m, 1, b)
  BY <1>1, <1>2, PlacesExist
<1>5. /\ p \in [0..n -> Nat] /\ p[0] = 1
      /\ \A i \in 1..n : p[i] = p[i - 1] + size /\ Holds(m, p[i - 1], a[i])
  BY <1>0, <1>3 DEF PlacesOf
<1>6. /\ q \in [0..n -> Nat] /\ q[0] = 1
      /\ \A i \in 1..n : q[i] = q[i - 1] + size /\ Holds(m, q[i - 1], b[i])
  BY <1>0, <1>4 DEF PlacesOf
<1> DEFINE T == {i \in 0..n : p[i] = q[i]}
<1>7. 0 \in T
  BY <1>5, <1>6
<1>8. ASSUME NEW i \in 1..n, i - 1 \in T PROVE i \in T
  BY <1>5, <1>6, <1>8
<1> HIDE DEF T
<1>9. 0..n \subseteq T
  BY <1>7, <1>8, InductUpTo
<1>10. ASSUME NEW i \in 1..n PROVE a[i] = b[i]
  <2>1. p[i - 1] = q[i - 1] /\ i - 1 \in 0..n
    BY <1>9 DEF T
  <2>2. Holds(m, p[i - 1], a[i]) /\ Holds(m, p[i - 1], b[i])
    BY <1>5, <1>6, <2>1
  <2>3. a[i] \in Seq(S) /\ b[i] \in Seq(S) /\ Len(a[i]) = size /\ Len(b[i]) = size
    BY <1>0
  <2>4. \A j \in 1..size : a[i][j] = b[i][j]
    BY <2>2, <2>3 DEF Holds
  <2> QED
    BY <2>3, <2>4, SameElements
<1> QED
  BY <1>0, <1>10, SameElements

-----------------------------------------------------------------------------
(* Digits to the bases of the texts *)

LEMMA PowerPositive ==
  ASSUME NEW base \in Nat \ {0}
  PROVE  \A n \in Nat : Power(base, n) \in Nat /\ Power(base, n) > 0
<1> DEFINE T == {n \in Nat : Power(base, n) \in Nat /\ Power(base, n) > 0}
<1>1. 0 \in T
  BY PowerFacts
<1>2. ASSUME NEW n \in Nat, n \in T PROVE n + 1 \in T
  <2>1. Power(base, n + 1) = base * Power(base, n)
    BY PowerFacts
  <2>2. Power(base, n) \in Nat /\ Power(base, n) > 0 /\ base \in Nat /\ base > 0
    BY <1>2
  <2>3. base * Power(base, n) \in Nat /\ base * Power(base, n) > 0
    BY <2>2
  <2> QED
    BY <2>1, <2>3
<1> HIDE DEF T
<1>3. Nat \subseteq T
  BY <1>1, <1>2, Induct
<1> QED
  BY <1>3 DEF T

(* The bases of bits and of Base58.                                        *)
Base == {2, 58}

LEMMA BaseIsNumber == \A b \in Base : b \in Nat \ {0}
BY DEF Base

LEMMA DigitsInType ==
  ASSUME NEW base \in Base, NEW n \in Nat, NEW size \in Nat
  PROVE  /\ DigitsIn(base, n, size) \in Seq(0..(base - 1))
         /\ Len(DigitsIn(base, n, size)) = size
         /\ \A i \in 1..size : DigitsIn(base, n, size)[i] = (n \div Power(base, size - i)) % base
<1> DEFINE d == DigitsIn(base, n, size)
<1>1. d = [i \in 1..size |-> (n \div Power(base, size - i)) % base]
  BY DEF DigitsIn
<1> HIDE DEF d
<1>2. ASSUME NEW i \in 1..size PROVE (n \div Power(base, size - i)) % base \in 0..(base - 1)
  <2>1. PICK k \in Nat : k = size - i
    OBVIOUS
  <2>2. PICK p \in Nat : p = Power(base, k) /\ p > 0
    BY BaseIsNumber, PowerPositive
  <2>3. n \div p \in Nat
    BY <2>2
  <2>4. \A x \in Nat : x % base \in 0..(base - 1)
    BY DEF Base
  <2> QED
    BY <2>1, <2>2, <2>3, <2>4
<1>3. d \in [1..size -> 0..(base - 1)]
  BY <1>1, <1>2
<1>4. d \in Seq(0..(base - 1)) /\ Len(d) = size
  <2>1. PICK S : S = 0..(base - 1)
    OBVIOUS
  <2>2. d \in [1..size -> S]
    BY <1>3, <2>1
  <2>3. d \in Seq(S) /\ Len(d) = size
    BY <2>2
  <2> QED
    BY <2>1, <2>3
<1>5. \A i \in 1..size : d[i] = (n \div Power(base, size - i)) % base
  BY <1>1
<1> QED
  BY <1>4, <1>5 DEF d

LEMMA DivTwice == ASSUME NEW n \in Nat, NEW p \in Nat, p > 0 PROVE (n \div 2) \div p = n \div (2 * p)
OBVIOUS

LEMMA Parts58 == ASSUME NEW n \in Nat, NEW p \in Nat, p > 0 PROVE (n \div 58) \div p = n \div (58 * p)
OBVIOUS

LEMMA DigitsInAppend ==
  ASSUME NEW base \in Base, NEW n \in Nat, NEW size \in Nat
  PROVE  DigitsIn(base, n, size + 1) = Append(DigitsIn(base, n \div base, size), n % base)
<1>0. n \div base \in Nat /\ n % base \in 0..(base - 1) /\ size + 1 \in Nat
  BY DEF Base
<1>n. PICK next \in Nat : next = size + 1
  BY <1>0
<1>q. PICK rest \in Nat : rest = n \div base
  BY <1>0
<1> DEFINE a == DigitsIn(base, n, next)
           b == DigitsIn(base, rest, size)
<1>2. a \in Seq(0..(base - 1)) /\ Len(a) = next /\ \A i \in 1..next : a[i] = (n \div Power(base, next - i)) % base
  BY DigitsInType
<1>3. b \in Seq(0..(base - 1)) /\ Len(b) = size /\ \A i \in 1..size : b[i] = (rest \div Power(base, size - i)) % base
  BY DigitsInType
<1> HIDE DEF a, b
<1>4. ASSUME NEW i \in 1..size PROVE a[i] = b[i]
  <2>1. PICK k \in Nat : k = size - i
    OBVIOUS
  <2>2. next - i = k + 1 /\ i \in 1..next
    BY <1>n, <2>1
  <2>3. PICK p \in Nat : p = Power(base, k) /\ p > 0
    BY BaseIsNumber, PowerPositive
  <2>4. Power(base, k + 1) = base * p
    BY <2>3, BaseIsNumber, PowerFacts
  <2>5. (n \div base) \div p = n \div (base * p)
    <3>1. CASE base = 2
      BY <2>3, <3>1, DivTwice, Zenon
    <3>2. CASE base = 58
      BY <2>3, <3>2, Parts58, Zenon
    <3> QED
      BY <3>1, <3>2 DEF Base
  <2>6. a[i] = (n \div (base * p)) % base
    BY <1>2, <2>2, <2>4
  <2>7. b[i] = (rest \div p) % base
    BY <1>3, <2>1, <2>3
  <2> QED
    BY <1>q, <2>5, <2>6, <2>7
<1>5. a[next] = n % base
  <2>1. next - next = 0 /\ next \in 1..next /\ n \div 1 = n
    BY <1>n
  <2>2. Power(base, 0) = 1
    BY BaseIsNumber, PowerFacts
  <2> QED
    BY <1>2, <2>1, <2>2
<1>6. a = Append(b, n % base)
  BY <1>0, <1>n, <1>2, <1>3, <1>4, <1>5
<1> QED
  BY <1>n, <1>q, <1>6, Zenon DEF a, b

LEMMA Quotients ==
  ASSUME NEW base \in Base, NEW p \in Nat, NEW m \in Nat, m < base * p
  PROVE  m \div base \in Nat /\ m % base \in 0..(base - 1) /\ m \div base < p /\ m = base * (m \div base) + (m % base)
<1>1. CASE base = 2
  BY <1>1
<1>2. CASE base = 58
  BY <1>2
<1> QED
  BY <1>1, <1>2 DEF Base

(* The digits of a number that has no more of them are that number.        *)
LEMMA DigitsInNumber ==
  ASSUME NEW base \in Base, NEW n \in Nat, NEW size \in Nat, n < Power(base, size)
  PROVE  NumberIn(base, DigitsIn(base, n, size)) = n
<1> DEFINE T == {k \in Nat : \A m \in Nat : m < Power(base, k) => NumberIn(base, DigitsIn(base, m, k)) = m}
<1>0. base \in Nat /\ \A d \in 0..(base - 1) : d \in Nat
  BY DEF Base
<1>1. 0 \in T
  <2> SUFFICES ASSUME NEW m \in Nat, m < Power(base, 0) PROVE NumberIn(base, DigitsIn(base, m, 0)) = m
    OBVIOUS
  <2>1. m = 0
    BY <1>0, PowerFacts
  <2>2. DigitsIn(base, m, 0) \in Seq(0..(base - 1)) /\ Len(DigitsIn(base, m, 0)) = 0
    BY DigitsInType
  <2>3. DigitsIn(base, m, 0) = << >>
    BY <2>2, EmptySeq
  <2> QED
    BY <1>0, <2>1, <2>3, NumberOfNothing
<1>2. ASSUME NEW k \in Nat, k \in T PROVE k + 1 \in T
  <2> SUFFICES ASSUME NEW m \in Nat, m < Power(base, k + 1)
               PROVE  NumberIn(base, DigitsIn(base, m, k + 1)) = m
    OBVIOUS
  <2>0. PICK p \in Nat : p = Power(base, k) /\ Power(base, k + 1) = base * p
    BY <1>0, PowerFacts
  <2>1. PICK q \in Nat : q = m \div base /\ q < p
    BY <2>0, Quotients
  <2>2. PICK d \in 0..(base - 1) : d = m % base /\ m = base * q + d
    BY <2>0, <2>1, Quotients
  <2>3. NumberIn(base, DigitsIn(base, q, k)) = q
    BY <1>2, <2>0, <2>1
  <2>4. DigitsIn(base, m, k + 1) = Append(DigitsIn(base, q, k), d)
    BY <2>1, <2>2, DigitsInAppend
  <2>5. DigitsIn(base, q, k) \in Seq(Nat) /\ d \in Nat
    <3>1. DigitsIn(base, q, k) \in Seq(0..(base - 1))
      BY DigitsInType
    <3> QED
      BY <1>0, <3>1
  <2>6. NumberIn(base, Append(DigitsIn(base, q, k), d)) = base * NumberIn(base, DigitsIn(base, q, k)) + d
    BY <1>0, <2>5, NumberAppend
  <2> QED
    BY <2>2, <2>3, <2>4, <2>6, Zenon
<1> HIDE DEF T
<1>3. Nat \subseteq T
  BY <1>1, <1>2, Induct
<1> QED
  BY <1>3 DEF T

WithDigitIn(base, n, digit) == base * n + digit

LEMMA DigitsOfNumberIn ==
  ASSUME NEW base \in Base, NEW n \in Nat, NEW d \in 0..(base - 1)
  PROVE  WithDigitIn(base, n, d) \div base = n /\ WithDigitIn(base, n, d) % base = d
<1>1. CASE base = 2
  BY <1>1 DEF WithDigitIn
<1>2. CASE base = 58
  BY <1>2 DEF WithDigitIn
<1> QED
  BY <1>1, <1>2 DEF Base

LEMMA DigitsInBelow ==
  ASSUME NEW base \in Base, NEW a \in Nat, NEW b \in Nat, NEW x \in 0..(base - 1), a < b
  PROVE  WithDigitIn(base, a, x) \in Nat /\ WithDigitIn(base, a, x) < base * b
<1>1. CASE base = 2
  BY <1>1 DEF WithDigitIn
<1>2. CASE base = 58
  BY <1>2 DEF WithDigitIn
<1> QED
  BY <1>1, <1>2 DEF Base

(* Digits are a number that has no more of them, and are the digits of it. *)
DigitsAgain(base, s) ==
    /\ NumberIn(base, s) \in Nat /\ NumberIn(base, s) < Power(base, Len(s))
    /\ DigitsIn(base, NumberIn(base, s), Len(s)) = s

LEMMA DigitsInOfNumber ==
  ASSUME NEW base \in Base, NEW s \in Seq(0..(base - 1))
  PROVE  DigitsAgain(base, s)
<1> DEFINE T == {k \in Nat : \A t \in Seq(0..(base - 1)) : Len(t) = k => DigitsAgain(base, t)}
<1>0. base \in Nat /\ \A d \in 0..(base - 1) : d \in Nat
  BY DEF Base
<1>1. 0 \in T
  <2> SUFFICES ASSUME NEW t \in Seq(0..(base - 1)), Len(t) = 0 PROVE DigitsAgain(base, t)
    OBVIOUS
  <2>1. t = << >>
    BY EmptySeq
  <2>2. NumberIn(base, t) = 0 /\ Power(base, 0) = 1
    BY <1>0, <2>1, NumberOfNothing, PowerFacts
  <2>3. DigitsIn(base, 0, 0) \in Seq(0..(base - 1)) /\ Len(DigitsIn(base, 0, 0)) = 0
    BY DigitsInType
  <2>4. DigitsIn(base, 0, 0) = t
    BY <2>1, <2>3, EmptySeq
  <2> QED
    BY <2>2, <2>4 DEF DigitsAgain
<1>2. ASSUME NEW k \in Nat, k \in T PROVE k + 1 \in T
  <2> SUFFICES ASSUME NEW t \in Seq(0..(base - 1)), Len(t) = k + 1 PROVE DigitsAgain(base, t)
    OBVIOUS
  <2>1. t # << >>
    OBVIOUS
  <2>2. PICK c \in Seq(0..(base - 1)), d \in 0..(base - 1) : t = Append(c, d)
    BY <2>1, SequenceEmptyOrAppend
  <2>3. Len(c) = k
    BY <2>2
  <2>4. DigitsAgain(base, c)
    BY <1>2, <2>3
  <2>5. PICK n \in Nat : n = NumberIn(base, c)
    BY <2>4 DEF DigitsAgain
  <2>6. PICK p \in Nat : p = Power(base, k) /\ Power(base, k + 1) = base * p
    BY <1>0, PowerFacts
  <2>7. n < p /\ DigitsIn(base, n, k) = c
    BY <2>3, <2>4, <2>5, <2>6 DEF DigitsAgain
  <2>8. NumberIn(base, t) = WithDigitIn(base, n, d)
    <3>1. c \in Seq(Nat) /\ d \in Nat
      BY <1>0
    <3>2. NumberIn(base, Append(c, d)) = base * NumberIn(base, c) + d
      BY <1>0, <3>1, NumberAppend
    <3> QED
      BY <2>2, <2>5, <3>2, Zenon DEF WithDigitIn
  <2>9. PICK m \in Nat : m = WithDigitIn(base, n, d) /\ m < base * p
    BY <2>7, DigitsInBelow
  <2>10. m \div base = n /\ m % base = d
    BY <2>9, DigitsOfNumberIn
  <2>11. DigitsIn(base, m, k + 1) = Append(DigitsIn(base, m \div base, k), m % base)
    BY DigitsInAppend
  <2>12. DigitsIn(base, m, k + 1) = t
    BY <2>2, <2>7, <2>10, <2>11, Zenon
  <2> QED
    BY <2>6, <2>8, <2>9, <2>12 DEF DigitsAgain
<1> HIDE DEF T
<1>3. Nat \subseteq T
  BY <1>1, <1>2, Induct
<1>4. Len(s) \in T
  BY <1>3
<1> QED
  BY <1>4 DEF T
=============================================================================
