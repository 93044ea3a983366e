----------------------- MODULE BitcoinTransaction_proof -----------------------
(***************************************************************************)
(* Proofs about BitcoinTransaction, for any keys, coins, payments and      *)
(* JSON, and fields of any size: whatever the network confirms spends and  *)
(* pays what the JSON said; what is paid to an address goes to the key     *)
(* that showed it; and the wallet of that key can spend it.                *)
(*   - what Serialize writes is read back, input by input and output by    *)
(*     output, and as nothing else;                                        *)
(*   - a signature opens coins only if the values it commits to are those  *)
(*     of the coins;                                                       *)
(*   - bits regroup and base58 reads back, so that an address is decoded   *)
(*     to the script of its key, and a mistyped one to nothing;            *)
(*   - the request of a spender is parsed, its hash is the one of the      *)
(*     network, and the network finds and opens what was signed.           *)
(***************************************************************************)
EXTENDS BitcoinTransaction, Bytes_proof

-----------------------------------------------------------------------------
(* What the parser returns *)

Below(size) == {n \in Nat : n < Values(size)}

TxIn == [txid : {s \in Seq(Octet) : Len(s) = TxidSize}, vout : Below(WordSize), value : Below(ValueSize),
         sequence : Below(WordSize), script_pubkey : Seq(Octet)]

TxOut == [value : Below(ValueSize), script_pubkey : Seq(Octet)]

IsTx(tx) ==
    /\ tx.version \in Below(WordSize) /\ tx.locktime \in Below(WordSize)
    /\ tx.inputs \in Seq(TxIn) /\ tx.outputs \in Seq(TxOut)

LEMMA Sizes ==
  /\ TxidSize \in Nat \ {0} /\ WordSize \in Nat \ {0} /\ ValueSize \in Nat \ {0}
  /\ KeyHashSize \in Nat \ {0} /\ XOnlySize \in Nat \ {0}
BY BtcAssumption

LEMMA WordBelow == ASSUME NEW n \in Nat PROVE Word(n) \in Below(WordSize)
<1>1. WordSize \in Nat
  BY Sizes
<1>2. Values(WordSize) \in Nat /\ Values(WordSize) > 0
  BY <1>1, ValuesPositive
<1>3. n % Values(WordSize) \in Nat /\ n % Values(WordSize) < Values(WordSize)
  BY <1>2
<1> QED
  BY <1>3, Zenon DEF Word, Below

LEMMA WordsHold3 == Values(WordSize) \in Nat /\ Values(WordSize) > 3
<1>1. WordSize - 1 \in Nat /\ (WordSize - 1) + 1 = WordSize
  BY Sizes
<1>2. Values(WordSize - 1) \in Nat /\ Values(WordSize - 1) > 0
  BY <1>1, ValuesPositive
<1>3. Values((WordSize - 1) + 1) = 256 * Values(WordSize - 1)
  BY <1>1, ValuesFacts
<1> QED
  BY <1>1, <1>2, <1>3

LEMMA WordExact == ASSUME NEW n \in Nat, n < Values(WordSize) PROVE Word(n) = n
<1>1. n % Values(WordSize) = n
  BY WordsHold3
<1> QED
  BY <1>1 DEF Word

(* A field that may be missing gives its value, or the default.            *)
LEMMA NumberGiven ==
  ASSUME NEW field, IsNumber(field), NEW default \in Nat
  PROVE  /\ OrElse(field, default) \in Nat
         /\ field # {} => field = {OrElse(field, default)} /\ OrElse(field, default) \in Below(ValueSize)
         /\ field = {} => OrElse(field, default) = default
<1>1. CASE field = {}
  BY <1>1 DEF OrElse
<1>2. CASE field # {}
  <2>1. PICK v : v \in field
    BY <1>2
  <2>2. v \in Nat /\ v < Values(ValueSize) /\ field = {v}
    BY <2>1 DEF IsNumber
  <2>3. OrElse(field, default) = v
    BY <2>2 DEF OrElse
  <2> QED
    BY <1>2, <2>2, <2>3 DEF Below
<1> QED
  BY <1>1, <1>2

LEMMA HexIsBytes == ASSUME NEW s \in Seq(Nat), IsHex(s) PROVE s \in Seq(Octet)
<1>0. PICK n \in Nat : n = Len(s)
  OBVIOUS
<1>1. DOMAIN s = 1..n /\ s = [i \in 1..n |-> s[i]]
  BY <1>0
<1>2. \A i \in 1..n : s[i] \in Octet
  BY <1>1 DEF IsHex, Octet
<1>3. s \in [1..n -> Octet]
  BY <1>1, <1>2, Zenon
<1> QED
  BY <1>3

LEMMA TextGiven ==
  ASSUME NEW field, IsText(field), \A s \in field : IsHex(s)
  PROVE  /\ OrElse(field, << >>) \in Seq(Octet)
         /\ field # {} => field = {OrElse(field, << >>)}
<1>1. CASE field = {}
  BY <1>1 DEF OrElse
<1>2. CASE field # {}
  <2>1. PICK v : v \in field
    BY <1>2
  <2>2. v \in Seq(Nat) /\ field = {v} /\ IsHex(v)
    BY <2>1 DEF IsText
  <2>3. OrElse(field, << >>) = v
    BY <2>2 DEF OrElse
  <2>4. v \in Seq(Octet)
    BY <2>2, HexIsBytes
  <2> QED
    BY <1>2, <2>2, <2>3, <2>4
<1> QED
  BY <1>1, <1>2

LEMMA ReverseType ==
  ASSUME NEW S, NEW s \in Seq(S)
  PROVE  Reverse(s) \in Seq(S) /\ Len(Reverse(s)) = Len(s)
<1>0. PICK n \in Nat : n = Len(s)
  OBVIOUS
<1>1. Reverse(s) = [i \in 1..n |-> s[(n - i) + 1]]
  BY <1>0 DEF Reverse
<1>2. \A i \in 1..n : (n - i) + 1 \in 1..n
  OBVIOUS
<1>3. \A i \in 1..n : s[(n - i) + 1] \in S
  BY <1>0, <1>2
<1> DEFINE r == [i \in 1..n |-> s[(n - i) + 1]]
<1>4. r \in [1..n -> S]
  BY <1>3
<1> HIDE DEF r
<1>5. r \in Seq(S) /\ Len(r) = n
  BY <1>4
<1> QED
  BY <1>0, <1>1, <1>5 DEF r

IsJsonInput(in) ==
    /\ IsText({in.txid}) /\ IsNumber(in.vout) /\ IsNumber(in.value)
    /\ IsNumber(in.sequence) /\ IsText(in.script_pubkey)

IsJsonOutput(out) == IsNumber(out.value) /\ IsText(out.script_pubkey)

LEMMA InputParsed ==
  ASSUME NEW in, IsJsonInput(in), IsInput(in)
  PROVE  ParseInput(in) \in TxIn
<1>1. in.txid \in Seq(Nat)
  BY DEF IsJsonInput, IsText
<1>2. in.txid \in Seq(Octet) /\ Len(in.txid) = TxidSize
  BY <1>1, HexIsBytes DEF IsInput
<1>3. Reverse(in.txid) \in {s \in Seq(Octet) : Len(s) = TxidSize}
  BY <1>2, ReverseType
<1>4. 0 \in Nat /\ Values(WordSize) - 3 \in Nat
  BY WordsHold3
<1>5. Word(OrElse(in.vout, 0)) \in Below(WordSize)
  BY <1>4, NumberGiven, WordBelow DEF IsJsonInput
<1>6. Word(OrElse(in.sequence, Values(WordSize) - 3)) \in Below(WordSize)
  BY <1>4, NumberGiven, WordBelow DEF IsJsonInput
<1>7. OrElse(in.value, 0) \in Below(ValueSize)
  BY <1>4, NumberGiven DEF IsJsonInput, IsInput
<1>8. OrElse(in.script_pubkey, << >>) \in Seq(Octet)
  BY TextGiven DEF IsJsonInput, IsInput
<1> QED
  BY <1>3, <1>5, <1>6, <1>7, <1>8 DEF ParseInput, TxIn

LEMMA OutputParsed ==
  ASSUME NEW out, IsJsonOutput(out), IsOutput(out)
  PROVE  ParseOutput(out) \in TxOut
<1>1. OrElse(out.value, 0) \in Below(ValueSize)
  BY NumberGiven DEF IsJsonOutput, IsOutput
<1>2. OrElse(out.script_pubkey, << >>) \in Seq(Octet)
  BY TextGiven DEF IsJsonOutput, IsOutput
<1> QED
  BY <1>1, <1>2 DEF ParseOutput, TxOut

(* A transaction is the one that its JSON says.                            *)
IsParsed(tx, json, ins, outs) ==
    /\ tx.version = Word(OrElse(json.version, 2)) /\ tx.locktime = Word(OrElse(json.locktime, 0))
    /\ tx.inputs = [i \in DOMAIN ins |-> ParseInput(ins[i])]
    /\ tx.outputs = [i \in DOMAIN outs |-> ParseOutput(outs[i])]
    /\ DOMAIN ins = 1..Len(ins) /\ Len(ins) \in Nat /\ DOMAIN outs = 1..Len(outs) /\ Len(outs) \in Nat
    /\ \A i \in DOMAIN ins : IsInput(ins[i]) /\ IsJsonInput(ins[i])
    /\ \A i \in DOMAIN outs : IsOutput(outs[i]) /\ IsJsonOutput(outs[i])

LEMMA Parsed ==
  ASSUME NEW json \in BtcJson, NEW tx \in parse_bitcoin_tx_json(json)
  PROVE  \E ins \in json.inputs, outs \in json.outputs : IsParsed(tx, json, ins, outs)
<1>1. PICK a \in json.inputs \X json.outputs :
         /\ \A i \in DOMAIN a[1] : IsInput(a[1][i])
         /\ \A i \in DOMAIN a[2] : IsOutput(a[2][i])
         /\ tx = [version  |-> Word(OrElse(json.version, 2)),
                  inputs   |-> [i \in DOMAIN a[1] |-> ParseInput(a[1][i])],
                  outputs  |-> [i \in DOMAIN a[2] |-> ParseOutput(a[2][i])],
                  locktime |-> Word(OrElse(json.locktime, 0))]
  BY DEF parse_bitcoin_tx_json
<1>2. PICK ins \in json.inputs, outs \in json.outputs : a[1] = ins /\ a[2] = outs
  BY <1>1
<1>3. /\ ins \in Seq(Range(ins)) /\ \A in \in Range(ins) : IsJsonInput(in)
      /\ outs \in Seq(Range(outs)) /\ \A out \in Range(outs) : IsJsonOutput(out)
  BY BtcRequestAssumption, Zenon DEF IsJsonInput, IsJsonOutput
<1>4. DOMAIN ins = 1..Len(ins) /\ Len(ins) \in Nat /\ DOMAIN outs = 1..Len(outs) /\ Len(outs) \in Nat
  BY <1>3
<1>5. \A i \in DOMAIN ins : IsJsonInput(ins[i])
  BY <1>3, Zenon DEF Range
<1>6. \A i \in DOMAIN outs : IsJsonOutput(outs[i])
  BY <1>3, Zenon DEF Range
<1>7. IsParsed(tx, json, ins, outs)
  BY <1>1, <1>2, <1>4, <1>5, <1>6 DEF IsParsed
<1> QED
  BY <1>7

LEMMA ParsedType ==
  ASSUME NEW json \in BtcJson, NEW tx, NEW ins, NEW outs, IsParsed(tx, json, ins, outs)
  PROVE  IsTx(tx)
<1>1. tx.version \in Below(WordSize)
  <2>1. IsNumber(json.version) /\ 2 \in Nat
    BY BtcRequestAssumption
  <2> QED
    BY <2>1, NumberGiven, WordBelow DEF IsParsed
<1>2. tx.locktime \in Below(WordSize)
  <2>1. IsNumber(json.locktime) /\ 0 \in Nat
    BY BtcRequestAssumption
  <2> QED
    BY <2>1, NumberGiven, WordBelow DEF IsParsed
<1>3. tx.inputs \in Seq(TxIn)
  <2>1. PICK n \in Nat : n = Len(ins) /\ DOMAIN ins = 1..n
    BY DEF IsParsed
  <2>2. \A i \in 1..n : ParseInput(ins[i]) \in TxIn
    BY <2>1, InputParsed DEF IsParsed
  <2>3. tx.inputs = [i \in 1..n |-> ParseInput(ins[i])]
    BY <2>1 DEF IsParsed
  <2>4. tx.inputs \in [1..n -> TxIn]
    BY <2>2, <2>3
  <2> QED
    BY <2>4
<1>4. tx.outputs \in Seq(TxOut)
  <2>1. PICK n \in Nat : n = Len(outs) /\ DOMAIN outs = 1..n
    BY DEF IsParsed
  <2>2. \A i \in 1..n : ParseOutput(outs[i]) \in TxOut
    BY <2>1, OutputParsed DEF IsParsed
  <2>3. tx.outputs = [i \in 1..n |-> ParseOutput(outs[i])]
    BY <2>1 DEF IsParsed
  <2>4. tx.outputs \in [1..n -> TxOut]
    BY <2>2, <2>3
  <2> QED
    BY <2>4
<1> QED
  BY <1>1, <1>2, <1>3, <1>4 DEF IsTx
-----------------------------------------------------------------------------
(* Reading items in a row.  A reader of either kind is named, so that what *)
(* follows holds of both.                                                  *)

Read(kind, m, at) == IF kind = "input" THEN InputField(m, at) ELSE OutputField(m, at)

Extended(kind, m, runs) ==
    UNION {{<<Append(run[1], r[1]), r[2]>> : r \in Read(kind, m, run[2])} : run \in runs}

Begun(at) == {<<<< >>, at>>}

RunsAre(kind, f, m, at, n) ==
    f = [i \in 0..n |-> IF i = 0 THEN Begun(at) ELSE Extended(kind, m, f[i - 1])]

LEMMA RunsStep ==
  ASSUME NEW kind, NEW f, NEW m, NEW at, NEW n \in Nat, RunsAre(kind, f, m, at, n)
  PROVE  f[0] = Begun(at) /\ \A i \in 1..n : f[i] = Extended(kind, m, f[i - 1])
<1>1. f = [i \in 0..n |-> IF i = 0 THEN Begun(at) ELSE Extended(kind, m, f[i - 1])]
  BY DEF RunsAre
<1>2. \A i \in 0..n : f[i] = IF i = 0 THEN Begun(at) ELSE Extended(kind, m, f[i - 1])
  BY <1>1, Zenon
<1>3. 0 \in 0..n /\ \A i \in 1..n : i \in 0..n /\ i # 0
  OBVIOUS
<1>4. f[0] = Begun(at)
  BY <1>2, <1>3, Zenon
<1>5. \A i \in 1..n : f[i] = Extended(kind, m, f[i - 1])
  BY <1>2, <1>3, Zenon
<1> QED
  BY <1>4, <1>5

LEMMA RunsUnique ==
  ASSUME NEW kind, NEW f, NEW g, NEW m, NEW at, NEW n \in Nat,
         RunsAre(kind, f, m, at, n), RunsAre(kind, g, m, at, n)
  PROVE  f[n] = g[n]
<1>1. f[0] = Begun(at) /\ \A i \in 1..n : f[i] = Extended(kind, m, f[i - 1])
  BY RunsStep
<1>2. g[0] = Begun(at) /\ \A i \in 1..n : g[i] = Extended(kind, m, g[i - 1])
  BY RunsStep
<1> DEFINE T == {i \in 0..n : f[i] = g[i]}
<1>3. 0 \in T
  <2>1. f[0] = g[0]
    BY <1>1, <1>2, Zenon
  <2>2. 0 \in 0..n
    OBVIOUS
  <2> QED
    BY <2>1, <2>2
<1>4. ASSUME NEW i \in 1..n, i - 1 \in T PROVE i \in T
  <2>1. f[i - 1] = g[i - 1]
    BY <1>4
  <2>2. f[i] = g[i]
    BY <1>1, <1>2, <2>1, Zenon
  <2>3. i \in 0..n
    OBVIOUS
  <2> QED
    BY <2>2, <2>3
<1> HIDE DEF T
<1>5. 0..n \subseteq T
  BY <1>3, <1>4, InductUpTo
<1>6. n \in T
  BY <1>5
<1> QED
  BY <1>6 DEF T

(* The reader finds an item at each of the places, or nothing.             *)
ReadsAt(kind, m, place, items, i) ==
    Read(kind, m, place[i - 1]) \subseteq {<<items[i], place[i]>>}

Run(items, place, i) == {<<SubSeq(items, 1, i), place[i]>>}

ExtendsRun(kind, m, place, items, h) ==
    Extended(kind, m, Run(items, place, h)) =
      IF Read(kind, m, place[h]) = {} THEN {} ELSE Run(items, place, h + 1)

FindsAll(kind, m, place, n) == \A i \in 1..n : Read(kind, m, place[i - 1]) # {}

LEMMA RunExtended ==
  ASSUME NEW kind, NEW m, NEW place, NEW S, NEW items \in Seq(S),
         NEW h \in Nat, h < Len(items), ReadsAt(kind, m, place, items, h + 1)
  PROVE  ExtendsRun(kind, m, place, items, h)
<1>1. Prefixed(items, h)
  BY PrefixGrows
<1>2. (h + 1) - 1 = h
  OBVIOUS
<1> DEFINE p == SubSeq(items, 1, h)
           a == place[h]
           x == items[h + 1]
           b == place[h + 1]
           R == Read(kind, m, a)
<1>3. R = {} \/ R = {<<x, b>>}
  BY <1>2 DEF ReadsAt
<1>4. SubSeq(items, 1, h + 1) = Append(p, x)
  BY <1>1, Zenon DEF Prefixed
<1>5. Run(items, place, h) = {<<p, a>>} /\ Run(items, place, h + 1) = {<<Append(p, x), b>>}
  BY <1>4, Zenon DEF Run
<1> HIDE DEF p, a, x, b
<1>6. Extended(kind, m, {<<p, a>>}) = {<<Append(p, r[1]), r[2]>> : r \in R}
  BY DEF Extended
<1> HIDE DEF R
<1>7. CASE R = {}
  <2>1. {<<Append(p, r[1]), r[2]>> : r \in {}} = {}
    OBVIOUS
  <2> QED
    BY <1>5, <1>6, <1>7, <2>1 DEF R, a, ExtendsRun
<1>8. CASE R = {<<x, b>>}
  <2>1. {<<Append(p, r[1]), r[2]>> : r \in {<<x, b>>}} = {<<Append(p, x), b>>}
    OBVIOUS
  <2>2. R # {}
    BY <1>8
  <2>3. Extended(kind, m, Run(items, place, h)) = Run(items, place, h + 1)
    BY <1>5, <1>6, <1>8, <2>1
  <2> QED
    BY <2>2, <2>3 DEF R, a, ExtendsRun
<1> QED
  BY <1>3, <1>7, <1>8

LEMMA RunsOfItems ==
  ASSUME NEW kind, NEW m, NEW place, NEW S, NEW items \in Seq(S),
         \A i \in 1..Len(items) : ReadsAt(kind, m, place, items, i)
  PROVE  \E f : /\ RunsAre(kind, f, m, place[0], Len(items))
                /\ f[Len(items)] \subseteq {<<items, place[Len(items)]>>}
                /\ FindsAll(kind, m, place, Len(items)) => f[Len(items)] # {}
<1>0. PICK n \in Nat : n = Len(items)
  OBVIOUS
<1> DEFINE Goes(i) == \A j \in 1..i : Read(kind, m, place[j - 1]) # {}
           f == [i \in 0..n |-> IF Goes(i) THEN Run(items, place, i) ELSE {}]
<1>1. f[0] = Begun(place[0])
  <2>1. Goes(0) /\ SubSeq(items, 1, 0) = << >> /\ 0 \in 0..n
    OBVIOUS
  <2>2. f[0] = Run(items, place, 0)
    BY <2>1
  <2> QED
    BY <2>1, <2>2, Zenon DEF Run, Begun
<1>2. ASSUME NEW i \in 1..n PROVE f[i] = Extended(kind, m, f[i - 1])
  <2>1. PICK h \in Nat : h = i - 1 /\ h + 1 = i /\ h < Len(items) /\ h \in 0..n /\ i \in 0..n
    BY <1>0
  <2>2. ReadsAt(kind, m, place, items, h + 1)
    BY <1>0, <2>1
  <2>3. Extended(kind, m, Run(items, place, h)) =
          IF Read(kind, m, place[h]) = {} THEN {} ELSE Run(items, place, i)
    <3> HIDE DEF Goes, f
    <3>1. Extended(kind, m, Run(items, place, h)) =
            IF Read(kind, m, place[h]) = {} THEN {} ELSE Run(items, place, h + 1)
      <4>1. ExtendsRun(kind, m, place, items, h)
        BY <2>1, <2>2, RunExtended
      <4> QED
        BY <4>1, Zenon DEF ExtendsRun
    <3> QED
      BY <2>1, <3>1
  <2>4. Goes(i) <=> Goes(h) /\ Read(kind, m, place[h]) # {}
    <3>1. \A j \in 1..i : j \in 1..h \/ j = i
      BY <2>1
    <3>2. i \in 1..i /\ \A j \in 1..h : j \in 1..i
      BY <2>1
    <3> QED
      BY <2>1, <3>1, <3>2, Zenon
  <2>5. f[h] = (IF Goes(h) THEN Run(items, place, h) ELSE {}) /\ f[i] = (IF Goes(i) THEN Run(items, place, i) ELSE {})
    BY <2>1
  <2>6. Extended(kind, m, {}) = {}
    BY DEF Extended
  <2> HIDE DEF Goes, f
  <2>7. CASE Goes(h)
    BY <2>1, <2>3, <2>4, <2>5, <2>7
  <2>8. CASE ~Goes(h)
    BY <2>1, <2>4, <2>5, <2>6, <2>8
  <2> QED
    BY <2>7, <2>8
<1>3. RunsAre(kind, f, m, place[0], n)
  <2>1. \A i \in 0..n : i = 0 \/ i \in 1..n
    OBVIOUS
  <2>2. ASSUME NEW i \in 0..n
        PROVE  f[i] = IF i = 0 THEN Begun(place[0]) ELSE Extended(kind, m, f[i - 1])
    <3> HIDE DEF f
    <3>1. CASE i = 0
      BY <1>1, <3>1
    <3>2. CASE i # 0
      BY <1>2, <2>1, <3>2, Zenon
    <3> QED
      BY <3>1, <3>2
  <2>3. f = [i \in 0..n |-> f[i]]
    OBVIOUS
  <2> HIDE DEF f
  <2>4. f = [i \in 0..n |-> IF i = 0 THEN Begun(place[0]) ELSE Extended(kind, m, f[i - 1])]
    BY <2>2, <2>3, Zenon
  <2> QED
    BY <2>4, Zenon DEF RunsAre
<1>4. f[n] \subseteq {<<items, place[n]>>}
  <2>1. n \in 0..n /\ SubSeq(items, 1, n) = items
    BY <1>0
  <2>2. f[n] \subseteq Run(items, place, n)
    BY <2>1
  <2> QED
    BY <2>1, <2>2 DEF Run
<1>5. ASSUME FindsAll(kind, m, place, n) PROVE f[n] # {}
  <2>1. n \in 0..n
    OBVIOUS
  <2>2. Goes(n)
    BY <1>5 DEF FindsAll
  <2>3. f[n] = Run(items, place, n)
    BY <2>1, <2>2
  <2>4. Run(items, place, n) # {}
    BY DEF Run
  <2> QED
    BY <2>3, <2>4
<1> QED
  BY <1>0, <1>3, <1>4, <1>5

LEMMA ManyInputs ==
  ASSUME NEW m, NEW place, NEW S, NEW items \in Seq(S), NEW n \in Nat, n = Len(items),
         \A i \in 1..n : ReadsAt("input", m, place, items, i)
  PROVE  /\ Many(InputField, m, place[0], n) \subseteq {<<items, place[n]>>}
         /\ n <= Len(m) /\ Len(m) \in Nat /\ FindsAll("input", m, place, n) => Many(InputField, m, place[0], n) # {}
<1> DEFINE at == place[0]
           Is(h) == h = [i \in 0..n |-> IF i = 0 THEN {<<<< >>, at>>} ELSE UNION {{<<Append(run[1], r[1]), r[2]>> : r \in InputField(m, run[2])} : run \in h[i - 1]}]
           g == CHOOSE h : Is(h)
<1>1. \A R : Extended("input", m, R) = UNION {{<<Append(run[1], r[1]), r[2]>> : r \in InputField(m, run[2])} : run \in R}
  BY ZenonT(40) DEF Extended, Read
<1>2. PICK f : /\ RunsAre("input", f, m, at, n) /\ f[n] \subseteq {<<items, place[n]>>}
               /\ FindsAll("input", m, place, n) => f[n] # {}
  BY RunsOfItems
<1>3. \A h : Is(h) <=> RunsAre("input", h, m, at, n)
  BY <1>1, Zenon DEF RunsAre, Begun
<1>4. Is(g)
  BY <1>2, <1>3, Zenon
<1>5. RunsAre("input", g, m, at, n)
  BY <1>3, <1>4, Zenon
<1>6. Many(InputField, m, at, n) = IF n > Len(m) THEN {} ELSE g[n]
  BY Zenon DEF Many
<1> HIDE DEF g, Is, at
<1>7. f[n] = g[n]
  BY <1>2, <1>5, RunsUnique
<1>8. Many(InputField, m, at, n) \subseteq g[n]
  BY <1>6
<1>9. n <= Len(m) /\ Len(m) \in Nat => Many(InputField, m, at, n) = g[n]
  BY <1>6
<1> QED
  BY <1>2, <1>7, <1>8, <1>9 DEF at

LEMMA ManyOutputs ==
  ASSUME NEW m, NEW place, NEW S, NEW items \in Seq(S), NEW n \in Nat, n = Len(items),
         \A i \in 1..n : ReadsAt("output", m, place, items, i)
  PROVE  /\ Many(OutputField, m, place[0], n) \subseteq {<<items, place[n]>>}
         /\ n <= Len(m) /\ Len(m) \in Nat /\ FindsAll("output", m, place, n) => Many(OutputField, m, place[0], n) # {}
<1> DEFINE at == place[0]
           Is(h) == h = [i \in 0..n |-> IF i = 0 THEN {<<<< >>, at>>} ELSE UNION {{<<Append(run[1], r[1]), r[2]>> : r \in OutputField(m, run[2])} : run \in h[i - 1]}]
           g == CHOOSE h : Is(h)
<1>0. "output" # "input"
  OBVIOUS
<1>1. \A R : Extended("output", m, R) = UNION {{<<Append(run[1], r[1]), r[2]>> : r \in OutputField(m, run[2])} : run \in R}
  BY <1>0, ZenonT(40) DEF Extended, Read
<1>2. PICK f : /\ RunsAre("output", f, m, at, n) /\ f[n] \subseteq {<<items, place[n]>>}
               /\ FindsAll("output", m, place, n) => f[n] # {}
  BY RunsOfItems
<1>3. \A h : Is(h) <=> RunsAre("output", h, m, at, n)
  BY <1>1, Zenon DEF RunsAre, Begun
<1>4. Is(g)
  BY <1>2, <1>3, Zenon
<1>5. RunsAre("output", g, m, at, n)
  BY <1>3, <1>4, Zenon
<1>6. Many(OutputField, m, at, n) = IF n > Len(m) THEN {} ELSE g[n]
  BY Zenon DEF Many
<1> HIDE DEF g, Is, at
<1>7. f[n] = g[n]
  BY <1>2, <1>5, RunsUnique
<1>8. Many(OutputField, m, at, n) \subseteq g[n]
  BY <1>6
<1>9. n <= Len(m) /\ Len(m) \in Nat => Many(OutputField, m, at, n) = g[n]
  BY <1>6
<1> QED
  BY <1>2, <1>7, <1>8, <1>9 DEF at
-----------------------------------------------------------------------------
(* What is written at a place is what is read there. *)

FieldIs(m, at, size, part) == Field(m, at, size) = {<<part, at + size>>}

LEMMA FieldRead ==
  ASSUME NEW m \in Seq(Octet), NEW at \in Nat \ {0}, NEW part \in Seq(Octet), NEW size \in Nat,
         size = Len(part), Holds(m, at, part)
  PROVE  FieldIs(m, at, size, part)
<1>1. SubSeq(m, at, at + size - 1) = part
  BY HoldsSubSeq
<1>2. at + size <= Len(m) + 1
  BY DEF Holds
<1>3. {x \in {at} : x + size <= Len(m) + 1} = {at}
  BY <1>2
<1> DEFINE r == <<part, at + size>>
<1>4. Field(m, at, size) = {r : x \in {at}}
  BY <1>1, <1>3 DEF Field
<1> HIDE DEF r
<1>5. {r : x \in {at}} = {r}
  OBVIOUS
<1> QED
  BY <1>4, <1>5, Zenon DEF r, FieldIs

(* Bytes that are two parts in a row, and how many they are.               *)
IsBoth(s, a, b, n) == s = a \o b /\ s \in Seq(Octet) /\ Len(s) = n

LEMMA BothParts ==
  ASSUME NEW a \in Seq(Octet), NEW b \in Seq(Octet), NEW j \in Nat, NEW k \in Nat, Len(a) = j, Len(b) = k
  PROVE  IsBoth(a \o b, a, b, j + k)
BY ConcatenatesAt DEF IsBoth, Concatenates

LEMMA OneByte == \A x \in Octet : <<x>> \in Seq(Octet) /\ Len(<<x>>) = 1 /\ <<x>>[1] = x
OBVIOUS

(* A byte that tells the form of a size, and what follows it.              *)
MarkedAt(m, at, mark, rest) ==
    /\ at <= Len(m) /\ m[at] = mark /\ Holds(m, at + 1, rest)
    /\ <<mark>> \o rest \in Seq(Octet) /\ Len(<<mark>> \o rest) = 1 + Len(rest)

LEMMA Marked ==
  ASSUME NEW m \in Seq(Octet), NEW at \in Nat \ {0}, NEW mark \in Octet, NEW rest \in Seq(Octet),
         Holds(m, at, <<mark>> \o rest)
  PROVE  MarkedAt(m, at, mark, rest)
<1>1. <<mark>> \in Seq(Octet) /\ Len(<<mark>>) = 1 /\ <<mark>>[1] = mark
  BY OneByte
<1> DEFINE a == <<mark>>
<1> HIDE DEF a
<1>2. Holds(m, at, a) /\ Holds(m, at + 1, rest)
  BY <1>1, HoldsConcat DEF a
<1>3. at <= Len(m) /\ m[at] = mark
  <2>1. at + 1 <= Len(m) + 1 /\ \A i \in 1..1 : m[at + i - 1] = a[i]
    BY <1>1, <1>2 DEF Holds, a
  <2>2. m[at + 1 - 1] = mark /\ at + 1 - 1 = at
    BY <1>1, <2>1 DEF a
  <2> QED
    BY <2>1, <2>2
<1>4. a \o rest \in Seq(Octet) /\ Len(a \o rest) = 1 + Len(rest)
  BY <1>1 DEF a
<1> QED
  BY <1>2, <1>3, <1>4, Zenon DEF a, MarkedAt

LEMMA SizeRead ==
  ASSUME NEW m \in Seq(Octet), NEW at \in Nat \ {0}, NEW n \in Nat, NEW width \in Nat, n < Values(width),
         NEW least, Holds(m, at, LittleEndian(n, width))
  PROVE  SizeField(m, at, width, least) \subseteq {<<n, at + width>>}
<1> DEFINE s == LittleEndian(n, width)
<1>1. s \in Seq(Octet) /\ Len(s) = width /\ Number(Reverse(s)) = n
  BY LittleEndianNumber, Zenon DEF IsFieldOf
<1> HIDE DEF s
<1>2. Field(m, at, width) = {<<s, at + width>>}
  BY <1>1, FieldRead DEF s, FieldIs
<1> SUFFICES ASSUME NEW r \in SizeField(m, at, width, least) PROVE r = <<n, at + width>>
  OBVIOUS
<1>3. PICK f \in Field(m, at, width) : r = <<Number(Reverse(f[1])), f[2]>>
  BY Zenon DEF SizeField
<1>4. f[1] = s /\ f[2] = at + width
  BY <1>2
<1> QED
  BY <1>1, <1>3, <1>4, Zenon

IsSize(s) == s \in Seq(Octet) /\ Len(s) \in Nat \ {0}

LEMMA VarintType ==
  ASSUME NEW n \in Nat
  PROVE  write_varint(n) \in Seq(Octet) /\ Len(write_varint(n)) \in Nat \ {0}
<1>1. \A mark \in Octet, width \in Nat : IsSize(<<mark>> \o LittleEndian(n, width))
  <2> TAKE mark \in Octet, width \in Nat
  <2> DEFINE a == <<mark>>
             b == LittleEndian(n, width)
  <2>1. a \in Seq(Octet) /\ Len(a) = 1
    BY OneByte
  <2>2. b \in Seq(Octet) /\ Len(b) = width
    BY LittleEndianType
  <2> HIDE DEF a, b
  <2>3. 1 \in Nat /\ width \in Nat /\ 1 + width \in Nat \ {0}
    OBVIOUS
  <2>4. IsBoth(a \o b, a, b, 1 + width)
    BY <2>1, <2>2, <2>3, BothParts, Zenon
  <2> QED
    BY <2>3, <2>4, Zenon DEF a, b, IsBoth, IsSize
<1>2. 253 \in Octet /\ 254 \in Octet /\ 255 \in Octet /\ 2 \in Nat /\ 4 \in Nat /\ 8 \in Nat
  BY DEF Octet
<1>3. CASE n < 253
  <2>1. n \in Octet
    BY <1>3 DEF Octet
  <2>2. write_varint(n) = <<n>>
    BY <1>3 DEF write_varint
  <2> QED
    BY <2>1, <2>2, OneByte
<1>4. CASE ~(n < 253)
  <2>1. /\ IsSize(<< 253 >> \o LittleEndian(n, 2)) /\ IsSize(<< 254 >> \o LittleEndian(n, 4))
        /\ IsSize(<< 255 >> \o LittleEndian(n, 8))
    BY <1>1, <1>2, ZenonT(40)
  <2>2. IsSize(write_varint(n))
    BY <1>4, <2>1 DEF write_varint
  <2> QED
    BY <2>2, Zenon DEF IsSize
<1> QED
  BY <1>3, <1>4

LEMMA CompactRead ==
  ASSUME NEW m \in Seq(Octet), NEW at \in Nat \ {0}, NEW n \in Nat, NEW size, size = Len(write_varint(n)),
         Holds(m, at, write_varint(n))
  PROVE  Compact(m, at) \subseteq {<<n, at + size>>}
<1>0. /\ 253 \in Octet /\ 254 \in Octet /\ 255 \in Octet /\ 2 \in Nat /\ 4 \in Nat /\ 8 \in Nat
      /\ at + 1 \in Nat \ {0}
  BY DEF Octet
<1>1. CASE n < 253
  <2>1. n \in Octet
    BY <1>1 DEF Octet
  <2>2. write_varint(n) = <<n>>
    BY <1>1 DEF write_varint
  <2>3. size = 1 /\ at <= Len(m) /\ m[at] = n
    <3> DEFINE a == <<n>>
    <3>1. Len(a) = 1 /\ a[1] = n
      OBVIOUS
    <3> HIDE DEF a
    <3>2. at + 1 <= Len(m) + 1 /\ \A i \in 1..1 : m[at + i - 1] = a[i]
      BY <2>2, <3>1 DEF Holds, a
    <3>3. m[at + 1 - 1] = n /\ at + 1 - 1 = at
      BY <3>1, <3>2
    <3> QED
      BY <2>2, <3>1, <3>2, <3>3 DEF a
  <2>4. ~(at > Len(m)) /\ m[at] < 253
    BY <1>1, <2>3
  <2> QED
    BY <2>3, <2>4 DEF Compact
<1>2. CASE ~(n < 253) /\ n < Values(2)
  <2>1. write_varint(n) = <<253>> \o LittleEndian(n, 2)
    BY <1>2 DEF write_varint
  <2>2. LittleEndian(n, 2) \in Seq(Octet) /\ Len(LittleEndian(n, 2)) = 2
    BY <1>0, LittleEndianType, ZenonT(40)
  <2>3. at <= Len(m) /\ m[at] = 253 /\ Holds(m, at + 1, LittleEndian(n, 2)) /\ size = 1 + 2
    <3> DEFINE b == LittleEndian(n, 2)
    <3> HIDE DEF b
    <3>1. b \in Seq(Octet) /\ Len(b) = 2 /\ write_varint(n) = << 253 >> \o b
      BY <2>1, <2>2 DEF b
    <3>2. Holds(m, at, << 253 >> \o b) /\ size = Len(<< 253 >> \o b)
      BY <3>1
    <3>3. MarkedAt(m, at, 253, b)
      BY <1>0, <3>1, <3>2, Marked, ZenonT(40)
    <3> QED
      BY <3>1, <3>2, <3>3, Zenon DEF b, MarkedAt
  <2>4. SizeField(m, at + 1, 2, 253) \subseteq {<<n, at + 1 + 2>>}
    BY <1>0, <1>2, <2>3, SizeRead
  <2>5. Compact(m, at) = SizeField(m, at + 1, 2, 253)
    BY <2>3 DEF Compact
  <2>6. at + 1 + 2 = at + size
    BY <2>3
  <2> QED
    BY <2>4, <2>5, <2>6
<1>3. CASE ~(n < 253) /\ ~(n < Values(2)) /\ n < Values(4)
  <2>1. write_varint(n) = <<254>> \o LittleEndian(n, 4)
    BY <1>3 DEF write_varint
  <2>2. LittleEndian(n, 4) \in Seq(Octet) /\ Len(LittleEndian(n, 4)) = 4
    BY <1>0, LittleEndianType, ZenonT(40)
  <2>3. at <= Len(m) /\ m[at] = 254 /\ Holds(m, at + 1, LittleEndian(n, 4)) /\ size = 1 + 4
    <3> DEFINE b == LittleEndian(n, 4)
    <3> HIDE DEF b
    <3>1. b \in Seq(Octet) /\ Len(b) = 4 /\ write_varint(n) = << 254 >> \o b
      BY <2>1, <2>2 DEF b
    <3>2. Holds(m, at, << 254 >> \o b) /\ size = Len(<< 254 >> \o b)
      BY <3>1
    <3>3. MarkedAt(m, at, 254, b)
      BY <1>0, <3>1, <3>2, Marked, ZenonT(40)
    <3> QED
      BY <3>1, <3>2, <3>3, Zenon DEF b, MarkedAt
  <2>4. SizeField(m, at + 1, 4, Values(2)) \subseteq {<<n, at + 1 + 4>>}
    BY <1>0, <1>3, <2>3, SizeRead
  <2>5. Compact(m, at) = SizeField(m, at + 1, 4, Values(2))
    BY <2>3 DEF Compact
  <2>6. at + 1 + 4 = at + size
    BY <2>3
  <2> QED
    BY <2>4, <2>5, <2>6
<1>4. CASE ~(n < 253) /\ ~(n < Values(2)) /\ ~(n < Values(4))
  <2>1. write_varint(n) = <<255>> \o LittleEndian(n, 8)
    BY <1>4 DEF write_varint
  <2>2. LittleEndian(n, 8) \in Seq(Octet)
    BY <1>0, LittleEndianType, ZenonT(40)
  <2>3. at <= Len(m) /\ m[at] = 255
    BY <1>0, <2>1, <2>2, Marked DEF MarkedAt
  <2>4. Compact(m, at) = {}
    BY <2>3 DEF Compact
  <2> QED
    BY <2>4
<1> QED
  BY <1>1, <1>2, <1>3, <1>4

(* What the network makes of an input.                                     *)
MeantInput(input) == [txid |-> input.txid, vout |-> input.vout, sequence |-> input.sequence]

InputBytes(input) == Prevout(input) \o <<0>> \o Sequence(input)

InputSize == TxidSize + 2 * WordSize + 1

LEMMA TxInFields ==
  ASSUME NEW input \in TxIn
  PROVE  /\ input.txid \in Seq(Octet) /\ Len(input.txid) = TxidSize
         /\ input.vout \in Nat /\ input.vout < Values(WordSize)
         /\ input.sequence \in Nat /\ input.sequence < Values(WordSize)
         /\ input.value \in Nat /\ input.value < Values(ValueSize)
         /\ input.script_pubkey \in Seq(Octet)
BY DEF TxIn, Below

(* The parts of an input: where each is.                                   *)
InputParts(s, input) ==
    /\ s \in Seq(Octet) /\ Len(s) = InputSize
    /\ SubSeq(s, 1, TxidSize) = input.txid
    /\ SubSeq(s, TxidSize + 1, TxidSize + WordSize) = LittleEndian(input.vout, WordSize)
    /\ s[TxidSize + WordSize + 1] = 0
    /\ SubSeq(s, TxidSize + WordSize + 2, Len(s)) = LittleEndian(input.sequence, WordSize)

LEMMA InputLaidOut ==
  ASSUME NEW input \in TxIn
  PROVE  InputParts(InputBytes(input), input)
<1>1. PICK h \in Nat \ {0}, w \in Nat \ {0} : h = TxidSize /\ w = WordSize
  BY Sizes
<1> DEFINE a == input.txid
           b == LittleEndian(input.vout, WordSize)
           z == <<0>>
           c == LittleEndian(input.sequence, WordSize)
<1>2. a \in Seq(Octet) /\ Len(a) = h
  BY <1>1, TxInFields
<1>3. b \in Seq(Octet) /\ Len(b) = w
  <2>1. input.vout \in Nat /\ WordSize \in Nat
    BY Sizes, TxInFields
  <2> QED
    BY <1>1, <2>1, LittleEndianType, ZenonT(40)
<1>4. z \in Seq(Octet) /\ Len(z) = 1 /\ z[1] = 0
  BY OneByte DEF Octet
<1>5. c \in Seq(Octet) /\ Len(c) = w
  <2>1. input.sequence \in Nat /\ WordSize \in Nat
    BY Sizes, TxInFields
  <2> QED
    BY <1>1, <2>1, LittleEndianType, ZenonT(40)
<1> HIDE DEF a, b, z, c
<1>6. PICK p \in Seq(Octet) : p = a \o b /\ Len(p) = h + w
  <2>1. IsBoth(a \o b, a, b, h + w)
    BY <1>1, <1>2, <1>3, BothParts
  <2> QED
    BY <2>1, Zenon DEF IsBoth
<1>7. PICK q \in Seq(Octet) : q = p \o z /\ Len(q) = h + w + 1
  <2>1. h + w \in Nat /\ 1 \in Nat
    OBVIOUS
  <2>2. IsBoth(p \o z, p, z, (h + w) + 1)
    BY <1>4, <1>6, <2>1, BothParts, Zenon
  <2> QED
    BY <2>2, Zenon DEF IsBoth
<1>8. PICK s \in Seq(Octet) : s = q \o c /\ Len(s) = h + w + 1 + w
  <2>1. h + w + 1 \in Nat /\ w \in Nat
    OBVIOUS
  <2>2. IsBoth(q \o c, q, c, (h + w + 1) + w)
    BY <1>5, <1>7, <2>1, BothParts, Zenon
  <2> QED
    BY <2>2, Zenon DEF IsBoth
<1>9. Holds(s, 1, s)
  BY HoldsItself
<1>10. Holds(s, 1, q) /\ Holds(s, 1 + (h + w + 1), c)
  BY <1>5, <1>7, <1>8, <1>9, HoldsConcat
<1>11. Holds(s, 1, p) /\ Holds(s, 1 + (h + w), z)
  BY <1>4, <1>6, <1>7, <1>10, HoldsConcat
<1>12. Holds(s, 1, a) /\ Holds(s, 1 + h, b)
  BY <1>2, <1>3, <1>6, <1>11, HoldsConcat
<1>13. SubSeq(s, 1, 1 + h - 1) = a
  BY <1>2, <1>12, HoldsSubSeq, SMTT(30)
<1>14. SubSeq(s, 1 + h, 1 + h + w - 1) = b
  BY <1>3, <1>12, HoldsSubSeq
<1>15. SubSeq(s, 1 + (h + w + 1), 1 + (h + w + 1) + w - 1) = c
  <2>1. PICK k \in Nat \ {0} : k = 1 + (h + w + 1)
    OBVIOUS
  <2>2. SubSeq(s, k, k + w - 1) = c
    BY <1>5, <1>10, <2>1, HoldsSubSeq
  <2> QED
    BY <2>1, <2>2, Zenon
<1>16. s[h + w + 1] = 0
  <2>1. \A i \in 1..1 : s[1 + (h + w) + i - 1] = z[i]
    BY <1>4, <1>11 DEF Holds
  <2>2. s[1 + (h + w) + 1 - 1] = 0 /\ 1 + (h + w) + 1 - 1 = h + w + 1
    BY <1>4, <2>1
  <2> QED
    BY <2>2
<1>17. 1 + h - 1 = h /\ 1 + h = h + 1 /\ 1 + h + w - 1 = h + w /\ 1 + (h + w + 1) = h + w + 2
       /\ 1 + (h + w + 1) + w - 1 = Len(s) /\ Len(s) = h + 2 * w + 1
  BY <1>8
<1>18. s = InputBytes(input)
  BY <1>6, <1>7, <1>8, Zenon DEF InputBytes, Prevout, Sequence, a, b, z, c
<1>19. InputParts(s, input)
  BY <1>1, <1>13, <1>14, <1>15, <1>16, <1>17 DEF InputParts, InputSize, a, b, c
<1> QED
  BY <1>18, <1>19, Zenon

LEMMA InputRead ==
  ASSUME NEW m \in Seq(Octet), NEW at \in Nat \ {0}, NEW input \in TxIn, Holds(m, at, InputBytes(input))
  PROVE  InputField(m, at) \subseteq {<<MeantInput(input), at + InputSize>>}
<1> DEFINE s == InputBytes(input)
<1>1. InputParts(s, input)
  BY InputLaidOut
<1> HIDE DEF s
<1>2. InputSize \in Nat
  BY Sizes DEF InputSize
<1>3. Field(m, at, InputSize) = {<<s, at + InputSize>>}
  BY <1>1, <1>2, FieldRead DEF InputParts, s, FieldIs
<1>4. Number(Reverse(LittleEndian(input.vout, WordSize))) = input.vout
  BY Sizes, TxInFields, LittleEndianNumber, Zenon DEF IsFieldOf
<1>5. Number(Reverse(LittleEndian(input.sequence, WordSize))) = input.sequence
  BY Sizes, TxInFields, LittleEndianNumber, Zenon DEF IsFieldOf
<1> SUFFICES ASSUME NEW r \in InputField(m, at) PROVE r = <<MeantInput(input), at + InputSize>>
  OBVIOUS
<1>6. PICK f \in Field(m, at, InputSize) : r =
        <<[txid |-> SubSeq(f[1], 1, TxidSize),
           vout |-> Number(Reverse(SubSeq(f[1], TxidSize + 1, TxidSize + WordSize))),
           sequence |-> Number(Reverse(SubSeq(f[1], TxidSize + WordSize + 2, Len(f[1]))))], f[2]>>
  BY Zenon DEF InputField, InputSize
<1>7. f[1] = s /\ f[2] = at + InputSize
  BY <1>3
<1>8. r = <<[txid |-> SubSeq(s, 1, TxidSize),
             vout |-> Number(Reverse(SubSeq(s, TxidSize + 1, TxidSize + WordSize))),
             sequence |-> Number(Reverse(SubSeq(s, TxidSize + WordSize + 2, Len(s))))], at + InputSize>>
  BY <1>6, <1>7, Zenon
<1> QED
  BY <1>1, <1>4, <1>5, <1>8, Zenon DEF InputParts, MeantInput

(* What the network makes of an output.                                    *)
MeantOutput(output) == [value |-> output.value, script |-> output.script_pubkey]

WrittenOutput(output) == LittleEndian(output.value, ValueSize) \o Script(output)

LEMMA OutputType ==
  ASSUME NEW output \in TxOut
  PROVE  /\ output.value \in Nat /\ output.value < Values(ValueSize)
         /\ output.script_pubkey \in Seq(Octet) /\ Script(output) \in Seq(Octet)
         /\ Len(Script(output)) = Len(write_varint(Len(output.script_pubkey))) + Len(output.script_pubkey)
         /\ WrittenOutput(output) \in Seq(Octet)
         /\ Len(WrittenOutput(output)) = ValueSize + Len(Script(output))
<1>1. output.value \in Nat /\ output.value < Values(ValueSize) /\ output.script_pubkey \in Seq(Octet)
  BY DEF TxOut, Below
<1>2. PICK s \in Seq(Octet) : s = output.script_pubkey
  BY <1>1
<1>3. PICK c \in Seq(Octet) : c = write_varint(Len(s))
  BY VarintType
<1>4. PICK v \in Seq(Octet) : v = LittleEndian(output.value, ValueSize) /\ Len(v) = ValueSize
  <2>1. output.value \in Nat /\ ValueSize \in Nat
    BY <1>1, Sizes
  <2>2. /\ LittleEndian(output.value, ValueSize) \in Seq(Octet)
        /\ Len(LittleEndian(output.value, ValueSize)) = ValueSize
    BY <2>1, LittleEndianType, ZenonT(40)
  <2> QED
    BY <2>2, Zenon
<1>5. PICK t \in Seq(Octet) : t = c \o s /\ Len(t) = Len(c) + Len(s)
  <2>1. Len(c) \in Nat /\ Len(s) \in Nat
    OBVIOUS
  <2>2. IsBoth(c \o s, c, s, Len(c) + Len(s))
    BY <2>1, BothParts
  <2> QED
    BY <2>2, Zenon DEF IsBoth
<1>6. v \o t \in Seq(Octet) /\ Len(v \o t) = ValueSize + Len(t)
  <2>1. Len(t) \in Nat /\ ValueSize \in Nat
    BY Sizes
  <2>2. IsBoth(v \o t, v, t, ValueSize + Len(t))
    BY <1>4, <2>1, BothParts
  <2> QED
    BY <2>2, Zenon DEF IsBoth
<1>7. Script(output) = t
  BY <1>2, <1>3, <1>5, Zenon DEF Script
<1>8. WrittenOutput(output) = v \o t
  BY <1>4, <1>7, Zenon DEF WrittenOutput
<1> QED
  BY <1>1, <1>2, <1>3, <1>5, <1>6, <1>7, <1>8

LEMMA OutputRead ==
  ASSUME NEW m \in Seq(Octet), NEW at \in Nat \ {0}, NEW output \in TxOut, NEW size \in Nat,
         size = Len(WrittenOutput(output)), Holds(m, at, WrittenOutput(output))
  PROVE  OutputField(m, at) \subseteq {<<MeantOutput(output), at + size>>}
<1>1. PICK s \in Seq(Octet) : s = output.script_pubkey
  BY OutputType
<1>2. PICK k \in Nat : k = Len(s)
  OBVIOUS
<1>3. PICK c \in Seq(Octet) : c = write_varint(k) /\ Len(c) \in Nat
  BY VarintType
<1>4. PICK v \in Seq(Octet) : v = LittleEndian(output.value, ValueSize) /\ Len(v) = ValueSize /\ Number(Reverse(v)) = output.value
  BY Sizes, OutputType, LittleEndianNumber, Zenon DEF IsFieldOf
<1>5. PICK t \in Seq(Octet) : t = Script(output) /\ t = c \o s /\ Len(t) = Len(c) + k
  <2>1. Script(output) = c \o s
    BY <1>1, <1>2, <1>3, Zenon DEF Script
  <2> QED
    BY <1>1, <1>2, <1>3, <2>1, OutputType
<1>6. PICK x \in Nat \ {0} : x = ValueSize
  BY Sizes
<1>7. Holds(m, at, v) /\ Holds(m, at + x, t) /\ size = x + (Len(c) + k)
  <2>1. WrittenOutput(output) = v \o t
    BY <1>4, <1>5, Zenon DEF WrittenOutput
  <2>2. Holds(m, at, v \o t) /\ Len(v) = x /\ at \in Nat
    BY <1>4, <1>6, <2>1
  <2>4. Holds(m, at, v) /\ Holds(m, at + Len(v), t)
    BY <2>2, HoldsConcat, Zenon
  <2>3. size = ValueSize + Len(t)
    BY <1>5, OutputType
  <2> QED
    BY <1>5, <1>6, <2>2, <2>3, <2>4
<1>8. Holds(m, at + x, c) /\ Holds(m, at + x + Len(c), s)
  BY <1>5, <1>7, HoldsConcat
<1>9. Field(m, at, ValueSize) = {<<v, at + x>>}
  BY <1>4, <1>6, <1>7, FieldRead DEF FieldIs
<1>10. Compact(m, at + x) \subseteq {<<k, at + x + Len(c)>>}
  <2>1. PICK p \in Nat \ {0} : p = at + x
    BY <1>6
  <2>2. Holds(m, p, write_varint(k))
    BY <1>3, <1>8, <2>1
  <2>3. Compact(m, p) \subseteq {<<k, p + Len(c)>>}
    BY <1>3, <2>2, CompactRead
  <2> QED
    BY <2>1, <2>3
<1>11. Field(m, at + x + Len(c), k) = {<<s, at + x + Len(c) + k>>}
  <2>1. PICK p \in Nat \ {0} : p = at + x + Len(c)
    BY <1>3, <1>6
  <2>2. Holds(m, p, s)
    BY <1>8, <2>1
  <2>3. FieldIs(m, p, k, s)
    BY <1>2, <2>1, <2>2, FieldRead
  <2> QED
    BY <2>1, <2>3, Zenon DEF FieldIs
<1>12. at + x + Len(c) + k = at + size
  BY <1>3, <1>7
<1> SUFFICES ASSUME NEW r \in OutputField(m, at) PROVE r = <<MeantOutput(output), at + size>>
  OBVIOUS
<1>13. PICK f \in Field(m, at, ValueSize) :
         r \in UNION {{<<[value |-> Number(Reverse(f[1])), script |-> g[1]], g[2]>> :
                         g \in Field(m, n[2], n[1])} : n \in Compact(m, f[2])}
  BY Zenon DEF OutputField
<1>14. f[1] = v /\ f[2] = at + x
  BY <1>9
<1>15. PICK n \in Compact(m, f[2]) :
         r \in {<<[value |-> Number(Reverse(f[1])), script |-> g[1]], g[2]>> : g \in Field(m, n[2], n[1])}
  BY <1>13, Zenon
<1>16. n[1] = k /\ n[2] = at + x + Len(c)
  BY <1>10, <1>14, <1>15
<1>17. PICK g \in Field(m, at + x + Len(c), k) : r = <<[value |-> Number(Reverse(f[1])), script |-> g[1]], g[2]>>
  BY <1>15, <1>16, Zenon
<1>18. g[1] = s /\ g[2] = at + size
  BY <1>11, <1>12, <1>17, SMTT(30)
<1> QED
  BY <1>1, <1>4, <1>14, <1>17, <1>18, Zenon DEF MeantOutput
-----------------------------------------------------------------------------
(* The network reads what was written, and nothing else. *)

LEMMA PlacesPositive ==
  ASSUME NEW S, NEW m, NEW at \in Nat \ {0}, NEW seqs \in Seq(Seq(S)), NEW place, PlacesOf(place, m, at, seqs)
  PROVE  \A i \in 0..Len(seqs) : place[i] \in Nat \ {0}
<1>0. PICK n \in Nat : n = Len(seqs)
  OBVIOUS
<1>1. /\ place \in [0..n -> Nat] /\ place[0] = at
      /\ \A i \in 1..n : place[i] = place[i - 1] + Len(seqs[i])
  BY <1>0 DEF PlacesOf
<1> DEFINE T == {i \in 0..n : place[i] \in Nat \ {0}}
<1>2. 0 \in T
  BY <1>1
<1>3. ASSUME NEW i \in 1..n, i - 1 \in T PROVE i \in T
  <2>1. seqs[i] \in Seq(S)
    BY <1>0
  <2>2. Len(seqs[i]) \in Nat
    BY <2>1
  <2>3. place[i - 1] \in Nat \ {0} /\ i \in 0..n
    BY <1>3
  <2> QED
    BY <1>1, <2>2, <2>3
<1> HIDE DEF T
<1>4. 0..n \subseteq T
  BY <1>2, <1>3, InductUpTo
<1> QED
  BY <1>0, <1>4 DEF T

AllInputs(xs) == FlattenSeq([i \in DOMAIN xs |-> InputBytes(xs[i])])

MeantInputs(xs) == [i \in DOMAIN xs |-> MeantInput(xs[i])]

LEMMA InputsRead ==
  ASSUME NEW m \in Seq(Octet), NEW at \in Nat \ {0}, NEW xs \in Seq(TxIn), Holds(m, at, AllInputs(xs))
  PROVE  Many(InputField, m, at, Len(xs)) \subseteq {<<MeantInputs(xs), at + Len(AllInputs(xs))>>}
<1>0. PICK n \in Nat : n = Len(xs) /\ DOMAIN xs = 1..n
  OBVIOUS
<1>1. \A i \in 1..n : xs[i] \in TxIn
  BY <1>0, Elements
<1> DEFINE parts == [i \in 1..n |-> InputBytes(xs[i])]
           items == [i \in 1..n |-> MeantInput(xs[i])]
           S == {MeantInput(x) : x \in TxIn}
<1>2. \A i \in 1..n : parts[i] = InputBytes(xs[i]) /\ parts[i] \in Seq(Octet) /\ Len(parts[i]) = InputSize
  BY <1>1, InputLaidOut DEF InputParts
<1>3. parts \in Seq(Seq(Octet)) /\ Len(parts) = n
  <2>1. parts \in [1..n -> Seq(Octet)]
    BY <1>2
  <2> HIDE DEF parts
  <2> QED
    BY <2>1
<1>4. items \in Seq(S) /\ Len(items) = n /\ \A i \in 1..n : items[i] = MeantInput(xs[i])
  <2>1. items \in [1..n -> S]
    BY <1>1
  <2>2. \A i \in 1..n : items[i] = MeantInput(xs[i])
    OBVIOUS
  <2> HIDE DEF items, S
  <2> QED
    BY <2>1, <2>2
<1>5. AllInputs(xs) = FlattenSeq(parts) /\ MeantInputs(xs) = items
  BY <1>0, Zenon DEF AllInputs, MeantInputs
<1> HIDE DEF parts, items, S
<1>6. PICK place : PlacesOf(place, m, at, parts)
  BY <1>3, <1>5, PlacesExist
<1>7. \A i \in 0..n : place[i] \in Nat \ {0}
  BY <1>3, <1>6, PlacesPositive
<1>8. /\ place[0] = at /\ place[n] = at + Len(FlattenSeq(parts))
      /\ \A i \in 1..n : place[i] = place[i - 1] + Len(parts[i]) /\ Holds(m, place[i - 1], parts[i])
  BY <1>3, <1>6 DEF PlacesOf
<1>9. ASSUME NEW i \in 1..n PROVE ReadsAt("input", m, place, items, i)
  <2>1. PICK p \in Nat \ {0} : p = place[i - 1]
    <3>1. i - 1 \in 0..n
      OBVIOUS
    <3> QED
      BY <1>7, <3>1
  <2>2. Holds(m, p, InputBytes(xs[i])) /\ place[i] = p + InputSize
    BY <1>2, <1>8, <2>1
  <2>3. InputField(m, p) \subseteq {<<MeantInput(xs[i]), p + InputSize>>}
    BY <1>1, <2>2, InputRead
  <2>4. Read("input", m, p) \subseteq {<<items[i], place[i]>>}
    BY <1>4, <2>2, <2>3 DEF Read
  <2> QED
    BY <2>1, <2>4, Zenon DEF ReadsAt
<1>10. Many(InputField, m, place[0], n) \subseteq {<<items, place[n]>>}
  BY <1>4, <1>9, ManyInputs
<1> QED
  BY <1>0, <1>5, <1>8, <1>10

AllOutputs(xs) == FlattenSeq([i \in DOMAIN xs |-> WrittenOutput(xs[i])])

MeantOutputs(xs) == [i \in DOMAIN xs |-> MeantOutput(xs[i])]

LEMMA OutputsRead ==
  ASSUME NEW m \in Seq(Octet), NEW at \in Nat \ {0}, NEW xs \in Seq(TxOut), Holds(m, at, AllOutputs(xs))
  PROVE  Many(OutputField, m, at, Len(xs)) \subseteq {<<MeantOutputs(xs), at + Len(AllOutputs(xs))>>}
<1>0. PICK n \in Nat : n = Len(xs) /\ DOMAIN xs = 1..n
  OBVIOUS
<1>1. \A i \in 1..n : xs[i] \in TxOut
  BY <1>0, Elements
<1> DEFINE parts == [i \in 1..n |-> WrittenOutput(xs[i])]
           items == [i \in 1..n |-> MeantOutput(xs[i])]
           S == {MeantOutput(x) : x \in TxOut}
<1>2. \A i \in 1..n : parts[i] = WrittenOutput(xs[i]) /\ parts[i] \in Seq(Octet)
  BY <1>1, OutputType
<1>3. parts \in Seq(Seq(Octet)) /\ Len(parts) = n
  <2>1. parts \in [1..n -> Seq(Octet)]
    BY <1>2
  <2> HIDE DEF parts
  <2> QED
    BY <2>1
<1>4. items \in Seq(S) /\ Len(items) = n /\ \A i \in 1..n : items[i] = MeantOutput(xs[i])
  <2>1. items \in [1..n -> S]
    BY <1>1
  <2>2. \A i \in 1..n : items[i] = MeantOutput(xs[i])
    OBVIOUS
  <2> HIDE DEF items, S
  <2> QED
    BY <2>1, <2>2
<1>5. AllOutputs(xs) = FlattenSeq(parts) /\ MeantOutputs(xs) = items
  BY <1>0, Zenon DEF AllOutputs, MeantOutputs
<1> HIDE DEF parts, items, S
<1>6. PICK place : PlacesOf(place, m, at, parts)
  BY <1>3, <1>5, PlacesExist
<1>7. \A i \in 0..n : place[i] \in Nat \ {0}
  BY <1>3, <1>6, PlacesPositive
<1>8. /\ place[0] = at /\ place[n] = at + Len(FlattenSeq(parts))
      /\ \A i \in 1..n : place[i] = place[i - 1] + Len(parts[i]) /\ Holds(m, place[i - 1], parts[i])
  BY <1>3, <1>6 DEF PlacesOf
<1>9. ASSUME NEW i \in 1..n PROVE ReadsAt("output", m, place, items, i)
  <2>0. "output" # "input"
    OBVIOUS
  <2>1. PICK p \in Nat \ {0} : p = place[i - 1]
    <3>1. i - 1 \in 0..n
      OBVIOUS
    <3> QED
      BY <1>7, <3>1
  <2>2. PICK size \in Nat : size = Len(WrittenOutput(xs[i]))
    BY <1>1, OutputType
  <2>3. Holds(m, p, WrittenOutput(xs[i])) /\ place[i] = p + size
    BY <1>2, <1>8, <2>1, <2>2
  <2>4. OutputField(m, p) \subseteq {<<MeantOutput(xs[i]), p + size>>}
    BY <1>1, <2>2, <2>3, OutputRead
  <2>5. Read("output", m, p) \subseteq {<<items[i], place[i]>>}
    BY <1>4, <2>0, <2>3, <2>4 DEF Read
  <2> QED
    BY <2>1, <2>5, Zenon DEF ReadsAt
<1>10. Many(OutputField, m, place[0], n) \subseteq {<<items, place[n]>>}
  BY <1>4, <1>9, ManyOutputs
<1> QED
  BY <1>0, <1>5, <1>8, <1>10

LEMMA AllInputsType == ASSUME NEW xs \in Seq(TxIn) PROVE AllInputs(xs) \in Seq(Octet)
<1>0. PICK n \in Nat : n = Len(xs) /\ DOMAIN xs = 1..n
  OBVIOUS
<1>1. \A i \in 1..n : xs[i] \in TxIn
  BY <1>0, Elements
<1> DEFINE parts == [i \in 1..n |-> InputBytes(xs[i])]
<1>2. parts \in [1..n -> Seq(Octet)]
  BY <1>1, InputLaidOut DEF InputParts
<1> HIDE DEF parts
<1>3. FlattenSeq(parts) \in Seq(Octet)
  BY <1>2, FlattenType
<1> QED
  BY <1>0, <1>3, Zenon DEF AllInputs, parts

LEMMA AllOutputsType == ASSUME NEW xs \in Seq(TxOut) PROVE AllOutputs(xs) \in Seq(Octet)
<1>0. PICK n \in Nat : n = Len(xs) /\ DOMAIN xs = 1..n
  OBVIOUS
<1>1. \A i \in 1..n : xs[i] \in TxOut
  BY <1>0, Elements
<1> DEFINE parts == [i \in 1..n |-> WrittenOutput(xs[i])]
<1>2. parts \in [1..n -> Seq(Octet)]
  BY <1>1, OutputType
<1> HIDE DEF parts
<1>3. FlattenSeq(parts) \in Seq(Octet)
  BY <1>2, FlattenType
<1> QED
  BY <1>0, <1>3, Zenon DEF AllOutputs, parts

Meaning(tx) ==
    [version |-> tx.version, ins |-> MeantInputs(tx.inputs), outs |-> MeantOutputs(tx.outputs),
     locktime |-> tx.locktime]

(* Where the parts of a transaction are.                                   *)
LaidOut(m, tx, c, q, d) ==
    /\ m \in Seq(Octet)
    /\ SubSeq(m, 1, WordSize) = LittleEndian(tx.version, WordSize)
    /\ SubSeq(m, WordSize + 1, WordSize + 2) = <<0, 1>> /\ c <= Len(m)
    /\ c = WordSize + 3 /\ Holds(m, c, write_varint(Len(tx.inputs)))
    /\ q = c + Len(write_varint(Len(tx.inputs))) /\ q \in Nat \ {0} /\ Holds(m, q, AllInputs(tx.inputs))
    /\ d = q + Len(AllInputs(tx.inputs)) /\ d \in Nat \ {0} /\ Holds(m, d, write_varint(Len(tx.outputs)))
    /\ d + Len(write_varint(Len(tx.outputs))) \in Nat \ {0}
    /\ Holds(m, d + Len(write_varint(Len(tx.outputs))), AllOutputs(tx.outputs))
    /\ (d + Len(write_varint(Len(tx.outputs)))) + Len(AllOutputs(tx.outputs)) = Len(m) + 1

LEMMA SerializedParts ==
  ASSUME NEW tx, IsTx(tx), NEW witnesses
  PROVE  \E c, q, d : LaidOut(Serialize(tx, witnesses).body, tx, c, q, d)
<1>1. PICK w \in Nat \ {0} : w = WordSize
  BY Sizes
<1>2. PICK v \in Seq(Octet) : v = LittleEndian(tx.version, WordSize) /\ Len(v) = w
  <2>1. tx.version \in Nat /\ WordSize \in Nat
    BY Sizes DEF IsTx, Below
  <2>2. /\ LittleEndian(tx.version, WordSize) \in Seq(Octet)
        /\ Len(LittleEndian(tx.version, WordSize)) = WordSize
    BY <2>1, LittleEndianType, ZenonT(40)
  <2> QED
    BY <1>1, <2>2, Zenon
<1>3. PICK z \in Seq(Octet) : z = <<0, 1>> /\ Len(z) = 2
  <2>1. 0 \in Octet /\ 1 \in Octet
    BY DEF Octet
  <2>2. <<0, 1>> \in Seq(Octet) /\ Len(<<0, 1>>) = 2
    BY <2>1
  <2> QED
    BY <2>2, Zenon
<1>4. PICK a \in Seq(Octet) : a = write_varint(Len(tx.inputs)) /\ Len(a) \in Nat \ {0}
  <2>1. Len(tx.inputs) \in Nat
    BY DEF IsTx
  <2> QED
    BY <2>1, VarintType DEF IsSize
<1>5. PICK b \in Seq(Octet) : b = AllInputs(tx.inputs)
  BY AllInputsType DEF IsTx
<1>6. PICK e \in Seq(Octet) : e = write_varint(Len(tx.outputs))
  <2>1. Len(tx.outputs) \in Nat
    BY DEF IsTx
  <2> QED
    BY <2>1, VarintType
<1>7. PICK o \in Seq(Octet) : o = AllOutputs(tx.outputs)
  BY AllOutputsType DEF IsTx
<1>8. PICK m1 \in Seq(Octet) : m1 = v \o z /\ Len(m1) = w + 2
  <2>1. IsBoth(v \o z, v, z, w + 2)
    BY <1>1, <1>2, <1>3, BothParts
  <2> QED
    BY <2>1, Zenon DEF IsBoth
<1>9. PICK m2 \in Seq(Octet) : m2 = m1 \o a /\ Len(m2) = (w + 2) + Len(a)
  <2>1. w + 2 \in Nat /\ Len(a) \in Nat
    OBVIOUS
  <2>2. IsBoth(m1 \o a, m1, a, (w + 2) + Len(a))
    BY <1>8, <2>1, BothParts, Zenon
  <2> QED
    BY <2>2, Zenon DEF IsBoth
<1>10. PICK m3 \in Seq(Octet) : m3 = m2 \o b /\ Len(m3) = ((w + 2) + Len(a)) + Len(b)
  <2>1. (w + 2) + Len(a) \in Nat /\ Len(b) \in Nat
    OBVIOUS
  <2>2. IsBoth(m2 \o b, m2, b, ((w + 2) + Len(a)) + Len(b))
    BY <1>9, <2>1, BothParts, Zenon
  <2> QED
    BY <2>2, Zenon DEF IsBoth
<1>11. PICK m4 \in Seq(Octet) : m4 = m3 \o e /\ Len(m4) = (((w + 2) + Len(a)) + Len(b)) + Len(e)
  <2>1. ((w + 2) + Len(a)) + Len(b) \in Nat /\ Len(e) \in Nat
    OBVIOUS
  <2>2. IsBoth(m3 \o e, m3, e, (((w + 2) + Len(a)) + Len(b)) + Len(e))
    BY <1>10, <2>1, BothParts, Zenon
  <2> QED
    BY <2>2, Zenon DEF IsBoth
<1>12. PICK m \in Seq(Octet) : m = m4 \o o /\ Len(m) = Len(m4) + Len(o)
  <2>1. Len(m4) \in Nat /\ Len(o) \in Nat
    OBVIOUS
  <2>2. IsBoth(m4 \o o, m4, o, Len(m4) + Len(o))
    BY <2>1, BothParts
  <2> QED
    BY <2>2, Zenon DEF IsBoth
<1>13. m = Serialize(tx, witnesses).body
  BY <1>2, <1>3, <1>4, <1>5, <1>6, <1>7, <1>8, <1>9, <1>10, <1>11, <1>12
     DEF Serialize, AllInputs, InputBytes, AllOutputs, WrittenOutput, OutputBytes
<1>14. Holds(m, 1, m4) /\ Holds(m, 1 + Len(m4), o)
  <2>1. Holds(m, 1, m4 \o o)
    BY <1>12, HoldsItself
  <2> QED
    BY <2>1, HoldsConcat
<1>15. Holds(m, 1, m3) /\ Holds(m, 1 + Len(m3), e)
  BY <1>11, <1>14, HoldsConcat
<1>16. Holds(m, 1, m2) /\ Holds(m, 1 + Len(m2), b)
  BY <1>10, <1>15, HoldsConcat
<1>17. Holds(m, 1, m1) /\ Holds(m, 1 + Len(m1), a)
  BY <1>9, <1>16, HoldsConcat
<1>18. Holds(m, 1, v) /\ Holds(m, 1 + Len(v), z)
  BY <1>8, <1>17, HoldsConcat
<1>19. SubSeq(m, 1, w) = v
  <2>1. SubSeq(m, 1, 1 + Len(v) - 1) = v
    BY <1>18, HoldsSubSeq
  <2>2. 1 + Len(v) - 1 = w
    BY <1>2
  <2> QED
    BY <2>1, <2>2
<1>a. SubSeq(m, w + 1, w + 2) = z
  <2>1. PICK at \in Nat \ {0} : at = w + 1 /\ at = 1 + Len(v) /\ at + Len(z) - 1 = w + 2
    BY <1>2, <1>3
  <2>2. SubSeq(m, at, at + Len(z) - 1) = z
    BY <1>18, <2>1, HoldsSubSeq
  <2> QED
    BY <2>1, <2>2
<1> DEFINE c == w + 3
           q == c + Len(a)
           d == q + Len(b)
<1>20. /\ 1 + Len(m1) = c /\ 1 + Len(m2) = q /\ 1 + Len(m3) = d /\ 1 + Len(m4) = d + Len(e)
       /\ q \in Nat \ {0} /\ d \in Nat \ {0} /\ d + Len(e) \in Nat \ {0}
       /\ c <= Len(m) /\ (d + Len(e)) + Len(o) = Len(m) + 1
  <2>1. Len(a) \in Nat \ {0} /\ Len(b) \in Nat /\ Len(e) \in Nat /\ Len(o) \in Nat
    BY <1>4
  <2>2. /\ Len(m1) = w + 2 /\ Len(m2) = (w + 2) + Len(a) /\ Len(m3) = ((w + 2) + Len(a)) + Len(b)
        /\ Len(m4) = (((w + 2) + Len(a)) + Len(b)) + Len(e) /\ Len(m) = Len(m4) + Len(o)
    BY <1>8, <1>9, <1>10, <1>11, <1>12, Zenon
  <2> QED
    BY <2>1, <2>2, SMTT(30)
<1> HIDE DEF c, q, d
<1>21. Holds(m, c, a) /\ Holds(m, q, b) /\ Holds(m, d, e) /\ Holds(m, d + Len(e), o)
  BY <1>14, <1>15, <1>16, <1>17, <1>20
<1>22. LaidOut(m, tx, c, q, d)
  BY <1>1, <1>2, <1>3, <1>4, <1>5, <1>6, <1>7, <1>19, <1>a, <1>20, <1>21, Zenon DEF LaidOut, c, q, d
<1> QED
  BY <1>13, <1>22, Zenon

(* The bytes that the signer writes mean the transaction that it parsed.   *)
THEOREM TransactionRead ==
  ASSUME NEW tx, IsTx(tx), NEW witnesses
  PROVE  ReadTransaction(Serialize(tx, witnesses)) \subseteq {Meaning(tx)}
<1> DEFINE raw == Serialize(tx, witnesses)
           m == raw.body
<1>1. PICK c, q, d : LaidOut(m, tx, c, q, d)
  BY SerializedParts
<1>2. raw.locktime = LittleEndian(tx.locktime, WordSize)
  BY DEF Serialize
<1> HIDE DEF raw, m
<1>t. /\ tx.version \in Nat /\ tx.version < Values(WordSize)
      /\ tx.locktime \in Nat /\ tx.locktime < Values(WordSize)
      /\ tx.inputs \in Seq(TxIn) /\ tx.outputs \in Seq(TxOut)
  BY DEF IsTx, Below
<1>3. Number(Reverse(raw.locktime)) = tx.locktime
  BY <1>2, <1>t, Sizes, LittleEndianNumber, Zenon DEF IsFieldOf
<1>4. Number(Reverse(SubSeq(m, 1, WordSize))) = tx.version
  <2>1. SubSeq(m, 1, WordSize) = LittleEndian(tx.version, WordSize)
    BY <1>1, Zenon DEF LaidOut
  <2> QED
    BY <1>t, <2>1, Sizes, LittleEndianNumber, Zenon DEF IsFieldOf
<1>5. PICK k \in Nat, l \in Nat : k = Len(tx.inputs) /\ l = Len(tx.outputs)
  BY <1>t
<1>6. Compact(m, c) \subseteq {<<k, q>>}
  <2>1. c \in Nat \ {0} /\ Holds(m, c, write_varint(k))
    BY <1>1, <1>5, Sizes DEF LaidOut
  <2>2. Compact(m, c) \subseteq {<<k, c + Len(write_varint(k))>>}
    BY <1>1, <2>1, CompactRead DEF LaidOut
  <2> QED
    BY <1>1, <1>5, <2>2 DEF LaidOut
<1>7. Many(InputField, m, q, k) \subseteq {<<MeantInputs(tx.inputs), d>>}
  BY <1>1, <1>t, <1>5, InputsRead DEF LaidOut
<1>8. PICK e \in Nat \ {0} : e = d + Len(write_varint(Len(tx.outputs)))
  BY <1>1 DEF LaidOut
<1>9. Compact(m, d) \subseteq {<<l, e>>}
  BY <1>1, <1>5, <1>8, CompactRead DEF LaidOut
<1>10. Many(OutputField, m, e, l) \subseteq {<<MeantOutputs(tx.outputs), e + Len(AllOutputs(tx.outputs))>>}
  BY <1>1, <1>t, <1>5, <1>8, OutputsRead DEF LaidOut
<1> SUFFICES ASSUME NEW t \in ReadTransaction(raw) PROVE t = Meaning(tx)
  BY DEF raw
<1>11. c = WordSize + 3
  BY <1>1 DEF LaidOut
<1>12. PICK ins \in UNION {Many(InputField, m, n[2], n[1]) : n \in Compact(m, c)} :
         \E count \in Compact(m, ins[2]) :
           \E outs \in Many(OutputField, m, count[2], count[1]) :
             t = [version |-> Number(Reverse(SubSeq(m, 1, WordSize))), ins |-> ins[1], outs |-> outs[1],
                  locktime |-> Number(Reverse(raw.locktime))]
  <2>1. PICK ins \in UNION {Many(InputField, m, n[2], n[1]) : n \in Compact(m, WordSize + 3)} :
          t \in UNION {
            {[version |-> Number(Reverse(SubSeq(m, 1, WordSize))), ins |-> ins[1], outs |-> outs[1],
              locktime |-> Number(Reverse(raw.locktime))] :
               outs \in {o \in Many(OutputField, m, count[2], count[1]) : o[2] = Len(m) + 1}} :
               count \in UNION {Compact(m, ins[2])}}
    BY Zenon DEF ReadTransaction, m
  <2>2. PICK count \in UNION {Compact(m, ins[2])} :
          t \in {[version |-> Number(Reverse(SubSeq(m, 1, WordSize))), ins |-> ins[1], outs |-> outs[1],
                  locktime |-> Number(Reverse(raw.locktime))] :
                   outs \in {o \in Many(OutputField, m, count[2], count[1]) : o[2] = Len(m) + 1}}
    BY <2>1, Zenon
  <2>3. PICK outs \in Many(OutputField, m, count[2], count[1]) :
          t = [version |-> Number(Reverse(SubSeq(m, 1, WordSize))), ins |-> ins[1], outs |-> outs[1],
               locktime |-> Number(Reverse(raw.locktime))]
    BY <2>2, Zenon
  <2>4. count \in Compact(m, ins[2])
    BY <2>2, Zenon
  <2> QED
    BY <1>11, <2>1, <2>3, <2>4, Zenon
<1>13. PICK n \in Compact(m, c) : ins \in Many(InputField, m, n[2], n[1])
  BY <1>12, Zenon
<1>14. n[1] = k /\ n[2] = q
  BY <1>6, <1>13
<1>15. ins \in Many(InputField, m, q, k)
  BY <1>13, <1>14, Zenon
<1>16. ins[1] = MeantInputs(tx.inputs) /\ ins[2] = d
  BY <1>7, <1>15
<1>17. PICK count \in Compact(m, ins[2]) :
         \E outs \in Many(OutputField, m, count[2], count[1]) :
           t = [version |-> Number(Reverse(SubSeq(m, 1, WordSize))), ins |-> ins[1], outs |-> outs[1],
                locktime |-> Number(Reverse(raw.locktime))]
  BY <1>12, Zenon
<1>18. count[1] = l /\ count[2] = e
  BY <1>9, <1>16, <1>17
<1>19. PICK outs \in Many(OutputField, m, count[2], count[1]) :
         t = [version |-> Number(Reverse(SubSeq(m, 1, WordSize))), ins |-> ins[1], outs |-> outs[1],
              locktime |-> Number(Reverse(raw.locktime))]
  BY <1>17, Zenon
<1>20. outs \in Many(OutputField, m, e, l)
  BY <1>18, <1>19, Zenon
<1>21. outs[1] = MeantOutputs(tx.outputs)
  BY <1>10, <1>20
<1> QED
  BY <1>3, <1>4, <1>16, <1>19, <1>21, Zenon DEF Meaning
-----------------------------------------------------------------------------
(* A signature opens a coin only if it was made for the coin's value. *)

(* What a witness of either kind was made for.                             *)
SegwitWitness(witness, tx, i) ==
    Len(witness) = 2 /\ \E key : witness[1].hash = compute_segwit_sighash(tx, i, key)

TaprootWitness(witness, tx, i) ==
    /\ Len(witness) = 1 /\ witness[1].hash = compute_taproot_sighash(tx, i)
    /\ \E scalar : witness[1].by = XOnly(scalar)

Signs(witnesses, tx) ==
    \A i \in DOMAIN tx.inputs : SegwitWitness(witnesses[i], tx, i) \/ TaprootWitness(witnesses[i], tx, i)

LEMMA FirstOf ==
  ASSUME NEW x, NEW y, NEW S, NEW s \in Seq(S)
  PROVE  (<<x, y>> \o s)[1] = x
<1> DEFINE T == S \cup {x, y}
           p == <<x, y>>
<1>1. p \in Seq(T) /\ Len(p) = 2 /\ p[1] = x
  OBVIOUS
<1>2. s \in Seq(T) /\ Len(s) \in Nat
  OBVIOUS
<1> HIDE DEF T, p
<1>3. Concatenates(p, s, 2, Len(s))
  BY <1>1, <1>2, ConcatenatesAt
<1>4. (p \o s)[1] = p[1]
  BY <1>3 DEF Concatenates
<1> QED
  BY <1>1, <1>4 DEF p

LEMMA SegwitScript == ASSUME NEW key PROVE (<<0, KeyHashSize>> \o Hash160(key))[1] = 0
<1>1. Hash160(key) \in [1..KeyHashSize -> {key}]
  BY DEF Hash160
<1>2. Hash160(key) \in Seq({key})
  BY <1>1, Sizes
<1> QED
  BY <1>2, FirstOf

LEMMA TaprootScript == ASSUME NEW scalar PROVE (<<81, XOnlySize>> \o XOnly(scalar))[1] = 81
<1> DEFINE S == {scalar.key, 0, 1, 2}
<1>1. XOnly(scalar) \in [1..XOnlySize -> S]
  BY DEF XOnly
<1> HIDE DEF S
<1>2. XOnly(scalar) \in Seq(S)
  BY <1>1, Sizes
<1> QED
  BY <1>2, FirstOf

OutpointOf(t, i) == [txid |-> t.ins[i].txid, vout |-> t.ins[i].vout]

LEMMA OutpointsAt == ASSUME NEW t, NEW i \in DOMAIN t.ins PROVE Outpoints(t)[i] = OutpointOf(t, i)
BY DEF Outpoints, OutpointOf

(* The values that the network hashes, all inputs in a row.                *)
CoinValues(t, coins) ==
    FlattenSeq([i \in DOMAIN t.ins |-> LittleEndian(coins[Outpoints(t)[i]].value, ValueSize)])

LEMMA NetworkHashValue ==
  ASSUME NEW t, NEW coins, NEW i
  PROVE  /\ coins[Outpoints(t)[i]].script[1] = 0 =>
              NetworkHash(t, coins, i)[7] = LittleEndian(coins[Outpoints(t)[i]].value, ValueSize)
         /\ coins[Outpoints(t)[i]].script[1] # 0 => NetworkHash(t, coins, i)[5] = CoinValues(t, coins)
<1>1. CASE coins[Outpoints(t)[i]].script[1] = 0
  BY <1>1 DEF NetworkHash
<1>2. CASE coins[Outpoints(t)[i]].script[1] # 0
  BY <1>2 DEF NetworkHash, Committed, CoinValues
<1> QED
  BY <1>1, <1>2

InputValues(tx) == FlattenSeq([i \in DOMAIN tx.inputs |-> LittleEndian(tx.inputs[i].value, ValueSize)])

LEMMA SignedHashValue ==
  ASSUME NEW tx, NEW i, NEW key
  PROVE  /\ compute_segwit_sighash(tx, i, key)[7] = LittleEndian(tx.inputs[i].value, ValueSize)
         /\ compute_taproot_sighash(tx, i)[5] = InputValues(tx)
BY DEF compute_segwit_sighash, compute_taproot_sighash, EachInput, Value, InputValues

LEMMA LittleEndianInjective ==
  ASSUME NEW a \in Below(ValueSize), NEW b \in Below(ValueSize),
         LittleEndian(a, ValueSize) = LittleEndian(b, ValueSize)
  PROVE  a = b
<1>1. a \in Nat /\ b \in Nat /\ a < Values(ValueSize) /\ b < Values(ValueSize) /\ ValueSize \in Nat
  BY Sizes DEF Below
<1>2. Number(Reverse(LittleEndian(a, ValueSize))) = a /\ Number(Reverse(LittleEndian(b, ValueSize))) = b
  BY <1>1, LittleEndianNumber, Zenon DEF IsFieldOf
<1> QED
  BY <1>2, Zenon

AllValues(n, a) == FlattenSeq([i \in 1..n |-> LittleEndian(a[i], ValueSize)])

HasValues(n, a) == \A i \in 1..n : a[i] \in Below(ValueSize)

SameUpTo(n, a, b) == \A i \in 1..n : a[i] = b[i]

LEMMA ValuesCommitted ==
  ASSUME NEW n \in Nat, NEW a, NEW b, AllValues(n, a) = AllValues(n, b), HasValues(n, a), HasValues(n, b)
  PROVE  SameUpTo(n, a, b)
<1>1. PICK size \in Nat : size = ValueSize
  BY Sizes
<1> DEFINE p == [i \in 1..n |-> LittleEndian(a[i], ValueSize)]
           q == [i \in 1..n |-> LittleEndian(b[i], ValueSize)]
<1>2. \A i \in 1..n : a[i] \in Nat /\ b[i] \in Nat /\ a[i] \in Below(ValueSize) /\ b[i] \in Below(ValueSize)
  BY DEF Below, HasValues
<1>3. \A i \in 1..n : p[i] = LittleEndian(a[i], ValueSize) /\ q[i] = LittleEndian(b[i], ValueSize)
  OBVIOUS
<1>4. \A i \in 1..n : /\ p[i] \in Seq(Octet) /\ Len(p[i]) = size
                      /\ q[i] \in Seq(Octet) /\ Len(q[i]) = size
  <2>1. \A v \in Nat : LittleEndian(v, size) \in Seq(Octet) /\ Len(LittleEndian(v, size)) = size
    BY <1>1, LittleEndianType, ZenonT(40)
  <2> HIDE DEF p, q
  <2> QED
    BY <1>1, <1>2, <1>3, <2>1
<1>5. p \in [1..n -> Seq(Octet)] /\ q \in [1..n -> Seq(Octet)] /\ FlattenSeq(p) = FlattenSeq(q)
  BY <1>4 DEF AllValues
<1> HIDE DEF p, q
<1>6. p \in Seq(Seq(Octet)) /\ q \in Seq(Seq(Octet)) /\ Len(p) = n /\ Len(q) = n
  BY <1>5
<1>7. p = q
  BY <1>4, <1>5, <1>6, FlattenInjective
<1>8. ASSUME NEW i \in 1..n PROVE a[i] = b[i]
  <2>1. LittleEndian(a[i], ValueSize) = LittleEndian(b[i], ValueSize)
    BY <1>3, <1>7
  <2> QED
    BY <1>2, <2>1, LittleEndianInjective
<1> QED
  BY <1>8 DEF SameUpTo

LEMMA MeaningDomain ==
  ASSUME NEW tx, IsTx(tx)
  PROVE  /\ DOMAIN Meaning(tx).ins = DOMAIN tx.inputs /\ DOMAIN tx.inputs = 1..Len(tx.inputs)
         /\ Len(tx.inputs) \in Nat
<1>1. tx.inputs \in Seq(TxIn)
  BY DEF IsTx
<1>2. Meaning(tx).ins = MeantInputs(tx.inputs)
  BY DEF Meaning
<1>3. DOMAIN MeantInputs(tx.inputs) = DOMAIN tx.inputs
  BY Zenon DEF MeantInputs
<1> QED
  BY <1>1, <1>2, <1>3

THEOREM OpensWithValue ==
  ASSUME NEW tx, IsTx(tx), NEW coins, NEW i \in DOMAIN tx.inputs, NEW witness,
         \A j \in DOMAIN tx.inputs : coins[Outpoints(Meaning(tx))[j]].value \in Below(ValueSize),
         SegwitWitness(witness, tx, i) \/ TaprootWitness(witness, tx, i),
         Opens(witness, coins[Outpoints(Meaning(tx))[i]], NetworkHash(Meaning(tx), coins, i))
  PROVE  coins[Outpoints(Meaning(tx))[i]].value = tx.inputs[i].value
<1> DEFINE t == Meaning(tx)
           coin == coins[Outpoints(t)[i]]
           hash == NetworkHash(t, coins, i)
<1>0. PICK n \in Nat : n = Len(tx.inputs) /\ DOMAIN tx.inputs = 1..n /\ DOMAIN t.ins = 1..n
  BY MeaningDomain
<1>1. \A j \in 1..n : tx.inputs[j].value \in Below(ValueSize)
  <2>1. PICK xs \in Seq(TxIn) : xs = tx.inputs
    BY DEF IsTx
  <2>2. \A j \in 1..n : xs[j] \in TxIn
    BY <1>0, <2>1, Elements
  <2>3. \A j \in 1..n : xs[j].value \in Below(ValueSize)
    BY <2>2 DEF TxIn
  <2> QED
    BY <2>1, <2>3
<1>2. /\ coin.script[1] = 0 => hash[7] = LittleEndian(coin.value, ValueSize)
      /\ coin.script[1] # 0 => hash[5] = CoinValues(t, coins)
  BY NetworkHashValue
<1>3. Opens(witness, coin, hash)
  OBVIOUS
<1> HIDE DEF t, coin, hash
<1>4. CASE SegwitWitness(witness, tx, i)
  <2>1. witness[1].hash = hash /\ coin.script = <<0, KeyHashSize>> \o Hash160(witness[2].by[1])
    BY <1>3, <1>4 DEF Opens, SegwitWitness
  <2>2. coin.script[1] = 0
    BY <2>1, SegwitScript
  <2>3. PICK key : hash = compute_segwit_sighash(tx, i, key)
    BY <1>4, <2>1, Zenon DEF SegwitWitness
  <2>4. LittleEndian(coin.value, ValueSize) = LittleEndian(tx.inputs[i].value, ValueSize)
    BY <1>2, <2>2, <2>3, SignedHashValue
  <2>5. coin.value \in Below(ValueSize) /\ tx.inputs[i].value \in Below(ValueSize)
    BY <1>0, <1>1 DEF coin, t
  <2>6. coin.value = tx.inputs[i].value
    BY <2>4, <2>5, LittleEndianInjective
  <2> QED
    BY <2>6 DEF coin, t
<1>5. CASE TaprootWitness(witness, tx, i)
  <2>1. witness[1].hash = hash /\ coin.script = <<81, XOnlySize>> \o witness[1].by
    BY <1>3, <1>5 DEF Opens, TaprootWitness
  <2>2. coin.script[1] # 0
    <3>1. PICK scalar : witness[1].by = XOnly(scalar)
      BY <1>5 DEF TaprootWitness
    <3>2. coin.script[1] = 81
      BY <2>1, <3>1, TaprootScript
    <3> QED
      BY <3>2
  <2>3. hash = compute_taproot_sighash(tx, i)
    BY <1>5, <2>1, Zenon DEF TaprootWitness
  <2>4. CoinValues(t, coins) = InputValues(tx)
    BY <1>2, <2>2, <2>3, SignedHashValue
  <2> DEFINE a == [j \in 1..n |-> coins[Outpoints(t)[j]].value]
             b == [j \in 1..n |-> tx.inputs[j].value]
  <2>5. \A j \in 1..n : /\ a[j] = coins[Outpoints(t)[j]].value /\ b[j] = tx.inputs[j].value
                        /\ a[j] \in Below(ValueSize) /\ b[j] \in Below(ValueSize)
    BY <1>0, <1>1 DEF t
  <2> HIDE DEF a, b
  <2>6. CoinValues(t, coins) = AllValues(n, a)
    <3>1. [j \in 1..n |-> LittleEndian(coins[Outpoints(t)[j]].value, ValueSize)]
            = [j \in 1..n |-> LittleEndian(a[j], ValueSize)]
      BY <2>5, Zenon
    <3> QED
      BY <1>0, <3>1, Zenon DEF CoinValues, AllValues
  <2>7. InputValues(tx) = AllValues(n, b)
    <3>1. [j \in 1..n |-> LittleEndian(tx.inputs[j].value, ValueSize)]
            = [j \in 1..n |-> LittleEndian(b[j], ValueSize)]
      BY <2>5, Zenon
    <3> QED
      BY <1>0, <3>1, Zenon DEF InputValues, AllValues
  <2>8. \A j \in 1..n : a[j] = b[j]
    <3>1. AllValues(n, a) = AllValues(n, b)
      BY <2>4, <2>6, <2>7, Zenon
    <3>2. HasValues(n, a) /\ HasValues(n, b)
      BY <2>5, Zenon DEF HasValues
    <3>3. SameUpTo(n, a, b)
      BY <1>0, <3>1, <3>2, ValuesCommitted
    <3> QED
      BY <3>3, Zenon DEF SameUpTo
  <2>9. coins[Outpoints(t)[i]].value = tx.inputs[i].value
    BY <1>0, <2>5, <2>8
  <2> QED
    BY <2>9 DEF t
<1> QED
  BY <1>4, <1>5
-----------------------------------------------------------------------------
(* What was asked for, and what is confirmed *)

LEMMA WordGiven ==
  ASSUME NEW field, IsNumber(field), NEW default \in Nat, default < Values(WordSize),
         \A n \in field : n < Values(WordSize)
  PROVE  Word(OrElse(field, default)) = OrElse(field, default)
<1>1. OrElse(field, default) \in Nat /\ OrElse(field, default) < Values(WordSize)
  <2>1. CASE field = {}
    BY <2>1, NumberGiven
  <2>2. CASE field # {}
    <3>1. field = {OrElse(field, default)} /\ OrElse(field, default) \in Nat
      BY <2>2, NumberGiven
    <3> QED
      BY <3>1
  <2> QED
    BY <2>1, <2>2
<1> QED
  BY <1>1, WordExact

LEMMA FieldsFit ==
  ASSUME NEW json, FitsWords(json)
  PROVE  /\ \A n \in json.version : n < Values(WordSize)
         /\ \A n \in json.locktime : n < Values(WordSize)
         /\ \A ins \in json.inputs : \A i \in DOMAIN ins :
              /\ \A n \in ins[i].vout : n < Values(WordSize)
              /\ \A n \in ins[i].sequence : n < Values(WordSize)
<1> DEFINE all == json.version \cup json.locktime
                    \cup UNION {UNION {i.vout \cup i.sequence : i \in Range(ins)} : ins \in json.inputs}
<1>1. \A n \in all : n < Values(WordSize)
  BY Zenon DEF FitsWords
<1>2. \A n \in json.version : n \in all
  OBVIOUS
<1>3. \A n \in json.locktime : n \in all
  OBVIOUS
<1>4. ASSUME NEW ins \in json.inputs, NEW i \in DOMAIN ins
      PROVE  \A n \in ins[i].vout \cup ins[i].sequence : n \in all
  <2>1. ins[i] \in Range(ins)
    BY <1>4 DEF Range
  <2> QED
    BY <1>4, <2>1
<1> HIDE DEF all
<1> QED
  BY <1>1, <1>2, <1>3, <1>4

(* An input means what its JSON says.                                      *)
AskedInput(in) ==
    [txid |-> Reverse(in.txid), vout |-> OrElse(in.vout, 0),
     sequence |-> OrElse(in.sequence, Values(WordSize) - 3)]

LEMMA InputMeant ==
  ASSUME NEW in, IsJsonInput(in), \A n \in in.vout : n < Values(WordSize),
         \A n \in in.sequence : n < Values(WordSize)
  PROVE  MeantInput(ParseInput(in)) = AskedInput(in)
<1>1. /\ 0 \in Nat /\ 0 < Values(WordSize)
      /\ Values(WordSize) - 3 \in Nat /\ Values(WordSize) - 3 < Values(WordSize)
  BY WordsHold3
<1>2. IsNumber(in.vout) /\ IsNumber(in.sequence)
  BY DEF IsJsonInput
<1>3. Word(OrElse(in.vout, 0)) = OrElse(in.vout, 0)
  BY <1>1, <1>2, WordGiven
<1>4. Word(OrElse(in.sequence, Values(WordSize) - 3)) = OrElse(in.sequence, Values(WordSize) - 3)
  BY <1>1, <1>2, WordGiven
<1>5. /\ ParseInput(in).txid = Reverse(in.txid) /\ ParseInput(in).vout = OrElse(in.vout, 0)
      /\ ParseInput(in).sequence = OrElse(in.sequence, Values(WordSize) - 3)
  BY <1>3, <1>4 DEF ParseInput
<1> QED
  BY <1>5, Zenon DEF MeantInput, AskedInput

LEMMA OutputMeant ==
  ASSUME NEW out, IsJsonOutput(out), IsOutput(out)
  PROVE  /\ out.value = {MeantOutput(ParseOutput(out)).value}
         /\ out.script_pubkey = {MeantOutput(ParseOutput(out)).script}
<1>1. out.value = {OrElse(out.value, 0)}
  BY NumberGiven DEF IsJsonOutput, IsOutput
<1>2. out.script_pubkey = {OrElse(out.script_pubkey, << >>)}
  BY TextGiven DEF IsJsonOutput, IsOutput
<1>3. /\ MeantOutput(ParseOutput(out)).value = OrElse(out.value, 0)
      /\ MeantOutput(ParseOutput(out)).script = OrElse(out.script_pubkey, << >>)
  BY DEF MeantOutput, ParseOutput
<1> QED
  BY <1>1, <1>2, <1>3

LEMMA ValueAsked ==
  ASSUME NEW in, IsJsonInput(in), IsInput(in)
  PROVE  in.value = {ParseInput(in).value}
<1>1. in.value = {OrElse(in.value, 0)}
  BY NumberGiven DEF IsJsonInput, IsInput
<1>2. ParseInput(in).value = OrElse(in.value, 0)
  BY DEF ParseInput
<1> QED
  BY <1>1, <1>2

(* What SpendsWhatWasAsked says of one transaction.                        *)
AsAsked(c, ins, outs) ==
    /\ c.tx.version = OrElse(c.json.version, 2)
    /\ c.tx.locktime = OrElse(c.json.locktime, 0)
    /\ c.tx.ins = [i \in DOMAIN ins |->
         [txid |-> Reverse(ins[i].txid), vout |-> OrElse(ins[i].vout, 0),
          sequence |-> OrElse(ins[i].sequence, Values(WordSize) - 3)]]
    /\ \A i \in DOMAIN ins : ins[i].value = {c.spent[i]}
    /\ \A i \in DOMAIN outs :
         /\ outs[i].value = {c.tx.outs[i].value}
         /\ outs[i].script_pubkey = {c.tx.outs[i].script}
    /\ Len(outs) = Len(c.tx.outs)

Asked(c) ==
    FitsWords(c.json) => \E ins \in c.json.inputs, outs \in c.json.outputs : AsAsked(c, ins, outs)

(* A transaction that its JSON describes and that spends coins of the      *)
(* values that it says does what was asked.                                *)
LEMMA MeansWhatWasAsked ==
  ASSUME NEW json \in BtcJson, NEW ins \in json.inputs, NEW outs \in json.outputs, NEW tx,
         IsParsed(tx, json, ins, outs), NEW c, c.tx = Meaning(tx), c.json = json, FitsWords(json),
         \A i \in DOMAIN tx.inputs : c.spent[i] = tx.inputs[i].value
  PROVE  AsAsked(c, ins, outs)
<1>0. /\ tx.inputs = [i \in DOMAIN ins |-> ParseInput(ins[i])]
      /\ tx.outputs = [i \in DOMAIN outs |-> ParseOutput(outs[i])]
      /\ \A i \in DOMAIN ins : IsInput(ins[i]) /\ IsJsonInput(ins[i])
      /\ \A i \in DOMAIN outs : IsOutput(outs[i]) /\ IsJsonOutput(outs[i])
      /\ tx.version = Word(OrElse(json.version, 2)) /\ tx.locktime = Word(OrElse(json.locktime, 0))
      /\ DOMAIN outs = 1..Len(outs) /\ Len(outs) \in Nat
  BY Zenon DEF IsParsed
<1>1. /\ c.tx.version = tx.version /\ c.tx.locktime = tx.locktime
      /\ c.tx.ins = MeantInputs(tx.inputs) /\ c.tx.outs = MeantOutputs(tx.outputs)
  BY DEF Meaning
<1>2. c.tx.version = OrElse(json.version, 2)
  <2>1. IsNumber(json.version) /\ 2 \in Nat /\ 2 < Values(WordSize) /\ \A n \in json.version : n < Values(WordSize)
    BY BtcRequestAssumption, WordsHold3, FieldsFit
  <2>2. Word(OrElse(json.version, 2)) = OrElse(json.version, 2)
    BY <2>1, WordGiven
  <2> QED
    BY <1>0, <1>1, <2>2
<1>3. c.tx.locktime = OrElse(json.locktime, 0)
  <2>1. IsNumber(json.locktime) /\ 0 \in Nat /\ 0 < Values(WordSize) /\ \A n \in json.locktime : n < Values(WordSize)
    BY BtcRequestAssumption, WordsHold3, FieldsFit
  <2>2. Word(OrElse(json.locktime, 0)) = OrElse(json.locktime, 0)
    BY <2>1, WordGiven
  <2> QED
    BY <1>0, <1>1, <2>2
<1>4. c.tx.ins = [i \in DOMAIN ins |-> AskedInput(ins[i])]
  <2>1. \A i \in DOMAIN ins : MeantInput(ParseInput(ins[i])) = AskedInput(ins[i])
    BY <1>0, FieldsFit, InputMeant
  <2>2. DOMAIN tx.inputs = DOMAIN ins /\ \A i \in DOMAIN ins : tx.inputs[i] = ParseInput(ins[i])
    BY <1>0, Zenon
  <2>3. MeantInputs(tx.inputs) = [i \in DOMAIN ins |-> MeantInput(tx.inputs[i])]
    BY <2>2, Zenon DEF MeantInputs
  <2>4. \A i \in DOMAIN ins : MeantInput(tx.inputs[i]) = AskedInput(ins[i])
    BY <2>1, <2>2, Zenon
  <2>5. [i \in DOMAIN ins |-> MeantInput(tx.inputs[i])] = [i \in DOMAIN ins |-> AskedInput(ins[i])]
    BY <2>4, Zenon
  <2> QED
    BY <1>1, <2>3, <2>5, Zenon
<1>5. \A i \in DOMAIN ins : ins[i].value = {c.spent[i]}
  <2> TAKE i \in DOMAIN ins
  <2>1. i \in DOMAIN tx.inputs /\ tx.inputs[i] = ParseInput(ins[i])
    BY <1>0, Zenon
  <2>2. ins[i].value = {ParseInput(ins[i]).value}
    BY <1>0, ValueAsked
  <2> QED
    BY <2>1, <2>2
<1>6. /\ \A i \in DOMAIN outs : outs[i].value = {c.tx.outs[i].value} /\ outs[i].script_pubkey = {c.tx.outs[i].script}
      /\ Len(outs) = Len(c.tx.outs)
  <2>1. DOMAIN tx.outputs = DOMAIN outs /\ \A i \in DOMAIN outs : tx.outputs[i] = ParseOutput(outs[i])
    BY <1>0, Zenon
  <2>2. c.tx.outs = [i \in DOMAIN outs |-> MeantOutput(tx.outputs[i])]
    BY <1>1, <2>1, Zenon DEF MeantOutputs
  <2>3. ASSUME NEW i \in DOMAIN outs
        PROVE  outs[i].value = {c.tx.outs[i].value} /\ outs[i].script_pubkey = {c.tx.outs[i].script}
    <3>1. c.tx.outs[i] = MeantOutput(ParseOutput(outs[i]))
      BY <2>1, <2>2, Zenon
    <3>2. /\ outs[i].value = {MeantOutput(ParseOutput(outs[i])).value}
          /\ outs[i].script_pubkey = {MeantOutput(ParseOutput(outs[i])).script}
      BY <1>0, OutputMeant
    <3> QED
      BY <3>1, <3>2, Zenon
  <2>4. DOMAIN c.tx.outs = 1..Len(outs)
    BY <1>0, <2>2
  <2>5. Len(c.tx.outs) = Len(outs)
    BY <1>0, <2>2
  <2> QED
    BY <2>3, <2>5
<1> QED
  BY <1>2, <1>3, <1>4, <1>5, <1>6, Zenon DEF AsAsked, AskedInput

-----------------------------------------------------------------------------
(* The inductive invariant *)

(* What a wallet signs is what the application's JSON describes, and each  *)
(* witness is made for it.                                                 *)
SignedFor(w) ==
    /\ w.json \in BtcJson
    /\ \E ins \in w.json.inputs, outs \in w.json.outputs : \E tx, witnesses :
         IsParsed(tx, w.json, ins, outs) /\ w.raw = Serialize(tx, witnesses) /\ Signs(witnesses, tx)

LEMMA SegwitSigns ==
  ASSUME NEW key, NEW tx, NEW raw \in sign_segwit_tx_with_key(key, tx)
  PROVE  \E witnesses : raw = Serialize(tx, witnesses) /\ Signs(witnesses, tx)
<1> DEFINE witness(i) == <<[scheme |-> "ecdsa", by |-> <<key>>, hash |-> compute_segwit_sighash(tx, i, key)],
                           [scheme |-> "key", by |-> <<key>>]>>
           witnesses == [i \in DOMAIN tx.inputs |-> witness(i)]
<1>1. raw = Serialize(tx, witnesses)
  BY Zenon DEF sign_segwit_tx_with_key
<1>2. ASSUME NEW i \in DOMAIN tx.inputs PROVE SegwitWitness(witnesses[i], tx, i)
  <2>1. witnesses[i] = witness(i)
    BY Zenon
  <2>2. Len(witness(i)) = 2 /\ witness(i)[1].hash = compute_segwit_sighash(tx, i, key)
    OBVIOUS
  <2> HIDE DEF witness, witnesses
  <2> QED
    BY <2>1, <2>2, Zenon DEF SegwitWitness
<1> HIDE DEF witnesses
<1> QED
  BY <1>1, <1>2, Zenon DEF Signs

LEMMA TaprootSigns ==
  ASSUME NEW key, NEW tx, NEW raw \in sign_taproot_tx_with_key(key, tx)
  PROVE  \E witnesses : raw = Serialize(tx, witnesses) /\ Signs(witnesses, tx)
<1> DEFINE witness(i) == <<[scheme |-> "schnorr", by |-> XOnly(TaprootScalar(key, tx)),
                            hash |-> compute_taproot_sighash(tx, i)]>>
           witnesses == [i \in DOMAIN tx.inputs |-> witness(i)]
<1>1. raw = Serialize(tx, witnesses)
  BY Zenon DEF sign_taproot_tx_with_key
<1>2. ASSUME NEW i \in DOMAIN tx.inputs PROVE TaprootWitness(witnesses[i], tx, i)
  <2>1. witnesses[i] = witness(i)
    BY Zenon
  <2>2. /\ Len(witness(i)) = 1 /\ witness(i)[1].hash = compute_taproot_sighash(tx, i)
        /\ witness(i)[1].by = XOnly(TaprootScalar(key, tx))
    OBVIOUS
  <2> HIDE DEF witness, witnesses
  <2> QED
    BY <2>1, <2>2, Zenon DEF TaprootWitness
<1> HIDE DEF witnesses
<1> QED
  BY <1>1, <1>2, Zenon DEF Signs

LEMMA Signed ==
  ASSUME NEW key, NEW json \in BtcJson, NEW raw \in bitcoin_sign_transaction(key, json), NEW w,
         w.raw = raw, w.json = json
  PROVE  SignedFor(w)
<1>1. PICK tx \in parse_bitcoin_tx_json(json) :
         raw \in sign_taproot_tx_with_key(key, tx) \/ raw \in sign_segwit_tx_with_key(key, tx)
  BY DEF bitcoin_sign_transaction
<1>2. PICK witnesses : raw = Serialize(tx, witnesses) /\ Signs(witnesses, tx)
  BY <1>1, SegwitSigns, TaprootSigns, Zenon
<1>3. PICK ins \in json.inputs, outs \in json.outputs : IsParsed(tx, json, ins, outs)
  BY Parsed
<1> QED
  BY <1>2, <1>3, Zenon DEF SignedFor

BtcInv ==
    /\ \A o \in DOMAIN btcCoins : btcCoins[o].value \in Below(ValueSize)
    /\ \A w \in btcWaiting : SignedFor(w)
    /\ \A c \in btcConfirmed : Asked(c)

THEOREM BtcInitially == BtcInit => BtcInv
BY DEF BtcInit, BtcInv

LEMMA ReceiveKeeps == ASSUME BtcInv, NEW p \in Payment, Receive(p) PROVE BtcInv'
<1>1. PICK coin : /\ coin.value = p.value
                  /\ btcCoins' = [o \in DOMAIN btcCoins \cup {p.outpoint} |->
                                   IF o = p.outpoint THEN coin ELSE btcCoins[o]]
  BY Zenon DEF Receive
<1>2. coin.value \in Below(ValueSize)
  <2>1. IsNumber({p.value})
    BY BtcRequestAssumption
  <2> QED
    BY <1>1, <2>1 DEF IsNumber, Below
<1>3. \A o \in DOMAIN btcCoins' : btcCoins'[o].value \in Below(ValueSize)
  BY <1>1, <1>2 DEF BtcInv
<1>4. btcWaiting' = btcWaiting /\ btcConfirmed' = btcConfirmed
  BY DEF Receive
<1> QED
  BY <1>3, <1>4, Zenon DEF BtcInv

LEMMA SignKeeps == ASSUME BtcInv, NEW key \in BtcKey, NEW json \in BtcJson, BtcSign(key, json) PROVE BtcInv'
<1>1. PICK raw \in bitcoin_sign_transaction(key, json) : btcWaiting' = btcWaiting \cup {[raw |-> raw, json |-> json]}
  BY DEF BtcSign
<1>2. SignedFor([raw |-> raw, json |-> json])
  BY Signed
<1>3. \A w \in btcWaiting' : SignedFor(w)
  BY <1>1, <1>2, Zenon DEF BtcInv
<1>4. btcCoins' = btcCoins /\ btcConfirmed' = btcConfirmed
  BY DEF BtcSign
<1> QED
  BY <1>3, <1>4, Zenon DEF BtcInv

LEMMA ConfirmKeeps == ASSUME BtcInv, NEW w \in btcWaiting, Confirm(w) PROVE BtcInv'
<1>1. PICK t \in Valid(w.raw, btcCoins) :
        /\ btcConfirmed' = btcConfirmed \cup
             {[tx |-> t, json |-> w.json,
               spent |-> [i \in DOMAIN t.ins |-> btcCoins[Outpoints(t)[i]].value]]}
        /\ btcCoins' = [o \in DOMAIN btcCoins \ Range(Outpoints(t)) |-> btcCoins[o]]
        /\ btcWaiting' = btcWaiting \ {w}
  BY DEF Confirm
<1>2. /\ t \in ReadTransaction(w.raw)
      /\ \A i \in DOMAIN t.ins : Outpoints(t)[i] \in DOMAIN btcCoins
      /\ \A i \in DOMAIN t.ins :
           Opens(w.raw.witnesses[i], btcCoins[Outpoints(t)[i]], NetworkHash(t, btcCoins, i))
  BY Zenon DEF Valid
<1>3. SignedFor(w)
  BY DEF BtcInv
<1>4. PICK ins \in w.json.inputs, outs \in w.json.outputs : \E tx, witnesses :
        IsParsed(tx, w.json, ins, outs) /\ w.raw = Serialize(tx, witnesses) /\ Signs(witnesses, tx)
  BY <1>3, Zenon DEF SignedFor
<1>5. PICK tx, witnesses : IsParsed(tx, w.json, ins, outs) /\ w.raw = Serialize(tx, witnesses) /\ Signs(witnesses, tx)
  BY <1>4, Zenon
<1>6. w.json \in BtcJson
  BY <1>3, Zenon DEF SignedFor
<1>7. IsTx(tx)
  BY <1>5, <1>6, ParsedType
<1>8. t = Meaning(tx)
  BY <1>2, <1>5, <1>7, TransactionRead
<1>9. DOMAIN t.ins = DOMAIN tx.inputs
  BY <1>7, <1>8, MeaningDomain
<1>10. \A j \in DOMAIN tx.inputs : btcCoins[Outpoints(Meaning(tx))[j]].value \in Below(ValueSize)
  BY <1>2, <1>8, <1>9, Zenon DEF BtcInv
<1>11. w.raw.witnesses = witnesses
  BY <1>5 DEF Serialize
<1>12. ASSUME NEW i \in DOMAIN tx.inputs PROVE btcCoins[Outpoints(t)[i]].value = tx.inputs[i].value
  <2>1. Opens(witnesses[i], btcCoins[Outpoints(Meaning(tx))[i]], NetworkHash(Meaning(tx), btcCoins, i))
    BY <1>2, <1>8, <1>9, <1>11, Zenon
  <2>2. SegwitWitness(witnesses[i], tx, i) \/ TaprootWitness(witnesses[i], tx, i)
    BY <1>5, Zenon DEF Signs
  <2> QED
    BY <1>7, <1>8, <1>10, <2>1, <2>2, OpensWithValue
<1> DEFINE c == [tx |-> t, json |-> w.json, spent |-> [i \in DOMAIN t.ins |-> btcCoins[Outpoints(t)[i]].value]]
<1>13. /\ c.tx = Meaning(tx) /\ c.json = w.json
       /\ \A i \in DOMAIN tx.inputs : c.spent[i] = tx.inputs[i].value
  BY <1>8, <1>9, <1>12
<1>14. btcConfirmed' = btcConfirmed \cup {c}
  BY <1>1
<1> HIDE DEF c
<1>15. Asked(c)
  <2> SUFFICES ASSUME FitsWords(w.json) PROVE AsAsked(c, ins, outs)
    BY <1>13, Zenon DEF Asked
  <2> QED
    BY <1>5, <1>6, <1>13, MeansWhatWasAsked
<1>16. \A d \in btcConfirmed' : Asked(d)
  BY <1>14, <1>15, Zenon DEF BtcInv
<1>17. \A o \in DOMAIN btcCoins' : btcCoins'[o].value \in Below(ValueSize)
  BY <1>1 DEF BtcInv
<1>18. \A v \in btcWaiting' : SignedFor(v)
  BY <1>1 DEF BtcInv
<1> QED
  BY <1>16, <1>17, <1>18, Zenon DEF BtcInv

LEMMA ForgetKeeps == ASSUME BtcInv, NEW w \in btcWaiting, Forget(w) PROVE BtcInv'
BY DEF BtcInv, Forget

LEMMA BtcStays == ASSUME BtcInv, UNCHANGED btcVars PROVE BtcInv'
BY DEF BtcInv, btcVars

THEOREM BtcKept == ASSUME BtcInv, [BtcNext]_btcVars PROVE BtcInv'
<1>1. CASE \E p \in Payment : Receive(p)
  BY <1>1, ReceiveKeeps
<1>2. CASE \E key \in BtcKey, json \in BtcJson : BtcSign(key, json)
  BY <1>2, SignKeeps
<1>3. CASE \E w \in btcWaiting : Confirm(w) \/ Forget(w)
  BY <1>3, ConfirmKeeps, ForgetKeeps
<1>4. CASE UNCHANGED btcVars
  BY <1>4, BtcStays
<1> QED
  BY <1>1, <1>2, <1>3, <1>4 DEF BtcNext

LEMMA BtcImplies == BtcInv => SpendsWhatWasAsked
BY Zenon DEF BtcInv, SpendsWhatWasAsked, Asked, AsAsked

(* Every transaction that is ever confirmed spends the coins and pays the  *)
(* outputs that the JSON named, of the values that the JSON said.          *)
THEOREM SpendsAsAsked == BtcSpec => []SpendsWhatWasAsked
<1>1. BtcInit => BtcInv
  BY BtcInitially
<1>2. BtcInv /\ [BtcNext]_btcVars => BtcInv'
  BY BtcKept
<1>3. BtcInv => SpendsWhatWasAsked
  BY BtcImplies
<1> QED
  BY <1>1, <1>2, <1>3, PTL DEF BtcSpec
-----------------------------------------------------------------------------
(* Sequences as groups of five or eight *)

Width == {5, 8}

Chunk(s, i, w) == SubSeq(s, (i - 1) * w + 1, i * w)

(* Where the element of a group lies.                                      *)
Place(i, j, w) == (i - 1) * w + j

LEMMA Places5 ==
  ASSUME NEW k \in Nat, NEW i \in 1..k, NEW j \in 1..5
  PROVE  (i - 1) * 5 + j \in 1..(5 * k) /\ (i < k => (i - 1) * 5 + j <= 5 * (k - 1))
OBVIOUS

LEMMA Places8 ==
  ASSUME NEW k \in Nat, NEW i \in 1..k, NEW j \in 1..8
  PROVE  (i - 1) * 8 + j \in 1..(8 * k) /\ (i < k => (i - 1) * 8 + j <= 8 * (k - 1))
OBVIOUS

LEMMA PlaceFacts ==
  ASSUME NEW w \in Width, NEW k \in Nat, NEW i \in 1..k, NEW j \in 1..w
  PROVE  /\ Place(i, j, w) \in 1..(w * k)
         /\ i < k => Place(i, j, w) <= w * (k - 1)
         /\ i = k => Place(i, j, w) = w * (k - 1) + j
<1>1. CASE w = 5
  BY <1>1, Places5 DEF Place
<1>2. CASE w = 8
  BY <1>2, Places8 DEF Place
<1> QED
  BY <1>1, <1>2 DEF Width

LEMMA PlaceOf ==
  ASSUME NEW w \in Width, NEW k \in Nat, NEW n \in 1..(w * k)
  PROVE  \E i \in 1..k, j \in 1..w : n = Place(i, j, w)
<1>1. CASE w = 5
  <2>1. ((n - 1) \div 5) + 1 \in 1..k /\ ((n - 1) % 5) + 1 \in 1..5
    BY <1>1
  <2>2. n = Place(((n - 1) \div 5) + 1, ((n - 1) % 5) + 1, 5)
    BY <1>1 DEF Place
  <2> QED
    BY <1>1, <2>1, <2>2
<1>2. CASE w = 8
  <2>1. ((n - 1) \div 8) + 1 \in 1..k /\ ((n - 1) % 8) + 1 \in 1..8
    BY <1>2
  <2>2. n = Place(((n - 1) \div 8) + 1, ((n - 1) % 8) + 1, 8)
    BY <1>2 DEF Place
  <2> QED
    BY <1>2, <2>1, <2>2
<1> QED
  BY <1>1, <1>2 DEF Width

LEMMA ChunkType ==
  ASSUME NEW S, NEW s \in Seq(S), NEW w \in Width, NEW k \in Nat, w * k <= Len(s), NEW i \in 1..k
  PROVE  /\ Chunk(s, i, w) \in Seq(S) /\ Len(Chunk(s, i, w)) = w
         /\ \A j \in 1..w : Chunk(s, i, w)[j] = s[Place(i, j, w)]
<1>0. PICK from \in Nat : from = (i - 1) * w
  BY DEF Width
<1>1. from + w = i * w /\ from + w <= Len(s) /\ from + 1 \in 1..(Len(s) + 1) /\ from + w \in 0..Len(s)
  <2>1. CASE w = 5
    BY <1>0, <2>1
  <2>2. CASE w = 8
    BY <1>0, <2>2
  <2> QED
    BY <2>1, <2>2 DEF Width
<1> DEFINE c == SubSeq(s, from + 1, from + w)
<1>2. from + 1 <= (from + w) + 1 /\ (from + w) - (from + 1) + 1 = w
  BY DEF Width
<1>3. PICK first \in 1..(Len(s) + 1) : first = from + 1
  BY <1>1
<1>4. PICK end \in 0..Len(s) : end = from + w
  BY <1>1
<1>5. /\ SubSeq(s, first, end) \in Seq(S) /\ Len(SubSeq(s, first, end)) = end - first + 1
      /\ \A n \in 1..(end - first + 1) : SubSeq(s, first, end)[n] = s[first + n - 1]
  BY <1>2, <1>3, <1>4, SubSeqType
<1>6. end - first + 1 = w
  BY <1>2, <1>3, <1>4
<1>7. Chunk(s, i, w) = SubSeq(s, first, end)
  BY <1>0, <1>1, <1>3, <1>4 DEF Chunk
<1>8. ASSUME NEW j \in 1..w PROVE first + j - 1 = Place(i, j, w)
  BY <1>0, <1>3 DEF Place, Width
<1> QED
  BY <1>5, <1>6, <1>7, <1>8

(* Groups that are put together keep their places.                         *)
GroupsLie(seqs, w) ==
    \A i \in 1..Len(seqs), j \in 1..w : FlattenSeq(seqs)[Place(i, j, w)] = seqs[i][j]

LEMMA FlattenGroups ==
  ASSUME NEW S, NEW seqs \in Seq(Seq(S)), NEW w \in Width, \A i \in 1..Len(seqs) : Len(seqs[i]) = w
  PROVE  Len(FlattenSeq(seqs)) = w * Len(seqs) /\ GroupsLie(seqs, w)
<1> DEFINE T == {k \in Nat : \A g \in Seq(Seq(S)) : Len(g) = k /\ (\A i \in 1..k : Len(g[i]) = w)
                               => Len(FlattenSeq(g)) = w * k /\ GroupsLie(g, w)}
<1>0. w \in Nat
  BY DEF Width
<1>1. 0 \in T
  <2> SUFFICES ASSUME NEW g \in Seq(Seq(S)), Len(g) = 0 PROVE Len(FlattenSeq(g)) = w * 0 /\ GroupsLie(g, w)
    OBVIOUS
  <2>1. g = << >>
    BY EmptySeq
  <2>2. Len(FlattenSeq(g)) = 0
    BY <2>1, FlattenNothing
  <2> QED
    BY <1>0, <2>2 DEF GroupsLie
<1>2. ASSUME NEW k \in Nat, k \in T PROVE k + 1 \in T
  <2> SUFFICES ASSUME NEW g \in Seq(Seq(S)), Len(g) = k + 1, \A i \in 1..(k + 1) : Len(g[i]) = w
               PROVE  Len(FlattenSeq(g)) = w * (k + 1) /\ GroupsLie(g, w)
    OBVIOUS
  <2>1. g # << >>
    OBVIOUS
  <2>2. PICK c \in Seq(Seq(S)), x \in Seq(S) : g = Append(c, x)
    BY <2>1, SequenceEmptyOrAppend
  <2>3. /\ Len(c) = k /\ g[k + 1] = x /\ \A i \in 1..k : g[i] = c[i]
    BY <2>2
  <2>4. Len(x) = w /\ \A i \in 1..k : Len(c[i]) = w
    BY <2>3
  <2>5. Len(FlattenSeq(c)) = w * k /\ GroupsLie(c, w)
    BY <1>2, <2>3, <2>4
  <2>6. PICK f \in Seq(S) : f = FlattenSeq(c)
    BY FlattenType
  <2>7. FlattenSeq(g) = f \o x
    BY <2>2, <2>6, FlattenAppend
  <2>8. PICK m \in Nat : m = w * k /\ w * (k + 1) = m + w /\ Len(f) = m
    BY <1>0, <2>5, <2>6
  <2>9. /\ Len(f \o x) = m + w /\ \A n \in 1..m : (f \o x)[n] = f[n]
        /\ \A j \in 1..w : (f \o x)[m + j] = x[j]
    <3>1. Len(f) = m /\ Len(x) = w /\ w \in Nat
      BY <1>0, <2>4, <2>8
    <3>2. Concatenates(f, x, m, w)
      BY <3>1, ConcatenatesAt
    <3> QED
      BY <3>2 DEF Concatenates
  <2>10. ASSUME NEW i \in 1..(k + 1), NEW j \in 1..w PROVE (f \o x)[Place(i, j, w)] = g[i][j]
    <3>0. PICK l \in Nat : l = k + 1 /\ l - 1 = k /\ i \in 1..l
      OBVIOUS
    <3>1. CASE i = l
      <4>1. Place(i, j, w) = m + j
        BY <3>0, <3>1, <2>8, PlaceFacts
      <4> QED
        BY <2>3, <2>9, <3>0, <3>1, <4>1
    <3>2. CASE i < l
      <4>1. i \in 1..k
        BY <3>0, <3>2
      <4>2. Place(i, j, w) \in 1..m
        BY <2>8, <4>1, PlaceFacts
      <4>3. f[Place(i, j, w)] = c[i][j]
        BY <2>3, <2>5, <2>6, <4>1 DEF GroupsLie
      <4> QED
        BY <2>3, <2>9, <4>1, <4>2, <4>3
    <3>3. i = l \/ i < l
      BY <3>0
    <3> QED
      BY <3>1, <3>2, <3>3, Zenon
  <2> QED
    BY <2>7, <2>8, <2>9, <2>10 DEF GroupsLie
<1> HIDE DEF T
<1>3. Nat \subseteq T
  BY <1>1, <1>2, Induct
<1>4. Len(seqs) \in T
  BY <1>3
<1> QED
  BY <1>4 DEF T

(* A sequence is its groups put together.                                  *)
LEMMA GroupsOf ==
  ASSUME NEW S, NEW s \in Seq(S), NEW w \in Width, NEW k \in Nat, Len(s) = w * k,
         NEW g, g = [i \in 1..k |-> Chunk(s, i, w)]
  PROVE  FlattenSeq(g) = s
<1>0. \A i \in 1..k : Chunk(s, i, w) \in Seq(S) /\ Len(Chunk(s, i, w)) = w
  BY ChunkType
<1>1. g \in Seq(Seq(S)) /\ Len(g) = k /\ \A i \in 1..k : g[i] = Chunk(s, i, w)
  BY <1>0
<1>2. \A i \in 1..Len(g) : Len(g[i]) = w
  BY <1>0, <1>1
<1>3. Len(FlattenSeq(g)) = w * Len(g) /\ GroupsLie(g, w)
  BY <1>1, <1>2, FlattenGroups
<1>4. PICK f \in Seq(S) : f = FlattenSeq(g) /\ Len(f) = Len(s)
  BY <1>1, <1>3, FlattenType
<1>5. ASSUME NEW n \in 1..Len(s) PROVE f[n] = s[n]
  <2>1. PICK i \in 1..k, j \in 1..w : n = Place(i, j, w)
    BY PlaceOf
  <2>2. f[n] = g[i][j]
    BY <1>1, <1>3, <1>4, <2>1 DEF GroupsLie
  <2>3. Chunk(s, i, w)[j] = s[Place(i, j, w)]
    <3>1. w * k <= Len(s)
      BY DEF Width
    <3> QED
      BY <3>1, ChunkType
  <2> QED
    BY <1>1, <2>1, <2>2, <2>3
<1> QED
  BY <1>4, <1>5, SameElements
-----------------------------------------------------------------------------
(* Bits regrouped *)

LEMMA PowersOfTwo ==
  /\ Power(2, 1) = 2 /\ Power(2, 2) = 4 /\ Power(2, 3) = 8 /\ Power(2, 4) = 16
  /\ Power(2, 5) = 32 /\ Power(2, 8) = 256
<1>1. 2 \in Nat /\ 1 \in Nat /\ 2 \in Nat /\ 3 \in Nat /\ 4 \in Nat /\ 5 \in Nat /\ 6 \in Nat /\ 7 \in Nat
  OBVIOUS
<1>2. Power(2, 0) = 1 /\ \A n \in Nat : Power(2, n + 1) = 2 * Power(2, n)
  BY <1>1, PowerFacts
<1>3. Power(2, 1) = 2
  <2>1. Power(2, 0 + 1) = 2 * Power(2, 0) /\ 0 + 1 = 1
    BY <1>2
  <2> QED
    BY <1>2, <2>1
<1>4. Power(2, 2) = 4
  <2>1. Power(2, 1 + 1) = 2 * Power(2, 1) /\ 1 + 1 = 2
    BY <1>2
  <2> QED
    BY <1>3, <2>1
<1>5. Power(2, 3) = 8
  <2>1. Power(2, 2 + 1) = 2 * Power(2, 2) /\ 2 + 1 = 3
    BY <1>2
  <2> QED
    BY <1>4, <2>1
<1>6. Power(2, 4) = 16
  <2>1. Power(2, 3 + 1) = 2 * Power(2, 3) /\ 3 + 1 = 4
    BY <1>2
  <2> QED
    BY <1>5, <2>1
<1>7. Power(2, 5) = 32
  <2>1. Power(2, 4 + 1) = 2 * Power(2, 4) /\ 4 + 1 = 5
    BY <1>2
  <2> QED
    BY <1>6, <2>1
<1>8. Power(2, 6) = 64
  <2>1. Power(2, 5 + 1) = 2 * Power(2, 5) /\ 5 + 1 = 6
    BY <1>2
  <2> QED
    BY <1>7, <2>1
<1>9. Power(2, 7) = 128
  <2>1. Power(2, 6 + 1) = 2 * Power(2, 6) /\ 6 + 1 = 7
    BY <1>2
  <2> QED
    BY <1>8, <2>1
<1>10. Power(2, 8) = 256
  <2>1. Power(2, 7 + 1) = 2 * Power(2, 7) /\ 7 + 1 = 8
    BY <1>2
  <2> QED
    BY <1>9, <2>1
<1> QED
  BY <1>3, <1>4, <1>5, <1>6, <1>7, <1>10

Bit == 0..(2 - 1)

(* The numbers that a group of bits can be.                                *)
Group(w) == IF w = 5 THEN 0..31 ELSE Octet

LEMMA GroupFacts ==
  ASSUME NEW w \in Width, NEW n \in Nat
  PROVE  n \in Group(w) <=> n < Power(2, w)
BY PowersOfTwo DEF Width, Group, Octet

LEMMA GroupNumbers == ASSUME NEW w \in Width PROVE \A x \in Group(w) : x \in Nat
BY DEF Group, Octet

Bits(data, w) == FlattenSeq([i \in DOMAIN data |-> DigitsIn(2, data[i], w)])

LEMMA BitBase == 2 \in Base /\ 2 \in Nat /\ \A b \in Bit : b \in Nat
BY DEF Base, Bit

LEMMA DigitsOfGroup ==
  ASSUME NEW w \in Width, NEW x \in Group(w)
  PROVE  DigitsIn(2, x, w) \in Seq(Bit) /\ Len(DigitsIn(2, x, w)) = w /\ NumberIn(2, DigitsIn(2, x, w)) = x
<1>1. x \in Nat /\ w \in Nat /\ x < Power(2, w)
  BY GroupNumbers, GroupFacts DEF Width
<1> QED
  BY <1>1, BitBase, DigitsInType, DigitsInNumber DEF Bit

LEMMA GroupOfBits ==
  ASSUME NEW w \in Width, NEW s \in Seq(Bit), Len(s) = w
  PROVE  NumberIn(2, s) \in Group(w) /\ DigitsIn(2, NumberIn(2, s), w) = s
<1>1. DigitsAgain(2, s)
  BY BitBase, DigitsInOfNumber DEF Bit
<1> QED
  BY <1>1, GroupFacts DEF DigitsAgain

BitsAre(data, w, bits) ==
    /\ bits = Bits(data, w) /\ bits \in Seq(Bit) /\ Len(bits) = w * Len(data)
    /\ \A i \in 1..Len(data) : Chunk(bits, i, w) = DigitsIn(2, data[i], w) /\ NumberIn(2, Chunk(bits, i, w)) = data[i]

LEMMA BitsType ==
  ASSUME NEW w \in Width, NEW data \in Seq(Group(w))
  PROVE  \E bits : BitsAre(data, w, bits)
<1>0. PICK k \in Nat : k = Len(data)
  OBVIOUS
<1> DEFINE g == [i \in 1..k |-> DigitsIn(2, data[i], w)]
<1>1. DOMAIN data = 1..k /\ \A i \in 1..k : data[i] \in Group(w)
  BY <1>0
<1>2. \A i \in 1..k : DigitsIn(2, data[i], w) \in Seq(Bit) /\ Len(DigitsIn(2, data[i], w)) = w /\ NumberIn(2, DigitsIn(2, data[i], w)) = data[i]
  BY <1>1, DigitsOfGroup
<1>3. g \in Seq(Seq(Bit)) /\ Len(g) = k /\ \A i \in 1..k : g[i] = DigitsIn(2, data[i], w)
  BY <1>2
<1>4. Bits(data, w) = FlattenSeq(g)
  BY <1>1, Zenon DEF Bits
<1> HIDE DEF g
<1>5. PICK bits \in Seq(Bit) : bits = FlattenSeq(g)
  BY <1>3, FlattenType
<1>6. Len(bits) = w * k /\ GroupsLie(g, w)
  BY <1>2, <1>3, <1>5, FlattenGroups
<1>7. ASSUME NEW i \in 1..k PROVE Chunk(bits, i, w) = g[i]
  <2>1. w * k <= Len(bits)
    BY <1>6 DEF Width
  <2>2. /\ Chunk(bits, i, w) \in Seq(Bit) /\ Len(Chunk(bits, i, w)) = w
        /\ \A j \in 1..w : Chunk(bits, i, w)[j] = bits[Place(i, j, w)]
    BY <2>1, ChunkType
  <2>3. \A j \in 1..w : bits[Place(i, j, w)] = g[i][j]
    BY <1>3, <1>5, <1>6 DEF GroupsLie
  <2>4. g[i] \in Seq(Bit) /\ Len(g[i]) = w
    BY <1>2, <1>3
  <2> QED
    BY <2>2, <2>3, <2>4, SameElements
<1>8. BitsAre(data, w, bits)
  BY <1>0, <1>2, <1>3, <1>4, <1>5, <1>6, <1>7 DEF BitsAre
<1> QED
  BY <1>8

(* The numbers of the groups of bits have these bits.                      *)
LEMMA BitsOfGroups ==
  ASSUME NEW w \in Width, NEW k \in Nat, NEW bits \in Seq(Bit), Len(bits) = w * k,
         NEW data, data = [i \in 1..k |-> NumberIn(2, Chunk(bits, i, w))]
  PROVE  data \in Seq(Group(w)) /\ Len(data) = k /\ Bits(data, w) = bits
<1>0. w * k <= Len(bits)
  BY DEF Width
<1>1. \A i \in 1..k : Chunk(bits, i, w) \in Seq(Bit) /\ Len(Chunk(bits, i, w)) = w
  BY <1>0, ChunkType
<1>2. \A i \in 1..k : NumberIn(2, Chunk(bits, i, w)) \in Group(w) /\ DigitsIn(2, NumberIn(2, Chunk(bits, i, w)), w) = Chunk(bits, i, w)
  BY <1>1, GroupOfBits
<1>3. data \in Seq(Group(w)) /\ Len(data) = k /\ \A i \in 1..k : data[i] = NumberIn(2, Chunk(bits, i, w))
  <2>1. data \in [1..k -> Group(w)]
    BY <1>2
  <2> QED
    BY <2>1
<1> DEFINE g == [i \in 1..k |-> Chunk(bits, i, w)]
<1>4. FlattenSeq(g) = bits
  <2>1. PICK h : h = g
    OBVIOUS
  <2>2. FlattenSeq(h) = bits
    BY <2>1, GroupsOf
  <2> QED
    BY <2>1, <2>2
<1>5. [i \in DOMAIN data |-> DigitsIn(2, data[i], w)] = g
  BY <1>2, <1>3
<1> QED
  BY <1>3, <1>4, <1>5, Zenon DEF Bits

Zeros(n) == [i \in 1..n |-> 0]

LEMMA ZerosType ==
  ASSUME NEW n \in Nat
  PROVE  /\ Zeros(n) \in Seq({0}) /\ Zeros(n) \in Seq(Bit) /\ Len(Zeros(n)) = n
         /\ \A i \in 1..n : Zeros(n)[i] = 0
<1>1. 0 \in Bit
  BY DEF Bit
<1> QED
  BY <1>1 DEF Zeros

LEMMA ZerosAppend == ASSUME NEW n \in Nat PROVE Zeros(n + 1) = Append(Zeros(n), 0)
<1>1. PICK z \in Seq({0}) : z = Zeros(n) /\ Len(z) = n /\ \A i \in 1..n : z[i] = 0
  BY ZerosType
<1>2. PICK m \in Nat : m = n + 1
  OBVIOUS
<1>3. PICK y \in Seq({0}) : y = Zeros(m) /\ Len(y) = m /\ \A i \in 1..m : y[i] = 0
  BY ZerosType
<1>4. Append(z, 0) \in Seq({0}) /\ Len(Append(z, 0)) = m /\ \A i \in 1..m : Append(z, 0)[i] = 0
  BY <1>1, <1>2
<1>5. y = Append(z, 0)
  BY <1>3, <1>4, SameElements
<1> QED
  BY <1>1, <1>2, <1>3, <1>5

(* Zeros behind bits shift the number that they are.                       *)
LEMMA NumberPadded ==
  ASSUME NEW s \in Seq(Bit), NEW n \in Nat
  PROVE  NumberIn(2, s \o Zeros(n)) = NumberIn(2, s) * Power(2, n)
<1> DEFINE T == {m \in Nat : NumberIn(2, s \o Zeros(m)) = NumberIn(2, s) * Power(2, m)}
<1>0. s \in Seq(Nat)
  BY BitBase
<1>1. PICK x \in Nat : x = NumberIn(2, s)
  BY <1>0, BitBase, NumberType
<1>2. 0 \in T
  <2>1. Zeros(0) = << >>
    BY ZerosType, EmptySeq
  <2>2. s \o << >> = s
    OBVIOUS
  <2>3. Power(2, 0) = 1 /\ x * 1 = x
    BY BitBase, PowerFacts
  <2>4. NumberIn(2, s \o Zeros(0)) = NumberIn(2, s) * Power(2, 0)
    BY <1>1, <2>1, <2>2, <2>3, Zenon
  <2> QED
    BY <2>4
<1>3. ASSUME NEW m \in Nat, m \in T PROVE m + 1 \in T
  <2>1. PICK p \in Nat : p = Power(2, m) /\ Power(2, m + 1) = 2 * p
    BY BitBase, PowerFacts
  <2>2. PICK z \in Seq(Bit) : z = Zeros(m) /\ Zeros(m + 1) = Append(z, 0)
    BY ZerosType, ZerosAppend
  <2>3. s \o Append(z, 0) = Append(s \o z, 0)
    <3>1. 0 \in Bit
      BY DEF Bit
    <3> QED
      BY <3>1, <2>2
  <2>4. s \o z \in Seq(Nat)
    BY BitBase
  <2>5. NumberIn(2, Append(s \o z, 0)) = 2 * NumberIn(2, s \o z) + 0
    BY <2>4, BitBase, NumberAppend
  <2>6. NumberIn(2, s \o z) = x * p
    BY <1>1, <1>3, <2>1, <2>2
  <2>7. 2 * (x * p) + 0 = x * (2 * p)
    OBVIOUS
  <2>8. NumberIn(2, s \o Zeros(m + 1)) = NumberIn(2, s) * Power(2, m + 1)
    BY <1>1, <2>1, <2>2, <2>3, <2>5, <2>6, <2>7, Zenon
  <2> QED
    BY <2>8
<1> HIDE DEF T
<1>4. Nat \subseteq T
  BY <1>2, <1>3, Induct
<1> QED
  BY <1>4 DEF T

GroupsIn(bits, w, k) == [i \in 1..k |-> NumberIn(2, Chunk(bits, i, w))]

LastGroup(rest, w) == IF rest = << >> THEN << >> ELSE <<NumberIn(2, rest) * Power(2, w - Len(rest))>>

Fits(data, w) == \A i \in DOMAIN data : data[i] < Power(2, w)

Rest(bits, to) == SubSeq(bits, (Len(bits) \div to) * to + 1, Len(bits))

ConvertedUp(bits, to) == GroupsIn(bits, to, Len(bits) \div to) \o LastGroup(Rest(bits, to), to)

LEMMA ConvertsUp ==
  ASSUME NEW data, NEW from, NEW to, Fits(data, from)
  PROVE  convert_bits(data, from, to, TRUE) = {ConvertedUp(Bits(data, from), to)}
<1>1. convert_bits(data, from, to, TRUE)
        = {result \in {IF TRUE THEN ConvertedUp(Bits(data, from), to)
                               ELSE GroupsIn(Bits(data, from), to, Len(Bits(data, from)) \div to)} :
             /\ Fits(data, from)
             /\ TRUE \/ (Len(Rest(Bits(data, from), to)) < from /\ NumberIn(2, Rest(Bits(data, from), to)) = 0)}
  BY Zenon DEF convert_bits, Bits, Chunk, GroupsIn, LastGroup, Fits, ConvertedUp, Rest
<1> QED
  BY <1>1, Zenon

LEMMA ConvertsDown ==
  ASSUME NEW data, NEW from, NEW to, Fits(data, from),
         Len(Rest(Bits(data, from), to)) < from, NumberIn(2, Rest(Bits(data, from), to)) = 0
  PROVE  convert_bits(data, from, to, FALSE) = {GroupsIn(Bits(data, from), to, Len(Bits(data, from)) \div to)}
<1>1. convert_bits(data, from, to, FALSE)
        = {result \in {IF FALSE THEN ConvertedUp(Bits(data, from), to)
                               ELSE GroupsIn(Bits(data, from), to, Len(Bits(data, from)) \div to)} :
             /\ Fits(data, from)
             /\ FALSE \/ (Len(Rest(Bits(data, from), to)) < from /\ NumberIn(2, Rest(Bits(data, from), to)) = 0)}
  BY Zenon DEF convert_bits, Bits, Chunk, GroupsIn, LastGroup, Fits, ConvertedUp, Rest
<1> QED
  BY <1>1, Zenon

LEMMA GroupsFit ==
  ASSUME NEW w \in Width, NEW data \in Seq(Group(w))
  PROVE  Fits(data, w)
<1>1. \A i \in DOMAIN data : data[i] \in Group(w)
  OBVIOUS
<1>2. \A x \in Group(w) : x \in Nat /\ x < Power(2, w)
  BY GroupNumbers, GroupFacts
<1> QED
  BY <1>1, <1>2 DEF Fits

(* Bytes are regrouped into groups of five with up to four zeros behind.   *)
RegroupedAs(program, data, z) ==
    /\ convert_bits(program, 8, 5, TRUE) = {data}
    /\ data \in Seq(Group(5)) /\ 5 * Len(data) = 8 * Len(program) + z
    /\ Bits(data, 5) = Bits(program, 8) \o Zeros(z)

LEMMA WholeOf ==
  ASSUME NEW n \in Nat
  PROVE  /\ n \div 5 \in Nat /\ n % 5 \in 0..4 /\ n = 5 * (n \div 5) + (n % 5)
         /\ (n \div 5) * 5 = 5 * (n \div 5)
OBVIOUS

LEMMA FiveBits ==
  ASSUME NEW s \in Seq(Bit), NEW k \in Nat, 5 * k <= Len(s), NEW i \in 1..k
  PROVE  /\ Chunk(s, i, 5) \in Seq(Bit) /\ Len(Chunk(s, i, 5)) = 5
         /\ \A j \in 1..5 : Chunk(s, i, 5)[j] = s[Place(i, j, 5)]
<1>1. PICK w \in Width : w = 5
  BY DEF Width
<1>2. w * k <= Len(s)
  BY <1>1
<1>3. /\ Chunk(s, i, w) \in Seq(Bit) /\ Len(Chunk(s, i, w)) = w
      /\ \A j \in 1..w : Chunk(s, i, w)[j] = s[Place(i, j, w)]
  BY <1>2, ChunkType
<1> QED
  BY <1>1, <1>3, Zenon

LEMMA FiveBitGroups ==
  ASSUME NEW k \in Nat, NEW bits \in Seq(Bit), Len(bits) = 5 * k
  PROVE  GroupsIn(bits, 5, k) \in Seq(Group(5)) /\ Len(GroupsIn(bits, 5, k)) = k /\ Bits(GroupsIn(bits, 5, k), 5) = bits
<1>1. PICK w \in Width : w = 5
  BY DEF Width
<1>2. Len(bits) = w * k
  BY <1>1
<1>3. PICK data : data = [i \in 1..k |-> NumberIn(2, Chunk(bits, i, w))]
  OBVIOUS
<1>4. data \in Seq(Group(w)) /\ Len(data) = k /\ Bits(data, w) = bits
  BY <1>2, <1>3, BitsOfGroups
<1>5. data = GroupsIn(bits, 5, k)
  BY <1>1, <1>3, Zenon DEF GroupsIn
<1> QED
  BY <1>1, <1>4, <1>5, Zenon

(* Bits of groups of five, and fewer behind them.                          *)
LEMMA LastBits ==
  ASSUME NEW bits \in Seq(Bit), NEW whole \in Nat, NEW r \in 0..4, Len(bits) = 5 * whole + r,
         NEW rest, rest = SubSeq(bits, 5 * whole + 1, Len(bits))
  PROVE  rest \in Seq(Bit) /\ Len(rest) = r /\ \A j \in 1..r : rest[j] = bits[5 * whole + j]
<1>1. PICK n \in Nat : n = Len(bits)
  OBVIOUS
<1>2. PICK first \in 1..(Len(bits) + 1) : first = 5 * whole + 1
  OBVIOUS
<1>3. n \in 0..Len(bits) /\ first <= n + 1
  BY <1>1, <1>2
<1>4. /\ SubSeq(bits, first, n) \in Seq(Bit) /\ Len(SubSeq(bits, first, n)) = n - first + 1
      /\ \A j \in 1..(n - first + 1) : SubSeq(bits, first, n)[j] = bits[first + j - 1]
  BY <1>3, SubSeqType
<1>5. n - first + 1 = r /\ \A j \in 1..r : first + j - 1 = 5 * whole + j
  BY <1>1, <1>2
<1>6. rest = SubSeq(bits, first, n)
  BY <1>1, <1>2
<1> QED
  BY <1>4, <1>5, <1>6

LEMMA Padded ==
  ASSUME NEW bits \in Seq(Bit), NEW n \in Nat, n = Len(bits), NEW z \in Nat
  PROVE  bits \o Zeros(z) \in Seq(Bit) /\ Concatenates(bits, Zeros(z), n, z)
<1>1. PICK zs \in Seq(Bit) : zs = Zeros(z) /\ Len(zs) = z
  BY ZerosType
<1>2. bits \o zs \in Seq(Bit) /\ Concatenates(bits, zs, n, z)
  BY <1>1, ConcatenatesAt
<1> QED
  BY <1>1, <1>2

LEMMA SameFive ==
  ASSUME NEW a \in Seq(Bit), NEW b \in Seq(Bit), Len(a) = 5, Len(b) = 5, \A j \in 1..5 : a[j] = b[j]
  PROVE  a = b
BY SameElements

(* Whole groups of five bits, and a rest that zeros fill up to another.    *)
PaddedTo(bits, whole, r, rest, z, k, padded) ==
    /\ bits \in Seq(Bit) /\ whole \in Nat /\ r \in 1..4 /\ z \in 1..4 /\ k \in Nat
    /\ Len(bits) = 5 * whole + r /\ rest = SubSeq(bits, 5 * whole + 1, Len(bits))
    /\ k = whole + 1 /\ r + z = 5 /\ padded = bits \o Zeros(z)

FillsGroups(bits, whole, rest, k, padded) ==
    /\ padded \in Seq(Bit) /\ Len(padded) = 5 * k
    /\ GroupsIn(bits, 5, whole) \o LastGroup(rest, 5) = GroupsIn(padded, 5, k)

LEMMA PaddedGroups ==
  ASSUME NEW bits, NEW whole, NEW r, NEW rest, NEW z, NEW k, NEW padded, PaddedTo(bits, whole, r, rest, z, k, padded)
  PROVE  FillsGroups(bits, whole, rest, k, padded)
<1>a. /\ bits \in Seq(Bit) /\ whole \in Nat /\ r \in 1..4 /\ z \in 1..4 /\ k \in Nat
      /\ padded = bits \o Zeros(z)
  BY DEF PaddedTo
<1>b. Len(bits) = 5 * whole + r /\ rest = SubSeq(bits, 5 * whole + 1, Len(bits)) /\ k = whole + 1 /\ r + z = 5
  BY DEF PaddedTo
<1> USE <1>a, <1>b
<1>n. PICK n \in Nat : n = Len(bits) /\ n = 5 * whole + r
  OBVIOUS
<1>z. z \in Nat /\ z = 5 - r /\ r + z = 5
  OBVIOUS
<1>1. padded \in Seq(Bit) /\ Concatenates(bits, Zeros(z), n, z)
  BY <1>n, <1>z, Padded
<1>2. /\ Len(padded) = n + z /\ \A i \in 1..n : padded[i] = bits[i]
      /\ \A i \in 1..z : padded[n + i] = 0
  <2>1. \A i \in 1..z : Zeros(z)[i] = 0
    BY <1>z, ZerosType
  <2> QED
    BY <1>1, <1>z, <2>1, Zenon DEF Concatenates
<1>3. Len(padded) = 5 * k
  BY <1>2, <1>n, <1>z
<1>4. rest \in Seq(Bit) /\ Len(rest) = r /\ \A j \in 1..r : rest[j] = bits[5 * whole + j]
  <2>1. r \in 0..4
    OBVIOUS
  <2> QED
    BY <2>1, LastBits
<1>5. rest \o Zeros(z) \in Seq(Bit) /\ Concatenates(rest, Zeros(z), r, z)
  <2>1. r \in Nat /\ r = Len(rest)
    BY <1>4
  <2> QED
    BY <1>4, <1>z, <2>1, Padded
<1>6. PICK last \in Seq(Bit) : last = rest \o Zeros(z) /\ Len(last) = 5 /\ (\A j \in 1..r : last[j] = rest[j]) /\ \A i \in 1..z : last[r + i] = 0
  <2>1. \A i \in 1..z : Zeros(z)[i] = 0
    BY <1>z, ZerosType
  <2>2. Len(rest \o Zeros(z)) = r + z
    BY <1>5 DEF Concatenates
  <2>3. \A j \in 1..r : (rest \o Zeros(z))[j] = rest[j]
    BY <1>5, Zenon DEF Concatenates
  <2>4. \A i \in 1..z : (rest \o Zeros(z))[r + i] = 0
    BY <1>5, <2>1, Zenon DEF Concatenates
  <2> QED
    BY <1>5, <1>z, <2>2, <2>3, <2>4, Zenon
<1>7. ASSUME NEW i \in 1..whole PROVE Chunk(bits, i, 5) = Chunk(padded, i, 5)
  <2>1. 5 * whole <= Len(bits) /\ 5 * whole <= Len(padded)
    BY <1>3, <1>n
  <2>2. /\ Chunk(bits, i, 5) \in Seq(Bit) /\ Len(Chunk(bits, i, 5)) = 5
        /\ \A j \in 1..5 : Chunk(bits, i, 5)[j] = bits[Place(i, j, 5)]
    BY <2>1, FiveBits
  <2>3. /\ Chunk(padded, i, 5) \in Seq(Bit) /\ Len(Chunk(padded, i, 5)) = 5
        /\ \A j \in 1..5 : Chunk(padded, i, 5)[j] = padded[Place(i, j, 5)]
    BY <1>1, <2>1, FiveBits
  <2>4. ASSUME NEW j \in 1..5 PROVE bits[Place(i, j, 5)] = padded[Place(i, j, 5)]
    <3>1. Place(i, j, 5) \in 1..n
      BY <1>n, Places5 DEF Place
    <3> QED
      BY <1>2, <3>1
  <2> QED
    BY <2>2, <2>3, <2>4, SameFive, Zenon
<1>8. Chunk(padded, k, 5) = last
  <2>1. k \in 1..k /\ 5 * k <= Len(padded)
    BY <1>3
  <2>2. /\ Chunk(padded, k, 5) \in Seq(Bit) /\ Len(Chunk(padded, k, 5)) = 5
        /\ \A j \in 1..5 : Chunk(padded, k, 5)[j] = padded[Place(k, j, 5)]
    BY <1>1, <2>1, FiveBits
  <2>3. ASSUME NEW j \in 1..5 PROVE padded[Place(k, j, 5)] = last[j]
    <3>1. Place(k, j, 5) = 5 * whole + j
      BY DEF Place
    <3>2. CASE j \in 1..r
      <4>1. 5 * whole + j \in 1..n
        BY <1>n, <3>2
      <4> QED
        BY <1>2, <1>4, <1>6, <3>1, <3>2, <4>1
    <3>3. CASE j \notin 1..r
      <4>1. PICK i \in 1..z : i = j - r
        BY <1>z, <3>3
      <4>2. 5 * whole + j = n + i /\ j = r + i
        BY <1>n, <4>1
      <4>3. padded[n + i] = 0 /\ last[r + i] = 0
        BY <1>2, <1>6, Zenon
      <4> QED
        BY <3>1, <4>2, <4>3, Zenon
    <3> QED
      BY <3>2, <3>3
  <2>4. PICK a \in Seq(Bit) : a = Chunk(padded, k, 5) /\ Len(a) = 5
    BY <2>2
  <2>5. \A j \in 1..5 : a[j] = last[j]
    BY <2>2, <2>3, <2>4, Zenon
  <2>6. Len(last) = 5
    BY <1>6
  <2>7. a = last
    BY <2>4, <2>5, <2>6, SameFive
  <2> QED
    BY <2>4, <2>7
<1> DEFINE g == GroupsIn(bits, 5, whole)
           data == GroupsIn(padded, 5, k)
<1>9. data \in Seq(Group(5)) /\ Len(data) = k
  BY <1>1, <1>3, FiveBitGroups
<1>10. \A i \in 1..k : data[i] = NumberIn(2, Chunk(padded, i, 5))
  BY DEF GroupsIn
<1>11. \A i \in 1..whole : g[i] = data[i] /\ data[i] \in Group(5)
  <2>1. ASSUME NEW i \in 1..whole PROVE g[i] = data[i] /\ data[i] \in Group(5)
    <3>1. i \in 1..k
      OBVIOUS
    <3>2. g[i] = NumberIn(2, Chunk(bits, i, 5))
      BY DEF GroupsIn
    <3>3. data[i] \in Group(5)
      BY <1>9, <3>1
    <3> QED
      BY <1>7, <1>10, <3>1, <3>2, <3>3
  <2> QED
    BY <2>1
<1>12. g = [i \in 1..whole |-> NumberIn(2, Chunk(bits, i, 5))]
  BY DEF GroupsIn
<1>13. LastGroup(rest, 5) = <<data[k]>>
  <2>0. Len(<< >>) = 0 /\ r # 0 /\ 5 - r = z
    BY <1>z
  <2>1. rest # << >> /\ 5 - Len(rest) = z
    BY <1>4, <2>0, Zenon
  <2>2. NumberIn(2, rest \o Zeros(z)) = NumberIn(2, rest) * Power(2, z)
    BY <1>4, <1>z, NumberPadded
  <2>3. k \in 1..k
    OBVIOUS
  <2>4. LastGroup(rest, 5) = <<NumberIn(2, rest) * Power(2, z)>>
    BY <2>1, Zenon DEF LastGroup
  <2>5. data[k] = NumberIn(2, last)
    BY <1>8, <1>10, <2>3
  <2> QED
    BY <1>6, <2>2, <2>4, <2>5, Zenon
<1> HIDE DEF g, data
<1>14. g \in Seq(Group(5)) /\ Len(g) = whole
  <2>1. DOMAIN g = 1..whole /\ \A i \in 1..whole : g[i] \in Group(5)
    BY <1>11, <1>12
  <2>2. g \in [1..whole -> Group(5)]
    BY <1>12, <2>1
  <2> QED
    BY <2>2
<1>15. PICK x \in Group(5) : x = data[k]
  <2>1. k \in 1..k
    OBVIOUS
  <2> QED
    BY <1>9, <2>1
<1>16. Append(g, x) = data
  <2>1. Append(g, x) \in Seq(Group(5)) /\ Len(Append(g, x)) = k
    BY <1>14
  <2>2. ASSUME NEW i \in 1..k PROVE Append(g, x)[i] = data[i]
    <3>1. CASE i = k
      BY <1>14, <1>15, <3>1
    <3>2. CASE i # k
      <4>1. i \in 1..whole
        BY <3>2
      <4>2. Append(g, x)[i] = g[i]
        BY <1>14, <4>1
      <4> QED
        BY <1>11, <4>1, <4>2
    <3> QED
      BY <3>1, <3>2
  <2> QED
    BY <1>9, <2>1, <2>2, SameElements
<1>17. g \o <<x>> = Append(g, x)
  BY <1>14
<1>18. g \o LastGroup(rest, 5) = data
  BY <1>13, <1>15, <1>16, <1>17, Zenon
<1> QED
  BY <1>1, <1>3, <1>18, Zenon DEF g, data, FillsGroups

LEMMA RegroupUp ==
  ASSUME NEW program \in Seq(Octet)
  PROVE  \E data, z : z \in 0..4 /\ RegroupedAs(program, data, z)
<1>0. 8 \in Width /\ Group(8) = Octet
  BY DEF Width, Group
<1>1. PICK bits : BitsAre(program, 8, bits)
  <2>1. PICK w \in Width : w = 8 /\ program \in Seq(Group(w))
    BY <1>0
  <2>2. \E bits : BitsAre(program, w, bits)
    BY <2>1, BitsType
  <2> QED
    BY <2>1, <2>2
<1>2. bits = Bits(program, 8) /\ bits \in Seq(Bit) /\ Len(bits) = 8 * Len(program)
  BY <1>1, Zenon DEF BitsAre
<1>f. Fits(program, 8)
  BY <1>0, GroupsFit
<1>n. PICK n \in Nat : n = Len(bits)
  BY <1>2
<1>d. PICK whole \in Nat, r \in 0..4 : whole = n \div 5 /\ n = 5 * whole + r /\ whole * 5 = 5 * whole
  BY WholeOf
<1>3. n = 5 * whole + r
  BY <1>d
<1>4. Len(bits) = 5 * whole + r
  BY <1>3, <1>n
<1>r. PICK rest : rest = SubSeq(bits, 5 * whole + 1, n)
  OBVIOUS
<1>5. convert_bits(program, 8, 5, TRUE) = {GroupsIn(bits, 5, whole) \o LastGroup(rest, 5)}
  <2>1. whole = Len(bits) \div 5 /\ rest = SubSeq(bits, whole * 5 + 1, Len(bits))
    BY <1>d, <1>n, <1>r, Zenon
  <2>2. convert_bits(program, 8, 5, TRUE) = {ConvertedUp(bits, 5)}
    <3>1. convert_bits(program, 8, 5, TRUE) = {ConvertedUp(Bits(program, 8), 5)}
      <4>1. PICK from, to : from = 8 /\ to = 5
        OBVIOUS
      <4>2. Fits(program, from)
        BY <1>f, <4>1
      <4>3. convert_bits(program, from, to, TRUE) = {ConvertedUp(Bits(program, from), to)}
        BY <4>2, ConvertsUp
      <4> QED
        BY <4>1, <4>3, Zenon
    <3> QED
      BY <1>2, <3>1, Zenon
  <2>3. ConvertedUp(bits, 5) = GroupsIn(bits, 5, whole) \o LastGroup(rest, 5)
    BY <2>1, Zenon DEF ConvertedUp, Rest
  <2> QED
    BY <2>2, <2>3, Zenon
<1>m. PICK m \in Nat : m = Len(program) /\ n = 8 * m
  BY <1>2, <1>n
<1>6. CASE r = 0
  <2>1. rest = << >>
    <3>1. rest \in Seq(Bit) /\ Len(rest) = 0
      <4>1. rest = SubSeq(bits, 5 * whole + 1, Len(bits))
        BY <1>n, <1>r
      <4>2. rest \in Seq(Bit) /\ Len(rest) = r
        BY <1>2, <1>4, <4>1, LastBits
      <4> QED
        BY <1>6, <4>2
    <3> QED
      BY <3>1, EmptySeq
  <2>2. LastGroup(rest, 5) = << >>
    BY <2>1 DEF LastGroup
  <2>3. PICK data \in Seq(Group(5)) : data = GroupsIn(bits, 5, whole) /\ Len(data) = whole /\ Bits(data, 5) = bits
    <3>1. Len(bits) = 5 * whole
      BY <1>4, <1>6
    <3> QED
      BY <1>2, <3>1, FiveBitGroups
  <2>4. data \o << >> = data
    OBVIOUS
  <2>5. bits \o Zeros(0) = bits
    <3>1. Zeros(0) = << >>
      BY ZerosType, EmptySeq
    <3> QED
      BY <1>2, <3>1
  <2>6. 5 * Len(data) = 8 * Len(program) + 0
    BY <1>3, <1>m, <1>6, <2>3
  <2>7. convert_bits(program, 8, 5, TRUE) = {data}
    BY <1>5, <2>2, <2>3, <2>4, Zenon
  <2>8. Bits(data, 5) = Bits(program, 8) \o Zeros(0)
    BY <1>2, <2>3, <2>5, Zenon
  <2>9. RegroupedAs(program, data, 0)
    BY <2>3, <2>6, <2>7, <2>8, Zenon DEF RegroupedAs
  <2>10. 0 \in 0..4
    OBVIOUS
  <2> QED
    BY <2>9, <2>10
<1>7. CASE r # 0
  <2>z. PICK z \in 1..4 : z = 5 - r
    BY <1>7
  <2>k. PICK k \in Nat : k = whole + 1 /\ 5 * k = n + z
    BY <1>3, <2>z
  <2>1. PICK padded : padded = bits \o Zeros(z)
    OBVIOUS
  <2>2. /\ padded \in Seq(Bit) /\ Len(padded) = 5 * k
        /\ GroupsIn(bits, 5, whole) \o LastGroup(rest, 5) = GroupsIn(padded, 5, k)
    <3>1. PICK q \in 1..4 : q = r
      BY <1>7
    <3>2. q + z = 5 /\ k = whole + 1
      BY <2>k, <2>z, <3>1
    <3>3. Len(bits) = 5 * whole + q
      BY <1>4, <3>1
    <3>4. PaddedTo(bits, whole, q, rest, z, k, padded)
      BY <1>2, <1>n, <1>r, <2>1, <3>2, <3>3, Zenon DEF PaddedTo
    <3> QED
      <4>1. FillsGroups(bits, whole, rest, k, padded)
        BY <3>4, PaddedGroups
      <4> QED
        BY <4>1, Zenon DEF FillsGroups
  <2>3. PICK data \in Seq(Group(5)) : data = GroupsIn(padded, 5, k) /\ Len(data) = k /\ Bits(data, 5) = padded
    BY <2>2, FiveBitGroups
  <2>6. 5 * Len(data) = 8 * Len(program) + z
    BY <1>m, <2>k, <2>3
  <2>7. convert_bits(program, 8, 5, TRUE) = {data}
    BY <1>5, <2>2, <2>3, Zenon
  <2>8. Bits(data, 5) = Bits(program, 8) \o Zeros(z)
    BY <1>2, <2>1, <2>3, Zenon
  <2>9. RegroupedAs(program, data, z)
    BY <2>3, <2>6, <2>7, <2>8, Zenon DEF RegroupedAs
  <2>10. z \in 0..4
    OBVIOUS
  <2> QED
    BY <2>9, <2>10
<1> QED
  BY <1>6, <1>7

(* Zeros alone are zero.                                                   *)
LEMMA ZerosAreZero ==
  ASSUME NEW s \in Seq(Nat), NEW n \in Nat, Len(s) = n, \A i \in 1..n : s[i] = 0
  PROVE  NumberIn(2, s) = 0
<1>1. PICK none \in Seq(Nat) : none = << >>
  BY EmptySeq
<1>2. Len(none) = 0
  BY <1>1
<1>3. Len(s) = n + Len(none) /\ \A i \in 1..Len(none) : none[i] = s[n + i]
  BY <1>2
<1>4. NumberIn(2, s) = NumberIn(2, none)
  BY <1>3, BitBase, NumberShift
<1> QED
  BY <1>1, <1>4, BitBase, NumberOfNothing

(* Regrouped bytes come back.                                              *)
LEMMA RegroupDown ==
  ASSUME NEW program \in Seq(Octet), NEW data, NEW z \in 0..4, RegroupedAs(program, data, z)
  PROVE  convert_bits(data, 5, 8, FALSE) = {program}
<1>0. 5 \in Width /\ 8 \in Width /\ Group(8) = Octet
  BY DEF Width, Group
<1>1. PICK bits : BitsAre(program, 8, bits)
  <2>1. PICK w \in Width : w = 8 /\ program \in Seq(Group(w))
    BY <1>0
  <2>2. \E bits : BitsAre(program, w, bits)
    BY <2>1, BitsType
  <2> QED
    BY <2>1, <2>2
<1>m. PICK m \in Nat : m = Len(program)
  OBVIOUS
<1>2. /\ bits = Bits(program, 8) /\ bits \in Seq(Bit) /\ Len(bits) = 8 * m
      /\ \A i \in 1..m : NumberIn(2, Chunk(bits, i, 8)) = program[i]
  BY <1>1, <1>m, Zenon DEF BitsAre
<1>n. PICK n \in Nat : n = Len(bits) /\ n = 8 * m
  BY <1>2
<1>3. Bits(data, 5) = bits \o Zeros(z) /\ data \in Seq(Group(5))
  BY <1>2, Zenon DEF RegroupedAs
<1>4. PICK padded \in Seq(Bit) : padded = Bits(data, 5) /\ Concatenates(bits, Zeros(z), n, z)
                                 /\ padded = bits \o Zeros(z)
  <2>1. z \in Nat
    OBVIOUS
  <2> QED
    BY <1>2, <1>3, <1>n, <2>1, Padded
<1>5. /\ Len(padded) = n + z /\ \A i \in 1..n : padded[i] = bits[i]
      /\ \A i \in 1..z : padded[n + i] = 0
  <2>1. \A i \in 1..z : Zeros(z)[i] = 0
    <3>1. z \in Nat
      OBVIOUS
    <3> QED
      BY <3>1, ZerosType
  <2> QED
    BY <1>4, <2>1, Zenon DEF Concatenates
<1>6. PICK long \in Nat : long = Len(padded) /\ long = 8 * m + z /\ long = n + z
  BY <1>5, <1>n
<1>7. long \div 8 = m /\ (long \div 8) * 8 = n
  BY <1>6, <1>n
<1>8. PICK rest \in Seq(Bit) : rest = Rest(padded, 8) /\ Len(rest) = z /\ \A i \in 1..z : rest[i] = 0
  <2>1. PICK first \in 1..(Len(padded) + 1) : first = n + 1
    BY <1>6
  <2>2. long \in 0..Len(padded) /\ first <= long + 1
    BY <1>6, <2>1
  <2>3. /\ SubSeq(padded, first, long) \in Seq(Bit) /\ Len(SubSeq(padded, first, long)) = long - first + 1
        /\ \A i \in 1..(long - first + 1) : SubSeq(padded, first, long)[i] = padded[first + i - 1]
    BY <2>2, SubSeqType
  <2>4. long - first + 1 = z /\ \A i \in 1..z : first + i - 1 = n + i
    BY <1>6, <2>1
  <2>5. Rest(padded, 8) = SubSeq(padded, first, long)
    BY <1>6, <1>7, <2>1, Zenon DEF Rest
  <2>6. \A i \in 1..z : SubSeq(padded, first, long)[i] = 0
    BY <1>5, <2>3, <2>4
  <2> QED
    BY <2>3, <2>4, <2>5, <2>6
<1>9. NumberIn(2, rest) = 0
  <2>1. rest \in Seq(Nat) /\ z \in Nat
    BY BitBase
  <2> QED
    BY <1>8, <2>1, ZerosAreZero
<1>10. convert_bits(data, 5, 8, FALSE) = {GroupsIn(padded, 8, m)}
  <2>1. PICK from, to : from = 5 /\ to = 8
    OBVIOUS
  <2>2. Fits(data, from)
    BY <1>0, <1>3, <2>1, GroupsFit
  <2>3. Len(Rest(Bits(data, from), to)) < from
    <3>1. z < 5
      OBVIOUS
    <3>2. Len(Rest(padded, 8)) = z
      BY <1>8
    <3> QED
      BY <1>4, <2>1, <3>1, <3>2, Zenon
  <2>4. NumberIn(2, Rest(Bits(data, from), to)) = 0
    BY <1>4, <1>8, <1>9, <2>1
  <2>5. convert_bits(data, from, to, FALSE) = {GroupsIn(Bits(data, from), to, Len(Bits(data, from)) \div to)}
    BY <2>2, <2>3, <2>4, ConvertsDown
  <2> QED
    BY <1>4, <1>6, <1>7, <2>1, <2>5, Zenon
<1>11. ASSUME NEW i \in 1..m PROVE Chunk(padded, i, 8) = Chunk(bits, i, 8)
  <2>1. PICK w \in Width : w = 8
    BY <1>0
  <2>2. w * m <= Len(bits) /\ w * m <= Len(padded)
    BY <1>2, <1>6, <2>1
  <2>3. /\ Chunk(bits, i, w) \in Seq(Bit) /\ Len(Chunk(bits, i, w)) = w
        /\ \A j \in 1..w : Chunk(bits, i, w)[j] = bits[Place(i, j, w)]
    BY <1>2, <2>2, ChunkType
  <2>4. /\ Chunk(padded, i, w) \in Seq(Bit) /\ Len(Chunk(padded, i, w)) = w
        /\ \A j \in 1..w : Chunk(padded, i, w)[j] = padded[Place(i, j, w)]
    BY <2>2, ChunkType
  <2>5. ASSUME NEW j \in 1..w PROVE bits[Place(i, j, w)] = padded[Place(i, j, w)]
    <3>1. Place(i, j, w) \in 1..(w * m)
      BY PlaceFacts
    <3>2. Place(i, j, w) \in 1..n
      BY <1>n, <2>1, <3>1
    <3> QED
      BY <1>5, <3>2
  <2>6. Chunk(padded, i, w) = Chunk(bits, i, w)
    BY <2>3, <2>4, <2>5, SameElements
  <2> QED
    BY <2>1, <2>6
<1>12. GroupsIn(padded, 8, m) = program
  <2>1. \A i \in 1..m : NumberIn(2, Chunk(padded, i, 8)) = program[i]
    BY <1>2, <1>11
  <2>2. program = [i \in 1..m |-> program[i]]
    BY <1>m
  <2>3. GroupsIn(padded, 8, m) = [i \in 1..m |-> program[i]]
    BY <2>1, Zenon DEF GroupsIn
  <2> QED
    BY <2>2, <2>3
<1> QED
  BY <1>10, <1>12
-----------------------------------------------------------------------------
(* Bech32 addresses *)

(* An address whose text is that of a version and a program: the data are  *)
(* as they were encoded, whatever the network and the checksum.            *)
Spells(a, version, program) ==
    \E groups, z :
      /\ z \in 0..4 /\ RegroupedAs(program, groups, z)
      /\ a.data = <<version>> \o groups

IsBech32(a) == a = [format |-> "bech32", hrp |-> a.hrp, data |-> a.data, check |-> a.check]

LEMMA GroupsFive == Group(5) = 0..31
BY DEF Group

LEMMA EncodesTo ==
  ASSUME NEW hrp, NEW version, NEW program \in Seq(Octet), NEW a \in encode_bech32(hrp, version, program)
  PROVE  Spells(a, version, program) /\ IsBech32(a) /\ a.check.data = a.data
<1>1. PICK groups, z : z \in 0..4 /\ RegroupedAs(program, groups, z)
  BY RegroupUp
<1>2. PICK g \in convert_bits(program, 8, 5, TRUE) :
        a = [format |-> "bech32", hrp |-> hrp, data |-> <<version>> \o g,
             check  |-> [hrp |-> hrp, data |-> <<version>> \o g, bech32m |-> version # 0]]
  BY Zenon DEF encode_bech32
<1>3. g = groups
  BY <1>1, <1>2 DEF RegroupedAs
<1>4. IsBech32(a) /\ a.data = <<version>> \o g /\ a.check.data = <<version>> \o g
  BY <1>2 DEF IsBech32
<1>5. Spells(a, version, program)
  BY <1>1, <1>3, <1>4, Zenon DEF Spells
<1> QED
  BY <1>4, <1>5

(* The data of an address: a version and groups.                           *)
LEMMA SpelledData ==
  ASSUME NEW version, NEW groups \in Seq(0..31), NEW data, data = <<version>> \o groups
  PROVE  /\ data[1] = version /\ Tail(data) = groups /\ Len(data) = 1 + Len(groups)
         /\ \A i \in 1..Len(groups) : data[1 + i] = groups[i]
<1>1. PICK S : S = {version} \cup (0..31)
  OBVIOUS
<1>2. PICK g \in Seq(S) : g = groups
  BY <1>1
<1>3. <<version>> \in Seq(S) /\ Len(<<version>>) = 1 /\ <<version>>[1] = version
  BY <1>1
<1>4. data = <<version>> \o g
  BY <1>2
<1>5. /\ data \in Seq(S) /\ Len(data) = 1 + Len(g) /\ data[1] = version
      /\ \A i \in 1..Len(g) : data[1 + i] = g[i]
  <2>1. PICK v \in Seq(S) : v = <<version>> /\ Len(v) = 1 /\ v[1] = version
    BY <1>3
  <2>2. PICK n \in Nat : n = Len(g)
    OBVIOUS
  <2>3. v \o g \in Seq(S) /\ Concatenates(v, g, 1, n)
    BY <2>1, <2>2, ConcatenatesAt
  <2>4. 1 \in 1..1
    OBVIOUS
  <2> QED
    BY <1>4, <2>1, <2>2, <2>3, <2>4, Zenon DEF Concatenates
<1>6. Tail(data) \in Seq(S) /\ Len(Tail(data)) = Len(g) /\ \A i \in 1..Len(g) : Tail(data)[i] = g[i]
  BY <1>5
<1>7. Tail(data) = g
  BY <1>6, SameElements
<1> QED
  BY <1>2, <1>5, <1>7

(* Whatever an address is read as is what it spells.                       *)
LEMMA DecodesOnly ==
  ASSUME NEW a, NEW version, NEW program \in Seq(Octet), Spells(a, version, program),
         NEW w \in decode_bech32_address(a)
  PROVE  w = [version |-> version, program |-> program]
<1>1. PICK groups, z : z \in 0..4 /\ RegroupedAs(program, groups, z) /\ a.data = <<version>> \o groups
  BY Zenon DEF Spells
<1>2. groups \in Seq(0..31)
  BY <1>1, GroupsFive DEF RegroupedAs
<1>3. a.data[1] = version /\ Tail(a.data) = groups
  BY <1>1, <1>2, SpelledData
<1>4. \E p \in convert_bits(Tail(a.data), 5, 8, FALSE) : w = [version |-> a.data[1], program |-> p]
  BY Zenon DEF decode_bech32_address
<1>5. convert_bits(groups, 5, 8, FALSE) = {program}
  BY <1>1, RegroupDown
<1> QED
  BY <1>3, <1>4, <1>5, Zenon

(* A text whose checksum is of other data is read as nothing.              *)
LEMMA DecodesNothing ==
  ASSUME NEW a, a.check.data # a.data
  PROVE  decode_bech32_address(a) = {}
BY Zenon DEF decode_bech32_address

ScriptOf(version, program) == <<IF version = 0 THEN 0 ELSE 80 + version, Len(program)>> \o program

LEMMA ScriptSpelled ==
  ASSUME NEW a, a.format = "bech32", NEW version, NEW program \in Seq(Octet), Spells(a, version, program),
         NEW script \in address_to_script_pubkey(a)
  PROVE  script = ScriptOf(version, program)
<1>1. PICK w \in decode_bech32_address(a) :
        script = <<IF w.version = 0 THEN 0 ELSE 80 + w.version, Len(w.program)>> \o w.program
  BY Zenon DEF address_to_script_pubkey
<1>2. w = [version |-> version, program |-> program]
  BY DecodesOnly
<1>3. w.version = version /\ w.program = program
  BY <1>2
<1> QED
  BY <1>1, <1>3, Zenon DEF ScriptOf

LEMMA MistypedChanges ==
  ASSUME NEW a, NEW version, NEW program \in Seq(Octet), Len(program) # 0, Spells(a, version, program),
         IsBech32(a), a.check.data = a.data
  PROVE  decode_bech32_address([a EXCEPT !.data[2] = (@ + 8) % 32]) = {}
<1>1. PICK groups, z : z \in 0..4 /\ RegroupedAs(program, groups, z) /\ a.data = <<version>> \o groups
  BY Zenon DEF Spells
<1>2. groups \in Seq(0..31) /\ 5 * Len(groups) = 8 * Len(program) + z
  BY <1>1, GroupsFive DEF RegroupedAs
<1>3. Len(groups) \in Nat /\ Len(program) \in Nat /\ Len(groups) >= 1
  <2>1. PICK n \in Nat : n = Len(groups)
    BY <1>2
  <2>2. PICK m \in Nat : m = Len(program) /\ m # 0
    OBVIOUS
  <2>3. 5 * n = 8 * m + z
    BY <1>2, <2>1, <2>2
  <2>4. n >= 1
    BY <1>1, <2>2, <2>3
  <2> QED
    BY <2>1, <2>2, <2>4
<1>4. PICK x \in 0..31 : a.data[2] = x /\ 2 \in DOMAIN a.data
  <2>1. Len(a.data) = 1 + Len(groups) /\ \A i \in 1..Len(groups) : a.data[1 + i] = groups[i]
    BY <1>1, <1>2, SpelledData
  <2>2. 1 \in 1..Len(groups) /\ 1 + 1 = 2
    BY <1>3
  <2>3. a.data[1 + 1] = groups[1]
    BY <2>1, <2>2, Zenon
  <2>4. groups[1] \in 0..31
    <3>1. PICK S : S = 0..31 /\ groups \in Seq(S)
      BY <1>2
    <3>2. groups[1] \in S
      BY <2>2, <3>1, Elements
    <3> QED
      BY <3>1, <3>2
  <2>5. 2 \in 1..Len(a.data)
    BY <1>3, <2>1
  <2>6. DOMAIN a.data = 1..Len(a.data)
    <3>1. PICK S : S = {version} \cup (0..31)
      OBVIOUS
    <3>2. groups \in Seq(S) /\ <<version>> \in Seq(S)
      BY <1>2, <3>1
    <3>3. <<version>> \o groups \in Seq(S)
      BY <3>2
    <3>4. PICK d \in Seq(S) : d = a.data
      BY <1>1, <3>3
    <3> QED
      BY <3>4
  <2> QED
    BY <2>2, <2>3, <2>4, <2>5, <2>6
<1> DEFINE b == [a EXCEPT !.data[2] = (@ + 8) % 32]
<1>r. b.data = [a.data EXCEPT ![2] = (@ + 8) % 32] /\ b.check = a.check
  BY DEF IsBech32
<1>5. b.data[2] = (x + 8) % 32
  BY <1>4, <1>r
<1>6. (x + 8) % 32 # x
  OBVIOUS
<1>8. b.check.data # b.data
  BY <1>4, <1>5, <1>6, <1>r
<1> QED
  BY <1>8, DecodesNothing

(* However a Bech32 address is spelled, the script is that of its version  *)
(* and program.                                                            *)
LEMMA ConvertedSpells ==
  ASSUME NEW a, NEW version, NEW program \in Seq(Octet), Spells(a, version, program), NEW testnet,
         NEW b \in bitcoin_convert_address_network(a, testnet)
  PROVE  Spells(b, version, program) /\ IsBech32(b)
<1>1. PICK w, hrp : w \in decode_bech32_address(a) /\ b \in encode_bech32(hrp, w.version, w.program)
  BY Zenon DEF bitcoin_convert_address_network
<1>2. w = [version |-> version, program |-> program]
  <2>1. PICK v \in decode_bech32_address(a) : v = w
    BY <1>1
  <2>2. v = [version |-> version, program |-> program]
    BY DecodesOnly
  <2> QED
    BY <2>1, <2>2
<1>3. w.version = version /\ w.program = program
  BY <1>2
<1>4. b \in encode_bech32(hrp, version, program)
  BY <1>1, <1>3
<1> QED
  BY <1>4, EncodesTo

IsSpelling(spelling) == spelling \in {"shown", "converted", "mistyped", "bech32"}

LEMMA SpelledBech32 ==
  ASSUME NEW a, NEW version, NEW program \in Seq(Octet), Len(program) # 0, Spells(a, version, program),
         IsBech32(a), a.check.data = a.data, NEW spelling, IsSpelling(spelling),
         NEW b \in Spelled(a, spelling), NEW script \in address_to_script_pubkey(b)
  PROVE  script = ScriptOf(version, program)
<1>f. a.format = "bech32"
  BY DEF IsBech32
<1>1. CASE spelling = "shown"
  <2>1. Spelled(a, spelling) = {a}
    BY <1>1 DEF Spelled
  <2>2. b = a
    BY <2>1
  <2> QED
    BY <1>f, <2>2, ScriptSpelled
<1>2. CASE spelling = "converted"
  <2>1. Spelled(a, spelling) = bitcoin_convert_address_network(a, a.hrp = "bc")
    BY <1>2 DEF Spelled
  <2>2. PICK testnet : b \in bitcoin_convert_address_network(a, testnet)
    BY <2>1
  <2>3. Spells(b, version, program) /\ IsBech32(b)
    BY <2>2, ConvertedSpells
  <2>4. b.format = "bech32"
    BY <2>3 DEF IsBech32
  <2> QED
    BY <2>3, <2>4, ScriptSpelled
<1>3. CASE spelling = "mistyped"
  <2>1. Spelled(a, spelling) = {[a EXCEPT !.data[2] = (@ + 8) % 32]}
    BY <1>3, <1>f DEF Spelled
  <2>2. b = [a EXCEPT !.data[2] = (@ + 8) % 32] /\ b.format = "bech32"
    BY <2>1 DEF IsBech32
  <2>3. decode_bech32_address(b) = {}
    BY <2>2, MistypedChanges
  <2>4. address_to_script_pubkey(b) = {}
    BY <2>2, <2>3, Zenon DEF address_to_script_pubkey
  <2> QED
    BY <2>4
<1>4. CASE spelling = "bech32"
  <2>1. Spelled(a, spelling) = {[a EXCEPT !.check.bech32m = ~@]}
    BY <1>4 DEF Spelled
  <2>2. b.format = "bech32" /\ b.data = a.data
    BY <2>1 DEF IsBech32
  <2>3. Spells(b, version, program)
    BY <2>2, Zenon DEF Spells
  <2> QED
    BY <2>2, <2>3, ScriptSpelled
<1> QED
  BY <1>1, <1>2, <1>3, <1>4 DEF IsSpelling
-----------------------------------------------------------------------------
(* Base58 *)

LEMMA ZerosAre == ASSUME NEW n \in Nat PROVE Zeros(n) \in Seq(Nat) /\ Zeros(n) \in Seq(Octet) /\ Len(Zeros(n)) = n
<1>1. 0 \in Nat /\ 0 \in Octet
  BY DEF Octet
<1> QED
  BY <1>1, ZerosType

(* Zeros in front change no number.                                        *)
LEMMA NumberZeros ==
  ASSUME NEW base \in Nat, NEW s \in Seq(Nat), NEW n \in Nat
  PROVE  NumberIn(base, Zeros(n) \o s) = NumberIn(base, s)
<1>1. PICK zs \in Seq(Nat) : zs = Zeros(n) /\ Len(zs) = n /\ \A i \in 1..n : zs[i] = 0
  BY ZerosAre, ZerosType
<1>2. PICK m \in Nat : m = Len(s)
  OBVIOUS
<1>3. PICK t \in Seq(Nat) : t = zs \o s /\ Concatenates(zs, s, n, m)
  BY <1>1, <1>2, ConcatenatesAt
<1>4. Len(t) = n + Len(s) /\ (\A i \in 1..n : t[i] = 0) /\ \A i \in 1..Len(s) : s[i] = t[n + i]
  BY <1>1, <1>2, <1>3 DEF Concatenates
<1>5. NumberIn(base, t) = NumberIn(base, s)
  BY <1>4, NumberShift
<1> QED
  BY <1>1, <1>3, <1>5

(* There are as many leading zeros as stand in front of something else.    *)
LEMMA LeadingZerosAre ==
  ASSUME NEW s \in Seq(Nat), NEW z \in Nat, z <= Len(s), \A i \in 1..z : s[i] = 0,
         z < Len(s) => s[z + 1] # 0
  PROVE  LeadingZeros(s) = z
<1>1. PICK k \in 0..Len(s) : k = LeadingZeros(s)
  BY LeadingZerosFacts
<1>2. (\A i \in 1..k : s[i] = 0) /\ (k < Len(s) => s[k + 1] # 0)
  BY <1>1, LeadingZerosFacts
<1>3. ~(k < z)
  <2> SUFFICES ASSUME k < z PROVE FALSE
    OBVIOUS
  <2>1. k < Len(s) /\ k + 1 \in 1..z
    BY <1>1
  <2> QED
    BY <1>2, <2>1
<1>4. ~(z < k)
  <2> SUFFICES ASSUME z < k PROVE FALSE
    OBVIOUS
  <2>1. z < Len(s) /\ z + 1 \in 1..k
    BY <1>1
  <2> QED
    BY <1>2, <2>1
<1> QED
  BY <1>1, <1>3, <1>4

LEMMA LeadingZerosOfBoth ==
  ASSUME NEW s \in Seq(Nat), s = << >> \/ s[1] # 0, NEW z \in Nat
  PROVE  LeadingZeros(Zeros(z) \o s) = z
<1>1. PICK zs \in Seq(Nat) : zs = Zeros(z) /\ Len(zs) = z /\ \A i \in 1..z : zs[i] = 0
  BY ZerosAre, ZerosType
<1>2. PICK m \in Nat : m = Len(s)
  OBVIOUS
<1>3. PICK t \in Seq(Nat) : t = zs \o s /\ Concatenates(zs, s, z, m)
  BY <1>1, <1>2, ConcatenatesAt
<1>4. Len(t) = z + m /\ (\A i \in 1..z : t[i] = 0) /\ \A i \in 1..m : t[z + i] = s[i]
  BY <1>1, <1>3 DEF Concatenates
<1>5. z < Len(t) => t[z + 1] # 0
  <2> SUFFICES ASSUME z < Len(t) PROVE t[z + 1] # 0
    OBVIOUS
  <2>1. 1 \in 1..m /\ s # << >>
    BY <1>2, <1>4
  <2> QED
    BY <1>4, <2>1
<1>6. LeadingZeros(t) = z
  <2>1. z <= Len(t)
    BY <1>2, <1>4
  <2> QED
    BY <1>4, <1>5, <2>1, LeadingZerosAre
<1> QED
  BY <1>1, <1>3, <1>6

LEMMA BytesIn58 == \A k \in Nat : Values(k) <= Power(58, 2 * k)
<1> DEFINE T == {k \in Nat : Values(k) <= Power(58, 2 * k)}
<1>0. 58 \in Nat
  OBVIOUS
<1>1. 0 \in T
  BY <1>0, ValuesFacts, PowerFacts
<1>2. ASSUME NEW k \in Nat, k \in T PROVE k + 1 \in T
  <2>1. PICK m \in Nat : m = 2 * k /\ 2 * (k + 1) = (m + 1) + 1
    OBVIOUS
  <2>2. PICK p \in Nat : p = Power(58, m)
    BY <1>0, PowerFacts
  <2>3. Power(58, m + 1) = 58 * p
    BY <1>0, <2>2, PowerFacts
  <2>4. Power(58, (m + 1) + 1) = 58 * (58 * p)
    BY <1>0, <2>3, PowerFacts
  <2>5. PICK v \in Nat : v = Values(k) /\ Values(k + 1) = 256 * v
    BY ValuesFacts
  <2>6. v <= p
    BY <1>2, <2>1, <2>2, <2>5
  <2>7. 256 * v <= 58 * (58 * p)
    BY <2>6
  <2>8. Values(k + 1) <= Power(58, 2 * (k + 1))
    BY <2>1, <2>4, <2>5, <2>7
  <2> QED
    BY <2>8
<1> HIDE DEF T
<1>3. Nat \subseteq T
  BY <1>1, <1>2, Induct
<1> QED
  BY <1>3 DEF T

(* As many digits as a number has.                                         *)
Fits58(n, size) == n < Power(58, size) /\ (size = 0 \/ n >= Power(58, size - 1))

LEMMA SizeIn58 ==
  ASSUME NEW bytes \in Seq(Octet)
  PROVE  \E size \in 0..(2 * Len(bytes)) : Fits58(Number(bytes), size)
<1>0. PICK k \in Nat : k = Len(bytes)
  OBVIOUS
<1>1. PICK n \in Nat : n = Number(bytes) /\ n < Values(k)
  BY <1>0, NumberBound
<1>2. PICK m \in Nat : m = 2 * k
  OBVIOUS
<1>p. \A i \in Nat : Power(58, i) \in Nat
  <2>1. 58 \in Nat
    OBVIOUS
  <2> QED
    BY <2>1, PowerFacts
<1>3. n < Power(58, m)
  <2>1. Values(k) <= Power(58, m) /\ Values(k) \in Nat
    BY <1>2, BytesIn58, ValuesFacts
  <2> QED
    BY <1>1, <1>2, <1>p, <2>1
<1> DEFINE T == {i \in Nat : n < Power(58, i)}
<1>4. PICK size \in T : \A i \in T : size <= i
  <2>1. m \in T /\ T \subseteq Nat
    BY <1>3
  <2> HIDE DEF T
  <2> QED
    BY <2>1, Least
<1>5. size \in 0..m /\ n < Power(58, size)
  BY <1>3, <1>4
<1>6. size # 0 => n >= Power(58, size - 1)
  <2> SUFFICES ASSUME size # 0, ~(n >= Power(58, size - 1)) PROVE FALSE
    OBVIOUS
  <2>1. size - 1 \in Nat /\ ~(size <= size - 1)
    BY <1>5
  <2>2. n < Power(58, size - 1)
    BY <1>p, <2>1
  <2> QED
    BY <1>4, <2>1, <2>2
<1>7. Fits58(n, size)
  BY <1>5, <1>6 DEF Fits58
<1> QED
  BY <1>0, <1>1, <1>2, <1>5, <1>7

LEMMA FirstDigit ==
  ASSUME NEW n \in Nat, NEW p \in Nat, p > 0, p <= n, n < 58 * p
  PROVE  (n \div p) % 58 # 0
<1>1. n \div p \in Nat /\ n \div p >= 1 /\ n \div p < 58
  OBVIOUS
<1> QED
  BY <1>1

LEMMA DigitsAreNumbers ==
  ASSUME NEW top \in Nat, NEW s \in Seq(0..top)
  PROVE  s \in Seq(Nat)
OBVIOUS

(* The digits of bytes: zeros for their leading zeros, and those of their  *)
(* number, of which the first is none.                                     *)
EncodedAs(bytes, digits) ==
    /\ encode_base58(bytes) = Zeros(LeadingZeros(bytes)) \o digits
    /\ digits \in Seq(Nat) /\ (digits = << >> \/ digits[1] # 0)
    /\ NumberIn(58, digits) = Number(bytes)

LEMMA Encodes58 ==
  ASSUME NEW bytes \in Seq(Octet)
  PROVE  \E digits : EncodedAs(bytes, digits)
<1>1. PICK n \in Nat : n = Number(bytes)
  BY NumberBound
<1> DEFINE size == CHOOSE k \in 0..(2 * Len(bytes)) : Fits58(n, k)
<1>2. size \in 0..(2 * Len(bytes)) /\ Fits58(n, size)
  BY <1>1, SizeIn58
<1>3. encode_base58(bytes) = Zeros(LeadingZeros(bytes)) \o DigitsIn(58, n, size)
  BY <1>1, Zenon DEF encode_base58, Zeros, Fits58
<1> HIDE DEF size
<1>4. PICK k \in Nat : k = size /\ Fits58(n, k)
  <2>1. Len(bytes) \in Nat
    OBVIOUS
  <2> QED
    BY <1>2, <2>1
<1>5. PICK digits : digits = DigitsIn(58, n, k)
  OBVIOUS
<1>6. /\ digits \in Seq(0..57) /\ Len(digits) = k
      /\ \A i \in 1..k : digits[i] = (n \div Power(58, k - i)) % 58
  <2>1. PICK base \in Base : base = 58 /\ base - 1 = 57
    BY DEF Base
  <2>2. /\ DigitsIn(base, n, k) \in Seq(0..(base - 1)) /\ Len(DigitsIn(base, n, k)) = k
        /\ \A i \in 1..k : DigitsIn(base, n, k)[i] = (n \div Power(base, k - i)) % base
    BY DigitsInType
  <2> QED
    BY <1>5, <2>1, <2>2, Zenon
<1>7. NumberIn(58, digits) = n
  <2>1. PICK base \in Base : base = 58
    BY DEF Base
  <2>2. n < Power(base, k)
    BY <1>4, <2>1, Zenon DEF Fits58
  <2>3. NumberIn(base, DigitsIn(base, n, k)) = n
    BY <2>2, DigitsInNumber
  <2> QED
    BY <1>5, <2>1, <2>3, Zenon
<1>8. digits = << >> \/ digits[1] # 0
  <2>1. CASE k = 0
    BY <1>6, <2>1, EmptySeq
  <2>2. CASE k # 0
    <3>1. PICK j \in Nat : j = k - 1 /\ k = j + 1
      BY <2>2
    <3>2. PICK p \in Nat : p = Power(58, j) /\ p > 0 /\ Power(58, j + 1) = 58 * p
      <4>1. 58 \in Nat /\ 58 \in Nat \ {0}
        OBVIOUS
      <4> QED
        BY <4>1, PowerFacts, PowerPositive
    <3>3. p <= n /\ n < 58 * p
      BY <1>4, <2>2, <3>1, <3>2 DEF Fits58
    <3>4. (n \div p) % 58 # 0
      BY <3>2, <3>3, FirstDigit
    <3>5. 1 \in 1..k /\ k - 1 = j
      BY <2>2, <3>1
    <3> QED
      BY <1>6, <3>2, <3>4, <3>5
  <2> QED
    BY <2>1, <2>2
<1>9. digits \in Seq(Nat)
  <2>1. PICK top \in Nat : top = 57
    OBVIOUS
  <2>2. digits \in Seq(0..top)
    BY <1>6, <2>1, Zenon
  <2> QED
    BY <2>2, DigitsAreNumbers
<1>10. EncodedAs(bytes, digits)
  BY <1>1, <1>3, <1>4, <1>5, <1>7, <1>8, <1>9, Zenon DEF EncodedAs
<1> QED
  BY <1>10
-----------------------------------------------------------------------------
(* The bytes of a number *)

LEMMA ValuesAbove == \A n \in Nat : n < Values(n)
<1> DEFINE T == {n \in Nat : n < Values(n)}
<1>1. 0 \in T
  BY ValuesFacts
<1>2. ASSUME NEW n \in Nat, n \in T PROVE n + 1 \in T
  <2>1. PICK v \in Nat : v = Values(n) /\ Values(n + 1) = 256 * v
    BY ValuesFacts
  <2>2. n < v
    BY <1>2, <2>1
  <2>3. n + 1 < 256 * v
    BY <2>2
  <2> QED
    BY <2>1, <2>3
<1> HIDE DEF T
<1>3. Nat \subseteq T
  BY <1>1, <1>2, Induct
<1> QED
  BY <1>3 DEF T

LEMMA Below256 == ASSUME NEW n \in Nat, NEW p \in Nat, p > 0 PROVE (n \div p < 256) <=> (n < 256 * p)
OBVIOUS

HasSize(n, size) == /\ n \div Values(size - 1) < 256
                    /\ size = 1 \/ n >= Values(size - 1)

LEMMA SizeExists == ASSUME NEW n \in Nat PROVE \E size \in 1..(n + 1) : HasSize(n, size)
<1>v. \A i \in Nat : Values(i) \in Nat /\ Values(i) > 0
  BY ValuesPositive
<1> DEFINE T == {i \in Nat : n < Values(i)}
<1>1. PICK k \in T : \A i \in T : k <= i
  <2>1. n \in T /\ T \subseteq Nat
    BY ValuesAbove
  <2> HIDE DEF T
  <2> QED
    BY <2>1, Least
<1>2. k \in 0..n /\ n < Values(k)
  BY <1>1, ValuesAbove
<1>3. CASE k = 0
  <2>1. n = 0 /\ Values(1 - 1) = 1
    BY <1>2, <1>3, ValuesFacts
  <2>2. HasSize(n, 1)
    BY <2>1 DEF HasSize
  <2>3. 1 \in 1..(n + 1)
    OBVIOUS
  <2> QED
    BY <2>2, <2>3
<1>4. CASE k # 0
  <2>1. PICK j \in Nat : j = k - 1 /\ k = j + 1
    BY <1>2, <1>4
  <2>2. PICK p \in Nat : p = Values(j) /\ p > 0 /\ Values(j + 1) = 256 * p
    BY ValuesFacts, ValuesPositive
  <2>3. ~(n < p)
    <3> SUFFICES ASSUME n < p PROVE FALSE
      OBVIOUS
    <3>1. j \in T
      BY <2>2
    <3> QED
      BY <1>1, <2>1, <3>1
  <2>4. n \div p < 256
    BY <1>2, <2>1, <2>2, Below256
  <2>5. HasSize(n, k)
    BY <2>1, <2>2, <2>3, <2>4 DEF HasSize
  <2>6. k \in 1..(n + 1)
    BY <1>2, <1>4
  <2> QED
    BY <2>5, <2>6
<1> QED
  BY <1>3, <1>4

LEMMA MinimalFacts ==
  ASSUME NEW n \in Nat
  PROVE  /\ MinimalBytes(n) \in Seq(Octet) /\ Number(MinimalBytes(n)) = n
         /\ n > 0 => IsCanonical(MinimalBytes(n))
<1> DEFINE size == CHOOSE k \in 1..(n + 1) : HasSize(n, k)
<1>1. size \in 1..(n + 1) /\ HasSize(n, size)
  BY SizeExists
<1>2. MinimalBytes(n) = BigEndian(n, size)
  BY Zenon DEF MinimalBytes, HasSize
<1> HIDE DEF size
<1>3. PICK j \in Nat, k \in Nat : j + 1 = k /\ k = size /\ j = size - 1
  BY <1>1
<1>4. PICK p \in Nat : p = Values(j) /\ p > 0 /\ Values(j + 1) = 256 * p
  BY ValuesFacts, ValuesPositive
<1>5. n < Values(k)
  <2>1. n \div p < 256
    BY <1>1, <1>3, <1>4 DEF HasSize
  <2>2. n < 256 * p
    BY <1>4, <2>1, Below256
  <2> QED
    BY <1>3, <1>4, <2>2
<1>6. PICK s \in Seq(Octet) : s = BigEndian(n, k) /\ Len(s) = k
  BY BigEndianType
<1>7. Number(s) = n
  BY <1>5, <1>6, BigEndianNumber
<1>8. ASSUME n > 0 PROVE s[1] # 0
  <2>1. n >= p
    <3>1. CASE size = 1
      BY <1>3, <1>4, <1>8, <3>1, ValuesFacts
    <3>2. CASE size # 1
      BY <1>1, <1>3, <1>4, <3>2 DEF HasSize
    <3> QED
      BY <3>1, <3>2
  <2> SUFFICES ASSUME s[1] = 0 PROVE FALSE
    OBVIOUS
  <2>2. PICK t \in Seq(Octet) : Len(t) = j /\ \A i \in 1..j : t[i] = s[1 + i]
    <3>1. Tail(s) \in Seq(Octet) /\ Len(Tail(s)) = j /\ \A i \in 1..j : Tail(s)[i] = s[1 + i]
      BY <1>3, <1>6
    <3> QED
      BY <3>1
  <2>3. Number(s) = Number(t)
    <3>1. s \in Seq(Nat) /\ t \in Seq(Nat)
      BY BytesAreNumbers
    <3>2. Len(s) = 1 + Len(t) /\ (\A i \in 1..1 : s[i] = 0) /\ \A i \in 1..Len(t) : t[i] = s[1 + i]
      BY <1>3, <1>6, <2>2
    <3>3. 1 \in Nat /\ 256 \in Nat
      OBVIOUS
    <3> QED
      BY <3>1, <3>2, <3>3, NumberShift DEF Number
  <2>4. Number(t) < Values(j)
    BY <2>2, NumberBound
  <2> QED
    BY <1>4, <1>7, <2>1, <2>3, <2>4
<1>9. n > 0 => IsCanonical(s)
  BY <1>8 DEF IsCanonical
<1> QED
  BY <1>2, <1>3, <1>6, <1>7, <1>9

-----------------------------------------------------------------------------
(* What a legacy address is read as *)

(* The bytes that the digits of a legacy address are read as.              *)
Filled(digits) ==
    LET size == 1 + KeyHashSize + CheckSize
        n == NumberIn(58, digits)
        filled == size - Len(MinimalBytes(n))
        zeros == IF LeadingZeros(digits) < filled THEN filled ELSE LeadingZeros(digits)
    IN Zeros(zeros) \o MinimalBytes(n)

Payload(bytes) == SubSeq(bytes, 1, 1 + KeyHashSize)

(* Bytes of the right size with the checksum of their payload.             *)
Checked(bytes) ==
    /\ Len(bytes) = 1 + KeyHashSize + CheckSize
    /\ Check(Payload(bytes)) = SubSeq(bytes, 2 + KeyHashSize, 1 + KeyHashSize + CheckSize)
    /\ Payload(bytes)[1] \in LegacyVersion

LEMMA DecodesChecked ==
  ASSUME NEW a, NEW w \in decode_base58check_address(a)
  PROVE  /\ Checked(Filled(a.digits))
         /\ w = [version |-> Payload(Filled(a.digits))[1], hash |-> Tail(Payload(Filled(a.digits)))]
BY Zenon DEF decode_base58check_address, Checked, Filled, Payload, Zeros

(* Leading zeros and the number are all there is of bytes.                 *)
LEMMA ZerosAndStripped ==
  ASSUME NEW s \in Seq(Octet)
  PROVE  /\ Zeros(LeadingZeros(s)) \o Stripped(s) = s
         /\ LeadingZeros(s) \in Nat /\ Len(s) = LeadingZeros(s) + Len(Stripped(s))
<1>0. PICK n \in Nat : n = Len(s)
  OBVIOUS
<1>n. s \in Seq(Nat)
  BY BytesAreNumbers
<1>1. PICK k \in 0..n : k = LeadingZeros(s)
  BY <1>0, <1>n, LeadingZerosFacts
<1>z. \A i \in 1..k : s[i] = 0
  BY <1>1, <1>n, LeadingZerosFacts
<1>2. PICK u \in Seq(Octet), m \in Nat :
        u = Stripped(s) /\ m = n - k /\ Len(u) = m /\ \A i \in 1..m : u[i] = s[k + i]
  <2>1. k + 1 \in 1..(Len(s) + 1) /\ n \in 0..Len(s) /\ k + 1 <= n + 1 /\ n - (k + 1) + 1 = n - k
    BY <1>0
  <2>2. PICK j \in 1..(Len(s) + 1) : j = k + 1
    BY <2>1
  <2>3. PICK u : u = SubSeq(s, j, n)
    OBVIOUS
  <2>4. u \in Seq(Octet) /\ Len(u) = n - j + 1 /\ \A i \in 1..(n - j + 1) : u[i] = s[j + i - 1]
    BY <2>1, <2>2, <2>3, SubSeqType
  <2>5. \A i \in 1..(n - k) : u[i] = s[k + i]
    <3> SUFFICES ASSUME NEW i \in 1..(n - k) PROVE u[i] = s[k + i]
      OBVIOUS
    <3>1. i \in 1..(n - j + 1) /\ j + i - 1 = k + i
      BY <2>2
    <3> QED
      BY <2>4, <3>1
  <2>6. u = Stripped(s)
    BY <1>0, <1>1, <2>2, <2>3, Zenon DEF Stripped
  <2>7. Len(u) = n - k /\ n - k \in Nat
    BY <2>2, <2>4
  <2> QED
    BY <2>4, <2>5, <2>6, <2>7
<1>3. PICK zs \in Seq(Octet) : zs = Zeros(k) /\ Len(zs) = k /\ \A i \in 1..k : zs[i] = 0
  BY ZerosAre, ZerosType
<1>4. PICK t \in Seq(Octet) : t = zs \o u /\ Concatenates(zs, u, k, m)
  <2>1. k \in Nat
    OBVIOUS
  <2> QED
    BY <1>2, <1>3, <2>1, ConcatenatesAt
<1>5. Len(t) = n /\ (\A i \in 1..k : t[i] = s[i]) /\ \A i \in 1..m : t[k + i] = s[k + i]
  <2>1. Len(t) = k + m /\ (\A i \in 1..k : t[i] = zs[i]) /\ \A i \in 1..m : t[k + i] = u[i]
    BY <1>4, Zenon DEF Concatenates
  <2>2. Len(t) = n
    BY <1>2, <2>1
  <2>3. \A i \in 1..k : t[i] = s[i]
    BY <1>3, <1>z, <2>1, Zenon
  <2>4. \A i \in 1..m : t[k + i] = s[k + i]
    BY <1>2, <2>1, Zenon
  <2> QED
    BY <2>2, <2>3, <2>4
<1>6. \A i \in 1..n : t[i] = s[i]
  <2> SUFFICES ASSUME NEW i \in 1..n PROVE t[i] = s[i]
    OBVIOUS
  <2>1. CASE i <= k
    BY <1>5, <2>1
  <2>2. CASE i > k
    <3>1. PICK j \in 1..m : j = i - k /\ k + j = i
      BY <1>2, <2>2
    <3> QED
      BY <1>5, <3>1
  <2> QED
    BY <2>1, <2>2
<1>7. t = s
  BY <1>0, <1>5, <1>6, SameElements
<1> QED
  BY <1>0, <1>1, <1>2, <1>3, <1>4, <1>7

(* Digits that are the number of bytes, without more zeros in front, are   *)
(* read as those bytes.                                                    *)
Names(digits, bytes) ==
    /\ digits \in Seq(Nat) /\ NumberIn(58, digits) = Number(bytes)
    /\ LeadingZeros(digits) \in Nat /\ LeadingZeros(digits) <= LeadingZeros(bytes)

LEMMA FilledAs ==
  ASSUME NEW bytes \in Seq(Octet), Len(bytes) = 1 + KeyHashSize + CheckSize, Number(bytes) > 0,
         NEW digits, Names(digits, bytes)
  PROVE  Filled(digits) = bytes
<1>1. PICK n \in Nat : n = Number(bytes) /\ n > 0
  BY NumberBound
<1>2. PICK s \in Seq(Octet), t \in Seq(Octet) :
        /\ s = MinimalBytes(n) /\ t = Stripped(bytes)
        /\ IsCanonical(s) /\ IsCanonical(t) /\ Number(s) = n /\ Number(t) = n
  BY <1>1, MinimalFacts, StrippedFacts
<1>3. s = t
  BY <1>2, CanonicalUnique
<1>4. PICK k \in Nat : k = LeadingZeros(bytes) /\ Len(bytes) = k + Len(s)
  BY <1>2, <1>3, ZerosAndStripped
<1>5. PICK z \in Nat : z = LeadingZeros(digits) /\ z <= k
  BY <1>4 DEF Names
<1>6. (1 + KeyHashSize + CheckSize) - Len(s) = k
  <2>1. Len(s) \in Nat
    OBVIOUS
  <2> QED
    BY <1>4, <2>1
<1>7. (IF z < k THEN k ELSE z) = k
  BY <1>5
<1>8. Filled(digits) = Zeros(k) \o s
  BY <1>1, <1>2, <1>5, <1>6, <1>7, Zenon DEF Filled, Names
<1> QED
  BY <1>2, <1>3, <1>4, <1>8, ZerosAndStripped

(* The bytes of a legacy address: a version, the hash of a key and their   *)
(* checksum.                                                               *)
LegacyBytes(version, key) == <<version>> \o Hash160(key) \o Check(<<version>> \o Hash160(key))

IsNetwork(version) == version \in {0, 111}

LEMMA SizesKnown ==
  /\ KeyHashSize \in Nat /\ KeyHashSize >= 1 /\ CheckSize \in Nat /\ CheckSize >= 1
  /\ BtcKey \subseteq Octet \ {0}
BY BtcAssumption

LEMMA HashType ==
  ASSUME NEW key \in BtcKey
  PROVE  Hash160(key) \in Seq(Octet) /\ Len(Hash160(key)) = KeyHashSize /\ Hash160(key)[1] = key
<1>1. key \in Octet
  BY SizesKnown
<1>2. Hash160(key) = [i \in 1..KeyHashSize |-> key]
  BY DEF Hash160
<1>3. 1 \in 1..KeyHashSize
  BY SizesKnown
<1> QED
  BY <1>1, <1>2, <1>3, SizesKnown

LEMMA PayloadType ==
  ASSUME NEW version \in Octet, NEW hash \in Seq(Octet), Len(hash) = KeyHashSize
  PROVE  /\ <<version>> \o hash \in Seq(Octet) /\ Len(<<version>> \o hash) = 1 + KeyHashSize
         /\ (<<version>> \o hash)[1] = version /\ Tail(<<version>> \o hash) = hash
         /\ \A i \in 1..KeyHashSize : (<<version>> \o hash)[1 + i] = hash[i]
<1>1. PICK v \in Seq(Octet) : v = <<version>> /\ Len(v) = 1 /\ v[1] = version
  <2>1. <<version>> \in Seq(Octet) /\ Len(<<version>>) = 1 /\ <<version>>[1] = version
    OBVIOUS
  <2> QED
    BY <2>1, Zenon
<1>2. PICK k \in Nat : k = KeyHashSize
  BY SizesKnown
<1>3. PICK p \in Seq(Octet) : p = v \o hash /\ Concatenates(v, hash, 1, k)
  BY <1>1, <1>2, ConcatenatesAt
<1>4. Len(p) = 1 + k /\ p[1] = version /\ \A i \in 1..k : p[1 + i] = hash[i]
  <2>1. 1 \in 1..1
    OBVIOUS
  <2> QED
    BY <1>1, <1>3, <2>1, Zenon DEF Concatenates
<1>5. Tail(p) \in Seq(Octet) /\ Len(Tail(p)) = k /\ \A i \in 1..k : Tail(p)[i] = p[1 + i]
  BY <1>2, <1>4
<1>6. \A i \in 1..k : Tail(p)[i] = hash[i]
  BY <1>4, <1>5
<1>7. Tail(p) = hash
  BY <1>2, <1>5, <1>6, SameElements
<1> QED
  BY <1>1, <1>2, <1>3, <1>4, <1>7

LEMMA CheckType ==
  ASSUME NEW version, IsNetwork(version), NEW key \in BtcKey
  PROVE  /\ Check(<<version>> \o Hash160(key)) \in Seq(Octet)
         /\ Len(Check(<<version>> \o Hash160(key))) = CheckSize
<1>1. Check(<<version>> \o Hash160(key)) \in [1..CheckSize -> Octet]
  BY BtcCheckAssumption DEF IsNetwork
<1>2. PICK c : c = Check(<<version>> \o Hash160(key))
  OBVIOUS
<1>3. c \in Seq(Octet) /\ Len(c) = CheckSize
  BY <1>1, <1>2, SizesKnown
<1> QED
  BY <1>2, <1>3

LEMMA LegacyBytesType ==
  ASSUME NEW version, IsNetwork(version), NEW key \in BtcKey
  PROVE  /\ LegacyBytes(version, key) \in Seq(Octet)
         /\ Len(LegacyBytes(version, key)) = 1 + KeyHashSize + CheckSize
         /\ Number(LegacyBytes(version, key)) > 0
         /\ Payload(LegacyBytes(version, key)) = <<version>> \o Hash160(key)
<1>0. version \in Octet
  BY DEF IsNetwork, Octet
<1>1. PICK p \in Seq(Octet), j \in Nat :
        p = <<version>> \o Hash160(key) /\ j = 1 + KeyHashSize /\ Len(p) = j /\ p[2] = key
  <2>1. PICK hash \in Seq(Octet) : hash = Hash160(key) /\ Len(hash) = KeyHashSize /\ hash[1] = key
    BY HashType
  <2>2. PICK p \in Seq(Octet) : p = <<version>> \o hash /\ Len(p) = 1 + KeyHashSize
                             /\ \A i \in 1..KeyHashSize : p[1 + i] = hash[i]
    <3>1. /\ <<version>> \o hash \in Seq(Octet) /\ Len(<<version>> \o hash) = 1 + KeyHashSize
          /\ \A i \in 1..KeyHashSize : (<<version>> \o hash)[1 + i] = hash[i]
      BY <1>0, <2>1, PayloadType, Zenon
    <3> QED
      BY <3>1, Zenon
  <2>3. 1 \in 1..KeyHashSize /\ 1 + 1 = 2
    BY SizesKnown
  <2>4. p[1 + 1] = hash[1]
    BY <2>2, <2>3
  <2>5. 1 + KeyHashSize \in Nat
    BY SizesKnown
  <2> QED
    BY <2>1, <2>2, <2>3, <2>4, <2>5
<1>2. PICK c \in Seq(Octet), k \in Nat : c = Check(p) /\ Len(c) = k /\ k = CheckSize
  BY <1>1, CheckType, SizesKnown
<1>3. PICK S : S = Octet
  OBVIOUS
<1>4. ComesApart(S, p, c, j, k)
  BY <1>1, <1>2, <1>3, ConcatSplits
<1>5. p \o c \in Seq(Octet) /\ Len(p \o c) = j + k /\ SubSeq(p \o c, 1, j) = p
  BY <1>3, <1>4 DEF ComesApart
<1>6. LegacyBytes(version, key) = p \o c
  BY <1>1, <1>2 DEF LegacyBytes
<1>7. PICK b \in Seq(Octet) : b = p \o c
  BY <1>5
<1>8. 2 \in 1..Len(b) /\ b[2] = key
  <2>1. Concatenates(p, c, j, k)
    BY <1>1, <1>2, ConcatenatesAt
  <2>2. 2 \in 1..j
    BY <1>1, SizesKnown
  <2>3. b[2] = p[2]
    BY <1>7, <2>1, <2>2 DEF Concatenates
  <2> QED
    BY <1>1, <1>2, <1>5, <1>7, <2>2, <2>3
<1>9. Number(b) # 0
  <2> SUFFICES ASSUME Number(b) = 0 PROVE FALSE
    OBVIOUS
  <2>1. PICK n \in Nat : n = Len(b)
    OBVIOUS
  <2>2. PICK zs \in Seq(Octet) : zs = Zeros(n) /\ Len(zs) = n /\ \A i \in 1..n : zs[i] = 0
    BY ZerosAre, ZerosType
  <2>3. Number(zs) = 0
    <3>1. PICK none \in Seq(Nat) : none = << >> /\ Len(none) = 0
      BY EmptySeq
    <3>2. 256 \in Nat /\ zs \in Seq(Nat)
      BY BytesAreNumbers
    <3>3. Len(zs) = n + Len(none) /\ (\A i \in 1..n : zs[i] = 0) /\ \A i \in 1..Len(none) : none[i] = zs[n + i]
      BY <2>2, <3>1
    <3>4. NumberIn(256, zs) = NumberIn(256, none)
      <4>1. PICK base \in Nat : base = 256
        OBVIOUS
      <4>2. zs \in Seq(Nat)
        BY <3>2
      <4>3. NumberIn(base, zs) = NumberIn(base, none)
        BY <3>3, <4>2, NumberShift
      <4> QED
        BY <4>1, <4>3, Zenon
    <3> QED
      BY <3>1, <3>2, <3>4, NumberOfNothing DEF Number
  <2>4. b = zs
    BY <2>1, <2>2, <2>3, NumberInjective
  <2>5. b[2] = 0
    BY <1>8, <2>1, <2>2, <2>4
  <2> QED
    BY <1>8, <2>5, SizesKnown
<1>10. Number(b) \in Nat
  BY NumberBound
<1> QED
  <2>1. Number(b) > 0
    BY <1>9, <1>10
  <2>2. Len(b) = 1 + KeyHashSize + CheckSize
    BY <1>1, <1>2, <1>5, <1>7, SizesKnown
  <2>3. Payload(b) = p
    BY <1>1, <1>5, <1>7, Zenon DEF Payload
  <2>4. LegacyBytes(version, key) = b
    BY <1>6, <1>7
  <2> QED
    BY <1>1, <2>1, <2>2, <2>3, <2>4, Zenon

LEMMA DecodesNamed ==
  ASSUME NEW version, IsNetwork(version), NEW key \in BtcKey, NEW a, Names(a.digits, LegacyBytes(version, key)),
         NEW w \in decode_base58check_address(a)
  PROVE  w = [version |-> version, hash |-> Hash160(key)]
<1>1. PICK b \in Seq(Octet) : b = LegacyBytes(version, key) /\ Len(b) = 1 + KeyHashSize + CheckSize
                              /\ Number(b) > 0 /\ Payload(b) = <<version>> \o Hash160(key)
  BY LegacyBytesType
<1>2. PICK digits : digits = a.digits
  OBVIOUS
<1>3. Filled(digits) = b
  BY <1>1, <1>2, FilledAs
<1>4. w = [version |-> Payload(b)[1], hash |-> Tail(Payload(b))]
  BY <1>2, <1>3, DecodesChecked
<1>5. version \in Octet
  BY DEF IsNetwork, Octet
<1>6. Payload(b)[1] = version /\ Tail(Payload(b)) = Hash160(key)
  BY <1>1, <1>5, HashType, PayloadType
<1> QED
  BY <1>4, <1>6

(* The digits of the address that is shown, and without its leading ones.  *)
LEMMA ShownNames ==
  ASSUME NEW bytes \in Seq(Octet)
  PROVE  /\ Names(encode_base58(bytes), bytes)
         /\ Names(SubSeq(encode_base58(bytes), LeadingZeros(encode_base58(bytes)) + 1, Len(encode_base58(bytes))), bytes)
<1>1. PICK ds \in Seq(Nat), k \in Nat :
        /\ k = LeadingZeros(bytes) /\ encode_base58(bytes) = Zeros(k) \o ds
        /\ ds = << >> \/ ds[1] # 0
        /\ NumberIn(58, ds) = Number(bytes)
  BY Encodes58, ZerosAndStripped DEF EncodedAs
<1>2. PICK zs \in Seq(Nat), m \in Nat : zs = Zeros(k) /\ Len(zs) = k /\ m = Len(ds)
  <2>1. Zeros(k) \in Seq(Nat) /\ Len(Zeros(k)) = k
    BY ZerosAre
  <2>2. Len(ds) \in Nat
    OBVIOUS
  <2> QED
    BY <2>1, <2>2, Zenon
<1>3. PICK S : S = Nat
  OBVIOUS
<1>4. ComesApart(S, zs, ds, k, m)
  BY <1>2, <1>3, ConcatSplits
<1>5. PICK digits \in Seq(Nat) : digits = zs \o ds /\ Len(digits) = k + m /\ SubSeq(digits, k + 1, k + m) = ds
  BY <1>3, <1>4 DEF ComesApart
<1>6. LeadingZeros(digits) = k
  BY <1>1, <1>2, <1>5, LeadingZerosOfBoth
<1>7. NumberIn(58, digits) = Number(bytes)
  <2>1. PICK base \in Nat : base = 58
    OBVIOUS
  <2>2. NumberIn(base, Zeros(k) \o ds) = NumberIn(base, ds)
    BY NumberZeros
  <2> QED
    BY <1>1, <1>2, <1>5, <2>1, <2>2
<1>8. Names(digits, bytes)
  <2>1. k <= k
    OBVIOUS
  <2> QED
    BY <1>1, <1>6, <1>7, <2>1 DEF Names
<1>9. LeadingZeros(ds) = 0
  <2>1. PICK zero \in Nat : zero = 0
    OBVIOUS
  <2>2. zero <= Len(ds) /\ (\A i \in 1..zero : ds[i] = 0) /\ (zero < Len(ds) => ds[zero + 1] # 0)
    BY <1>1, <2>1
  <2>3. LeadingZeros(ds) = zero
    BY <2>2, LeadingZerosAre
  <2> QED
    BY <2>1, <2>3
<1>10. Names(ds, bytes)
  BY <1>1, <1>9 DEF Names
<1>11. SubSeq(digits, LeadingZeros(digits) + 1, Len(digits)) = ds
  BY <1>5, <1>6
<1> QED
  BY <1>1, <1>2, <1>5, <1>8, <1>10, <1>11

(* Whatever digits are read as is a payload with its checksum, of the      *)
(* number that the digits are.                                             *)
LEMMA FilledFacts ==
  ASSUME NEW digits \in Seq(Nat), Checked(Filled(digits))
  PROVE  \E version \in LegacyVersion, hash \in [1..KeyHashSize -> Octet] :
           NumberIn(58, digits) = Number(<<version>> \o hash \o Check(<<version>> \o hash))
<1>1. PICK n \in Nat : n = NumberIn(58, digits)
  <2>1. PICK base \in Nat : base = 58
    OBVIOUS
  <2>2. NumberIn(base, digits) \in Nat
    BY NumberType
  <2> QED
    BY <2>1, <2>2
<1>2. PICK m \in Seq(Octet) : m = MinimalBytes(n) /\ Number(m) = n
  BY MinimalFacts
<1>3. PICK z \in Nat : Filled(digits) = Zeros(z) \o m
  <2>1. LeadingZeros(digits) \in Nat
    BY LeadingZerosFacts
  <2>2. PICK f \in Int : f = (1 + KeyHashSize + CheckSize) - Len(m)
    <3>1. Len(m) \in Nat
      OBVIOUS
    <3>2. (1 + KeyHashSize + CheckSize) - Len(m) \in Int
      BY <3>1, SizesKnown
    <3> QED
      BY <3>2, Zenon
  <2>3. (IF LeadingZeros(digits) < f THEN f ELSE LeadingZeros(digits)) \in Nat
    BY <2>1, <2>2
  <2>4. Filled(digits) = Zeros(IF LeadingZeros(digits) < f THEN f ELSE LeadingZeros(digits)) \o m
    BY <1>1, <1>2, <2>2, Zenon DEF Filled
  <2> QED
    BY <2>3, <2>4, Zenon
<1>4. PICK zs \in Seq(Octet) : zs = Zeros(z)
  BY ZerosAre
<1>5. PICK b \in Seq(Octet) : b = Filled(digits) /\ b = zs \o m
  <2>1. zs \o m \in Seq(Octet)
    OBVIOUS
  <2> QED
    BY <1>3, <1>4, <2>1, Zenon
<1>6. Number(b) = n
  <2>1. PICK base \in Nat : base = 256
    OBVIOUS
  <2>2. m \in Seq(Nat)
    BY BytesAreNumbers
  <2>3. NumberIn(base, Zeros(z) \o m) = NumberIn(base, m)
    BY <2>2, NumberZeros
  <2> QED
    BY <1>2, <1>4, <1>5, <2>1, <2>3 DEF Number
<1>7. PICK j \in Nat, k \in Nat : j = 1 + KeyHashSize /\ k = CheckSize /\ Len(b) = j + k /\ j >= 2
  BY <1>5, SizesKnown DEF Checked
<1>8. PICK p \in Seq(Octet), c \in Seq(Octet) :
        p = SubSeq(b, 1, j) /\ c = SubSeq(b, j + 1, j + k) /\ b = p \o c /\ Len(p) = j
  <2>1. 1 \in 1..(Len(b) + 1) /\ j \in 0..Len(b) /\ 1 <= j + 1 /\ j - 1 + 1 = j
    BY <1>7
  <2>2. PICK one \in 1..(Len(b) + 1) : one = 1
    BY <2>1
  <2>3. SubSeq(b, one, j) \in Seq(Octet) /\ Len(SubSeq(b, one, j)) = j - one + 1
        /\ \A i \in 1..(j - one + 1) : SubSeq(b, one, j)[i] = b[one + i - 1]
    BY <2>1, <2>2, SubSeqType
  <2>4. PICK p \in Seq(Octet) : p = SubSeq(b, 1, j) /\ Len(p) = j /\ \A i \in 1..j : p[i] = b[i]
    <3>1. SubSeq(b, 1, j) \in Seq(Octet) /\ Len(SubSeq(b, 1, j)) = j
      BY <2>2, <2>3
    <3>2. \A i \in 1..j : SubSeq(b, 1, j)[i] = b[i]
      BY <2>2, <2>3
    <3> QED
      BY <3>1, <3>2, Zenon
  <2>5. PICK next \in 1..(Len(b) + 1), all \in 0..Len(b) : next = j + 1 /\ all = j + k /\ next <= all + 1
    <3>1. j + 1 \in 1..(Len(b) + 1) /\ j + k \in 0..Len(b) /\ j + 1 <= (j + k) + 1
      BY <1>7
    <3> QED
      BY <3>1, Zenon
  <2>6. SubSeq(b, next, all) \in Seq(Octet) /\ Len(SubSeq(b, next, all)) = all - next + 1
        /\ \A i \in 1..(all - next + 1) : SubSeq(b, next, all)[i] = b[next + i - 1]
    BY <2>5, SubSeqType
  <2>7. PICK c \in Seq(Octet) : c = SubSeq(b, j + 1, j + k) /\ Len(c) = k /\ \A i \in 1..k : c[i] = b[j + i]
    <3>1. SubSeq(b, j + 1, j + k) \in Seq(Octet) /\ Len(SubSeq(b, j + 1, j + k)) = k
      BY <2>5, <2>6
    <3>2. \A i \in 1..k : SubSeq(b, j + 1, j + k)[i] = b[j + i]
      <4> SUFFICES ASSUME NEW i \in 1..k PROVE SubSeq(b, j + 1, j + k)[i] = b[j + i]
        OBVIOUS
      <4>1. i \in 1..(all - next + 1) /\ next + i - 1 = j + i
        BY <2>5
      <4> QED
        BY <2>5, <2>6, <4>1
    <3> QED
      BY <3>1, <3>2, Zenon
  <2>8. PICK t \in Seq(Octet) : t = p \o c /\ Concatenates(p, c, j, k)
    BY <2>4, <2>7, ConcatenatesAt
  <2>9. Len(t) = j + k /\ (\A i \in 1..j : t[i] = p[i]) /\ \A i \in 1..k : t[j + i] = c[i]
    BY <2>8, Zenon DEF Concatenates
  <2>10. \A i \in 1..(j + k) : t[i] = b[i]
    <3> SUFFICES ASSUME NEW i \in 1..(j + k) PROVE t[i] = b[i]
      OBVIOUS
    <3>1. CASE i \in 1..j
      BY <2>4, <2>9, <3>1
    <3>2. CASE i \notin 1..j
      <4>1. PICK l \in 1..k : l = i - j /\ j + l = i
        BY <3>2
      <4> QED
        BY <2>7, <2>9, <4>1
    <3> QED
      BY <3>1, <3>2
  <2>11. t = b
    BY <1>7, <2>9, <2>10, SameElements
  <2> QED
    BY <2>4, <2>7, <2>8, <2>11
<1>9. Check(p) = c /\ p[1] \in LegacyVersion
  <2>1. 2 + KeyHashSize = j + 1 /\ 1 + KeyHashSize + CheckSize = j + k
    BY <1>7, SizesKnown
  <2> QED
    BY <1>5, <1>7, <1>8, <2>1, Zenon DEF Checked, Payload
<1>10. PICK version \in Octet, hash \in Seq(Octet) :
         version = p[1] /\ hash = Tail(p) /\ Len(hash) = KeyHashSize /\ p = <<version>> \o hash
  <2>1. p[1] \in Octet /\ Tail(p) \in Seq(Octet) /\ Len(Tail(p)) = KeyHashSize
        /\ \A i \in 1..KeyHashSize : Tail(p)[i] = p[1 + i]
    <3>1. PICK h \in Nat : h = KeyHashSize /\ h >= 1
      BY SizesKnown
    <3>2. Len(p) = 1 + h /\ 1 \in 1..Len(p)
      BY <1>7, <1>8, <3>1
    <3>3. p[1] \in Octet
      BY <3>2, Elements
    <3>4. Tail(p) \in Seq(Octet) /\ Len(Tail(p)) = h
      BY <3>1, <3>2
    <3>5. \A i \in 1..h : Tail(p)[i] = p[1 + i]
      BY <3>2
    <3> QED
      BY <3>1, <3>3, <3>4, <3>5
  <2>2. PICK version \in Octet, hash \in Seq(Octet) : version = p[1] /\ hash = Tail(p) /\ Len(hash) = KeyHashSize
    BY <2>1
  <2>3. PICK t \in Seq(Octet) : t = <<version>> \o hash /\ Len(t) = 1 + KeyHashSize /\ t[1] = version
                               /\ \A i \in 1..KeyHashSize : t[1 + i] = hash[i]
    <3>1. /\ <<version>> \o hash \in Seq(Octet) /\ Len(<<version>> \o hash) = 1 + KeyHashSize
          /\ (<<version>> \o hash)[1] = version
          /\ \A i \in 1..KeyHashSize : (<<version>> \o hash)[1 + i] = hash[i]
      BY <2>2, PayloadType, Zenon
    <3> QED
      BY <3>1, Zenon
  <2>4. \A i \in 1..j : t[i] = p[i]
    <3> SUFFICES ASSUME NEW i \in 1..j PROVE t[i] = p[i]
      OBVIOUS
    <3>1. CASE i = 1
      BY <2>2, <2>3, <3>1
    <3>2. CASE i # 1
      <4>1. PICK l \in 1..KeyHashSize : 1 + l = i
        <5>1. i - 1 \in 1..KeyHashSize /\ 1 + (i - 1) = i
          BY <1>7, <3>2, SizesKnown
        <5> QED
          BY <5>1
      <4> QED
        BY <2>1, <2>2, <2>3, <4>1
    <3> QED
      BY <3>1, <3>2
  <2>5. t = p
    BY <1>7, <1>8, <2>3, <2>4, SameElements
  <2> QED
    BY <2>2, <2>3, <2>5, Zenon
<1>11. NumberIn(58, digits) = Number(<<version>> \o hash \o Check(<<version>> \o hash))
  BY <1>1, <1>6, <1>8, <1>9, <1>10
<1>12. version \in LegacyVersion /\ hash \in [1..KeyHashSize -> Octet]
  <2>1. PICK h \in Nat : h = KeyHashSize /\ Len(hash) = h
    BY <1>10, SizesKnown
  <2>2. hash \in [1..h -> Octet]
    BY <2>1
  <2> QED
    BY <1>9, <1>10, <2>1, <2>2
<1> QED
  BY <1>11, <1>12

-----------------------------------------------------------------------------
(* What a payment goes to *)

To(p) == [kind |-> p.kind, key |-> p.key]

Scripted(p, script) == script = Standard(To(p))

LEMMA LegacyScript ==
  ASSUME NEW a, a.format = "base58", NEW version, IsNetwork(version), NEW key \in BtcKey,
         Names(a.digits, LegacyBytes(version, key)), NEW script \in address_to_script_pubkey(a)
  PROVE  script = p2pkh_script_pubkey(Hash160(key))
<1>1. PICK w \in decode_base58check_address(a) :
        script = IF w.version \in {0, 111} THEN p2pkh_script_pubkey(w.hash) ELSE p2sh_script_pubkey(w.hash)
  <2>1. ~(a.format = "bech32")
    OBVIOUS
  <2> QED
    BY <2>1, Zenon DEF address_to_script_pubkey
<1>2. w = [version |-> version, hash |-> Hash160(key)]
  BY DecodesNamed
<1>3. w.version = version /\ w.hash = Hash160(key)
  BY <1>2
<1> QED
  BY <1>1, <1>3, Zenon DEF IsNetwork

LEMMA LegacyPaid ==
  ASSUME NEW p \in Payment, p.kind = "pkh", NEW script \in Scripts[p]
  PROVE  Scripted(p, script)
<1>1. p.key \in BtcKey /\ p.spelling \in {"shown", "mistyped", "stripped"}
  BY BtcRequestAssumption DEF IsPayment
<1>a. PICK a \in Shown(p) : \E b \in Spelled(a, p.spelling) : script \in address_to_script_pubkey(b)
  BY Zenon DEF Scripts
<1>b. PICK b \in Spelled(a, p.spelling) : script \in address_to_script_pubkey(b)
  BY <1>a
<1>2. a \in Shown(p) /\ b \in Spelled(a, p.spelling) /\ script \in address_to_script_pubkey(b)
  BY <1>a, <1>b
<1>3. PICK key, version : key \in BtcKey /\ key = p.key /\ IsNetwork(version) /\ a = encode_base58check(version, Hash160(key))
  <2>1. Shown(p) = pubkey_to_p2pkh_address(p.key, p.testnet)
    BY DEF Shown
  <2>2. a = encode_base58check(IF p.testnet THEN 111 ELSE 0, Hash160(p.key))
    BY <1>2, <2>1, Zenon DEF pubkey_to_p2pkh_address
  <2>3. IsNetwork(IF p.testnet THEN 111 ELSE 0)
    BY DEF IsNetwork
  <2> QED
    BY <1>1, <2>2, <2>3, Zenon
<1>4. PICK bytes \in Seq(Octet) : bytes = LegacyBytes(version, key)
  BY <1>3, LegacyBytesType
<1>5. a = [format |-> "base58", digits |-> encode_base58(bytes)]
  BY <1>3, <1>4, Zenon DEF encode_base58check, LegacyBytes
<1>6. a.format = "base58" /\ a.digits = encode_base58(bytes)
  BY <1>5
<1>7. CASE p.spelling = "shown"
  <2>1. Spelled(a, p.spelling) = {a}
    BY <1>7 DEF Spelled
  <2>2. b = a
    BY <1>2, <2>1
  <2>3. b.format = "base58" /\ Names(b.digits, LegacyBytes(version, key))
    BY <1>4, <1>6, <2>2, ShownNames
  <2>4. script = p2pkh_script_pubkey(Hash160(key))
    BY <1>2, <1>3, <2>3, LegacyScript
  <2> QED
    BY <1>3, <2>4 DEF Scripted, Standard, To, p2pkh_script_pubkey
<1>8. CASE p.spelling = "stripped"
  <2>1. Spelled(a, p.spelling) = {[a EXCEPT !.digits = SubSeq(@, LeadingZeros(@) + 1, Len(@))]}
    BY <1>8 DEF Spelled
  <2>2. b = [a EXCEPT !.digits = SubSeq(@, LeadingZeros(@) + 1, Len(@))]
    BY <1>2, <2>1
  <2>3. b.format = "base58" /\ b.digits = SubSeq(a.digits, LeadingZeros(a.digits) + 1, Len(a.digits))
    BY <1>5, <2>2
  <2>4. Names(b.digits, LegacyBytes(version, key))
    BY <1>4, <1>6, <2>3, ShownNames
  <2>5. script = p2pkh_script_pubkey(Hash160(key))
    BY <1>2, <1>3, <2>3, <2>4, LegacyScript
  <2> QED
    BY <1>3, <2>5 DEF Scripted, Standard, To, p2pkh_script_pubkey
<1>9. CASE p.spelling = "mistyped"
  <2>1. Spelled(a, p.spelling) = {[a EXCEPT !.digits = Mistyped(@)]}
    BY <1>6, <1>9 DEF Spelled
  <2>2. b = [a EXCEPT !.digits = Mistyped(@)]
    BY <1>2, <2>1
  <2>3. b.format = "base58" /\ b.digits = Mistyped(a.digits)
    BY <1>5, <2>2
  <2>4. PICK w : w \in decode_base58check_address(b)
    <3>1. ~(b.format = "bech32")
      BY <2>3
    <3> QED
      BY <1>2, <3>1, Zenon DEF address_to_script_pubkey
  <2>5. PICK digits \in Seq(Nat) : digits = b.digits
    <3>1. PICK ds \in Seq(Nat) : ds = a.digits
      BY <1>6, ShownNames DEF Names
    <3>2. \A x \in Nat : (x + 1) % 58 \in Nat
      OBVIOUS
    <3>3. [ds EXCEPT ![2] = (@ + 1) % 58] \in Seq(Nat)
      <4>1. PICK l \in Nat : l = Len(ds) /\ ds \in [1..l -> Nat]
        OBVIOUS
      <4>2. 2 \in 1..l => (ds[2] + 1) % 58 \in Nat
        BY <3>2, <4>1
      <4>3. [ds EXCEPT ![2] = (ds[2] + 1) % 58] \in [1..l -> Nat]
        BY <4>1, <4>2
      <4> QED
        BY <4>1, <4>3
    <3> QED
      BY <2>3, <3>1, <3>3 DEF Mistyped
  <2>6. Checked(Filled(digits))
    BY <2>4, <2>5, DecodesChecked
  <2>7. PICK v \in LegacyVersion, hash \in [1..KeyHashSize -> Octet] :
          NumberIn(58, digits) = Number(<<v>> \o hash \o Check(<<v>> \o hash))
    BY <2>6, FilledFacts
  <2>8. NumberIn(58, Mistyped(a.digits)) # Number(<<v>> \o hash \o Check(<<v>> \o hash))
    BY <1>2, <1>9, BtcCheckAssumption, Zenon
  <2> QED
    BY <2>3, <2>5, <2>7, <2>8
<1> QED
  BY <1>1, <1>7, <1>8, <1>9

LEMMA XOnlyType ==
  ASSUME NEW scalar, scalar.key \in BtcKey
  PROVE  XOnly(scalar) \in Seq(Octet) /\ Len(XOnly(scalar)) = XOnlySize /\ XOnlySize # 0
<1>1. XOnlySize \in Nat /\ XOnlySize # 0 /\ scalar.key \in Octet
  BY BtcAssumption
<1>2. PICK kind \in Octet : XOnly(scalar) = [i \in 1..XOnlySize |-> IF i = 1 THEN scalar.key ELSE kind]
  <2>1. (IF ~scalar.tweaked THEN 0 ELSE IF scalar.negated THEN 1 ELSE 2) \in Octet
    BY DEF Octet
  <2> QED
    BY <2>1, Zenon DEF XOnly
<1> QED
  BY <1>1, <1>2

(* The address shown is the one whose key the signer recognises: the build *)
(* for wasm32 shows such an address only of a key that has an even y.      *)
ShowsStandard == WasmBuild => OddKey = {}

LEMMA SegwitPaid ==
  ASSUME NEW p \in Payment, p.kind # "pkh", ShowsStandard, NEW script \in Scripts[p]
  PROVE  Scripted(p, script)
<1>1. p.key \in BtcKey /\ IsSpelling(p.spelling) /\ p.kind \in {"wpkh", "tr", "raw"}
  BY BtcRequestAssumption DEF IsPayment, IsSpelling
<1>a. PICK a \in Shown(p) : \E b \in Spelled(a, p.spelling) : script \in address_to_script_pubkey(b)
  BY Zenon DEF Scripts
<1>b. PICK b \in Spelled(a, p.spelling) : script \in address_to_script_pubkey(b)
  BY <1>a
<1>2. a \in Shown(p) /\ b \in Spelled(a, p.spelling) /\ script \in address_to_script_pubkey(b)
  BY <1>a, <1>b
<1>3. PICK key \in BtcKey : key = p.key
  BY <1>1
<1>4. ASSUME NEW hrp, NEW version, NEW program \in Seq(Octet), Len(program) # 0,
             a \in encode_bech32(hrp, version, program)
      PROVE  script = ScriptOf(version, program)
  <2>1. Spells(a, version, program) /\ IsBech32(a) /\ a.check.data = a.data
    BY <1>4, EncodesTo
  <2> QED
    BY <1>1, <1>2, <1>4, <2>1, SpelledBech32
<1>5. CASE p.kind = "wpkh"
  <2>1. Shown(p) = pubkey_to_p2wpkh_address(key, p.testnet)
    BY <1>3, <1>5 DEF Shown
  <2>2. PICK hrp : a \in encode_bech32(hrp, 0, Hash160(key))
    BY <1>2, <2>1, Zenon DEF pubkey_to_p2wpkh_address
  <2>3. Hash160(key) \in Seq(Octet) /\ Len(Hash160(key)) = KeyHashSize /\ Len(Hash160(key)) # 0
    BY HashType, SizesKnown
  <2>4. script = ScriptOf(0, Hash160(key))
    BY <1>4, <2>2, <2>3
  <2> QED
    BY <1>3, <1>5, <2>3, <2>4 DEF Scripted, Standard, To, ScriptOf
<1>6. CASE p.kind = "tr"
  <2> DEFINE output == [key |-> key, negated |-> key \in OddKey, tweaked |-> TRUE]
             program == XOnly(output)
  <2>1. Shown(p) = derive_btc_taproot_address_for_network(key, p.testnet)
    BY <1>3, <1>6 DEF Shown
  <2>2. PICK hrp : a \in encode_bech32(hrp, 1, program)
    <3>1. output = IF WasmBuild THEN [key |-> key, negated |-> FALSE, tweaked |-> TRUE]
                   ELSE [key |-> key, negated |-> key \in OddKey, tweaked |-> TRUE]
      <4>1. CASE WasmBuild
        <5>1. (key \in OddKey) = FALSE
          BY <4>1 DEF ShowsStandard
        <5> QED
          BY <4>1, <5>1
      <4>2. CASE ~WasmBuild
        BY <4>2
      <4> QED
        BY <4>1, <4>2
    <3>2. a \in encode_bech32(IF p.testnet THEN "tb" ELSE "bc", 1, XOnly(IF WasmBuild THEN [key |-> key, negated |-> FALSE, tweaked |-> TRUE]
                   ELSE [key |-> key, negated |-> key \in OddKey, tweaked |-> TRUE]))
      BY <1>2, <2>1, Zenon DEF derive_btc_taproot_address_for_network
    <3>3. a \in encode_bech32(IF p.testnet THEN "tb" ELSE "bc", 1, XOnly(output))
      BY <3>1, <3>2, Zenon
    <3> QED
      BY <3>3, Zenon
  <2>3. output.key \in BtcKey /\ output.key = key /\ output.tweaked = TRUE /\ output.negated = (key \in OddKey)
    OBVIOUS
  <2>4. program = [i \in 1..XOnlySize |-> IF i = 1 THEN key ELSE IF key \in OddKey THEN 1 ELSE 2]
    <3> HIDE DEF output
    <3> QED
      BY <2>3 DEF XOnly
  <2>5. program \in Seq(Octet) /\ Len(program) = XOnlySize /\ Len(program) # 0
    BY <2>3, XOnlyType, Zenon
  <2> HIDE DEF output, program
  <2>6. script = ScriptOf(1, program)
    BY <1>4, <2>2, <2>5
  <2>7. script = <<81, XOnlySize>> \o program
    BY <2>5, <2>6 DEF ScriptOf
  <2> QED
    BY <1>3, <1>6, <2>4, <2>7 DEF Scripted, Standard, To
<1>7. CASE p.kind = "raw"
  <2> DEFINE program == XOnly(SecretScalar(key))
  <2>1. Shown(p) = encode_bech32("bc", 1, program)
    BY <1>3, <1>7 DEF Shown
  <2>2. a \in encode_bech32("bc", 1, program)
    BY <1>2, <2>1
  <2>3. SecretScalar(key).key \in BtcKey /\ SecretScalar(key).key = key /\ SecretScalar(key).tweaked = FALSE
    BY DEF SecretScalar
  <2>4. program = [i \in 1..XOnlySize |-> IF i = 1 THEN key ELSE 0]
    BY <2>3 DEF XOnly
  <2>5. program \in Seq(Octet) /\ Len(program) = XOnlySize /\ Len(program) # 0
    BY <2>3, XOnlyType, Zenon
  <2> HIDE DEF program
  <2>6. script = ScriptOf(1, program)
    BY <1>4, <2>2, <2>5
  <2>7. script = <<81, XOnlySize>> \o program
    BY <2>5, <2>6 DEF ScriptOf
  <2> QED
    BY <1>3, <1>7, <2>4, <2>7 DEF Scripted, Standard, To
<1> QED
  BY <1>1, <1>5, <1>6, <1>7

(* A coin is the one of a payment, with the script of the key that was     *)
(* shown.                                                                  *)
Pays(coin, o, p) ==
    /\ o = p.outpoint /\ coin.value = p.value
    /\ coin.to = To(p) /\ Scripted(p, coin.script)

CoinPaid(coin, o) == \E p \in Payment : Pays(coin, o, p)

CoinsPaid == \A o \in DOMAIN btcCoins : CoinPaid(btcCoins[o], o)

LEMMA ReceivePays ==
  ASSUME ShowsStandard, CoinsPaid, NEW p \in Payment, Receive(p)
  PROVE  CoinsPaid'
<1>1. PICK script \in Scripts[p] :
        btcCoins' = [o \in DOMAIN btcCoins \cup {p.outpoint} |->
           IF o = p.outpoint THEN [value |-> p.value, script |-> script,
                                   to |-> [kind |-> p.kind, key |-> p.key]]
           ELSE btcCoins[o]]
  BY Zenon DEF Receive
<1>2. Scripted(p, script)
  BY LegacyPaid, SegwitPaid, <1>1
<1>3. ASSUME NEW o \in DOMAIN (btcCoins') PROVE CoinPaid(btcCoins'[o], o)
  <2>1. CASE o = p.outpoint
    <3> DEFINE coin == [value |-> p.value, script |-> script, to |-> [kind |-> p.kind, key |-> p.key]]
    <3>1. coin.value = p.value /\ coin.to = [kind |-> p.kind, key |-> p.key] /\ coin.script = script
      OBVIOUS
    <3>2. btcCoins'[o] = coin
      BY <1>1, <2>1
    <3> HIDE DEF coin
    <3>3. Pays(coin, o, p)
      BY <1>2, <2>1, <3>1 DEF Pays, To
    <3> QED
      BY <3>2, <3>3, Zenon DEF CoinPaid
  <2>2. CASE o # p.outpoint
    <3>1. o \in DOMAIN btcCoins /\ btcCoins'[o] = btcCoins[o]
      BY <1>1, <1>3, <2>2
    <3> QED
      BY <3>1, Zenon DEF CoinsPaid
  <2> QED
    BY <2>1, <2>2
<1> QED
  BY <1>3, Zenon DEF CoinsPaid

LEMMA ConfirmPays ==
  ASSUME CoinsPaid, NEW w, Confirm(w)
  PROVE  CoinsPaid'
<1>1. PICK t : btcCoins' = [o \in DOMAIN btcCoins \ Range(Outpoints(t)) |-> btcCoins[o]]
  BY Zenon DEF Confirm
<1>2. ASSUME NEW o \in DOMAIN (btcCoins') PROVE CoinPaid(btcCoins'[o], o)
  <2>1. o \in DOMAIN btcCoins /\ btcCoins'[o] = btcCoins[o]
    BY <1>1, <1>2
  <2> QED
    BY <2>1, Zenon DEF CoinsPaid
<1> QED
  BY <1>2, Zenon DEF CoinsPaid

(* Every coin there ever is is one of a payment, and has the script of the *)
(* key and kind of the address that a wallet showed for it.                *)
THEOREM CoinsAreThoseOfPayments == ShowsStandard => (BtcSpec => []CoinsPaid)
<1> SUFFICES ASSUME ShowsStandard PROVE BtcSpec => []CoinsPaid
  OBVIOUS
<1>1. BtcInit => CoinsPaid
  <2> SUFFICES ASSUME BtcInit PROVE CoinsPaid
    OBVIOUS
  <2>1. DOMAIN btcCoins = {}
    BY DEF BtcInit
  <2> QED
    BY <2>1 DEF CoinsPaid
<1>2. CoinsPaid /\ [BtcNext]_btcVars => CoinsPaid'
  <2> SUFFICES ASSUME CoinsPaid, [BtcNext]_btcVars PROVE CoinsPaid'
    OBVIOUS
  <2>1. ASSUME UNCHANGED btcCoins PROVE CoinsPaid'
    BY <2>1, Zenon DEF CoinsPaid, CoinPaid, Pays
  <2>2. ASSUME NEW p \in Payment, Receive(p) PROVE CoinsPaid'
    BY <2>2, ReceivePays
  <2>3. ASSUME NEW key, NEW json, BtcSign(key, json) PROVE CoinsPaid'
    BY <2>1, <2>3 DEF BtcSign
  <2>4. ASSUME NEW w, Confirm(w) PROVE CoinsPaid'
    BY <2>4, ConfirmPays
  <2>5. ASSUME NEW w, Forget(w) PROVE CoinsPaid'
    BY <2>1, <2>5 DEF Forget
  <2> QED
    BY <2>1, <2>2, <2>3, <2>4, <2>5, Zenon DEF BtcNext, btcVars
<1> QED
  BY <1>1, <1>2, PTL DEF BtcSpec

(* A payment goes to the script that the standards give for the key and    *)
(* kind of address that was shown, however the address was spelled on the  *)
(* way, in native builds and wherever no key has an odd y.                 *)
THEOREM PaymentsFindTheirKey == ShowsStandard => (BtcSpec => []PaymentsGoToTheShownKey)
<1> SUFFICES ASSUME ShowsStandard PROVE BtcSpec => []PaymentsGoToTheShownKey
  OBVIOUS
<1>1. CoinsPaid => PaymentsGoToTheShownKey
  <2> SUFFICES ASSUME CoinsPaid, NEW o \in DOMAIN btcCoins
               PROVE  btcCoins[o].script = Standard(btcCoins[o].to)
    BY DEF PaymentsGoToTheShownKey
  <2>1. PICK p \in Payment : Pays(btcCoins[o], o, p)
    BY DEF CoinsPaid, CoinPaid
  <2> QED
    BY <2>1, Zenon DEF Pays, Scripted
<1>2. BtcSpec => []CoinsPaid
  BY CoinsAreThoseOfPayments
<1> QED
  BY <1>1, <1>2, PTL
-----------------------------------------------------------------------------
(* The network finds what was written *)

LEMMA TwoBytes == Values(0) = 1 /\ Values(1) = 256 /\ Values(2) = 65536
<1>1. PICK z \in Nat, o \in Nat : z = 0 /\ o = 1 /\ z + 1 = 1 /\ o + 1 = 2
  OBVIOUS
<1>2. Values(0) = 1
  BY ValuesFacts
<1>3. Values(z + 1) = 256 * Values(z)
  BY ValuesFacts
<1>4. Values(1) = 256
  BY <1>1, <1>2, <1>3
<1>5. Values(o + 1) = 256 * Values(o)
  BY ValuesFacts
<1> QED
  BY <1>1, <1>2, <1>4, <1>5

Finds(reader) == reader # {}

LEMMA Pair ==
  ASSUME NEW a, NEW b
  PROVE  <<a, b>>[1] = a /\ <<a, b>>[2] = b
OBVIOUS

LEMMA TakesTwoBytes ==
  ASSUME NEW n \in Nat, n >= 253, n < 65536
  PROVE  n \in 253..MaxSize
<1>1. MaxSize \in Int /\ n <= MaxSize
  BY DEF MaxSize
<1> QED
  BY <1>1

LEMMA SizeFound ==
  ASSUME NEW m \in Seq(Octet), NEW at \in Nat \ {0}, NEW n \in Nat, n >= 253, n < Values(2),
         Holds(m, at, LittleEndian(n, 2))
  PROVE  Finds(SizeField(m, at, 2, 253))
<1> DEFINE s == LittleEndian(n, 2)
<1>1. s \in Seq(Octet) /\ Len(s) = 2 /\ Number(Reverse(s)) = n
  <2>1. PICK width \in Nat : width = 2
    OBVIOUS
  <2>2. n < Values(width)
    BY <2>1
  <2>3. IsFieldOf(LittleEndian(n, width), n, width)
    BY <2>2, LittleEndianNumber
  <2> QED
    BY <2>1, <2>3, Zenon DEF IsFieldOf
<1> HIDE DEF s
<1>2. Field(m, at, 2) = {<<s, at + 2>>}
  <2>1. PICK width \in Nat : width = 2
    OBVIOUS
  <2>2. Holds(m, at, s) /\ Len(s) = width
    BY <1>1, <2>1 DEF s
  <2>3. FieldIs(m, at, width, s)
    BY <1>1, <2>1, <2>2, FieldRead
  <2> QED
    BY <2>1, <2>3 DEF FieldIs
<1>3. n \in 253..MaxSize
  <2>1. n < 65536
    BY TwoBytes
  <2> QED
    BY <2>1, TakesTwoBytes
<1>4. PICK f : f = <<s, at + 2>> /\ f[1] = s
  BY Pair, Zenon
<1>5. f \in Field(m, at, 2) /\ Number(Reverse(f[1])) \in 253..MaxSize
  BY <1>1, <1>2, <1>3, <1>4
<1>6. <<Number(Reverse(f[1])), f[2]>> \in SizeField(m, at, 2, 253)
  BY <1>5, Zenon DEF SizeField
<1> QED
  BY <1>6 DEF Finds

LEMMA CompactFound ==
  ASSUME NEW m \in Seq(Octet), NEW at \in Nat \ {0}, NEW n \in Nat, n < Values(2),
         Holds(m, at, write_varint(n))
  PROVE  Finds(Compact(m, at))
<1>0. 253 \in Octet /\ 2 \in Nat /\ at + 1 \in Nat \ {0}
  BY DEF Octet
<1>1. CASE n < 253
  <2>1. n \in Octet
    BY <1>1 DEF Octet
  <2>2. write_varint(n) = <<n>>
    BY <1>1 DEF write_varint
  <2>3. at <= Len(m) /\ m[at] = n
    <3> DEFINE a == <<n>>
    <3>1. Len(a) = 1 /\ a[1] = n
      OBVIOUS
    <3> HIDE DEF a
    <3>2. at + 1 <= Len(m) + 1 /\ \A i \in 1..1 : m[at + i - 1] = a[i]
      BY <2>2, <3>1 DEF Holds, a
    <3>3. m[at + 1 - 1] = n /\ at + 1 - 1 = at
      BY <3>1, <3>2
    <3> QED
      BY <3>2, <3>3
  <2>4. ~(at > Len(m)) /\ m[at] < 253
    BY <1>1, <2>3
  <2> QED
    BY <2>4 DEF Compact, Finds
<1>2. CASE ~(n < 253)
  <2>1. write_varint(n) = <<253>> \o LittleEndian(n, 2)
    BY <1>2 DEF write_varint
  <2>2. PICK b \in Seq(Octet) : b = LittleEndian(n, 2)
    <3>1. LittleEndian(n, 2) \in Seq(Octet) /\ Len(LittleEndian(n, 2)) = 2
      BY <1>0, LittleEndianType, ZenonT(40)
    <3> QED
      BY <3>1
  <2>3. MarkedAt(m, at, 253, b)
    BY <1>0, <2>1, <2>2, Marked, ZenonT(40)
  <2>4. at <= Len(m) /\ m[at] = 253 /\ Holds(m, at + 1, b)
    BY <2>3, Zenon DEF MarkedAt
  <2>5. Compact(m, at) = SizeField(m, at + 1, 2, 253)
    BY <2>4 DEF Compact
  <2>6. PICK p \in Nat \ {0} : p = at + 1
    OBVIOUS
  <2>7. Finds(SizeField(m, p, 2, 253))
    BY <1>2, <2>2, <2>4, <2>6, SizeFound
  <2> QED
    BY <2>5, <2>6, <2>7
<1> QED
  BY <1>1, <1>2

LEMMA InputFound ==
  ASSUME NEW m \in Seq(Octet), NEW at \in Nat \ {0}, NEW input \in TxIn, Holds(m, at, InputBytes(input))
  PROVE  Finds(InputField(m, at))
<1>1. PICK s : s = InputBytes(input) /\ InputParts(s, input)
  BY InputLaidOut
<1>2. InputSize \in Nat
  BY Sizes DEF InputSize
<1>3. FieldIs(m, at, InputSize, s)
  BY <1>1, <1>2, FieldRead DEF InputParts
<1>4. PICK f : f = <<s, at + InputSize>> /\ f[1] = s
  BY Pair, Zenon
<1>5. f \in Field(m, at, InputSize) /\ f[1][TxidSize + WordSize + 1] = 0
  BY <1>1, <1>3, <1>4 DEF FieldIs, InputParts
<1>6. \E r : r \in InputField(m, at)
  BY <1>5, Zenon DEF InputField, InputSize
<1> QED
  BY <1>6 DEF Finds

LEMMA OutputFound ==
  ASSUME NEW m \in Seq(Octet), NEW at \in Nat \ {0}, NEW output \in TxOut,
         Len(output.script_pubkey) < Values(2), Holds(m, at, WrittenOutput(output))
  PROVE  Finds(OutputField(m, at))
<1>1. PICK s \in Seq(Octet) : s = output.script_pubkey
  BY OutputType
<1>2. PICK k \in Nat : k = Len(s) /\ k < Values(2)
  BY <1>1
<1>3. PICK c \in Seq(Octet) : c = write_varint(k) /\ Len(c) \in Nat
  BY VarintType
<1>4. PICK v \in Seq(Octet), x \in Nat \ {0} : v = LittleEndian(output.value, ValueSize) /\ Len(v) = x /\ x = ValueSize
  BY Sizes, OutputType, LittleEndianNumber, Zenon DEF IsFieldOf
<1>5. PICK t \in Seq(Octet) : t = Script(output) /\ t = c \o s
  <2>1. Script(output) = c \o s
    BY <1>1, <1>2, <1>3, Zenon DEF Script
  <2> QED
    BY <2>1, OutputType
<1>6. Holds(m, at, v) /\ Holds(m, at + x, t)
  <2>1. WrittenOutput(output) = v \o t
    BY <1>4, <1>5, Zenon DEF WrittenOutput
  <2>2. Holds(m, at, v \o t) /\ at \in Nat
    BY <2>1
  <2>3. Holds(m, at, v) /\ Holds(m, at + Len(v), t)
    BY <2>2, HoldsConcat, Zenon
  <2> QED
    BY <1>4, <2>3
<1>7. PICK p \in Nat \ {0}, q \in Nat \ {0} : p = at + x /\ q = p + Len(c)
  <2>1. PICK p \in Nat \ {0} : p = at + x
    BY <1>4
  <2>2. PICK q \in Nat \ {0} : q = p + Len(c)
    BY <1>3
  <2> QED
    BY <2>1, <2>2, Zenon
<1>8. Holds(m, p, c) /\ Holds(m, q, s)
  <2>1. Holds(m, p, c \o s) /\ p \in Nat
    BY <1>5, <1>6, <1>7
  <2>2. Holds(m, p, c) /\ Holds(m, p + Len(c), s)
    BY <2>1, HoldsConcat, Zenon
  <2> QED
    BY <1>7, <2>2
<1>9. FieldIs(m, at, x, v)
  BY <1>4, <1>6, FieldRead
<1>10. Compact(m, p) = {<<k, q>>}
  <2>1. Holds(m, p, write_varint(k))
    BY <1>3, <1>8
  <2>2. Finds(Compact(m, p))
    BY <1>2, <2>1, CompactFound
  <2>3. Compact(m, p) \subseteq {<<k, p + Len(c)>>}
    BY <1>3, <2>1, CompactRead
  <2> QED
    BY <1>7, <2>2, <2>3 DEF Finds
<1>11. FieldIs(m, q, k, s)
  BY <1>2, <1>8, FieldRead
<1>12. PICK f, n, g : /\ f = <<v, p>> /\ f[1] = v /\ f[2] = p
                      /\ n = <<k, q>> /\ n[1] = k /\ n[2] = q
                      /\ g = <<s, q + k>>
  <2>1. PICK f : f = <<v, p>> /\ f[1] = v /\ f[2] = p
    BY Pair, Zenon
  <2>2. PICK n : n = <<k, q>> /\ n[1] = k /\ n[2] = q
    BY Pair, Zenon
  <2>3. PICK g : g = <<s, q + k>>
    BY Zenon
  <2> QED
    BY <2>1, <2>2, <2>3, Zenon
<1>13. f \in Field(m, at, ValueSize) /\ n \in Compact(m, f[2]) /\ g \in Field(m, n[2], n[1])
  BY <1>4, <1>7, <1>9, <1>10, <1>11, <1>12 DEF FieldIs
<1>14. <<[value |-> Number(Reverse(f[1])), script |-> g[1]], g[2]>> \in OutputField(m, at)
  <2> DEFINE Of(ff, nn) == {<<[value |-> Number(Reverse(ff[1])), script |-> z[1]], z[2]>> :
                             z \in Field(m, nn[2], nn[1])}
             With(ff) == UNION {Of(ff, nn) : nn \in Compact(m, ff[2])}
  <2>1. <<[value |-> Number(Reverse(f[1])), script |-> g[1]], g[2]>> \in Of(f, n)
    BY <1>13, Zenon
  <2>2. OutputField(m, at) = UNION {With(ff) : ff \in Field(m, at, ValueSize)}
    BY Zenon DEF OutputField
  <2> HIDE DEF Of
  <2>3. <<[value |-> Number(Reverse(f[1])), script |-> g[1]], g[2]>> \in With(f)
    BY <1>13, <2>1, Zenon
  <2> HIDE DEF With
  <2> QED
    BY <1>13, <2>2, <2>3, Zenon
<1> QED
  BY <1>14 DEF Finds

LEMMA InputsFound ==
  ASSUME NEW m \in Seq(Octet), NEW at \in Nat \ {0}, NEW xs \in Seq(TxIn), Holds(m, at, AllInputs(xs)),
         Len(xs) <= Len(m)
  PROVE  Finds(Many(InputField, m, at, Len(xs)))
<1>0. PICK n \in Nat : n = Len(xs) /\ DOMAIN xs = 1..n
  OBVIOUS
<1>1. \A i \in 1..n : xs[i] \in TxIn
  BY <1>0, Elements
<1> DEFINE parts == [i \in 1..n |-> InputBytes(xs[i])]
           items == [i \in 1..n |-> MeantInput(xs[i])]
           S == {MeantInput(x) : x \in TxIn}
<1>2. \A i \in 1..n : parts[i] = InputBytes(xs[i]) /\ parts[i] \in Seq(Octet) /\ Len(parts[i]) = InputSize
  BY <1>1, InputLaidOut DEF InputParts
<1>3. parts \in Seq(Seq(Octet)) /\ Len(parts) = n
  <2>1. parts \in [1..n -> Seq(Octet)]
    BY <1>2
  <2> HIDE DEF parts
  <2> QED
    BY <2>1
<1>4. items \in Seq(S) /\ Len(items) = n /\ \A i \in 1..n : items[i] = MeantInput(xs[i])
  <2>1. items \in [1..n -> S]
    BY <1>1
  <2>2. \A i \in 1..n : items[i] = MeantInput(xs[i])
    OBVIOUS
  <2> HIDE DEF items, S
  <2> QED
    BY <2>1, <2>2
<1>5. AllInputs(xs) = FlattenSeq(parts)
  BY <1>0, Zenon DEF AllInputs
<1> HIDE DEF parts, items, S
<1>6. PICK place : PlacesOf(place, m, at, parts)
  BY <1>3, <1>5, PlacesExist
<1>7. \A i \in 0..n : place[i] \in Nat \ {0}
  BY <1>3, <1>6, PlacesPositive
<1>8. /\ place[0] = at
      /\ \A i \in 1..n : place[i] = place[i - 1] + Len(parts[i]) /\ Holds(m, place[i - 1], parts[i])
  BY <1>3, <1>6 DEF PlacesOf
<1>9. ASSUME NEW i \in 1..n
      PROVE  ReadsAt("input", m, place, items, i) /\ Read("input", m, place[i - 1]) # {}
  <2>1. PICK p \in Nat \ {0} : p = place[i - 1]
    <3>1. i - 1 \in 0..n
      OBVIOUS
    <3> QED
      BY <1>7, <3>1
  <2>2. Holds(m, p, InputBytes(xs[i])) /\ place[i] = p + InputSize
    BY <1>2, <1>8, <2>1
  <2>3. InputField(m, p) \subseteq {<<MeantInput(xs[i]), p + InputSize>>} /\ Finds(InputField(m, p))
    BY <1>1, <2>2, InputRead, InputFound
  <2>4. Read("input", m, p) \subseteq {<<items[i], place[i]>>} /\ Read("input", m, p) # {}
    BY <1>4, <2>2, <2>3 DEF Read, Finds
  <2> QED
    BY <2>1, <2>4, Zenon DEF ReadsAt
<1>10. FindsAll("input", m, place, n)
  BY <1>9 DEF FindsAll
<1>11. n <= Len(m) /\ Len(m) \in Nat
  BY <1>0
<1>a. \A i \in 1..Len(items) : ReadsAt("input", m, place, items, i)
  BY <1>4, <1>9
<1>12. Many(InputField, m, place[0], n) # {}
  BY <1>4, <1>a, <1>10, <1>11, ManyInputs
<1> QED
  BY <1>0, <1>8, <1>12 DEF Finds

(* Scripts of a length that has at most two bytes.                         *)
ShortScripts(xs) == \A i \in DOMAIN xs : Len(xs[i].script_pubkey) < Values(2)

LEMMA OutputsFound ==
  ASSUME NEW m \in Seq(Octet), NEW at \in Nat \ {0}, NEW xs \in Seq(TxOut), Holds(m, at, AllOutputs(xs)),
         Len(xs) <= Len(m), ShortScripts(xs)
  PROVE  Finds(Many(OutputField, m, at, Len(xs)))
<1>0. PICK n \in Nat : n = Len(xs) /\ DOMAIN xs = 1..n
  OBVIOUS
<1>1. \A i \in 1..n : xs[i] \in TxOut
  BY <1>0, Elements
<1> DEFINE parts == [i \in 1..n |-> WrittenOutput(xs[i])]
           items == [i \in 1..n |-> MeantOutput(xs[i])]
           S == {MeantOutput(x) : x \in TxOut}
<1>2. \A i \in 1..n : parts[i] = WrittenOutput(xs[i]) /\ parts[i] \in Seq(Octet)
  BY <1>1, OutputType
<1>3. parts \in Seq(Seq(Octet)) /\ Len(parts) = n
  <2>1. parts \in [1..n -> Seq(Octet)]
    BY <1>2
  <2> HIDE DEF parts
  <2> QED
    BY <2>1
<1>4. items \in Seq(S) /\ Len(items) = n /\ \A i \in 1..n : items[i] = MeantOutput(xs[i])
  <2>1. items \in [1..n -> S]
    BY <1>1
  <2>2. \A i \in 1..n : items[i] = MeantOutput(xs[i])
    OBVIOUS
  <2> HIDE DEF items, S
  <2> QED
    BY <2>1, <2>2
<1>5. AllOutputs(xs) = FlattenSeq(parts)
  BY <1>0, Zenon DEF AllOutputs
<1> HIDE DEF parts, items, S
<1>6. PICK place : PlacesOf(place, m, at, parts)
  BY <1>3, <1>5, PlacesExist
<1>7. \A i \in 0..n : place[i] \in Nat \ {0}
  BY <1>3, <1>6, PlacesPositive
<1>8. /\ place[0] = at
      /\ \A i \in 1..n : place[i] = place[i - 1] + Len(parts[i]) /\ Holds(m, place[i - 1], parts[i])
  BY <1>3, <1>6 DEF PlacesOf
<1>9. ASSUME NEW i \in 1..n
      PROVE  ReadsAt("output", m, place, items, i) /\ Read("output", m, place[i - 1]) # {}
  <2>0. "output" # "input"
    OBVIOUS
  <2>1. PICK p \in Nat \ {0} : p = place[i - 1]
    <3>1. i - 1 \in 0..n
      OBVIOUS
    <3> QED
      BY <1>7, <3>1
  <2>2. PICK size \in Nat : size = Len(WrittenOutput(xs[i]))
    <3>1. WrittenOutput(xs[i]) \in Seq(Octet)
      BY <1>1, OutputType
    <3>2. Len(WrittenOutput(xs[i])) \in Nat
      BY <3>1
    <3> QED
      BY <3>2, Zenon
  <2>3. Holds(m, p, WrittenOutput(xs[i])) /\ place[i] = p + size
    BY <1>2, <1>8, <2>1, <2>2
  <2>4. Len(xs[i].script_pubkey) < Values(2)
    BY <1>0 DEF ShortScripts
  <2>5. OutputField(m, p) \subseteq {<<MeantOutput(xs[i]), p + size>>}
    BY <1>1, <2>2, <2>3, OutputRead
  <2>6. Finds(OutputField(m, p))
    BY <1>1, <2>3, <2>4, OutputFound
  <2>7. Read("output", m, p) \subseteq {<<items[i], place[i]>>} /\ Read("output", m, p) # {}
    BY <1>4, <2>0, <2>3, <2>5, <2>6 DEF Read, Finds
  <2> QED
    BY <2>1, <2>7, Zenon DEF ReadsAt
<1>10. FindsAll("output", m, place, n)
  BY <1>9 DEF FindsAll
<1>11. n <= Len(m) /\ Len(m) \in Nat
  BY <1>0
<1>a. \A i \in 1..Len(items) : ReadsAt("output", m, place, items, i)
  BY <1>4, <1>9
<1>12. Many(OutputField, m, place[0], n) # {}
  BY <1>4, <1>a, <1>10, <1>11, ManyOutputs
<1> QED
  BY <1>0, <1>8, <1>12 DEF Finds

-----------------------------------------------------------------------------
(* A transaction that was written is found *)

LEMMA ReaderFinds ==
  ASSUME NEW reader, NEW x, Finds(reader), reader \subseteq {x}
  PROVE  x \in reader
BY DEF Finds

LEMMA TransactionFound ==
  ASSUME NEW tx, IsTx(tx), Len(tx.inputs) <= 2, Len(tx.outputs) <= 2, ShortScripts(tx.outputs),
         NEW witnesses
  PROVE  Meaning(tx) \in ReadTransaction(Serialize(tx, witnesses))
<1> DEFINE raw == Serialize(tx, witnesses)
           m == raw.body
<1>1. PICK c, q, d : LaidOut(m, tx, c, q, d)
  BY SerializedParts
<1>2. ReadTransaction(raw) \subseteq {Meaning(tx)}
  BY TransactionRead
<1> HIDE DEF raw, m
<1>3. tx.inputs \in Seq(TxIn) /\ tx.outputs \in Seq(TxOut)
  BY DEF IsTx
<1>4. PICK k \in Nat, l \in Nat : k = Len(tx.inputs) /\ l = Len(tx.outputs) /\ k <= 2 /\ l <= 2
  BY <1>3
<1>5. /\ m \in Seq(Octet) /\ c = WordSize + 3 /\ c <= Len(m)
      /\ SubSeq(m, WordSize + 1, WordSize + 2) = <<0, 1>>
  BY <1>1 DEF LaidOut
<1>6. c \in Nat \ {0} /\ k <= Len(m) /\ l <= Len(m) /\ k < Values(2) /\ l < Values(2)
  <2>1. PICK len \in Nat : len = Len(m)
    BY <1>5
  <2>2. PICK w \in Nat : w = WordSize
    BY Sizes
  <2>3. c = w + 3 /\ c <= len
    BY <1>5, <2>1, <2>2
  <2>4. k < Values(2) /\ l < Values(2)
    BY <1>4, TwoBytes
  <2> QED
    BY <1>4, <2>1, <2>3, <2>4
<1>7. PICK n : n \in Compact(m, c) /\ n[1] = k /\ n[2] = q
  <2>1. Holds(m, c, write_varint(k)) /\ q = c + Len(write_varint(k))
    BY <1>1, <1>4 DEF LaidOut
  <2>2. Compact(m, c) \subseteq {<<k, q>>}
    BY <1>5, <1>6, <2>1, CompactRead
  <2>3. Finds(Compact(m, c))
    BY <1>5, <1>6, <2>1, CompactFound
  <2>4. <<k, q>> \in Compact(m, c)
    BY <2>2, <2>3, ReaderFinds
  <2> QED
    BY <2>4, Pair, Zenon
<1>8. PICK ins : ins \in Many(InputField, m, q, k) /\ ins[1] = MeantInputs(tx.inputs) /\ ins[2] = d
  <2>1. Holds(m, q, AllInputs(tx.inputs)) /\ d = q + Len(AllInputs(tx.inputs)) /\ q \in Nat \ {0}
    BY <1>1 DEF LaidOut
  <2>2. Many(InputField, m, q, k) \subseteq {<<MeantInputs(tx.inputs), d>>}
    BY <1>3, <1>4, <1>5, <2>1, InputsRead
  <2>3. Finds(Many(InputField, m, q, k))
    BY <1>3, <1>4, <1>5, <1>6, <2>1, InputsFound
  <2>4. <<MeantInputs(tx.inputs), d>> \in Many(InputField, m, q, k)
    BY <2>2, <2>3 DEF Finds
  <2> QED
    BY <2>4, Pair, Zenon
<1>9. PICK e \in Nat \ {0} : e = d + Len(write_varint(l))
  BY <1>1, <1>4 DEF LaidOut
<1>10. PICK count : count \in Compact(m, ins[2]) /\ count[1] = l /\ count[2] = e
  <2>1. Holds(m, d, write_varint(l)) /\ d \in Nat \ {0}
    BY <1>1, <1>4 DEF LaidOut
  <2>2. Compact(m, d) \subseteq {<<l, e>>}
    BY <1>5, <1>9, <2>1, CompactRead
  <2>3. Finds(Compact(m, d))
    BY <1>5, <1>6, <2>1, CompactFound
  <2>4. <<l, e>> \in Compact(m, ins[2])
    BY <1>8, <2>2, <2>3, ReaderFinds
  <2>5. <<l, e>>[1] = l /\ <<l, e>>[2] = e
    BY Pair, Zenon
  <2> QED
    BY <1>8, <2>4, <2>5, Zenon
<1>11. PICK outs : outs \in Many(OutputField, m, e, l) /\ outs[2] = Len(m) + 1
  <2>1. Holds(m, e, AllOutputs(tx.outputs)) /\ e + Len(AllOutputs(tx.outputs)) = Len(m) + 1
    BY <1>1, <1>4, <1>9 DEF LaidOut
  <2>2. Many(OutputField, m, e, l) \subseteq {<<MeantOutputs(tx.outputs), e + Len(AllOutputs(tx.outputs))>>}
    BY <1>3, <1>4, <1>5, <2>1, OutputsRead
  <2>3. Finds(Many(OutputField, m, e, l))
    BY <1>3, <1>4, <1>5, <1>6, <2>1, OutputsFound
  <2>4. <<MeantOutputs(tx.outputs), e + Len(AllOutputs(tx.outputs))>> \in Many(OutputField, m, e, l)
    BY <2>2, <2>3 DEF Finds
  <2>5. <<MeantOutputs(tx.outputs), e + Len(AllOutputs(tx.outputs))>>[2] = e + Len(AllOutputs(tx.outputs))
    BY Pair, Zenon
  <2> QED
    BY <2>1, <2>4, <2>5, Zenon
<1>12. ReadTransaction(raw) # {}
  <2> DEFINE T(i, o) == [version |-> Number(Reverse(SubSeq(m, 1, WordSize))), ins |-> i[1], outs |-> o[1],
                         locktime |-> Number(Reverse(raw.locktime))]
             Ends(n2) == {o \in Many(OutputField, m, n2[2], n2[1]) : o[2] = Len(m) + 1}
             By2(i, n2) == {T(i, o) : o \in Ends(n2)}
             By1(i) == UNION {By2(i, n2) : n2 \in UNION {Compact(m, i[2])}}
             Firsts == UNION {Many(InputField, m, n1[2], n1[1]) : n1 \in Compact(m, c)}
  <2>1. ins \in Firsts
    BY <1>7, <1>8, Zenon
  <2>2. count \in UNION {Compact(m, ins[2])}
    BY <1>10, Zenon
  <2>3. outs \in Ends(count)
    BY <1>10, <1>11, Zenon
  <2>4. ~(Len(m) < WordSize + 3)
    <3>1. PICK len \in Nat, w \in Nat : len = Len(m) /\ w = WordSize
      BY <1>5, Sizes
    <3>2. w + 3 <= len
      BY <1>5, <3>1
    <3> QED
      BY <3>1, <3>2
  <2>5. ReadTransaction(raw) = UNION {By1(i) : i \in Firsts}
    BY <1>5, <2>4, Zenon DEF ReadTransaction, m
  <2> HIDE DEF Ends, Firsts
  <2>6. T(ins, outs) \in By2(ins, count)
    BY <2>3, Zenon
  <2> HIDE DEF By2, T
  <2>7. T(ins, outs) \in By1(ins)
    BY <2>2, <2>6, Zenon
  <2> HIDE DEF By1
  <2>8. T(ins, outs) \in ReadTransaction(raw)
    BY <2>1, <2>5, <2>7, Zenon
  <2> QED
    BY <2>8
<1> QED
  BY <1>2, <1>12 DEF raw
-----------------------------------------------------------------------------
(* The signer hashes what the network hashes *)

(* The parts that are the same for all inputs.                             *)
Prevouts(t) == FlattenSeq([i \in DOMAIN t.ins |-> t.ins[i].txid \o LittleEndian(t.ins[i].vout, WordSize)])

Sequences(t) == FlattenSeq([i \in DOMAIN t.ins |-> LittleEndian(t.ins[i].sequence, WordSize)])

CoinScripts(t, coins) == FlattenSeq([i \in DOMAIN t.ins |-> Sized(coins[Outpoints(t)[i]].script)])

PaidOutputs(t) ==
    FlattenSeq([j \in DOMAIN t.outs |-> LittleEndian(t.outs[j].value, ValueSize) \o Sized(t.outs[j].script)])

Bip143(version, prevouts, sequences, prevout, code, value, sequence, outputs, locktime) ==
    <<"bip143", version, prevouts, sequences, prevout, code, value, sequence, outputs, locktime, 1>>

Bip341(version, locktime, prevouts, values, scripts, sequences, outputs, index) ==
    <<"TapSighash", version, locktime, prevouts, values, scripts, sequences, outputs, index>>

LEMMA NetworkSegwit ==
  ASSUME NEW t, NEW coins, NEW i, coins[Outpoints(t)[i]].script[1] = 0
  PROVE  NetworkHash(t, coins, i) =
           Bip143(LittleEndian(t.version, WordSize), Prevouts(t), Sequences(t),
                  t.ins[i].txid \o LittleEndian(t.ins[i].vout, WordSize),
                  <<118, 169>> \o Tail(coins[Outpoints(t)[i]].script) \o <<136, 172>>,
                  LittleEndian(coins[Outpoints(t)[i]].value, ValueSize),
                  LittleEndian(t.ins[i].sequence, WordSize), PaidOutputs(t),
                  LittleEndian(t.locktime, WordSize))
BY Zenon DEF NetworkHash, Committed, Prevouts, Sequences, PaidOutputs, Bip143

LEMMA NetworkTaproot ==
  ASSUME NEW t, NEW coins, NEW i, coins[Outpoints(t)[i]].script[1] # 0
  PROVE  NetworkHash(t, coins, i) =
           Bip341(LittleEndian(t.version, WordSize), LittleEndian(t.locktime, WordSize), Prevouts(t),
                  CoinValues(t, coins), CoinScripts(t, coins), Sequences(t), PaidOutputs(t),
                  LittleEndian(i - 1, WordSize))
BY Zenon DEF NetworkHash, Committed, Prevouts, Sequences, PaidOutputs, CoinValues, CoinScripts, Bip341

(* Up to two bytes, both sides write a size in the same way.               *)
LEMMA SizesWritten ==
  ASSUME NEW n \in Nat, n < Values(2)
  PROVE  CompactSize(n) = write_varint(n)
BY DEF CompactSize, write_varint

LEMMA ScriptSized ==
  ASSUME NEW item, NEW script \in Seq(Octet), item.script_pubkey = script, Len(script) < Values(2)
  PROVE  Sized(script) = Script(item)
<1>1. PICK n \in Nat : n = Len(script) /\ n < Values(2)
  OBVIOUS
<1>2. CompactSize(n) = write_varint(n)
  BY <1>1, SizesWritten
<1> QED
  BY <1>1, <1>2 DEF Sized, Script

(* The coins that a transaction spends are what it says they are.          *)
SaysOf(tx, coins, j) ==
    /\ coins[Outpoints(Meaning(tx))[j]].value = tx.inputs[j].value
    /\ coins[Outpoints(Meaning(tx))[j]].script = tx.inputs[j].script_pubkey

SaysTrue(tx, coins) == \A j \in DOMAIN tx.inputs : SaysOf(tx, coins, j)

LEMMA InputsMeant ==
  ASSUME NEW tx, IsTx(tx)
  PROVE  /\ DOMAIN Meaning(tx).ins = DOMAIN tx.inputs
         /\ \A j \in DOMAIN tx.inputs :
              /\ Meaning(tx).ins[j].txid = tx.inputs[j].txid /\ Meaning(tx).ins[j].vout = tx.inputs[j].vout
              /\ Meaning(tx).ins[j].sequence = tx.inputs[j].sequence
<1>1. Meaning(tx).ins = MeantInputs(tx.inputs)
  BY DEF Meaning
<1>2. DOMAIN MeantInputs(tx.inputs) = DOMAIN tx.inputs
  BY Zenon DEF MeantInputs
<1>3. ASSUME NEW j \in DOMAIN tx.inputs PROVE MeantInputs(tx.inputs)[j] = MeantInput(tx.inputs[j])
  BY Zenon DEF MeantInputs
<1>4. ASSUME NEW x
      PROVE  MeantInput(x).txid = x.txid /\ MeantInput(x).vout = x.vout /\ MeantInput(x).sequence = x.sequence
  BY DEF MeantInput
<1> QED
  BY <1>1, <1>2, <1>3, <1>4

LEMMA OutputsMeant ==
  ASSUME NEW tx, IsTx(tx)
  PROVE  /\ DOMAIN Meaning(tx).outs = DOMAIN tx.outputs
         /\ \A j \in DOMAIN tx.outputs :
              /\ Meaning(tx).outs[j].value = tx.outputs[j].value
              /\ Meaning(tx).outs[j].script = tx.outputs[j].script_pubkey
<1>1. Meaning(tx).outs = MeantOutputs(tx.outputs)
  BY DEF Meaning
<1>2. DOMAIN MeantOutputs(tx.outputs) = DOMAIN tx.outputs
  BY Zenon DEF MeantOutputs
<1>3. ASSUME NEW j \in DOMAIN tx.outputs PROVE MeantOutputs(tx.outputs)[j] = MeantOutput(tx.outputs[j])
  BY Zenon DEF MeantOutputs
<1>4. ASSUME NEW x PROVE MeantOutput(x).value = x.value /\ MeantOutput(x).script = x.script_pubkey
  BY DEF MeantOutput
<1> QED
  BY <1>1, <1>2, <1>3, <1>4

LEMMA PartsAgree ==
  ASSUME NEW tx, IsTx(tx), ShortScripts(tx.outputs)
  PROVE  /\ Prevouts(Meaning(tx)) = EachInput(tx, Prevout)
         /\ Sequences(Meaning(tx)) = EachInput(tx, Sequence)
         /\ PaidOutputs(Meaning(tx)) = OutputBytes(tx)
         /\ Meaning(tx).version = tx.version /\ Meaning(tx).locktime = tx.locktime
<1> DEFINE t == Meaning(tx)
<1>1. /\ DOMAIN t.ins = DOMAIN tx.inputs
      /\ \A j \in DOMAIN tx.inputs : /\ t.ins[j].txid = tx.inputs[j].txid /\ t.ins[j].vout = tx.inputs[j].vout
                                     /\ t.ins[j].sequence = tx.inputs[j].sequence
  BY InputsMeant
<1>2. /\ DOMAIN t.outs = DOMAIN tx.outputs
      /\ \A j \in DOMAIN tx.outputs : /\ t.outs[j].value = tx.outputs[j].value
                                      /\ t.outs[j].script = tx.outputs[j].script_pubkey
  BY OutputsMeant
<1>3. t.version = tx.version /\ t.locktime = tx.locktime
  BY DEF Meaning
<1> HIDE DEF t
<1>4. Prevouts(t) = EachInput(tx, Prevout)
  <2>1. [i \in DOMAIN t.ins |-> t.ins[i].txid \o LittleEndian(t.ins[i].vout, WordSize)]
          = [i \in DOMAIN tx.inputs |-> Prevout(tx.inputs[i])]
    BY <1>1 DEF Prevout
  <2> QED
    BY <2>1, Zenon DEF Prevouts, EachInput
<1>5. Sequences(t) = EachInput(tx, Sequence)
  <2>1. [i \in DOMAIN t.ins |-> LittleEndian(t.ins[i].sequence, WordSize)]
          = [i \in DOMAIN tx.inputs |-> Sequence(tx.inputs[i])]
    BY <1>1 DEF Sequence
  <2> QED
    BY <2>1, Zenon DEF Sequences, EachInput
<1>6. PaidOutputs(t) = OutputBytes(tx)
  <2>1. ASSUME NEW j \in DOMAIN tx.outputs PROVE Sized(t.outs[j].script) = Script(tx.outputs[j])
    <3>1. PICK xs \in Seq(TxOut) : xs = tx.outputs
      BY DEF IsTx
    <3>2. xs[j] \in TxOut
      BY <3>1
    <3>3. PICK s \in Seq(Octet) : s = tx.outputs[j].script_pubkey /\ Len(s) < Values(2)
      BY <3>1, <3>2 DEF TxOut, ShortScripts
    <3> QED
      BY <1>2, <3>3, ScriptSized
  <2>2. [j \in DOMAIN t.outs |-> LittleEndian(t.outs[j].value, ValueSize) \o Sized(t.outs[j].script)]
          = [j \in DOMAIN tx.outputs |-> LittleEndian(tx.outputs[j].value, ValueSize) \o Script(tx.outputs[j])]
    BY <1>2, <2>1
  <2> QED
    BY <2>2, Zenon DEF PaidOutputs, OutputBytes
<1> QED
  BY <1>3, <1>4, <1>5, <1>6 DEF t

LEMMA CoinsAgree ==
  ASSUME NEW tx, IsTx(tx), ShortScripts(tx.inputs), NEW coins, SaysTrue(tx, coins)
  PROVE  /\ CoinValues(Meaning(tx), coins) = EachInput(tx, Value)
         /\ CoinScripts(Meaning(tx), coins) = EachInput(tx, Script)
<1> DEFINE t == Meaning(tx)
<1>1. DOMAIN t.ins = DOMAIN tx.inputs
  BY InputsMeant
<1>2. \A j \in DOMAIN tx.inputs : /\ coins[Outpoints(t)[j]].value = tx.inputs[j].value
                                  /\ coins[Outpoints(t)[j]].script = tx.inputs[j].script_pubkey
  BY Zenon DEF SaysTrue, SaysOf
<1> HIDE DEF t
<1>3. CoinValues(t, coins) = EachInput(tx, Value)
  <2>1. [i \in DOMAIN t.ins |-> LittleEndian(coins[Outpoints(t)[i]].value, ValueSize)]
          = [i \in DOMAIN tx.inputs |-> Value(tx.inputs[i])]
    BY <1>1, <1>2 DEF Value
  <2> QED
    BY <2>1, Zenon DEF CoinValues, EachInput
<1>4. CoinScripts(t, coins) = EachInput(tx, Script)
  <2>1. ASSUME NEW j \in DOMAIN tx.inputs PROVE Sized(coins[Outpoints(t)[j]].script) = Script(tx.inputs[j])
    <3>1. PICK xs \in Seq(TxIn) : xs = tx.inputs
      BY DEF IsTx
    <3>2. xs[j] \in TxIn
      BY <3>1
    <3>3. PICK s \in Seq(Octet) : s = tx.inputs[j].script_pubkey /\ Len(s) < Values(2)
      BY <3>1, <3>2 DEF TxIn, ShortScripts
    <3> QED
      BY <1>2, <3>3, ScriptSized
  <2>2. [i \in DOMAIN t.ins |-> Sized(coins[Outpoints(t)[i]].script)]
          = [i \in DOMAIN tx.inputs |-> Script(tx.inputs[i])]
    BY <1>1, <2>1
  <2> QED
    BY <2>2, Zenon DEF CoinScripts, EachInput
<1> QED
  BY <1>3, <1>4 DEF t

IsTwo(s, a, b) == s \in Seq(Octet) /\ Len(s) = 2 /\ s[1] = a /\ s[2] = b

IsThree(s, a, b, c) == s \in Seq(Octet) /\ Len(s) = 3 /\ s[1] = a /\ s[2] = b /\ s[3] = c

LEMMA FewBytes ==
  ASSUME NEW a \in Octet, NEW b \in Octet, NEW c \in Octet
  PROVE  IsTwo(<<a, b>>, a, b) /\ IsThree(<<a, b, c>>, a, b, c)
<1>1. <<a, b>> \in Seq(Octet) /\ <<a, b, c>> \in Seq(Octet)
  OBVIOUS
<1>2. Len(<<a, b>>) = 2 /\ <<a, b>>[1] = a /\ <<a, b>>[2] = b
  OBVIOUS
<1>3. Len(<<a, b, c>>) = 3 /\ <<a, b, c>>[1] = a /\ <<a, b, c>>[2] = b /\ <<a, b, c>>[3] = c
  OBVIOUS
<1> QED
  BY <1>1, <1>2, <1>3, Zenon DEF IsTwo, IsThree

LEMMA ThreeBytes ==
  ASSUME NEW a \in Octet, NEW b \in Octet, NEW c \in Octet
  PROVE  <<a, b, c>> = <<a, b>> \o <<c>> /\ <<a, b>> = <<a>> \o <<b>> /\ <<a, b>> \in Seq(Octet)
<1>1. PICK as \in Seq(Octet) : as = <<a>> /\ Len(as) = 1 /\ as[1] = a
  BY OneByte, Zenon
<1>2. PICK bs \in Seq(Octet) : bs = <<b>> /\ Len(bs) = 1 /\ bs[1] = b
  BY OneByte, Zenon
<1>3. PICK cs \in Seq(Octet) : cs = <<c>> /\ Len(cs) = 1 /\ cs[1] = c
  BY OneByte, Zenon
<1>4. PICK ab \in Seq(Octet) : ab = <<a, b>> /\ IsTwo(ab, a, b)
  <2>1. IsTwo(<<a, b>>, a, b)
    BY FewBytes
  <2>2. <<a, b>> \in Seq(Octet)
    BY <2>1, Zenon DEF IsTwo
  <2> QED
    BY <2>1, <2>2, Zenon
<1>5. PICK abc \in Seq(Octet) : abc = <<a, b, c>> /\ IsThree(abc, a, b, c)
  <2>1. IsThree(<<a, b, c>>, a, b, c)
    BY FewBytes
  <2>2. <<a, b, c>> \in Seq(Octet)
    BY <2>1, Zenon DEF IsThree
  <2> QED
    BY <2>1, <2>2, Zenon
<1>6. ab = as \o bs
  <2>1. PICK t \in Seq(Octet) : t = as \o bs /\ Concatenates(as, bs, 1, 1)
    <3>1. PICK one \in Nat : one = 1
      OBVIOUS
    <3>2. as \o bs \in Seq(Octet) /\ Concatenates(as, bs, one, one)
      BY <1>1, <1>2, <3>1, ConcatenatesAt
    <3> QED
      BY <3>1, <3>2, Zenon
  <2>2. Len(t) = 2 /\ t[1] = a /\ t[2] = b
    BY <1>1, <1>2, <2>1 DEF Concatenates
  <2>3. \A i \in 1..2 : ab[i] = t[i]
    BY <1>4, <2>2 DEF IsTwo
  <2>4. ab = t
    BY <1>4, <2>2, <2>3, SameElements DEF IsTwo
  <2> QED
    BY <2>1, <2>4
<1>7. abc = ab \o cs
  <2>1. PICK t \in Seq(Octet) : t = ab \o cs /\ Concatenates(ab, cs, 2, 1)
    <3>1. Len(ab) = 2
      BY <1>4 DEF IsTwo
    <3>2. PICK one \in Nat, two \in Nat : one = 1 /\ two = 2
      OBVIOUS
    <3>3. ab \o cs \in Seq(Octet) /\ Concatenates(ab, cs, two, one)
      BY <1>3, <3>1, <3>2, ConcatenatesAt
    <3> QED
      BY <3>2, <3>3, Zenon
  <2>2. Len(t) = 3 /\ t[1] = a /\ t[2] = b /\ t[3] = c
    BY <1>3, <1>4, <2>1 DEF Concatenates, IsTwo
  <2>3. \A i \in 1..3 : abc[i] = t[i]
    BY <1>5, <2>2 DEF IsThree
  <2>4. abc = t
    BY <1>5, <2>2, <2>3, SameElements DEF IsThree
  <2> QED
    BY <2>1, <2>4
<1> QED
  BY <1>1, <1>2, <1>3, <1>4, <1>5, <1>6, <1>7, Zenon

LEMMA TailOfRest ==
  ASSUME NEW a \in Octet, NEW s \in Seq(Octet)
  PROVE  Tail(<<a>> \o s) = s
<1>1. PICK n \in Nat : n = Len(s)
  OBVIOUS
<1>2. PICK one \in Seq(Octet) : one = <<a>> /\ Len(one) = 1
  BY OneByte, Zenon
<1>3. PICK t \in Seq(Octet) : t = one \o s /\ Concatenates(one, s, 1, n)
  BY <1>1, <1>2, ConcatenatesAt
<1>4. Len(t) = 1 + n /\ \A i \in 1..n : t[1 + i] = s[i]
  BY <1>3, Zenon DEF Concatenates
<1>5. PICK r \in Seq(Octet) : r = Tail(t) /\ Len(r) = n /\ \A i \in 1..n : r[i] = t[i + 1]
  <2>1. Tail(t) \in Seq(Octet) /\ Len(Tail(t)) = n /\ \A i \in 1..n : Tail(t)[i] = t[i + 1]
    BY <1>4
  <2> QED
    BY <2>1, Zenon
<1>6. \A i \in 1..n : r[i] = s[i]
  BY <1>4, <1>5
<1>7. r = s
  BY <1>1, <1>5, <1>6, SameElements
<1> QED
  BY <1>2, <1>3, <1>5, <1>7

(* The script code of BIP143 is the P2PKH script of the coin's key.        *)
LEMMA ScriptCode ==
  ASSUME NEW key \in BtcKey
  PROVE  <<118, 169>> \o Tail(<<0, KeyHashSize>> \o Hash160(key)) \o <<136, 172>> = p2pkh_script_pubkey(Hash160(key))
<1>1. PICK k \in Octet : k = KeyHashSize
  BY BtcAssumption
<1>2. PICK hash \in Seq(Octet) : hash = Hash160(key)
  BY HashType
<1>3. PICK z \in Octet, a \in Octet, b \in Octet : z = 0 /\ a = 118 /\ b = 169
  <2>1. 0 \in Octet /\ 118 \in Octet /\ 169 \in Octet
    BY DEF Octet
  <2> QED
    BY <2>1
<1>4. PICK zs \in Seq(Octet), ks \in Seq(Octet), ab \in Seq(Octet) :
        zs = <<z>> /\ ks = <<k>> /\ ab = <<a, b>> /\ <<z, k>> = zs \o ks /\ <<a, b, k>> = ab \o ks
  <2>1. <<a, b, k>> = <<a, b>> \o <<k>> /\ <<a, b>> \in Seq(Octet)
    BY ThreeBytes
  <2>2. <<z, k>> = <<z>> \o <<k>>
    BY ThreeBytes
  <2>3. <<z>> \in Seq(Octet) /\ <<k>> \in Seq(Octet)
    BY OneByte, Zenon
  <2> QED
    BY <2>1, <2>2, <2>3, Zenon
<1>5. (zs \o ks) \o hash = zs \o (ks \o hash) /\ (ab \o ks) \o hash = ab \o (ks \o hash)
  <2>1. Associates(zs, ks, hash) /\ Associates(ab, ks, hash)
    BY Associativity
  <2> QED
    BY <2>1, Zenon DEF Associates
<1>6. PICK rest \in Seq(Octet) : rest = ks \o hash
  <2>1. ks \o hash \in Seq(Octet)
    OBVIOUS
  <2> QED
    BY <2>1, Zenon
<1>7. Tail(<<z, k>> \o hash) = rest
  <2>1. Tail(<<z>> \o rest) = rest
    BY TailOfRest
  <2> QED
    BY <1>4, <1>5, <1>6, <2>1, Zenon
<1>8. <<a, b>> \o Tail(<<z, k>> \o hash) = <<a, b, k>> \o hash
  BY <1>4, <1>5, <1>6, <1>7, Zenon
<1> QED
  BY <1>1, <1>2, <1>3, <1>8, Zenon DEF p2pkh_script_pubkey

(* The hash that the signer makes of a transaction is the hash that the    *)
(* network makes of it, if the values and scripts in the JSON are those of *)
(* the coins that are spent: BIP143 for a coin of the key.                 *)
THEOREM SegwitHashAgrees ==
  ASSUME NEW tx, IsTx(tx), ShortScripts(tx.inputs), ShortScripts(tx.outputs),
         NEW coins, SaysTrue(tx, coins), NEW key \in BtcKey, NEW i \in DOMAIN tx.inputs,
         tx.inputs[i].script_pubkey = p2wpkh_script_pubkey(Hash160(key))
  PROVE  NetworkHash(Meaning(tx), coins, i) = compute_segwit_sighash(tx, i, key)
<1> DEFINE t == Meaning(tx)
           coin == coins[Outpoints(t)[i]]
<1>1. coin.script = <<0, KeyHashSize>> \o Hash160(key) /\ coin.value = tx.inputs[i].value
  BY Zenon DEF SaysTrue, SaysOf, p2wpkh_script_pubkey
<1>2. coin.script[1] = 0
  BY <1>1, SegwitScript
<1>3. /\ Prevouts(t) = EachInput(tx, Prevout) /\ Sequences(t) = EachInput(tx, Sequence)
      /\ PaidOutputs(t) = OutputBytes(tx) /\ t.version = tx.version /\ t.locktime = tx.locktime
  BY PartsAgree
<1>4. /\ t.ins[i].txid = tx.inputs[i].txid /\ t.ins[i].vout = tx.inputs[i].vout
      /\ t.ins[i].sequence = tx.inputs[i].sequence
  BY InputsMeant
<1>5. <<118, 169>> \o Tail(coin.script) \o <<136, 172>> = p2pkh_script_pubkey(Hash160(key))
  BY <1>1, ScriptCode, Zenon
<1>6. NetworkHash(t, coins, i) =
           Bip143(LittleEndian(t.version, WordSize), Prevouts(t), Sequences(t),
                  t.ins[i].txid \o LittleEndian(t.ins[i].vout, WordSize),
                  <<118, 169>> \o Tail(coin.script) \o <<136, 172>>,
                  LittleEndian(coin.value, ValueSize),
                  LittleEndian(t.ins[i].sequence, WordSize), PaidOutputs(t),
                  LittleEndian(t.locktime, WordSize))
  BY <1>2, NetworkSegwit, Zenon
<1>7. compute_segwit_sighash(tx, i, key) =
           Bip143(LittleEndian(tx.version, WordSize), EachInput(tx, Prevout), EachInput(tx, Sequence),
                  Prevout(tx.inputs[i]), p2pkh_script_pubkey(Hash160(key)), Value(tx.inputs[i]),
                  Sequence(tx.inputs[i]), OutputBytes(tx), LittleEndian(tx.locktime, WordSize))
  BY Zenon DEF compute_segwit_sighash, Bip143
<1>8. /\ t.ins[i].txid \o LittleEndian(t.ins[i].vout, WordSize) = Prevout(tx.inputs[i])
      /\ LittleEndian(coin.value, ValueSize) = Value(tx.inputs[i])
      /\ LittleEndian(t.ins[i].sequence, WordSize) = Sequence(tx.inputs[i])
  BY <1>1, <1>4, Zenon DEF Prevout, Value, Sequence
<1> HIDE DEF t, coin
<1> DEFINE PV == EachInput(tx, Prevout)
           SQ == EachInput(tx, Sequence)
<1>9. /\ Prevouts(t) = PV /\ Sequences(t) = SQ
      /\ compute_segwit_sighash(tx, i, key) =
           Bip143(LittleEndian(tx.version, WordSize), PV, SQ,
                  Prevout(tx.inputs[i]), p2pkh_script_pubkey(Hash160(key)), Value(tx.inputs[i]),
                  Sequence(tx.inputs[i]), OutputBytes(tx), LittleEndian(tx.locktime, WordSize))
  BY <1>3, <1>7, Zenon
<1> HIDE DEF PV, SQ
<1>10. NetworkHash(t, coins, i) = compute_segwit_sighash(tx, i, key)
  BY <1>3, <1>5, <1>6, <1>8, <1>9
<1> QED
  BY <1>10 DEF t

(* The same for Taproot coins: BIP341.                                     *)
THEOREM TaprootHashAgrees ==
  ASSUME NEW tx, IsTx(tx), ShortScripts(tx.inputs), ShortScripts(tx.outputs),
         NEW coins, SaysTrue(tx, coins), NEW i \in DOMAIN tx.inputs, tx.inputs[i].script_pubkey[1] # 0
  PROVE  NetworkHash(Meaning(tx), coins, i) = compute_taproot_sighash(tx, i)
<1> DEFINE t == Meaning(tx)
           PV == EachInput(tx, Prevout)
           VL == EachInput(tx, Value)
           SC == EachInput(tx, Script)
           SQ == EachInput(tx, Sequence)
<1>1. coins[Outpoints(t)[i]].script[1] # 0
  BY Zenon DEF SaysTrue, SaysOf
<1>2. /\ Prevouts(t) = PV /\ Sequences(t) = SQ
      /\ PaidOutputs(t) = OutputBytes(tx) /\ t.version = tx.version /\ t.locktime = tx.locktime
  BY PartsAgree
<1>3. CoinValues(t, coins) = VL /\ CoinScripts(t, coins) = SC
  BY CoinsAgree
<1>4. NetworkHash(t, coins, i) =
           Bip341(LittleEndian(t.version, WordSize), LittleEndian(t.locktime, WordSize), Prevouts(t),
                  CoinValues(t, coins), CoinScripts(t, coins), Sequences(t), PaidOutputs(t),
                  LittleEndian(i - 1, WordSize))
  BY <1>1, NetworkTaproot, Zenon
<1>5. compute_taproot_sighash(tx, i) =
           Bip341(LittleEndian(tx.version, WordSize), LittleEndian(tx.locktime, WordSize), PV, VL, SC, SQ,
                  OutputBytes(tx), LittleEndian(i - 1, WordSize))
  BY Zenon DEF compute_taproot_sighash, Bip341
<1> HIDE DEF t, PV, VL, SC, SQ
<1>6. NetworkHash(t, coins, i) = compute_taproot_sighash(tx, i)
  BY <1>2, <1>3, <1>4, <1>5
<1> QED
  BY <1>6 DEF t
-----------------------------------------------------------------------------
(* Scripts of coins *)

LeadsWith(p, a, b, s) ==
    /\ p \in Seq(Octet) /\ Len(p) = Len(s) + 2 /\ p[1] = a /\ p[2] = b
    /\ SubSeq(p, 3, Len(p)) = s

LEMMA TwoAndRest ==
  ASSUME NEW a \in Octet, NEW b \in Octet, NEW s \in Seq(Octet)
  PROVE  LeadsWith(<<a, b>> \o s, a, b, s)
<1>1. PICK ab \in Seq(Octet) : ab = <<a, b>> /\ IsTwo(ab, a, b)
  <2>1. IsTwo(<<a, b>>, a, b)
    BY FewBytes
  <2>2. <<a, b>> \in Seq(Octet)
    BY <2>1, Zenon DEF IsTwo
  <2> QED
    BY <2>1, <2>2, Zenon
<1>2. PICK n \in Nat, two \in Nat : n = Len(s) /\ two = 2 /\ Len(ab) = two
  BY <1>1 DEF IsTwo
<1>3. PICK p \in Seq(Octet) : p = ab \o s /\ Concatenates(ab, s, two, n)
  BY <1>2, ConcatenatesAt
<1>4. Len(p) = n + 2 /\ p[1] = a /\ p[2] = b
  BY <1>1, <1>2, <1>3 DEF Concatenates, IsTwo
<1>5. Holds(p, 1, p)
  BY HoldsItself
<1>6. PICK one \in Nat : one = 1
  OBVIOUS
<1>7. Holds(p, one + Len(ab), s)
  BY <1>3, <1>5, <1>6, HoldsConcat
<1>8. PICK at \in Nat \ {0} : at = one + Len(ab) /\ at = 3 /\ at + Len(s) - 1 = Len(p)
  BY <1>2, <1>4, <1>6
<1>9. SubSeq(p, at, at + Len(s) - 1) = s
  BY <1>7, <1>8, HoldsSubSeq
<1>10. SubSeq(p, 3, Len(p)) = s /\ Len(p) = Len(s) + 2
  BY <1>2, <1>4, <1>8, <1>9
<1> QED
  BY <1>1, <1>3, <1>4, <1>10, Zenon DEF LeadsWith

(* The script that locks a coin to a scalar's point.                       *)
Locks(scalar) == <<81, XOnlySize>> \o XOnly(scalar)

LEMMA LocksType ==
  ASSUME NEW scalar, scalar.key \in BtcKey
  PROVE  LeadsWith(Locks(scalar), 81, XOnlySize, XOnly(scalar)) /\ Len(XOnly(scalar)) = XOnlySize
<1>1. PICK a \in Octet, b \in Octet : a = 81 /\ b = XOnlySize
  <2>1. 81 \in Octet
    BY DEF Octet
  <2> QED
    BY <2>1, BtcAssumption
<1>2. XOnly(scalar) \in Seq(Octet) /\ Len(XOnly(scalar)) = XOnlySize
  BY XOnlyType
<1>3. LeadsWith(<<a, b>> \o XOnly(scalar), a, b, XOnly(scalar))
  BY <1>2, TwoAndRest
<1> QED
  BY <1>1, <1>2, <1>3, Zenon DEF Locks

IsSegwit(to) == to.key \in BtcKey /\ to.kind \in {"wpkh", "tr", "raw"}

ScalarsOf(key) == {taproot_tweak_seckey(key), SecretScalar(key)}

LEMMA ScalarKey ==
  ASSUME NEW key
  PROVE  \A scalar \in ScalarsOf(key) : scalar.key = key
BY DEF ScalarsOf, taproot_tweak_seckey, SecretScalar

LEMMA StandardIs ==
  ASSUME NEW to, IsSegwit(to)
  PROVE  /\ to.kind = "wpkh" => Standard(to) = p2wpkh_script_pubkey(Hash160(to.key))
         /\ to.kind # "wpkh" => \E scalar \in ScalarsOf(to.key) : Standard(to) = Locks(scalar)
<1>1. CASE to.kind = "wpkh"
  BY <1>1 DEF Standard, p2wpkh_script_pubkey
<1>2. CASE to.kind = "tr"
  <2>1. Standard(to) = <<81, XOnlySize>> \o [i \in 1..XOnlySize |-> IF i = 1 THEN to.key ELSE IF to.key \in OddKey THEN 1 ELSE 2]
    BY <1>2 DEF Standard
  <2>2. XOnly(taproot_tweak_seckey(to.key)) = [i \in 1..XOnlySize |-> IF i = 1 THEN to.key ELSE IF to.key \in OddKey THEN 1 ELSE 2]
    <3>1. PICK sc : /\ sc = taproot_tweak_seckey(to.key) /\ sc.key = to.key
                    /\ sc.negated = (to.key \in OddKey) /\ sc.tweaked = TRUE
      <4> DEFINE sc == taproot_tweak_seckey(to.key)
      <4>1. sc.key = to.key /\ sc.negated = (to.key \in OddKey) /\ sc.tweaked = TRUE
        BY DEF taproot_tweak_seckey
      <4> HIDE DEF sc
      <4> QED
        BY <4>1, Zenon DEF sc
    <3>2. XOnly(sc) = [i \in 1..XOnlySize |-> IF i = 1 THEN to.key ELSE IF to.key \in OddKey THEN 1 ELSE 2]
      BY <3>1 DEF XOnly
    <3> QED
      BY <3>1, <3>2
  <2>3. Standard(to) = Locks(taproot_tweak_seckey(to.key))
    BY <2>1, <2>2, Zenon DEF Locks
  <2> QED
    BY <1>2, <2>3 DEF ScalarsOf
<1>3. CASE to.kind = "raw"
  <2>1. Standard(to) = <<81, XOnlySize>> \o [i \in 1..XOnlySize |-> IF i = 1 THEN to.key ELSE 0]
    BY <1>3 DEF Standard
  <2>2. XOnly(SecretScalar(to.key)) = [i \in 1..XOnlySize |-> IF i = 1 THEN to.key ELSE 0]
    <3>1. SecretScalar(to.key).key = to.key /\ SecretScalar(to.key).tweaked = FALSE
      BY DEF SecretScalar
    <3> QED
      BY <3>1 DEF XOnly
  <2>3. Standard(to) = Locks(SecretScalar(to.key))
    BY <2>1, <2>2, Zenon DEF Locks
  <2> QED
    BY <1>3, <2>3 DEF ScalarsOf
<1> QED
  BY <1>1, <1>2, <1>3 DEF IsSegwit

(* A length that has at most two bytes.                                    *)
LEMMA ShortLengths ==
  /\ KeyHashSize \in Nat /\ KeyHashSize + 2 < Values(2) /\ KeyHashSize + 3 < Values(2)
  /\ XOnlySize \in Nat /\ XOnlySize + 2 < Values(2)
<1>1. PICK k \in Nat, x \in Nat : k = KeyHashSize /\ x = XOnlySize /\ k <= 255 /\ x <= 255
  <2>1. KeyHashSize \in Octet /\ XOnlySize \in Octet
    BY BtcAssumption
  <2>2. \A o \in Octet : o \in Nat /\ o <= 255
    BY DEF Octet
  <2> QED
    BY <2>1, <2>2
<1> QED
  BY <1>1, TwoBytes

IsShort(script) == script \in Seq(Octet) /\ Len(script) \in Nat /\ Len(script) < Values(2)

LEMMA StandardShort ==
  ASSUME NEW to, IsSegwit(to)
  PROVE  IsShort(Standard(to))
<1>0. to.key \in BtcKey
  BY DEF IsSegwit
<1>1. CASE to.kind = "wpkh"
  <2>1. PICK a \in Octet, b \in Octet : a = 0 /\ b = KeyHashSize
    <3>1. 0 \in Octet
      BY DEF Octet
    <3> QED
      BY <3>1, BtcAssumption
  <2>2. PICK hash \in Seq(Octet) : hash = Hash160(to.key) /\ Len(hash) = KeyHashSize
    BY <1>0, HashType
  <2>3. LeadsWith(<<a, b>> \o hash, a, b, hash)
    BY TwoAndRest
  <2>4. LeadsWith(Standard(to), a, b, hash)
    BY <1>1, <2>1, <2>2, <2>3, StandardIs, Zenon DEF p2wpkh_script_pubkey
  <2> QED
    BY <2>2, <2>4, ShortLengths DEF LeadsWith, IsShort
<1>2. CASE to.kind # "wpkh"
  <2>1. PICK scalar \in ScalarsOf(to.key) : Standard(to) = Locks(scalar)
    BY <1>2, StandardIs
  <2>2. scalar.key \in BtcKey
    BY <1>0, <2>1, ScalarKey
  <2>3. LeadsWith(Standard(to), 81, XOnlySize, XOnly(scalar)) /\ Len(XOnly(scalar)) = XOnlySize
    BY <2>1, <2>2, LocksType
  <2> QED
    BY <2>3, ShortLengths DEF LeadsWith, IsShort
<1> QED
  BY <1>1, <1>2

Change == p2sh_script_pubkey(Hash160(1))

LEMMA ChangeShort == IsShort(Change)
<1>1. PICK hash \in Seq(Octet) : hash = Hash160(1) /\ Len(hash) = KeyHashSize
  <2>1. PICK k \in Nat : k = KeyHashSize
    BY ShortLengths
  <2>2. 1 \in Octet
    BY DEF Octet
  <2>3. Hash160(1) \in [1..k -> Octet]
    BY <2>1, <2>2 DEF Hash160
  <2>4. Hash160(1) \in Seq(Octet) /\ Len(Hash160(1)) = k
    BY <2>1, <2>3
  <2> QED
    BY <2>1, <2>4
<1>2. PICK a \in Octet, b \in Octet, c \in Octet : a = 169 /\ b = KeyHashSize /\ c = 135
  <2>1. 169 \in Octet /\ 135 \in Octet
    BY DEF Octet
  <2> QED
    BY <2>1, BtcAssumption
<1>3. PICK p \in Seq(Octet) : p = <<a, b>> \o hash /\ Len(p) = KeyHashSize + 2
  <2>1. LeadsWith(<<a, b>> \o hash, a, b, hash)
    BY TwoAndRest
  <2> QED
    BY <1>1, <2>1 DEF LeadsWith
<1>4. PICK cs \in Seq(Octet) : cs = <<c>> /\ Len(cs) = 1
  BY OneByte, Zenon
<1>5. PICK n \in Nat, one \in Nat : n = Len(p) /\ one = 1 /\ n = KeyHashSize + 2
  BY <1>3, ShortLengths
<1>6. PICK q \in Seq(Octet) : q = p \o cs /\ Concatenates(p, cs, n, one)
  BY <1>4, <1>5, ConcatenatesAt
<1>7. Len(q) = KeyHashSize + 3
  BY <1>5, <1>6, ShortLengths DEF Concatenates
<1>8. Change = q
  BY <1>1, <1>2, <1>3, <1>4, <1>6, Zenon DEF Change, p2sh_script_pubkey
<1> QED
  BY <1>7, <1>8, ShortLengths DEF IsShort
-----------------------------------------------------------------------------
(* Sums of one and of two values *)

LEMMA SumOfOne ==
  ASSUME NEW a \in Nat
  PROVE  Total(<<a>>) = a
<1>1. PICK none \in Seq(Nat) : none = << >>
  BY EmptySeq
<1>2. PICK base \in Nat : base = 1
  OBVIOUS
<1>3. NumberIn(base, Append(none, a)) = base * NumberIn(base, none) + a
  BY NumberAppend
<1>4. NumberIn(base, none) = 0
  BY <1>1, NumberOfNothing
<1>5. Append(none, a) = <<a>>
  BY <1>1
<1>6. base * 0 + a = a
  BY <1>2
<1>7. NumberIn(base, <<a>>) = a
  BY <1>3, <1>4, <1>5, <1>6, Zenon
<1> QED
  BY <1>2, <1>7 DEF Total

LEMMA SumOfTwo ==
  ASSUME NEW a \in Nat, NEW b \in Nat
  PROVE  Total(<<a, b>>) = a + b
<1>1. PICK one \in Seq(Nat) : one = <<a>>
  <2>1. <<a>> \in Seq(Nat)
    OBVIOUS
  <2> QED
    BY <2>1, Zenon
<1>2. PICK base \in Nat : base = 1
  OBVIOUS
<1>3. NumberIn(base, Append(one, b)) = base * NumberIn(base, one) + b
  BY NumberAppend
<1>4. NumberIn(base, one) = a
  BY <1>1, <1>2, SumOfOne DEF Total
<1>5. Append(one, b) = <<a, b>>
  <2>1. <<a>> \in Seq(Nat) /\ Len(<<a>>) = 1 /\ <<a>>[1] = a
    OBVIOUS
  <2>2. <<a, b>> \in Seq(Nat) /\ Len(<<a, b>>) = 2 /\ <<a, b>>[1] = a /\ <<a, b>>[2] = b
    OBVIOUS
  <2>3. PICK t \in Seq(Nat) : t = <<a, b>> /\ Len(t) = 2 /\ t[1] = a /\ t[2] = b
    BY <2>2, Zenon
  <2>4. Len(one) = 1 /\ one[1] = a
    BY <1>1, <2>1, Zenon
  <2>5. PICK u \in Seq(Nat) : u = Append(one, b) /\ Len(u) = 2 /\ u[1] = a /\ u[2] = b
    <3> DEFINE u == Append(one, b)
    <3>1. /\ u \in Seq(Nat) /\ Len(u) = Len(one) + 1 /\ u[Len(one) + 1] = b
          /\ \A i \in 1..Len(one) : u[i] = one[i]
      OBVIOUS
    <3> HIDE DEF u
    <3>2. Len(u) = 2 /\ u[1] = a /\ u[2] = b
      BY <2>4, <3>1
    <3> QED
      BY <3>1, <3>2, Zenon DEF u
  <2>6. \A i \in 1..2 : u[i] = t[i]
    BY <2>3, <2>5
  <2>7. u = t
    BY <2>3, <2>5, <2>6, SameElements
  <2> QED
    BY <2>3, <2>5, <2>7
<1>6. base * a + b = a + b
  BY <1>2
<1>7. NumberIn(base, <<a, b>>) = a + b
  BY <1>3, <1>4, <1>5, <1>6, Zenon
<1> QED
  BY <1>2, <1>7 DEF Total

-----------------------------------------------------------------------------
(* The coins that one request spends *)

IsOutpoint(o) ==
    o \in [txid : [1..TxidSize -> Octet], vout : 0..(Values(WordSize) - 1)]

(* A coin of the key and kind of an address, of a value that fits.         *)
IsCoin(o, to) ==
    /\ o \in DOMAIN btcCoins /\ IsOutpoint(o)
    /\ btcCoins[o].to = to /\ btcCoins[o].script = Standard(to)
    /\ btcCoins[o].value \in Nat /\ btcCoins[o].value > 0 /\ btcCoins[o].value < Values(ValueSize)

Sum(outpoints) == Total([i \in DOMAIN outpoints |-> btcCoins[outpoints[i]].value])

Selects(outpoints, to) ==
    /\ IsSegwit(to)
    /\ DOMAIN outpoints = 1..Len(outpoints) /\ Len(outpoints) \in Nat /\ Len(outpoints) >= 1 /\ Len(outpoints) <= 2
    /\ \A i \in DOMAIN outpoints : IsCoin(outpoints[i], to)
    /\ \A i, j \in DOMAIN outpoints : outpoints[i] = outpoints[j] => i = j
    /\ Sum(outpoints) \in Nat /\ Sum(outpoints) > 0 /\ Sum(outpoints) < Values(ValueSize)

LEMMA CoinOfPayment ==
  ASSUME CoinsPaid, NEW o \in DOMAIN btcCoins
  PROVE  /\ IsCoin(o, btcCoins[o].to)
         /\ btcCoins[o].to.kind # "pkh" => IsSegwit(btcCoins[o].to)
         /\ \E p \in Payment : btcCoins[o].value = p.value
<1>1. PICK p \in Payment : Pays(btcCoins[o], o, p)
  BY DEF CoinsPaid, CoinPaid
<1>2. IsPayment(p) /\ IsNumber({p.value})
  BY BtcRequestAssumption
<1>3. p.value \in Nat /\ p.value < Values(ValueSize) /\ p.value > 0
  BY <1>2 DEF IsNumber, IsPayment
<1>4. IsOutpoint(o)
  BY <1>1, <1>2, Zenon DEF IsPayment, IsOutpoint, Pays
<1>5. IsCoin(o, btcCoins[o].to)
  BY <1>1, <1>3, <1>4 DEF Pays, IsCoin, Scripted
<1>6. btcCoins[o].to.kind = p.kind /\ btcCoins[o].to.key = p.key
  BY <1>1 DEF Pays, To
<1>7. btcCoins[o].to.kind # "pkh" => IsSegwit(btcCoins[o].to)
  BY <1>2, <1>6 DEF IsSegwit, IsPayment
<1> QED
  BY <1>1, <1>5, <1>7, Zenon DEF Pays

LEMMA OneSelected ==
  ASSUME CoinsPaid, NEW a \in DOMAIN btcCoins, btcCoins[a].to.kind # "pkh"
  PROVE  Selects(<<a>>, btcCoins[a].to)
<1> DEFINE s == <<a>>
<1>1. DOMAIN s = {1} /\ Len(s) = 1 /\ s[1] = a
  OBVIOUS
<1>2. IsCoin(a, btcCoins[a].to) /\ IsSegwit(btcCoins[a].to)
  BY CoinOfPayment
<1>3. PICK v \in Nat : v = btcCoins[a].value /\ v > 0 /\ v < Values(ValueSize)
  BY <1>2 DEF IsCoin
<1> HIDE DEF s
<1>4. [i \in DOMAIN s |-> btcCoins[s[i]].value] = <<v>>
  BY <1>1, <1>3
<1>5. Sum(s) = v
  BY <1>4, SumOfOne DEF Sum
<1>6. DOMAIN s = 1..Len(s) /\ Len(s) \in Nat /\ Len(s) >= 1 /\ Len(s) <= 2
  BY <1>1
<1>7. Selects(s, btcCoins[a].to)
  BY <1>1, <1>2, <1>3, <1>5, <1>6 DEF Selects
<1> QED
  BY <1>7 DEF s

LEMMA TwoSelected ==
  ASSUME CoinsPaid, NEW a \in DOMAIN btcCoins, NEW b \in DOMAIN btcCoins, a # b,
         btcCoins[a].to = btcCoins[b].to, btcCoins[a].to.kind # "pkh"
  PROVE  Selects(<<a, b>>, btcCoins[a].to)
<1> DEFINE s == <<a, b>>
<1>1. DOMAIN s = {1, 2} /\ Len(s) = 2 /\ s[1] = a /\ s[2] = b
  OBVIOUS
<1>2. IsCoin(a, btcCoins[a].to) /\ IsSegwit(btcCoins[a].to) /\ IsCoin(b, btcCoins[a].to)
  BY CoinOfPayment
<1>3. PICK v \in Nat, w \in Nat : v = btcCoins[a].value /\ w = btcCoins[b].value /\ v > 0
  BY <1>2 DEF IsCoin
<1> HIDE DEF s
<1>4. [i \in DOMAIN s |-> btcCoins[s[i]].value] = <<v, w>>
  BY <1>1, <1>3
<1>5. Sum(s) = v + w
  BY <1>4, SumOfTwo DEF Sum
<1>6. v + w < Values(ValueSize)
  <2>1. PICK p \in Payment, q \in Payment : v = p.value /\ w = q.value
    BY <1>3, CoinOfPayment
  <2>2. IsNumber({p.value + q.value})
    BY <2>1, BtcRequestAssumption DEF IsPayment
  <2> QED
    BY <2>1, <2>2 DEF IsNumber
<1>7. DOMAIN s = 1..Len(s) /\ Len(s) \in Nat /\ Len(s) >= 1 /\ Len(s) <= 2
  BY <1>1
<1>8. \A i, j \in DOMAIN s : s[i] = s[j] => i = j
  BY <1>1
<1>9. Selects(s, btcCoins[a].to)
  BY <1>1, <1>2, <1>3, <1>5, <1>6, <1>7, <1>8 DEF Selects
<1> QED
  BY <1>9 DEF s
-----------------------------------------------------------------------------
(* What the parser makes of a request that spends coins *)

LEMMA OneValue == ASSUME NEW x, NEW default PROVE OrElse({x}, default) = x /\ OrElse({}, default) = default
BY DEF OrElse

LEMMA ReverseTwice ==
  ASSUME NEW s \in Seq(Octet)
  PROVE  Reverse(Reverse(s)) = s
<1>1. PICK n \in Nat : n = Len(s)
  OBVIOUS
<1>2. PICK r \in Seq(Octet) : r = Reverse(s) /\ Len(r) = n
  BY <1>1, ReverseType
<1>3. PICK t \in Seq(Octet) : t = Reverse(r) /\ Len(t) = n
  BY <1>2, ReverseType
<1>4. r = [i \in 1..n |-> s[(n - i) + 1]] /\ t = [i \in 1..n |-> r[(n - i) + 1]]
  BY <1>1, <1>2, <1>3 DEF Reverse
<1>5. ASSUME NEW i \in 1..n PROVE t[i] = s[i]
  <2>1. PICK j \in 1..n : j = (n - i) + 1 /\ (n - j) + 1 = i
    <3>1. (n - i) + 1 \in 1..n /\ (n - ((n - i) + 1)) + 1 = i
      OBVIOUS
    <3> QED
      BY <3>1
  <2>2. t[i] = r[j]
    BY <1>4, <2>1
  <2>3. r[j] = s[i]
    BY <1>4, <2>1
  <2> QED
    BY <2>2, <2>3
<1>6. t = s
  BY <1>1, <1>3, <1>5, SameElements
<1> QED
  BY <1>2, <1>3, <1>6

LEMMA BytesAreHex == ASSUME NEW s \in Seq(Octet) PROVE IsHex(s)
<1>1. \A i \in DOMAIN s : s[i] \in Octet
  OBVIOUS
<1> QED
  BY <1>1, Zenon DEF IsHex, Octet

LEMMA OutpointFields ==
  ASSUME NEW o, IsOutpoint(o)
  PROVE  /\ o.txid \in Seq(Octet) /\ Len(o.txid) = TxidSize /\ o.vout \in Below(WordSize)
         /\ o = [txid |-> o.txid, vout |-> o.vout]
<1>1. PICK n \in Nat : n = TxidSize
  BY Sizes
<1>2. o.txid \in [1..n -> Octet] /\ o.vout \in 0..(Values(WordSize) - 1)
  BY <1>1 DEF IsOutpoint
<1>3. o = [txid |-> o.txid, vout |-> o.vout]
  BY DEF IsOutpoint
<1>4. o.vout \in Nat /\ o.vout < Values(WordSize)
  BY <1>2, WordsHold3
<1>5. o.txid \in Seq(Octet) /\ Len(o.txid) = n
  BY <1>2
<1> QED
  BY <1>1, <1>3, <1>4, <1>5 DEF Below

Rbf == Word(Values(WordSize) - 3)

SpendingAsk(o) ==
    [txid |-> Reverse(o.txid), vout |-> {o.vout},
     value |-> {btcCoins[o].value}, sequence |-> {},
     script_pubkey |-> {btcCoins[o].script}]

SpendingIn(o) ==
    [txid |-> o.txid, vout |-> o.vout, value |-> btcCoins[o].value, sequence |-> Rbf,
     script_pubkey |-> btcCoins[o].script]

SpendingOut(outpoints) == [value |-> Sum(outpoints), script_pubkey |-> Change]

SpendingTx(outpoints) ==
    [version |-> Word(2), inputs |-> [i \in DOMAIN outpoints |-> SpendingIn(outpoints[i])],
     outputs |-> <<SpendingOut(outpoints)>>, locktime |-> Word(0)]

LEMMA InputSpends ==
  ASSUME NEW o, NEW to, IsCoin(o, to), IsSegwit(to)
  PROVE  IsInput(SpendingAsk(o)) /\ ParseInput(SpendingAsk(o)) = SpendingIn(o) /\ SpendingIn(o) \in TxIn
<1>1. /\ o.txid \in Seq(Octet) /\ Len(o.txid) = TxidSize /\ o.vout \in Nat /\ o.vout < Values(WordSize)
  BY OutpointFields DEF IsCoin, Below
<1>2. btcCoins[o].script \in Seq(Octet)
  BY StandardShort DEF IsCoin, IsShort
<1>3. btcCoins[o].value \in Below(ValueSize)
  BY DEF IsCoin, Below
<1>4. PICK r \in Seq(Octet) : r = Reverse(o.txid) /\ Len(r) = TxidSize /\ Reverse(r) = o.txid
  BY <1>1, ReverseType, ReverseTwice
<1>5. PICK v, s : v = btcCoins[o].value /\ s = btcCoins[o].script
  OBVIOUS
<1>6. IsInput(SpendingAsk(o))
  <2>1. IsHex(r) /\ IsHex(s)
    BY <1>2, <1>4, <1>5, BytesAreHex
  <2> QED
    BY <1>4, <1>5, <2>1 DEF IsInput, SpendingAsk
<1>7. ParseInput(SpendingAsk(o)) = SpendingIn(o)
  <2>1. Word(o.vout) = o.vout
    BY <1>1, WordExact
  <2>2. PICK a : /\ a = SpendingAsk(o) /\ a.txid = r /\ a.vout = {o.vout} /\ a.value = {v} /\ a.sequence = {}
                 /\ a.script_pubkey = {s}
    <3> DEFINE a == SpendingAsk(o)
    <3>1. a.txid = r /\ a.vout = {o.vout} /\ a.value = {v} /\ a.sequence = {} /\ a.script_pubkey = {s}
      BY <1>4, <1>5 DEF SpendingAsk
    <3> HIDE DEF a
    <3> QED
      BY <3>1, Zenon DEF a
  <2>3. OrElse({o.vout}, 0) = o.vout /\ OrElse({v}, 0) = v /\ OrElse({s}, << >>) = s
        /\ OrElse({}, Values(WordSize) - 3) = Values(WordSize) - 3
    BY OneValue
  <2>4. ParseInput(a) = [txid |-> Reverse(r), vout |-> Word(OrElse({o.vout}, 0)), value |-> OrElse({v}, 0),
                         sequence |-> Word(OrElse({}, Values(WordSize) - 3)), script_pubkey |-> OrElse({s}, << >>)]
    BY <2>2, Zenon DEF ParseInput
  <2>5. ParseInput(a) = [txid |-> o.txid, vout |-> o.vout, value |-> v, sequence |-> Rbf, script_pubkey |-> s]
    BY <1>4, <2>1, <2>3, <2>4, Zenon DEF Rbf
  <2> QED
    BY <1>5, <2>2, <2>5, Zenon DEF SpendingIn
<1>8. Rbf \in Below(WordSize)
  <2>1. Values(WordSize) - 3 \in Nat
    BY WordsHold3
  <2> QED
    BY <2>1, WordBelow DEF Rbf
<1>9. SpendingIn(o) \in TxIn
  BY <1>1, <1>2, <1>3, <1>8 DEF SpendingIn, TxIn, Below
<1> QED
  BY <1>6, <1>7, <1>9

LEMMA OutputSpends ==
  ASSUME NEW outpoints, NEW to, Selects(outpoints, to), NEW out,
         out = [value |-> {Sum(outpoints)}, script_pubkey |-> {Change}]
  PROVE  IsOutput(out) /\ ParseOutput(out) = SpendingOut(outpoints) /\ SpendingOut(outpoints) \in TxOut
<1>1. PICK v, s : v = Sum(outpoints) /\ s = Change
  OBVIOUS
<1>2. s \in Seq(Octet) /\ v \in Below(ValueSize)
  BY <1>1, ChangeShort DEF IsShort, Selects, Below
<1>3. out.value = {v} /\ out.script_pubkey = {s}
  BY <1>1
<1>4. IsOutput(out)
  BY <1>2, <1>3, BytesAreHex DEF IsOutput
<1>5. OrElse({v}, 0) = v /\ OrElse({s}, << >>) = s
  BY OneValue
<1>6. ParseOutput(out) = [value |-> v, script_pubkey |-> s]
  BY <1>3, <1>5, Zenon DEF ParseOutput
<1>7. SpendingOut(outpoints) \in TxOut
  BY <1>1, <1>2 DEF SpendingOut, TxOut
<1> QED
  BY <1>1, <1>4, <1>6, <1>7, Zenon DEF SpendingOut

LEMMA SpendingParsed ==
  ASSUME NEW outpoints, NEW to, Selects(outpoints, to)
  PROVE  SpendingTx(outpoints) \in parse_bitcoin_tx_json(Spending(outpoints))
<1>1. PICK out : out = [value |-> {Sum(outpoints)}, script_pubkey |-> {Change}]
  OBVIOUS
<1>2. PICK ins : ins = [i \in DOMAIN outpoints |-> SpendingAsk(outpoints[i])]
  OBVIOUS
<1>3. PICK outs : outs = <<out>> /\ DOMAIN outs = {1} /\ outs[1] = out
  <2>1. DOMAIN <<out>> = {1} /\ <<out>>[1] = out
    OBVIOUS
  <2> QED
    BY <2>1, Zenon
<1>4. PICK json : json = Spending(outpoints) /\ json.inputs = {ins} /\ json.outputs = {outs}
                  /\ json.version = {} /\ json.locktime = {}
  <2> DEFINE json == Spending(outpoints)
  <2>1. json = [inputs |-> {ins}, outputs |-> {outs}, version |-> {}, locktime |-> {}]
    BY <1>1, <1>2, <1>3, Zenon DEF Spending, SpendingAsk, Sum, Change
  <2> HIDE DEF json
  <2>2. json.inputs = {ins} /\ json.outputs = {outs} /\ json.version = {} /\ json.locktime = {}
    BY <2>1
  <2> QED
    BY <2>2, Zenon DEF json
<1>5. PICK arrays : arrays = <<ins, outs>> /\ arrays[1] = ins /\ arrays[2] = outs
  BY Pair, Zenon
<1>6. DOMAIN ins = DOMAIN outpoints /\ \A i \in DOMAIN outpoints : ins[i] = SpendingAsk(outpoints[i])
  BY <1>2, Zenon
<1>7. \A i \in DOMAIN ins : IsInput(ins[i]) /\ ParseInput(ins[i]) = SpendingIn(outpoints[i])
  BY <1>6, InputSpends DEF Selects
<1>8. IsOutput(out) /\ ParseOutput(out) = SpendingOut(outpoints)
  BY <1>1, OutputSpends
<1>9. \A i \in DOMAIN outs : IsOutput(outs[i])
  BY <1>3, <1>8
<1>10. arrays \in {a \in json.inputs \X json.outputs :
                     /\ \A i \in DOMAIN a[1] : IsInput(a[1][i])
                     /\ \A i \in DOMAIN a[2] : IsOutput(a[2][i])}
  <2>1. arrays \in {ins} \X {outs}
    BY <1>5
  <2> QED
    BY <1>4, <1>5, <1>7, <1>9, <2>1, Zenon
<1>11. [version  |-> Word(OrElse(json.version, 2)),
        inputs   |-> [i \in DOMAIN arrays[1] |-> ParseInput(arrays[1][i])],
        outputs  |-> [i \in DOMAIN arrays[2] |-> ParseOutput(arrays[2][i])],
        locktime |-> Word(OrElse(json.locktime, 0))] \in parse_bitcoin_tx_json(json)
  BY <1>10, Zenon DEF parse_bitcoin_tx_json
<1>12. [i \in DOMAIN arrays[1] |-> ParseInput(arrays[1][i])] = [i \in DOMAIN outpoints |-> SpendingIn(outpoints[i])]
  BY <1>5, <1>6, <1>7
<1>13. [i \in DOMAIN arrays[2] |-> ParseOutput(arrays[2][i])] = <<SpendingOut(outpoints)>>
  BY <1>3, <1>5, <1>8
<1>14. OrElse(json.version, 2) = 2 /\ OrElse(json.locktime, 0) = 0
  BY <1>4, OneValue
<1> QED
  BY <1>4, <1>11, <1>12, <1>13, <1>14, Zenon DEF SpendingTx
-----------------------------------------------------------------------------
(* The transaction that spends the coins *)

LEMMA SpendingIsTx ==
  ASSUME NEW outpoints, NEW to, Selects(outpoints, to)
  PROVE  /\ IsTx(SpendingTx(outpoints))
         /\ SpendingTx(outpoints).inputs = [i \in DOMAIN outpoints |-> SpendingIn(outpoints[i])]
         /\ SpendingTx(outpoints).outputs = <<SpendingOut(outpoints)>>
         /\ Len(SpendingTx(outpoints).inputs) = Len(outpoints)
         /\ Len(SpendingTx(outpoints).outputs) = 1
<1>1. PICK n \in Nat : n = Len(outpoints) /\ DOMAIN outpoints = 1..n
  BY DEF Selects
<1>2. PICK ins : ins = [i \in 1..n |-> SpendingIn(outpoints[i])]
  OBVIOUS
<1>3. \A i \in 1..n : SpendingIn(outpoints[i]) \in TxIn
  BY <1>1, InputSpends DEF Selects
<1>4. ins \in Seq(TxIn) /\ Len(ins) = n
  <2>1. ins \in [1..n -> TxIn]
    BY <1>2, <1>3
  <2> QED
    BY <2>1
<1>5. SpendingOut(outpoints) \in TxOut
  BY OutputSpends, Zenon
<1>6. PICK outs \in Seq(TxOut) : outs = <<SpendingOut(outpoints)>> /\ Len(outs) = 1
  <2>1. PICK out \in TxOut : out = SpendingOut(outpoints)
    BY <1>5
  <2>2. <<out>> \in Seq(TxOut) /\ Len(<<out>>) = 1
    OBVIOUS
  <2> QED
    BY <2>1, <2>2, Zenon
<1>7. Word(2) \in Below(WordSize) /\ Word(0) \in Below(WordSize)
  BY WordBelow
<1>8. PICK tx : /\ tx = SpendingTx(outpoints) /\ tx.version = Word(2) /\ tx.locktime = Word(0)
                /\ tx.inputs = ins /\ tx.outputs = outs
  <2> DEFINE tx == SpendingTx(outpoints)
  <2>1. tx = [version |-> Word(2), inputs |-> ins, outputs |-> outs, locktime |-> Word(0)]
    BY <1>1, <1>2, <1>6, Zenon DEF SpendingTx
  <2> HIDE DEF tx
  <2>2. tx.version = Word(2) /\ tx.locktime = Word(0) /\ tx.inputs = ins /\ tx.outputs = outs
    BY <2>1
  <2> QED
    BY <2>2, Zenon DEF tx
<1>9. IsTx(tx)
  BY <1>4, <1>7, <1>8, Zenon DEF IsTx
<1> QED
  BY <1>1, <1>2, <1>4, <1>6, <1>8, <1>9

LEMMA SpendingItems ==
  ASSUME NEW outpoints, NEW to, Selects(outpoints, to), NEW tx, tx = SpendingTx(outpoints)
  PROVE  /\ DOMAIN tx.inputs = DOMAIN outpoints /\ DOMAIN tx.outputs = {1}
         /\ \A i \in DOMAIN outpoints :
              /\ tx.inputs[i] = SpendingIn(outpoints[i])
              /\ tx.inputs[i].txid = outpoints[i].txid /\ tx.inputs[i].vout = outpoints[i].vout
              /\ tx.inputs[i].value = btcCoins[outpoints[i]].value
              /\ tx.inputs[i].script_pubkey = Standard(to)
         /\ tx.outputs[1].value = Sum(outpoints) /\ tx.outputs[1].script_pubkey = Change
<1>1. tx.inputs = [i \in DOMAIN outpoints |-> SpendingIn(outpoints[i])] /\ tx.outputs = <<SpendingOut(outpoints)>>
  BY SpendingIsTx
<1>2. ASSUME NEW o
      PROVE  /\ SpendingIn(o).txid = o.txid /\ SpendingIn(o).vout = o.vout
             /\ SpendingIn(o).value = btcCoins[o].value /\ SpendingIn(o).script_pubkey = btcCoins[o].script
  BY DEF SpendingIn
<1>3. \A i \in DOMAIN outpoints : btcCoins[outpoints[i]].script = Standard(to)
  BY DEF Selects, IsCoin
<1>4. SpendingOut(outpoints).value = Sum(outpoints) /\ SpendingOut(outpoints).script_pubkey = Change
  BY DEF SpendingOut
<1>5. DOMAIN <<SpendingOut(outpoints)>> = {1} /\ <<SpendingOut(outpoints)>>[1] = SpendingOut(outpoints)
  OBVIOUS
<1>6. DOMAIN tx.outputs = {1} /\ tx.outputs[1] = SpendingOut(outpoints)
  BY <1>1, <1>5
<1>7. \A i \in DOMAIN outpoints : tx.inputs[i] = SpendingIn(outpoints[i])
  BY <1>1
<1>8. DOMAIN tx.inputs = DOMAIN outpoints
  BY <1>1
<1> QED
  BY <1>2, <1>3, <1>4, <1>6, <1>7, <1>8, Zenon

LEMMA SpendingShort ==
  ASSUME NEW outpoints, NEW to, Selects(outpoints, to), NEW tx, tx = SpendingTx(outpoints)
  PROVE  ShortScripts(tx.inputs) /\ ShortScripts(tx.outputs)
<1>1. Len(Standard(to)) < Values(2) /\ Len(Change) < Values(2)
  BY StandardShort, ChangeShort DEF Selects, IsShort
<1>2. /\ DOMAIN tx.inputs = DOMAIN outpoints /\ DOMAIN tx.outputs = {1}
      /\ \A i \in DOMAIN outpoints : tx.inputs[i].script_pubkey = Standard(to)
      /\ tx.outputs[1].script_pubkey = Change
  BY SpendingItems
<1>3. ASSUME NEW i \in DOMAIN tx.inputs PROVE Len(tx.inputs[i].script_pubkey) < Values(2)
  BY <1>1, <1>2
<1>4. ASSUME NEW i \in DOMAIN tx.outputs PROVE Len(tx.outputs[i].script_pubkey) < Values(2)
  <2>1. i = 1
    BY <1>2
  <2> QED
    BY <1>1, <1>2, <2>1
<1> QED
  BY <1>3, <1>4, Zenon DEF ShortScripts

(* It means the coins that were selected.                                  *)
LEMMA SpendingMeans ==
  ASSUME NEW outpoints, NEW to, Selects(outpoints, to), NEW tx, tx = SpendingTx(outpoints)
  PROVE  Outpoints(Meaning(tx)) = [i \in DOMAIN outpoints |-> outpoints[i]]
<1> DEFINE t == Meaning(tx)
<1>1. IsTx(tx)
  BY SpendingIsTx
<1>2. /\ DOMAIN t.ins = DOMAIN tx.inputs
      /\ \A j \in DOMAIN tx.inputs : t.ins[j].txid = tx.inputs[j].txid /\ t.ins[j].vout = tx.inputs[j].vout
  BY <1>1, InputsMeant
<1>3. /\ DOMAIN tx.inputs = DOMAIN outpoints
      /\ \A i \in DOMAIN outpoints : tx.inputs[i].txid = outpoints[i].txid /\ tx.inputs[i].vout = outpoints[i].vout
  BY SpendingItems
<1> HIDE DEF t
<1>4. ASSUME NEW i \in DOMAIN outpoints PROVE [txid |-> t.ins[i].txid, vout |-> t.ins[i].vout] = outpoints[i]
  <2>1. IsOutpoint(outpoints[i])
    BY DEF Selects, IsCoin
  <2>2. outpoints[i] = [txid |-> outpoints[i].txid, vout |-> outpoints[i].vout]
    BY <2>1, OutpointFields
  <2>3. t.ins[i].txid = outpoints[i].txid /\ t.ins[i].vout = outpoints[i].vout
    BY <1>2, <1>3
  <2> QED
    BY <2>2, <2>3, Zenon
<1>5. [i \in DOMAIN t.ins |-> [txid |-> t.ins[i].txid, vout |-> t.ins[i].vout]] = [i \in DOMAIN outpoints |-> outpoints[i]]
  BY <1>2, <1>3, <1>4
<1> QED
  BY <1>5, Zenon DEF Outpoints, t

LEMMA SpendingSaysTrue ==
  ASSUME NEW outpoints, NEW to, Selects(outpoints, to), NEW tx, tx = SpendingTx(outpoints)
  PROVE  SaysTrue(tx, btcCoins)
<1>1. /\ DOMAIN tx.inputs = DOMAIN outpoints
      /\ \A i \in DOMAIN outpoints : /\ tx.inputs[i].value = btcCoins[outpoints[i]].value
                                     /\ tx.inputs[i].script_pubkey = Standard(to)
  BY SpendingItems
<1>2. \A i \in DOMAIN outpoints : btcCoins[outpoints[i]].script = Standard(to)
  BY DEF Selects, IsCoin
<1>3. \A i \in DOMAIN outpoints : Outpoints(Meaning(tx))[i] = outpoints[i]
  BY SpendingMeans
<1> QED
  BY <1>1, <1>2, <1>3 DEF SaysTrue, SaysOf

(* The network takes it, if each witness opens its coin.                   *)
LEMMA SpendingValid ==
  ASSUME NEW outpoints, NEW to, Selects(outpoints, to), NEW tx, tx = SpendingTx(outpoints),
         NEW witnesses, Len(witnesses) = Len(outpoints),
         \A i \in DOMAIN outpoints :
           Opens(witnesses[i], btcCoins[outpoints[i]], NetworkHash(Meaning(tx), btcCoins, i))
  PROVE  Valid(Serialize(tx, witnesses), btcCoins) # {}
<1> DEFINE t == Meaning(tx)
           raw == Serialize(tx, witnesses)
<1>1. IsTx(tx) /\ Len(tx.inputs) = Len(outpoints) /\ Len(tx.outputs) = 1
  BY SpendingIsTx
<1>2. /\ Len(outpoints) \in Nat /\ Len(outpoints) >= 1 /\ Len(outpoints) <= 2
      /\ DOMAIN outpoints = 1..Len(outpoints)
  BY DEF Selects
<1>3. t \in ReadTransaction(raw)
  <2>1. Len(tx.inputs) <= 2 /\ Len(tx.outputs) <= 2
    BY <1>1, <1>2
  <2>2. ShortScripts(tx.outputs)
    BY SpendingShort
  <2> QED
    BY <1>1, <2>1, <2>2, TransactionFound
<1>4. /\ DOMAIN t.ins = DOMAIN tx.inputs /\ DOMAIN t.outs = DOMAIN tx.outputs
      /\ \A j \in DOMAIN tx.outputs : t.outs[j].value = tx.outputs[j].value
  BY <1>1, InputsMeant, OutputsMeant
<1>5. DOMAIN tx.inputs = DOMAIN outpoints /\ DOMAIN tx.outputs = {1} /\ tx.outputs[1].value = Sum(outpoints)
  BY SpendingItems
<1>6. /\ DOMAIN Outpoints(t) = DOMAIN outpoints
      /\ \A i \in DOMAIN outpoints : Outpoints(t)[i] = outpoints[i]
  BY SpendingMeans
<1>7. raw.witnesses = witnesses
  BY DEF Serialize
<1>8. t.ins \in Seq(Range(t.ins)) /\ Len(t.ins) = Len(outpoints)
  <2>1. t.ins = [i \in DOMAIN tx.inputs |-> MeantInput(tx.inputs[i])]
    BY DEF Meaning, MeantInputs
  <2> HIDE DEF t
  <2>2. PICK n \in Nat : n = Len(outpoints) /\ DOMAIN t.ins = 1..n
    BY <1>2, <1>4, <1>5
  <2>3. t.ins = [i \in 1..n |-> t.ins[i]]
    BY <2>1, <2>2
  <2>4. Len(t.ins) = n
    BY <2>2, <2>3
  <2>5. t.ins \in [1..n -> Range(t.ins)]
    BY <2>2, <2>3 DEF Range
  <2> QED
    BY <2>2, <2>4, <2>5
<1> HIDE DEF t, raw
<1>9. t.ins # << >> /\ t.outs # << >>
  <2>1. 1 \in DOMAIN t.ins /\ 1 \in DOMAIN t.outs
    BY <1>2, <1>4, <1>5
  <2>2. DOMAIN << >> = {}
    OBVIOUS
  <2> QED
    BY <2>1, <2>2
<1>10. IsInjective(Outpoints(t))
  BY <1>6 DEF IsInjective, Selects
<1>11. \A i \in DOMAIN t.ins : Outpoints(t)[i] \in DOMAIN btcCoins
  BY <1>4, <1>5, <1>6 DEF Selects, IsCoin
<1>12. Total([i \in DOMAIN t.ins |-> btcCoins[Outpoints(t)[i]].value]) >= Total([i \in DOMAIN t.outs |-> t.outs[i].value])
  <2>1. PICK v \in Nat : v = Sum(outpoints)
    BY DEF Selects
  <2>2. [i \in DOMAIN t.ins |-> btcCoins[Outpoints(t)[i]].value] = [i \in DOMAIN outpoints |-> btcCoins[outpoints[i]].value]
    BY <1>4, <1>5, <1>6
  <2>3. [i \in DOMAIN t.outs |-> t.outs[i].value] = <<v>>
    BY <1>4, <1>5, <2>1
  <2>4. Total([i \in DOMAIN t.ins |-> btcCoins[Outpoints(t)[i]].value]) = v
    BY <2>1, <2>2, Zenon DEF Sum
  <2>5. Total([i \in DOMAIN t.outs |-> t.outs[i].value]) = v
    BY <2>1, <2>3, SumOfOne
  <2>6. v >= v
    OBVIOUS
  <2> QED
    BY <2>4, <2>5, <2>6, Zenon
<1>13. \A i \in DOMAIN t.ins : Opens(raw.witnesses[i], btcCoins[Outpoints(t)[i]], NetworkHash(t, btcCoins, i))
  BY <1>4, <1>5, <1>6, <1>7 DEF t
<1>14. Len(raw.witnesses) = Len(t.ins)
  BY <1>7, <1>8
<1>15. t \in Valid(raw, btcCoins)
  BY <1>3, <1>9, <1>10, <1>11, <1>12, <1>13, <1>14, Zenon DEF Valid
<1> QED
  BY <1>15 DEF raw
-----------------------------------------------------------------------------
(* The wallet signs it *)

Openable(outpoints, to, tx, witnesses) ==
    /\ Len(witnesses) = Len(outpoints)
    /\ \A i \in DOMAIN outpoints :
         Opens(witnesses[i], btcCoins[outpoints[i]], NetworkHash(Meaning(tx), btcCoins, i))

LEMMA LengthOver ==
  ASSUME NEW outpoints, NEW to, Selects(outpoints, to), NEW w, DOMAIN w = DOMAIN outpoints,
         w = [i \in DOMAIN outpoints |-> w[i]]
  PROVE  Len(w) = Len(outpoints)
<1>1. PICK n \in Nat : n = Len(outpoints) /\ DOMAIN outpoints = 1..n
  BY DEF Selects
<1>2. w = [i \in 1..n |-> w[i]]
  BY <1>1
<1> QED
  BY <1>1, <1>2

LEMMA SegwitOpens ==
  ASSUME NEW outpoints, NEW to, Selects(outpoints, to), to.kind = "wpkh", NEW tx, tx = SpendingTx(outpoints)
  PROVE  \E witnesses :
           /\ Serialize(tx, witnesses) \in sign_segwit_tx_with_key(to.key, tx)
           /\ Openable(outpoints, to, tx, witnesses)
<1> DEFINE witness(i) == <<[scheme |-> "ecdsa", by |-> <<to.key>>, hash |-> compute_segwit_sighash(tx, i, to.key)],
                           [scheme |-> "key", by |-> <<to.key>>]>>
           witnesses == [i \in DOMAIN tx.inputs |-> witness(i)]
<1>1. /\ DOMAIN tx.inputs = DOMAIN outpoints /\ DOMAIN tx.outputs = {1}
      /\ \A i \in DOMAIN outpoints : tx.inputs[i].script_pubkey = Standard(to)
      /\ tx.outputs[1].value = Sum(outpoints)
  BY SpendingItems
<1>2. ~ \E i \in DOMAIN tx.outputs : tx.outputs[i].value = 0
  BY <1>1 DEF Selects
<1>3. Serialize(tx, witnesses) \in sign_segwit_tx_with_key(to.key, tx)
  BY <1>2, Zenon DEF sign_segwit_tx_with_key
<1>4. Standard(to) = p2wpkh_script_pubkey(Hash160(to.key)) /\ to.key \in BtcKey
  BY StandardIs DEF Selects, IsSegwit
<1>5. IsTx(tx) /\ ShortScripts(tx.inputs) /\ ShortScripts(tx.outputs) /\ SaysTrue(tx, btcCoins)
  BY SpendingIsTx, SpendingShort, SpendingSaysTrue
<1>6. ASSUME NEW i \in DOMAIN outpoints
      PROVE  Opens(witnesses[i], btcCoins[outpoints[i]], NetworkHash(Meaning(tx), btcCoins, i))
  <2>1. NetworkHash(Meaning(tx), btcCoins, i) = compute_segwit_sighash(tx, i, to.key)
    BY <1>1, <1>4, <1>5, SegwitHashAgrees
  <2>2. btcCoins[outpoints[i]].script = <<0, KeyHashSize>> \o Hash160(to.key)
    BY <1>4 DEF Selects, IsCoin, p2wpkh_script_pubkey
  <2>3. witnesses[i] = witness(i)
    BY <1>1, Zenon
  <2>4. PICK w : /\ w = witness(i) /\ Len(w) = 2 /\ w[1].scheme = "ecdsa" /\ w[1].by = w[2].by
                 /\ w[2].by[1] = to.key /\ w[1].hash = compute_segwit_sighash(tx, i, to.key)
    <3> DEFINE w == witness(i)
    <3>1. /\ Len(w) = 2 /\ w[1].scheme = "ecdsa" /\ w[1].by = w[2].by
          /\ w[2].by[1] = to.key /\ w[1].hash = compute_segwit_sighash(tx, i, to.key)
      OBVIOUS
    <3> HIDE DEF w
    <3> QED
      BY <3>1, Zenon DEF w
  <2>5. Opens(w, btcCoins[outpoints[i]], NetworkHash(Meaning(tx), btcCoins, i))
    BY <2>1, <2>2, <2>4, Zenon DEF Opens
  <2> QED
    BY <2>3, <2>4, <2>5, Zenon
<1>7. Len(witnesses) = Len(outpoints)
  <2>1. DOMAIN witnesses = DOMAIN outpoints
    BY <1>1, Zenon
  <2>2. witnesses = [i \in DOMAIN outpoints |-> witnesses[i]]
    BY <1>1
  <2> HIDE DEF witnesses
  <2> QED
    BY <2>1, <2>2, LengthOver
<1> HIDE DEF witnesses, witness
<1>8. Openable(outpoints, to, tx, witnesses)
  BY <1>6, <1>7, Zenon DEF Openable
<1> QED
  BY <1>3, <1>8, Zenon

LEMMA ScalarChosen ==
  ASSUME NEW key \in BtcKey, NEW scalar \in ScalarsOf(key), NEW tx, tx.inputs[1].script_pubkey = Locks(scalar)
  PROVE  XOnly(TaprootScalar(key, tx)) = XOnly(scalar)
<1>1. scalar.key \in BtcKey
  BY ScalarKey
<1>2. SubSeq(Locks(scalar), 3, Len(Locks(scalar))) = XOnly(scalar)
  BY <1>1, LocksType DEF LeadsWith
<1>3. TaprootScalar(key, tx) = IF \/ XOnly(scalar) = XOnly(taproot_tweak_seckey(key))
                                  \/ XOnly(scalar) # XOnly(SecretScalar(key))
                               THEN taproot_tweak_seckey(key) ELSE SecretScalar(key)
  BY <1>2, Zenon DEF TaprootScalar
<1>4. CASE scalar = taproot_tweak_seckey(key)
  BY <1>3, <1>4, Zenon
<1>5. CASE scalar = SecretScalar(key)
  BY <1>3, <1>5, Zenon
<1> QED
  BY <1>4, <1>5, Zenon DEF ScalarsOf

LEMMA TaprootOpens ==
  ASSUME NEW outpoints, NEW to, Selects(outpoints, to), to.kind # "wpkh", NEW tx, tx = SpendingTx(outpoints)
  PROVE  \E witnesses :
           /\ Serialize(tx, witnesses) \in sign_taproot_tx_with_key(to.key, tx)
           /\ Openable(outpoints, to, tx, witnesses)
<1> DEFINE witness(i) == <<[scheme |-> "schnorr", by |-> XOnly(TaprootScalar(to.key, tx)),
                            hash |-> compute_taproot_sighash(tx, i)]>>
           witnesses == [i \in DOMAIN tx.inputs |-> witness(i)]
<1>1. /\ DOMAIN tx.inputs = DOMAIN outpoints /\ DOMAIN tx.outputs = {1}
      /\ \A i \in DOMAIN outpoints : tx.inputs[i].script_pubkey = Standard(to)
      /\ tx.outputs[1].value = Sum(outpoints)
  BY SpendingItems
<1>2. ~ \E i \in DOMAIN tx.outputs : tx.outputs[i].value = 0
  BY <1>1 DEF Selects
<1>4. to.key \in BtcKey
  BY DEF Selects, IsSegwit
<1>5. PICK scalar \in ScalarsOf(to.key) : Standard(to) = Locks(scalar)
  BY StandardIs DEF Selects
<1>6. LeadsWith(Locks(scalar), 81, XOnlySize, XOnly(scalar))
  BY <1>4, <1>5, ScalarKey, LocksType
<1>7. Locks(scalar) # << >> /\ Locks(scalar)[1] = 81
  <2>1. Len(Locks(scalar)) = XOnlySize + 2 /\ Locks(scalar)[1] = 81
    BY <1>4, <1>5, <1>6, ScalarKey, LocksType DEF LeadsWith
  <2>2. Len(<< >>) = 0
    OBVIOUS
  <2>3. XOnlySize + 2 # 0
    BY ShortLengths
  <2> QED
    BY <2>1, <2>2, <2>3
<1>8. ~ \E i \in DOMAIN tx.inputs : tx.inputs[i].script_pubkey = << >>
  BY <1>1, <1>5, <1>7
<1>3. Serialize(tx, witnesses) \in sign_taproot_tx_with_key(to.key, tx)
  BY <1>2, <1>8, Zenon DEF sign_taproot_tx_with_key
<1>9. IsTx(tx) /\ ShortScripts(tx.inputs) /\ ShortScripts(tx.outputs) /\ SaysTrue(tx, btcCoins)
  BY SpendingIsTx, SpendingShort, SpendingSaysTrue
<1>10. XOnly(TaprootScalar(to.key, tx)) = XOnly(scalar)
  <2>1. 1 \in DOMAIN outpoints
    BY DEF Selects
  <2>2. tx.inputs[1].script_pubkey = Locks(scalar)
    BY <1>1, <1>5, <2>1
  <2> QED
    BY <1>4, <1>5, <2>2, ScalarChosen
<1>11. ASSUME NEW i \in DOMAIN outpoints
      PROVE  Opens(witnesses[i], btcCoins[outpoints[i]], NetworkHash(Meaning(tx), btcCoins, i))
  <2>1. NetworkHash(Meaning(tx), btcCoins, i) = compute_taproot_sighash(tx, i)
    <3>1. tx.inputs[i].script_pubkey[1] # 0 /\ i \in DOMAIN tx.inputs
      BY <1>1, <1>5, <1>7
    <3> QED
      BY <1>9, <3>1, TaprootHashAgrees
  <2>2. btcCoins[outpoints[i]].script = <<81, XOnlySize>> \o XOnly(scalar)
    BY <1>5 DEF Selects, IsCoin, Locks
  <2>3. witnesses[i] = witness(i)
    BY <1>1, Zenon
  <2>4. PICK w : /\ w = witness(i) /\ Len(w) = 1 /\ w[1].scheme = "schnorr" /\ w[1].by = XOnly(scalar)
                 /\ w[1].hash = compute_taproot_sighash(tx, i)
    <3> DEFINE w == witness(i)
    <3>1. /\ Len(w) = 1 /\ w[1].scheme = "schnorr" /\ w[1].by = XOnly(TaprootScalar(to.key, tx))
          /\ w[1].hash = compute_taproot_sighash(tx, i)
      OBVIOUS
    <3> HIDE DEF w
    <3> QED
      BY <1>10, <3>1, Zenon DEF w
  <2>5. Opens(w, btcCoins[outpoints[i]], NetworkHash(Meaning(tx), btcCoins, i))
    BY <2>1, <2>2, <2>4, Zenon DEF Opens
  <2> QED
    BY <2>3, <2>4, <2>5, Zenon
<1>12. Len(witnesses) = Len(outpoints)
  <2>1. DOMAIN witnesses = DOMAIN outpoints
    BY <1>1, Zenon
  <2>2. witnesses = [i \in DOMAIN outpoints |-> witnesses[i]]
    BY <1>1
  <2> HIDE DEF witnesses
  <2> QED
    BY <2>1, <2>2, LengthOver
<1> HIDE DEF witnesses, witness
<1>13. Openable(outpoints, to, tx, witnesses)
  BY <1>11, <1>12, Zenon DEF Openable
<1> QED
  BY <1>3, <1>13, Zenon

(* The signer that the script of the first input selects.                  *)
LEMMA SignerChosen ==
  ASSUME NEW outpoints, NEW to, Selects(outpoints, to), NEW tx, tx = SpendingTx(outpoints)
  PROVE  /\ tx.inputs # << >>
         /\ is_p2tr_script(tx.inputs[1].script_pubkey) <=> to.kind # "wpkh"
<1>1. 1 \in DOMAIN outpoints /\ to.key \in BtcKey
  BY DEF Selects, IsSegwit
<1>2. 1 \in DOMAIN tx.inputs /\ tx.inputs[1].script_pubkey = Standard(to)
  BY <1>1, SpendingItems
<1>3. tx.inputs # << >>
  <2>1. DOMAIN << >> = {}
    OBVIOUS
  <2> QED
    BY <1>2, <2>1
<1>4. CASE to.kind = "wpkh"
  <2>1. Standard(to) = <<0, KeyHashSize>> \o Hash160(to.key)
    BY <1>4, StandardIs DEF Selects, p2wpkh_script_pubkey
  <2>2. Standard(to)[1] = 0
    BY <2>1, SegwitScript
  <2> QED
    BY <1>2, <1>3, <1>4, <2>2 DEF is_p2tr_script
<1>5. CASE to.kind # "wpkh"
  <2>1. PICK scalar \in ScalarsOf(to.key) : Standard(to) = Locks(scalar)
    BY <1>5, StandardIs DEF Selects
  <2>2. /\ LeadsWith(Locks(scalar), 81, XOnlySize, XOnly(scalar)) /\ Len(XOnly(scalar)) = XOnlySize
    BY <1>1, <2>1, ScalarKey, LocksType
  <2>3. is_p2tr_script(Standard(to))
    BY <2>1, <2>2 DEF is_p2tr_script, LeadsWith
  <2> QED
    BY <1>2, <1>3, <1>5, <2>3
<1> QED
  BY <1>4, <1>5

LEMMA SelectedSpendable ==
  ASSUME NEW outpoints, NEW to, Selects(outpoints, to)
  PROVE  Spendable(outpoints)
<1>1. PICK tx : tx = SpendingTx(outpoints)
  OBVIOUS
<1>2. tx \in parse_bitcoin_tx_json(Spending(outpoints))
  BY <1>1, SpendingParsed
<1>3. btcCoins[outpoints[1]].to = to
  BY DEF Selects, IsCoin
<1>4. tx.inputs # << >> /\ (is_p2tr_script(tx.inputs[1].script_pubkey) <=> to.kind # "wpkh")
  BY <1>1, SignerChosen
<1>5. PICK witnesses :
        /\ Serialize(tx, witnesses) \in (IF to.kind # "wpkh" THEN sign_taproot_tx_with_key(to.key, tx)
                                                             ELSE sign_segwit_tx_with_key(to.key, tx))
        /\ Openable(outpoints, to, tx, witnesses)
  <2>1. CASE to.kind = "wpkh"
    BY <1>1, <2>1, SegwitOpens
  <2>2. CASE to.kind # "wpkh"
    BY <1>1, <2>2, TaprootOpens
  <2> QED
    BY <2>1, <2>2
<1>6. Serialize(tx, witnesses) \in bitcoin_sign_transaction(to.key, Spending(outpoints))
  <2>1. Serialize(tx, witnesses) \in (IF tx.inputs # << >> /\ is_p2tr_script(tx.inputs[1].script_pubkey)
                                      THEN sign_taproot_tx_with_key(to.key, tx)
                                      ELSE sign_segwit_tx_with_key(to.key, tx))
    BY <1>4, <1>5
  <2> QED
    BY <1>2, <2>1, Zenon DEF bitcoin_sign_transaction
<1>7. Valid(Serialize(tx, witnesses), btcCoins) # {}
  BY <1>1, <1>5, SpendingValid DEF Openable
<1> QED
  BY <1>3, <1>6, <1>7, Zenon DEF Spendable

(* Coins that arrived at an address that a wallet showed can be spent by   *)
(* that wallet, each alone and any two of the same address together,       *)
(* whatever the key, the coin and its value are, in native builds and      *)
(* wherever no key has an odd y.                                           *)
THEOREM FundsAreSpendable == ShowsStandard => (BtcSpec => []FundsCanBeSpent)
<1> SUFFICES ASSUME ShowsStandard PROVE BtcSpec => []FundsCanBeSpent
  OBVIOUS
<1>1. CoinsPaid => FundsCanBeSpent
  <2> SUFFICES ASSUME CoinsPaid, NEW a \in DOMAIN btcCoins, NEW b \in DOMAIN btcCoins,
                      btcCoins[a].to = btcCoins[b].to, btcCoins[a].to.kind # "pkh"
               PROVE  Spendable(IF a = b THEN <<a>> ELSE <<a, b>>)
    BY DEF FundsCanBeSpent
  <2>1. CASE a = b
    <3>1. Spendable(<<a>>)
      BY OneSelected, SelectedSpendable
    <3> QED
      BY <2>1, <3>1
  <2>2. CASE a # b
    <3>1. Spendable(<<a, b>>)
      BY <2>2, TwoSelected, SelectedSpendable
    <3> QED
      BY <2>2, <3>1
  <2> QED
    BY <2>1, <2>2
<1>2. BtcSpec => []CoinsPaid
  BY CoinsAreThoseOfPayments
<1> QED
  BY <1>1, <1>2, PTL
=============================================================================
