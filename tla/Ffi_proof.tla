------------------------------ MODULE Ffi_proof -------------------------------
(***************************************************************************)
(* Proofs about the C interface: FfiDecrypt, for plaintexts of any length  *)
(* and any number of messages; FfiHeap, for heaps and structs of any number*)
(* and texts of any length.                                                *)
(***************************************************************************)
EXTENDS FfiDecrypt, FfiHeap, TLAPS

-----------------------------------------------------------------------------
(* Two-pass decryption *)

DecryptTypeOK ==
    /\ message \in Message /\ began \in Message
    /\ capacity \in Nat /\ out_len \in Nat
    /\ buffer \in [number : Nat, written : Nat]
    /\ pass \in 0..3
    /\ state \in {"idle", "calling", "done", "failed"}

(* Between two passes the size variable is the size of the buffer, which   *)
(* nothing was written to.                                                 *)
SizeIsCapacity == state = "calling" => out_len = capacity /\ buffer = Nothing

(* A message takes the place of another under a new number.                *)
NumbersGrow ==
    /\ began.number <= message.number
    /\ began.number = message.number => began = message

(* While the message stays, the second pass has just the room it needs.    *)
SecondPassFits ==
    state = "calling" /\ message = began =>
      pass = 0 \/ (pass = 1 /\ Decryptable(message) /\ capacity = message.content.length)

DecryptInv ==
    DecryptTypeOK /\ SizeIsCapacity /\ NumbersGrow /\ SecondPassFits /\ FailureIsReal

-----------------------------------------------------------------------------
(* What one call may answer.                                               *)
LEMMA DecryptOutcome ==
  ASSUME NEW content \in Content, NEW available \in Nat,
         NEW o, o = Decrypt(content, available)
  PROVE  /\ o.code \in {0, 1} /\ o.size \in Nat /\ o.written \in Nat
         /\ o.code = 1 => /\ content.kind = "plain" /\ content.length <= available
                          /\ o.size = content.length /\ o.written = content.length
         /\ o.code = 0 => o.written = 0
         /\ o.code = 0 /\ content.kind = "plain" =>
              o.size = content.length /\ content.length > available
         /\ content.kind # "plain" => o.code = 0 /\ o.size <= available
<1>1. content.length \in Nat /\ content.kind \in {"plain", "foreign", "empty"}
  BY BoundsAssumption DEF Content
<1>2. CASE content.kind = "empty"
  <2>1. o = Outcome(0, available, 0)
    BY <1>2 DEF Decrypt
  <2> QED
    BY <1>2, <2>1 DEF Outcome
<1>3. CASE content.kind = "foreign"
  <2>1. o = Outcome(0, 0, 0)
    BY <1>3 DEF Decrypt
  <2> QED
    BY <1>3, <2>1 DEF Outcome
<1>4. CASE content.kind = "plain"
  <2>1. o = Copy(available, content.length)
    BY <1>4 DEF Decrypt
  <2>2. CASE content.length <= available
    BY <1>1, <1>4, <2>1, <2>2 DEF Copy, Fits, Outcome
  <2>3. CASE ~(content.length <= available)
    BY <1>1, <1>4, <2>1, <2>3 DEF Copy, Fits, Outcome
  <2> QED
    BY <2>2, <2>3
<1> QED
  BY <1>1, <1>2, <1>3, <1>4

LEMMA MessageType ==
  ASSUME NEW m \in Message
  PROVE  /\ m.content \in Content /\ m.number \in Nat /\ m.content.length \in Nat
         /\ m.content.kind \in {"plain", "foreign", "empty"}
BY BoundsAssumption DEF Message, Content

(* What a pass does, in terms of its answer.                               *)
LEMMA CallFacts ==
  ASSUME DecryptInv, Call
  PROVE  \E o : /\ o = Decrypt(message.content, capacity)
                /\ state = "calling" /\ buffer = Nothing /\ out_len = capacity
                /\ message' = message /\ began' = began
                /\ out_len' = o.size
                /\ pass' = IF pass < 3 THEN pass + 1 ELSE pass
                /\ o.code = 1 => /\ state' = "done" /\ capacity' = capacity
                                 /\ buffer' = [number |-> message.number, written |-> o.written]
                /\ o.code = 0 => /\ buffer' = Nothing
                                 /\ o.size > capacity => state' = "calling" /\ capacity' = o.size
                                 /\ ~(o.size > capacity) => state' = "failed" /\ capacity' = capacity
<1> DEFINE o == Decrypt(message.content, out_len)
<1>1. /\ state = "calling" /\ out_len = capacity /\ buffer = Nothing
      /\ message \in Message /\ capacity \in Nat
  BY DEF Call, DecryptInv, SizeIsCapacity, DecryptTypeOK
<1>2. /\ buffer' = IF o.written = 0 /\ o.code = 0 THEN buffer
                   ELSE [number |-> message.number, written |-> o.written]
      /\ out_len' = o.size
      /\ state' = IF o.code = 1 THEN "done" ELSE IF Again(o.size) THEN "calling" ELSE "failed"
      /\ capacity' = IF state' = "calling" THEN o.size ELSE capacity
      /\ pass' = IF pass < 3 THEN pass + 1 ELSE pass
      /\ message' = message /\ began' = began
  BY DEF Call
<1>3. o.code \in {0, 1} /\ (o.code = 0 => o.written = 0)
  BY <1>1, DecryptOutcome, MessageType
<1>4. o = Decrypt(message.content, capacity)
  BY <1>1
<1> HIDE DEF o
<1>5. o.code = 1 => /\ state' = "done" /\ capacity' = capacity
                    /\ buffer' = [number |-> message.number, written |-> o.written]
  BY <1>2
<1>6. o.code = 0 => /\ buffer' = Nothing
                    /\ o.size > capacity => state' = "calling" /\ capacity' = o.size
                    /\ ~(o.size > capacity) => state' = "failed" /\ capacity' = capacity
  BY <1>1, <1>2, <1>3 DEF Again
<1> QED
  BY <1>1, <1>2, <1>4, <1>5, <1>6

-----------------------------------------------------------------------------
(* The invariant is inductive                                              *)

LEMMA DecryptInitInv == DecryptInit => DecryptInv
<1> SUFFICES ASSUME DecryptInit PROVE DecryptInv
  OBVIOUS
<1>1. message \in Message /\ began = message /\ state = "idle"
  BY DEF DecryptInit
<1>2. message.number \in Nat
  BY <1>1, MessageType
<1> QED
  BY <1>1, <1>2 DEF DecryptInit, DecryptInv, DecryptTypeOK, SizeIsCapacity, NumbersGrow,
       SecondPassFits, FailureIsReal, Nothing

LEMMA ReplacePreserves ==
  ASSUME DecryptInv, Replace
  PROVE  DecryptInv'
<1>1. PICK c \in Content : message' = [content |-> c, number |-> message.number + 1]
  BY DEF Replace
<1>2. /\ message \in Message /\ began \in Message
      /\ message.number \in 1..MaxMessages /\ message.number < MaxMessages
  BY DEF Replace, DecryptInv, DecryptTypeOK, Message
<1>3. message.number \in Nat /\ began.number \in Nat
  BY <1>2, MessageType
<1>4. /\ message' \in Message
      /\ message'.number = message.number + 1
  BY <1>1, <1>2, BoundsAssumption DEF Message
<1>5. /\ capacity' = capacity /\ out_len' = out_len /\ buffer' = buffer
      /\ began' = began /\ pass' = pass /\ state' = state
  BY DEF Replace
<1>6. began'.number < message'.number
  BY <1>3, <1>4, <1>5 DEF DecryptInv, NumbersGrow
<1>7. began' # message'
  BY <1>3, <1>4, <1>5, <1>6
<1>8. DecryptTypeOK'
  BY <1>4, <1>5 DEF DecryptInv, DecryptTypeOK
<1>9. SizeIsCapacity'
  BY <1>5 DEF DecryptInv, SizeIsCapacity
<1>10. NumbersGrow'
  BY <1>3, <1>4, <1>5, <1>6 DEF NumbersGrow
<1>11. SecondPassFits' /\ FailureIsReal'
  BY <1>7 DEF SecondPassFits, FailureIsReal
<1> QED
  BY <1>8, <1>9, <1>10, <1>11 DEF DecryptInv

LEMMA BeginPreserves ==
  ASSUME DecryptInv, Begin
  PROVE  DecryptInv'
<1>1. /\ message' = message /\ began' = message /\ message \in Message
      /\ state' = "calling" /\ pass' = 0 /\ capacity' = 1 /\ out_len' = 1
      /\ buffer' = Nothing
  BY DEF Begin, DecryptInv, DecryptTypeOK
<1>2. message.number \in Nat
  BY <1>1, MessageType
<1> QED
  BY <1>1, <1>2 DEF DecryptInv, DecryptTypeOK, SizeIsCapacity, NumbersGrow,
       SecondPassFits, FailureIsReal, Nothing

LEMMA DecryptCallPreserves ==
  ASSUME DecryptInv, Call
  PROVE  DecryptInv'
<1>1. PICK o : /\ o = Decrypt(message.content, capacity)
               /\ state = "calling" /\ buffer = Nothing /\ out_len = capacity
               /\ message' = message /\ began' = began
               /\ out_len' = o.size
               /\ pass' = IF pass < 3 THEN pass + 1 ELSE pass
               /\ o.code = 1 => /\ state' = "done" /\ capacity' = capacity
                                /\ buffer' = [number |-> message.number, written |-> o.written]
               /\ o.code = 0 => /\ buffer' = Nothing
                                /\ o.size > capacity => state' = "calling" /\ capacity' = o.size
                                /\ ~(o.size > capacity) => state' = "failed" /\ capacity' = capacity
  BY CallFacts
<1>2. message \in Message /\ capacity \in Nat /\ pass \in 0..3
  BY DEF DecryptInv, DecryptTypeOK
<1>3. message.content \in Content /\ message.number \in Nat /\ message.content.length \in Nat
  BY <1>2, MessageType
<1>4. /\ o.code \in {0, 1} /\ o.size \in Nat /\ o.written \in Nat
      /\ o.code = 1 => message.content.kind = "plain"
      /\ o.code = 0 /\ message.content.kind = "plain" =>
           o.size = message.content.length /\ message.content.length > capacity
      /\ message.content.kind # "plain" => o.code = 0 /\ o.size <= capacity
  BY <1>1, <1>2, <1>3, DecryptOutcome
<1>5. DecryptTypeOK'
  BY <1>1, <1>2, <1>3, <1>4 DEF DecryptInv, DecryptTypeOK, Nothing
<1>6. SizeIsCapacity'
  BY <1>1, <1>2, <1>4 DEF SizeIsCapacity
<1>7. NumbersGrow'
  BY <1>1 DEF DecryptInv, NumbersGrow
<1>8. ASSUME message = began
      PROVE  \/ pass = 0 /\ pass' = 1
             \/ pass = 1 /\ pass' = 2 /\ message.content.kind = "plain"
                  /\ capacity = message.content.length
  BY <1>1, <1>8 DEF DecryptInv, SecondPassFits, Decryptable
<1>9. SecondPassFits'
  BY <1>1, <1>2, <1>3, <1>4, <1>8 DEF SecondPassFits, Decryptable
<1>10. FailureIsReal'
  BY <1>1, <1>2, <1>3, <1>4, <1>8 DEF FailureIsReal, Decryptable
<1> QED
  BY <1>5, <1>6, <1>7, <1>9, <1>10 DEF DecryptInv

LEMMA DecryptStepPreserves == DecryptInv /\ [DecryptNext]_decryptVars => DecryptInv'
<1> SUFFICES ASSUME DecryptInv, [DecryptNext]_decryptVars PROVE DecryptInv'
  OBVIOUS
<1>1. CASE UNCHANGED decryptVars
  BY <1>1 DEF decryptVars, DecryptInv, DecryptTypeOK, SizeIsCapacity, NumbersGrow,
       SecondPassFits, FailureIsReal
<1> QED
  BY <1>1, ReplacePreserves, BeginPreserves, DecryptCallPreserves DEF DecryptNext

-----------------------------------------------------------------------------
(* The inductive invariant of the two passes: types, the size variable     *)
(* that is the size of the buffer, and the second pass that fits.          *)
THEOREM DecryptInvariance == DecryptSpec => []DecryptInv
BY DecryptInitInv, DecryptStepPreserves, PTL DEF DecryptSpec

(* A message that stays in place and opens is never reported as a failure, *)
(* whatever its length, and takes two passes at most.                      *)
THEOREM RealFailures == DecryptSpec => []FailureIsReal
<1>1. DecryptInv => FailureIsReal
  BY DEF DecryptInv
<1> QED
  BY <1>1, DecryptInvariance, PTL

(* No pass writes more bytes than the caller's buffer has.                 *)
THEOREM NoOverrun == DecryptSpec => WritesStayInBuffer
<1>1. DecryptInv /\ [DecryptNext]_decryptVars
        => [Call => buffer'.written <= capacity]_decryptVars
  <2> SUFFICES ASSUME DecryptInv, Call PROVE buffer'.written <= capacity
    OBVIOUS
  <2>1. PICK o : /\ o = Decrypt(message.content, capacity)
                 /\ o.code = 1 => buffer' = [number |-> message.number, written |-> o.written]
                 /\ o.code = 0 => buffer' = Nothing
    BY CallFacts
  <2>2. message \in Message /\ capacity \in Nat
    BY DEF DecryptInv, DecryptTypeOK
  <2>3. message.content \in Content
    BY <2>2, MessageType
  <2>4. o.code \in {0, 1} /\ (o.code = 1 => o.written <= capacity)
    BY <2>1, <2>2, <2>3, DecryptOutcome
  <2> QED
    BY <2>1, <2>2, <2>4 DEF Nothing
<1> QED
  BY <1>1, DecryptInvariance, PTL DEF DecryptSpec, WritesStayInBuffer

(* Success is one whole message, the one that is there now, with its size. *)
THEOREM WholeMessages == DecryptSpec => SuccessIsWhole
<1> DEFINE Whole == Call /\ state' = "done" =>
              /\ Decryptable(message)
              /\ buffer' = [number |-> message.number, written |-> out_len']
              /\ out_len' = message.content.length
<1>1. DecryptInv /\ [DecryptNext]_decryptVars => [Whole]_decryptVars
  <2> SUFFICES ASSUME DecryptInv, Call, state' = "done"
               PROVE  /\ Decryptable(message)
                      /\ buffer' = [number |-> message.number, written |-> out_len']
                      /\ out_len' = message.content.length
    OBVIOUS
  <2>1. PICK o : /\ o = Decrypt(message.content, capacity)
                 /\ out_len' = o.size
                 /\ o.code = 1 => buffer' = [number |-> message.number, written |-> o.written]
                 /\ o.code = 0 => state' \in {"calling", "failed"}
    BY CallFacts
  <2>2. message \in Message /\ capacity \in Nat
    BY DEF DecryptInv, DecryptTypeOK
  <2>3. message.content \in Content
    BY <2>2, MessageType
  <2>4. o.code = 1
    BY <2>1, <2>2, <2>3, DecryptOutcome
  <2>5. message.content.kind = "plain" /\ o.size = message.content.length /\ o.written = o.size
    BY <2>1, <2>2, <2>3, <2>4, DecryptOutcome
  <2> QED
    BY <2>1, <2>4, <2>5 DEF Decryptable
<1> QED
  BY <1>1, DecryptInvariance, PTL DEF DecryptSpec, SuccessIsWhole

-----------------------------------------------------------------------------
(* Strings and results on the heap *)

HeapTypeOK ==
    /\ live \subseteq Cell
    /\ strings \subseteq Cell
    /\ length \in [Cell -> Nat]
    /\ result \in [Struct -> [code : Nat, data : Cell \cup {Null}, data_len : Nat]]
    /\ released \in [Struct -> BOOLEAN]

(* A call finds its struct empty: without this, what it overwrites leaks.  *)
ReleasedIsEmpty == \A s \in Struct : released[s] => result[s].data = Null

HeapInv == HeapTypeOK /\ HeldIsLive /\ NothingLeaks /\ ReleasedIsEmpty

-----------------------------------------------------------------------------
(* A cell that is allocated is nobody's.                                   *)
LEMMA AllocatedIsFresh ==
  ASSUME HeapInv, NEW c, NEW n \in Nat, Allocate(c, n)
  PROVE  /\ c \in Cell /\ c # Null
         /\ c \notin live /\ c \notin strings
         /\ \A s \in Struct : result[s].data # c
         /\ live' = live \cup {c}
         /\ length' \in [Cell -> Nat]
         /\ length'[c] = n
         /\ \A d \in live : length'[d] = length[d]
<1>1. c \in Cell \ live /\ live' = live \cup {c} /\ length' = [length EXCEPT ![c] = n]
  BY DEF Allocate
<1>2. c # Null
  BY <1>1, HeapAssumption
<1>3. c \notin strings /\ \A s \in Struct : result[s].data # c
  BY <1>1, <1>2 DEF HeapInv, HeldIsLive
<1>4. length' \in [Cell -> Nat] /\ length'[c] = n /\ \A d \in live : length'[d] = length[d]
  BY <1>1 DEF HeapInv, HeapTypeOK
<1> QED
  BY <1>1, <1>2, <1>3, <1>4

LEMMA HeapInitInv == HeapInit => HeapInv
BY DEF HeapInit, HeapInv, HeapTypeOK, HeldIsLive, NothingLeaks, ReleasedIsEmpty, Result

-----------------------------------------------------------------------------
(* Strings *)

LEMMA ToCstringPreserves ==
  ASSUME HeapInv, NEW c \in Cell, NEW text \in Text, to_cstring(c, text)
  PROVE  HeapInv'
<1> DEFINE n == IF text.nul THEN 0 ELSE text.length
<1>1. n \in Nat
  BY HeapAssumption DEF Text
<1>2. /\ Allocate(c, n) /\ strings' = strings \cup {c}
      /\ result' = result /\ released' = released
  BY DEF to_cstring
<1> HIDE DEF n
<1>3. /\ c \in Cell /\ c # Null
      /\ c \notin live /\ c \notin strings
      /\ \A s \in Struct : result[s].data # c
      /\ live' = live \cup {c}
      /\ length' \in [Cell -> Nat]
      /\ \A d \in live : length'[d] = length[d]
  BY <1>1, <1>2, AllocatedIsFresh
<1>4. HeapTypeOK'
  BY <1>2, <1>3 DEF HeapInv, HeapTypeOK
<1>5. HeldIsLive'
  BY <1>2, <1>3 DEF HeapInv, HeldIsLive
<1>6. NothingLeaks'
  BY <1>2, <1>3 DEF HeapInv, NothingLeaks
<1>7. ReleasedIsEmpty'
  BY <1>2 DEF HeapInv, ReleasedIsEmpty
<1> QED
  BY <1>4, <1>5, <1>6, <1>7 DEF HeapInv

LEMMA FreeStringPreserves ==
  ASSUME HeapInv, NEW c \in strings, acegf_free_string(c)
  PROVE  HeapInv'
<1>1. /\ live' = live \ {c} /\ strings' = strings \ {c}
      /\ length' = length /\ result' = result /\ released' = released
  BY DEF acegf_free_string
<1>2. HeapTypeOK'
  BY <1>1 DEF HeapInv, HeapTypeOK
<1>3. HeldIsLive'
  BY <1>1 DEF HeapInv, HeldIsLive
<1>4. NothingLeaks'
  BY <1>1 DEF HeapInv, NothingLeaks
<1>5. ReleasedIsEmpty'
  BY <1>1 DEF HeapInv, ReleasedIsEmpty
<1> QED
  BY <1>2, <1>3, <1>4, <1>5 DEF HeapInv

-----------------------------------------------------------------------------
(* Results *)

(* A call that writes a text into a struct that was empty.                 *)
LEMMA WrittenPreserves ==
  ASSUME HeapInv, NEW s \in Struct, result[s].data = Null,
         NEW code \in Nat, NEW c, NEW n \in Nat, Written(s, code, c, n),
         released' = [released EXCEPT ![s] = FALSE], UNCHANGED strings
  PROVE  HeapInv'
<1>1. Allocate(c, n) /\ result' = [result EXCEPT ![s] = Result(code, c, n)]
  BY DEF Written
<1>2. /\ c \in Cell /\ c # Null
      /\ c \notin live /\ c \notin strings
      /\ \A t \in Struct : result[t].data # c
      /\ live' = live \cup {c}
      /\ length' \in [Cell -> Nat]
      /\ length'[c] = n
      /\ \A d \in live : length'[d] = length[d]
  BY <1>1, AllocatedIsFresh
<1>3. /\ result'[s].data = c /\ result'[s].data_len = n
      /\ \A t \in Struct : t # s => result'[t] = result[t]
  BY <1>1 DEF HeapInv, HeapTypeOK, Result
<1>4. HeapTypeOK'
  BY <1>1, <1>2 DEF HeapInv, HeapTypeOK, Result
<1>5. HeldIsLive'
  BY <1>2, <1>3 DEF HeapInv, HeldIsLive
<1>6. NothingLeaks'
  <2>1. \A d \in live : d # Null
    BY HeapAssumption DEF HeapInv, HeapTypeOK
  <2>2. \A d \in live : d \in strings \/ \E t \in Struct : t # s /\ result[t].data = d
    BY <2>1 DEF HeapInv, NothingLeaks
  <2> QED
    BY <1>2, <1>3, <2>2 DEF NothingLeaks
<1>7. ReleasedIsEmpty'
  BY <1>3 DEF HeapInv, HeapTypeOK, ReleasedIsEmpty
<1> QED
  BY <1>4, <1>5, <1>6, <1>7 DEF HeapInv

(* A call that writes a code only, or nothing.                             *)
LEMMA WrittenEmptyPreserves ==
  ASSUME HeapInv, NEW s \in Struct, result[s].data = Null, NEW code \in Nat,
         WrittenEmpty(s, code) \/ UNCHANGED <<live, length, result>>,
         released' = [released EXCEPT ![s] = FALSE], UNCHANGED strings
  PROVE  HeapInv'
<1>1. /\ live' = live /\ length' = length
      /\ result' = [result EXCEPT ![s] = Result(code, Null, 0)] \/ result' = result
  BY DEF WrittenEmpty
<1>2. /\ \A t \in Struct : result'[t].data = result[t].data
      /\ \A t \in Struct : result'[t].data_len = result[t].data_len
  BY <1>1, SMTT(30) DEF HeapInv, HeapTypeOK, HeldIsLive, Result
<1>3. HeapTypeOK'
  BY <1>1 DEF HeapInv, HeapTypeOK, Result
<1>4. HeldIsLive'
  BY <1>1, <1>2 DEF HeapInv, HeldIsLive
<1>5. NothingLeaks'
  BY <1>1, <1>2 DEF HeapInv, NothingLeaks
<1>6. ReleasedIsEmpty'
  BY <1>2 DEF HeapInv, HeapTypeOK, ReleasedIsEmpty
<1> QED
  BY <1>3, <1>4, <1>5, <1>6 DEF HeapInv

LEMMA HeapCallPreserves ==
  ASSUME HeapInv, NEW s \in Struct, acegf_call(s)
  PROVE  HeapInv'
<1>1. /\ result[s].data = Null
      /\ released' = [released EXCEPT ![s] = FALSE] /\ UNCHANGED strings
  BY DEF acegf_call, HeapInv, ReleasedIsEmpty
<1>2. CASE WrittenEmpty(s, 4) \/ UNCHANGED <<live, length, result>>
  BY <1>1, <1>2, WrittenEmptyPreserves
<1>3. ASSUME NEW c \in Cell, NEW text \in Text,
             \/ ~text.nul /\ Written(s, 0, c, text.length)
             \/ text.nul /\ WrittenEmpty(s, 3)
             \/ ~text.nul /\ Written(s, 2, c, text.length)
             \/ text.nul /\ Written(s, 5, c, Fallback)
      PROVE  HeapInv'
  <2>1. text.length \in Nat /\ Fallback \in Nat
    BY HeapAssumption DEF Text, Fallback
  <2>2. CASE WrittenEmpty(s, 3)
    BY <1>1, <2>2, WrittenEmptyPreserves
  <2>3. CASE Written(s, 0, c, text.length)
    BY <1>1, <2>1, <2>3, WrittenPreserves
  <2>4. CASE Written(s, 2, c, text.length)
    BY <1>1, <2>1, <2>4, WrittenPreserves
  <2>5. CASE Written(s, 5, c, Fallback)
    BY <1>1, <2>1, <2>5, WrittenPreserves
  <2> QED
    BY <1>3, <2>2, <2>3, <2>4, <2>5
<1> QED
  BY <1>2, <1>3 DEF acegf_call

LEMMA FreeResultPreserves ==
  ASSUME HeapInv, NEW s \in Struct, acegf_free_result(s)
  PROVE  HeapInv'
<1>1. /\ released' = [released EXCEPT ![s] = TRUE]
      /\ length' = length /\ strings' = strings
  BY DEF acegf_free_result
<1>2. CASE result[s].data # Null
  <2>1. live' = live \ {result[s].data} /\ result' = [result EXCEPT ![s] = Emptied(result[s])]
    BY <1>2 DEF acegf_free_result, HasData
  <2>2. /\ result'[s].data = Null /\ result'[s].data_len = 0
        /\ \A t \in Struct : t # s => result'[t] = result[t]
    BY <2>1 DEF HeapInv, HeapTypeOK, Emptied
  <2>3. HeapTypeOK'
    BY <1>1, <2>1 DEF HeapInv, HeapTypeOK, Emptied
  <2>4. HeldIsLive'
    BY <1>1, <1>2, <2>1, <2>2 DEF HeapInv, HeldIsLive
  <2>5. NothingLeaks'
    BY <1>1, <2>1, <2>2 DEF HeapInv, NothingLeaks
  <2>6. ReleasedIsEmpty'
    BY <1>1, <2>2 DEF HeapInv, HeapTypeOK, ReleasedIsEmpty
  <2> QED
    BY <2>3, <2>4, <2>5, <2>6 DEF HeapInv
<1>3. CASE result[s].data = Null
  <2>1. live' = live /\ result' = result
    BY <1>3 DEF acegf_free_result, HasData
  <2> QED
    BY <1>1, <1>3, <2>1 DEF HeapInv, HeapTypeOK, HeldIsLive, NothingLeaks, ReleasedIsEmpty
<1> QED
  BY <1>2, <1>3

-----------------------------------------------------------------------------
LEMMA HeapStepPreserves == HeapInv /\ [HeapNext]_heapVars => HeapInv'
<1> SUFFICES ASSUME HeapInv, [HeapNext]_heapVars PROVE HeapInv'
  OBVIOUS
<1>1. ASSUME NEW c \in Cell, NEW text \in Text, to_cstring(c, text) PROVE HeapInv'
  BY <1>1, ToCstringPreserves
<1>2. ASSUME NEW c \in strings, acegf_free_string(c) PROVE HeapInv'
  BY <1>2, FreeStringPreserves
<1>3. ASSUME NEW s \in Struct, acegf_call(s) PROVE HeapInv'
  BY <1>3, HeapCallPreserves
<1>4. ASSUME NEW s \in Struct, acegf_free_result(s) PROVE HeapInv'
  BY <1>4, FreeResultPreserves
<1>5. CASE UNCHANGED heapVars
  BY <1>5 DEF heapVars, HeapInv, HeapTypeOK, HeldIsLive, NothingLeaks, ReleasedIsEmpty
<1> QED
  BY <1>1, <1>2, <1>3, <1>4, <1>5 DEF HeapNext

(* The inductive invariant of the heap: types, ownership, no leaks, and    *)
(* structs that are empty between a free and the next call.                *)
THEOREM HeapInvariance == HeapSpec => []HeapInv
BY HeapInitInv, HeapStepPreserves, PTL DEF HeapSpec

(* What the caller holds is live, under one name, with the length it was   *)
(* told: acegf_free_string and acegf_free_result never free a cell twice,  *)
(* nor one that was given to somebody else since.                          *)
THEOREM HeldStaysLive == HeapSpec => []HeldIsLive
<1>1. HeapInv => HeldIsLive
  BY DEF HeapInv
<1> QED
  BY <1>1, HeapInvariance, PTL

(* Every text that the library allocated and that is not freed yet is one  *)
(* that its caller can still free.                                         *)
THEOREM NoLeaks == HeapSpec => []NothingLeaks
<1>1. HeapInv => NothingLeaks
  BY DEF HeapInv
<1> QED
  BY <1>1, HeapInvariance, PTL
=============================================================================
