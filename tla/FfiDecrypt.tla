----------------------------- MODULE FfiDecrypt -----------------------------
(***************************************************************************)
(* The two-pass decrypt calls of the C interface and the callers they are  *)
(* documented for (acegf_decrypt_with_mnemonic, acegf_decrypt_with_passkey *)
(* in ffi.rs).  One size variable is both argument and result: the bytes   *)
(* the buffer has, the bytes the plaintext needs, zero for a failure, or   *)
(* what it was when the arguments were rejected.                           *)
(*                                                                         *)
(* The caller starts with a dummy buffer and calls again while it is told  *)
(* a larger size.  Between two passes the message on its side may be       *)
(* replaced by another one.                                                *)
(***************************************************************************)
EXTENDS Naturals

CONSTANTS
  MaxLength,     (* Bound: bytes of the longest plaintext.                 *)
  MaxMessages    (* Bound: messages the caller gets to see.                *)

ASSUME BoundsAssumption == MaxLength \in Nat /\ MaxMessages \in Nat \ {0}

VARIABLES
  message,   (* What the caller holds: the ciphertext and its number.      *)
  capacity,  (* Bytes of the caller's buffer.                              *)
  out_len,   (* The size variable.                                         *)
  buffer,    (* The message whose plaintext the buffer holds, and how many *)
             (* bytes were written.                                        *)
  began,     (* The message at the start of the attempt.                   *)
  pass,      (* Calls made in this attempt, counted up to three.           *)
  state      (* "idle", "calling", "done", "failed".                       *)

decryptVars == <<message, capacity, out_len, buffer, began, pass, state>>

(* "plain": opens to `length` bytes.  "foreign": does not open.  "empty":  *)
(* no ciphertext at all, which the argument checks reject.                 *)
Content == [kind : {"plain"}, length : 0..MaxLength]
             \cup [kind : {"foreign", "empty"}, length : {0}]

Message == [content : Content, number : 1..MaxMessages]

Nothing == [number |-> 0, written |-> 0]

-----------------------------------------------------------------------------
(* One call: `available` is the size variable when it is made *)

Outcome(code, size, written) == [code |-> code, size |-> size, written |-> written]

(* Mutants of Fits: room for one byte less; one byte more is asked for;    *)
(* only a buffer of the very size will do.                                 *)
FitsAlmost(available, needed) == available + 1 >= needed
FitsWithSpare(available, needed) == available > needed
FitsExactly(available, needed) == available = needed

Fits(available, needed) == available >= needed

(* Mutant of Copy: fills what there is, and calls it a success.            *)
CopyTruncates(available, needed) ==
    Outcome(1, needed, IF Fits(available, needed) THEN needed ELSE available)

Copy(available, needed) ==
    IF Fits(available, needed) THEN Outcome(1, needed, needed)
    ELSE Outcome(0, needed, 0)

Decrypt(content, available) ==
    CASE content.kind = "empty"   -> Outcome(0, available, 0)
      [] content.kind = "foreign" -> Outcome(0, 0, 0)
      [] content.kind = "plain"   -> Copy(available, content.length)

-----------------------------------------------------------------------------
(* The caller *)

DecryptInit ==
    /\ message \in {m \in Message : m.number = 1}
    /\ capacity = 0 /\ out_len = 0 /\ pass = 0
    /\ buffer = Nothing
    /\ began = message
    /\ state = "idle"

(* Another message takes the place of the one being decrypted.             *)
Replace ==
    /\ message.number < MaxMessages
    /\ \E c \in Content : message' = [content |-> c, number |-> message.number + 1]
    /\ UNCHANGED <<capacity, out_len, buffer, began, pass, state>>

(* A dummy buffer of one byte, and its size.                               *)
Begin ==
    /\ state # "calling"
    /\ capacity' = 1 /\ out_len' = 1 /\ pass' = 0
    /\ buffer' = Nothing
    /\ began' = message
    /\ state' = "calling"
    /\ UNCHANGED message

Again(size) == size > capacity

(* What the caller makes of return code and size variable: a larger size   *)
(* is a buffer to be had, anything else without success is a failure.      *)
Call ==
    /\ state = "calling"
    /\ LET o == Decrypt(message.content, out_len)
       IN /\ buffer' = IF o.written = 0 /\ o.code = 0 THEN buffer
                       ELSE [number |-> message.number, written |-> o.written]
          /\ out_len' = o.size
          /\ state' = IF o.code = 1 THEN "done"
                      ELSE IF Again(o.size) THEN "calling"
                      ELSE "failed"
          /\ capacity' = IF state' = "calling" THEN o.size ELSE capacity
    /\ pass' = IF pass < 3 THEN pass + 1 ELSE pass
    /\ UNCHANGED <<message, began>>

DecryptNext == Replace \/ Begin \/ Call

(* A caller that was told a larger size calls again.                       *)
DecryptSpec ==
    DecryptInit /\ [][DecryptNext]_decryptVars /\ WF_decryptVars(Call)

-----------------------------------------------------------------------------
(* Correctness *)

Decryptable(m) == m.content.kind = "plain"

(* The library never writes a byte more than the caller's buffer has, not  *)
(* even when the message grew after the buffer was sized.                  *)
WritesStayInBuffer ==
    [][Call => buffer'.written <= capacity]_decryptVars

(* What is reported as success is one whole message, with its size: never  *)
(* a part, and never bytes of the message that was there a pass before.    *)
SuccessIsWhole ==
    [][Call /\ state' = "done" =>
         /\ Decryptable(message)
         /\ buffer' = [number |-> message.number, written |-> out_len']
         /\ out_len' = message.content.length]_decryptVars

(* A message that stayed in place and opens is never reported as a         *)
(* failure, and takes two calls at most.                                   *)
FailureIsReal ==
    /\ state = "failed" /\ message = began => ~Decryptable(message)
    /\ message = began => pass <= 2

(* A caller that does as it is told gets the message it holds, unless      *)
(* another one takes its place: the sizes that are reported lead to a      *)
(* buffer that is accepted, also from one that was sized for a message     *)
(* that is gone.                                                           *)
MessageArrives ==
    \A n \in 1..MaxMessages :
      (state = "calling" /\ Decryptable(message) /\ message.number = n)
        ~> (message.number # n \/ (state = "done" /\ buffer.number = n))
=============================================================================
