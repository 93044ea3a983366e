------------------------------ MODULE FfiHeap ------------------------------
(***************************************************************************)
(* Who owns what the C interface hands out (to_cstring, acegf_free_string, *)
(* acegf_call and acegf_free_result in ffi.rs, ACEGF_Result in acegf.h).   *)
(*                                                                         *)
(* Strings come back as bare pointers, or as the data of a result in a     *)
(* struct of the caller's, which a later call overwrites.  The allocator   *)
(* gives freed cells out again.  The caller is the one these functions     *)
(* imply: it zeroes its structs, frees a string once, and frees a result   *)
(* after each call, whatever its code, or more often.                      *)
(***************************************************************************)
EXTENDS Naturals

CONSTANTS
  Cell,      (* Addresses of the heap.                                     *)
  Null,      (* The null pointer.                                          *)
  Struct,    (* Structs of the caller's for results.                       *)
  TextLength (* Lengths of texts.                                          *)

ASSUME HeapAssumption == Null \notin Cell /\ TextLength \subseteq Nat

VARIABLES
  live,      (* Cells in use.                                              *)
  length,    (* Bytes of the text in a cell.                               *)
  strings,   (* Strings the caller holds.                                  *)
  result,    (* The caller's structs.                                      *)
  released   (* Of each struct: acegf_free_result came after the last call.*)

heapVars == <<live, length, strings, result, released>>

(* What CString::new is given: a text, or one with a NUL inside.           *)
Text == [length : TextLength, nul : BOOLEAN]

Fallback == 54   \* bytes of the message for errors that cannot be told

-----------------------------------------------------------------------------
(* Strings *)

Allocate(c, n) ==
    /\ c \in Cell \ live
    /\ live' = live \cup {c}
    /\ length' = [length EXCEPT ![c] = n]

(* to_cstring: a text with a NUL inside comes back empty.                  *)
to_cstring(c, text) ==
    /\ Allocate(c, IF text.nul THEN 0 ELSE text.length)
    /\ strings' = strings \cup {c}
    /\ UNCHANGED <<result, released>>

acegf_free_string(c) ==
    /\ live' = live \ {c}
    /\ strings' = strings \ {c}
    /\ UNCHANGED <<length, result, released>>

-----------------------------------------------------------------------------
(* Results *)

Result(code, data, data_len) == [code |-> code, data |-> data, data_len |-> data_len]

(* What is written to *out: serde_json writes a value or does not, and its *)
(* text becomes a C string or does not; a failure has a text of its own.   *)
(* (That serde_json escapes a NUL, which leaves -3 to -5 for what it might *)
(* do otherwise, is not relied upon.)                                      *)
Written(s, code, c, n) ==
    /\ Allocate(c, n)
    /\ result' = [result EXCEPT ![s] = Result(code, c, n)]

WrittenEmpty(s, code) ==
    /\ result' = [result EXCEPT ![s] = Result(code, Null, 0)]
    /\ UNCHANGED <<live, length>>

(* Codes are negated: 0, -2, -3, -4, -5, and -1 for a null argument, with  *)
(* the struct left as it was.                                              *)
acegf_call(s) ==
    /\ released[s]
    /\ \/ \E c \in Cell, text \in Text :
            \/ ~text.nul /\ Written(s, 0, c, text.length)
            \/ text.nul /\ WrittenEmpty(s, 3)
            \/ ~text.nul /\ Written(s, 2, c, text.length)
            \/ text.nul /\ Written(s, 5, c, Fallback)
       \/ WrittenEmpty(s, 4)
       \/ UNCHANGED <<live, length, result>>
    /\ released' = [released EXCEPT ![s] = FALSE]
    /\ UNCHANGED strings

(* Mutants of Emptied: the pointer stays, so does the length.              *)
EmptiedButPointer(r) == [r EXCEPT !.data_len = 0]
EmptiedButLength(r) == [r EXCEPT !.data = Null]

Emptied(r) == [r EXCEPT !.data = Null, !.data_len = 0]

HasDataOnSuccess(r) == r.code = 0 /\ r.data # Null   \* mutant of HasData

HasData(r) == r.data # Null

acegf_free_result(s) ==
    /\ IF HasData(result[s])
       THEN /\ live' = live \ {result[s].data}
            /\ result' = [result EXCEPT ![s] = Emptied(result[s])]
       ELSE UNCHANGED <<live, result>>
    /\ released' = [released EXCEPT ![s] = TRUE]
    /\ UNCHANGED <<length, strings>>

-----------------------------------------------------------------------------
HeapInit ==
    /\ live = {} /\ strings = {}
    /\ length = [c \in Cell |-> 0]
    /\ result = [s \in Struct |-> Result(0, Null, 0)]
    /\ released = [s \in Struct |-> TRUE]

HeapNext ==
    \/ \E c \in Cell, text \in Text : to_cstring(c, text)
    \/ \E c \in strings : acegf_free_string(c)
    \/ \E s \in Struct : acegf_call(s) \/ acegf_free_result(s)

HeapSpec == HeapInit /\ [][HeapNext]_heapVars

-----------------------------------------------------------------------------
(* Correctness *)

(* What the caller holds is there, under one name only and with the length *)
(* it was told: no call of its frees a cell twice, or one that was given   *)
(* to somebody else since.                                                 *)
HeldIsLive ==
    /\ strings \subseteq live
    /\ \A s \in Struct :
         IF result[s].data = Null THEN result[s].data_len = 0
         ELSE /\ result[s].data \in live \ strings
              /\ result[s].data_len = length[result[s].data]
    /\ \A s, t \in Struct :
         s # t /\ result[s].data # Null => result[s].data # result[t].data

(* Whatever is in use, the caller can still free.                          *)
NothingLeaks ==
    \A c \in live : c \in strings \/ \E s \in Struct : result[s].data = c
=============================================================================
