---------------------------- MODULE VaultContext ----------------------------
(***************************************************************************)
(* How a vault is named: build_vault_context makes a context string of the *)
(* segments a caller collected, hkdf_expand_with_context makes the bytes   *)
(* that separate key streams of a label and that string (acegf_core.rs).   *)
(* Module Vault takes contexts as given; this module says when two vaults  *)
(* that were meant to be different really have different ones.             *)
(*                                                                         *)
(* Strings are sequences of bytes here, because the separator inside them  *)
(* is what the properties are about.                                       *)
(***************************************************************************)
EXTENDS Integers, SequencesExt

CONSTANTS
  Byte,         (* Bytes in use, as numbers.                               *)
  Colon,        (* The separator, one of them.                             *)
  Label,        (* Labels of key streams, as sequences of bytes.           *)
  Caller,       (* Who names vaults.                                       *)
  MaxLength,    (* Bound: bytes of a segment.                              *)
  MaxSegments   (* Bound: segments of a vault.                             *)

ASSUME ByteAssumption == Byte \subseteq Nat /\ Colon \in Byte

(* None of the labels in the code has a colon.                             *)
ASSUME LabelAssumption == \A l \in Label : l \in Seq(Byte) /\ Colon \notin Range(l)

VARIABLE segments   (* The list of segments each caller has collected.     *)

Segment == BoundedSeq(Byte, MaxLength)

-----------------------------------------------------------------------------
(* Byte-wise lexicographic order of strings, as in Rust's Ord for str.     *)
Before(s, t) ==
    LET differ == {i \in 1..Len(s) : i <= Len(t) /\ s[i] # t[i]}
    IN IF differ = {} THEN Len(s) < Len(t)
       ELSE LET i == CHOOSE i \in differ : \A j \in differ : i <= j
            IN s[i] < t[i]

(* The segments in that order: any bijection that sorts them gives the     *)
(* same list.                                                              *)
Sorted(list) ==
    LET places == 1..Len(list)
        order == CHOOSE p \in Bijection(places, places) :
                   \A i, j \in places :
                     i < j => Before(list[p[i]], list[p[j]]) \/ list[p[i]] = list[p[j]]
    IN [i \in places |-> list[order[i]]]

Join(list) ==
    LET joined[n \in 0..Len(list)] ==
          CASE n = 0 -> << >>
            [] n = 1 -> list[1]
            [] OTHER -> joined[n - 1] \o <<Colon>> \o list[n]
    IN joined[Len(list)]

BuildUnsorted(list) == Join(list)   \* mutant of BuildVaultContext

(* Mutant of BuildVaultContext: segments run together.                     *)
BuildConcatenated(list) == FlattenSeq(Sorted(list))

BuildVaultContext(list) == Join(Sorted(list))

InfoGlued(label, context) == label \o context   \* mutant of Info

Info(label, context) ==
    IF context = << >> THEN label ELSE label \o <<Colon>> \o context

-----------------------------------------------------------------------------
ContextInit == segments = [c \in Caller |-> << >>]

(* A caller adds a dimension: company, fund, index.                        *)
AddSegment(c, s) ==
    /\ Len(segments[c]) < MaxSegments
    /\ segments' = [segments EXCEPT ![c] = Append(@, s)]

(* ... or starts over with another vault.                                  *)
StartOver(c) == segments' = [segments EXCEPT ![c] = << >>]

ContextNext ==
    \E c \in Caller :
      \/ \E s \in Segment : AddSegment(c, s)
      \/ StartOver(c)

ContextSpec == ContextInit /\ [][ContextNext]_segments

-----------------------------------------------------------------------------
(* Correctness *)

(* How often each segment occurs: what a list of segments means, since its *)
(* order is not to matter.                                                 *)
Occurrences(list) ==
    [s \in Range(list) |-> Cardinality({i \in DOMAIN list : list[i] = s})]

(* A vault is named by what its segments are and how often they occur, in  *)
(* whatever order they were collected; two vaults that differ in that have *)
(* different contexts - as long as no segment is empty or has a colon in   *)
(* it, which the code leaves to its callers.                               *)
WellFormed(list) == \A s \in Range(list) : s # << >> /\ Colon \notin Range(s)

ContextNamesVault ==
    \A c, d \in Caller :
      LET same == Occurrences(segments[c]) = Occurrences(segments[d])
          one  == BuildVaultContext(segments[c]) = BuildVaultContext(segments[d])
      IN /\ same => one
         /\ WellFormed(segments[c]) /\ WellFormed(segments[d]) /\ one => same

(* Key streams of different labels or contexts never share their HKDF info *)
(* bytes, whatever the segments are; the personal wallet's streams, which  *)
(* have no context, included.                                              *)
StreamsNeverCollide ==
    \A c, d \in Caller, k, l \in Label :
      LET x == BuildVaultContext(segments[c])
          y == BuildVaultContext(segments[d])
      IN Info(k, x) = Info(l, y) => k = l /\ x = y
=============================================================================
