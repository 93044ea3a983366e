------------------------------ MODULE Identity ------------------------------
(***************************************************************************)
(* What the wallet core promises its callers, without any cryptography.    *)
(*                                                                         *)
(* A mnemonic, once issued, names one identity for ever.  A new identity   *)
(* enters only by creating a wallet; changing a passphrase issues another  *)
(* name for the same identity ("same root or fail").  A session shows the  *)
(* identity of the mnemonic it was opened with until it is closed, and     *)
(* what a call shows for a mnemonic is that mnemonic's identity.           *)
(***************************************************************************)
CONSTANTS
  Mnemonic,   (* Names that can be issued.                                *)
  Owner,      (* Identities.                                              *)
  SessionId   (* Handles of sessions.                                     *)

VARIABLES
  owner,      (* From issued mnemonics to identities.                     *)
  opened,     (* From open sessions to the identity they show.            *)
  shown       (* The identity the last call showed, with its mnemonic:    *)
              (* a set of at most one pair, empty for a failed call.      *)

vars == <<owner, opened, shown>>

Issued == DOMAIN owner

Known == {owner[m] : m \in Issued}

Init ==
    /\ owner = [m \in {} |-> {}]
    /\ opened = [s \in {} |-> {}]
    /\ shown = {}

(* A wallet with an identity nobody has, shown to its creator.             *)
Create(m, e) ==
    /\ shown' = {<<m, e>>}
    /\ m \notin Issued
    /\ e \notin Known
    /\ owner' = [x \in Issued \cup {m} |-> IF x = m THEN e ELSE owner[x]]
    /\ UNCHANGED opened

(* Another name for the identity of `old`; nothing else is renamed.        *)
Reissue(old, new) ==
    /\ shown' = {}
    /\ old \in Issued
    /\ new \in Issued => owner[new] = owner[old]
    /\ owner' = [x \in Issued \cup {new} |->
                    IF x = new THEN owner[old] ELSE owner[x]]
    /\ UNCHANGED opened

Show(m) ==
    /\ m \in Issued
    /\ shown' = {<<m, owner[m]>>}
    /\ UNCHANGED <<owner, opened>>

Open(s, m) ==
    /\ m \in Issued
    /\ shown' = {<<m, owner[m]>>}
    /\ s \notin DOMAIN opened
    /\ opened' = [x \in DOMAIN opened \cup {s} |->
                     IF x = s THEN owner[m] ELSE opened[x]]
    /\ UNCHANGED owner

Close(s) ==
    /\ shown' = {}
    /\ s \in DOMAIN opened
    /\ opened' = [x \in DOMAIN opened \ {s} |-> opened[x]]
    /\ UNCHANGED owner

Fail ==
    /\ shown' = {}
    /\ UNCHANGED <<owner, opened>>

Next ==
    \/ Fail
    \/ \E m \in Mnemonic : Show(m)
    \/ \E s \in SessionId, m \in Mnemonic : Open(s, m)
    \/ \E s \in SessionId : Close(s)
    \/ \E m \in Mnemonic, e \in Owner : Create(m, e)
    \/ \E old, new \in Mnemonic : Reissue(old, new)

Spec == Init /\ [][Next]_vars
=============================================================================
