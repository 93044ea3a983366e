--------------------------- MODULE MCVaultContext ---------------------------
(* An instance of VaultContext for TLC. *)
EXTENDS VaultContext

(* "0" sorts before ":", "a" after it.                                     *)
MCByte == {48, 58, 97}
MCColon == 58

(* One label is a prefix of the other.                                     *)
MCLabel == {<<97>>, <<97, 48>>}
=============================================================================
