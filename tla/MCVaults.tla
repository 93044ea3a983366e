------------------------------ MODULE MCVaults ------------------------------
(* Vaults and the names of vaults for TLC.  Vault takes its contexts as    *)
(* given, so that the two share no state: a behaviour is one of one of     *)
(* them.                                                                   *)
EXTENDS MCVault, MCVaultContext

VARIABLE part

VaultsInit == part \in {"vaults", "names"} /\ VaultInit /\ ContextInit

VaultsNext ==
    /\ UNCHANGED part
    /\ \/ part = "vaults" /\ VaultNext /\ UNCHANGED segments
       \/ part = "names" /\ ContextNext /\ UNCHANGED vaultVars

VaultsSpec == VaultsInit /\ [][VaultsNext]_<<part, vaultVars, segments>>
=============================================================================
