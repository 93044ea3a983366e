------------------------------ MODULE MCLedgers ------------------------------
(* The signers of the three families of ledgers for TLC.  They share no    *)
(* state, so that a behaviour is one of one of them: orders of steps of    *)
(* several would show nothing more.                                        *)
EXTENDS MCSolanaTransfer, MCEvm, MCBitcoin

VARIABLE ledger

LedgersInit == ledger \in {"solana", "evm", "bitcoin"} /\ Init /\ EvmInit /\ BtcInit

LedgersNext ==
    /\ UNCHANGED ledger
    /\ \/ ledger = "solana" /\ Next /\ UNCHANGED <<evmVars, btcVars>>
       \/ ledger = "evm" /\ EvmNext /\ UNCHANGED <<vars, btcVars>>
       \/ ledger = "bitcoin" /\ BtcNext /\ UNCHANGED <<vars, evmVars>>

LedgersSpec == LedgersInit /\ [][LedgersNext]_<<ledger, vars, evmVars, btcVars>>
=============================================================================
