------------------------------- MODULE MCFfi -------------------------------
(* The two protocols of the C interface for TLC: buffers of the caller and *)
(* the heap of the library.  They share no state: a behaviour is one of    *)
(* one of them.                                                            *)
EXTENDS FfiDecrypt, FfiHeap

VARIABLE protocol

FfiInit == protocol \in {"decrypt", "heap"} /\ DecryptInit /\ HeapInit

FfiNext ==
    /\ UNCHANGED protocol
    /\ \/ protocol = "decrypt" /\ DecryptNext /\ UNCHANGED heapVars
       \/ protocol = "heap" /\ HeapNext /\ UNCHANGED decryptVars

FfiSpec ==
    /\ FfiInit
    /\ [][FfiNext]_<<protocol, decryptVars, heapVars>>
    /\ WF_decryptVars(Call)

=============================================================================
