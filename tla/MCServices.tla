----------------------------- MODULE MCServices -----------------------------
(* The two services a wallet talks to, for TLC.  They share no state: a    *)
(* behaviour is one of one of them.                                        *)
EXTENDS MCDiscovery, MCHfiPay

VARIABLE service

ServicesInit == service \in {"vadar", "hfi pay"} /\ Init /\ HfiInit

ServicesNext ==
    /\ UNCHANGED service
    /\ \/ service = "vadar" /\ Next /\ UNCHANGED hfiVars
       \/ service = "hfi pay" /\ HfiNext /\ UNCHANGED vars

ServicesSpec == ServicesInit /\ [][ServicesNext]_<<service, vars, hfiVars>>
=============================================================================
