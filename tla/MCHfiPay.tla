------------------------------ MODULE MCHfiPay ------------------------------
(* An instance of HfiPay for TLC. *)
EXTENDS HfiPay

(* Bytes 0x0a in two spellings and 0x1b, one byte too many, no hex at all. *)
MCXids == {<<"0", "a">>, <<"0", "A">>, <<"1", "b">>, <<"0", "a", "1", "b">>,
           <<"0", "g">>}

(* An identifier that begins like an xid.                                  *)
MCIdentifier == {<<5>>, <<27, 5>>}

MCRefund ==
    [chain_tag |-> 1, mint |-> None, intent |-> <<"0", "1">>, blinded |-> <<"0", "0">>,
     amount |-> 5, authorizer |-> <<"0", "a">>, dest |-> <<"1", "b">>,
     expiry |-> 9, nonce |-> 0]

(* One refund, and its neighbours.                                         *)
MCRefundRequest ==
    {MCRefund,
     [MCRefund EXCEPT !.chain_tag = 2],
     [MCRefund EXCEPT !.mint = <<"0", "1">>],
     [MCRefund EXCEPT !.mint = <<"0", "1">>, !.intent = <<"1", "b">>],
     [MCRefund EXCEPT !.amount = 9, !.expiry = 5],
     [MCRefund EXCEPT !.authorizer = <<"1", "b">>, !.dest = <<"0", "A">>],
     [MCRefund EXCEPT !.nonce = 1],
     [MCRefund EXCEPT !.dest = <<"1">>],
     [MCRefund EXCEPT !.intent = <<"0", "1", "0", "0">>, !.blinded = None]}

MCHfiPassphrase == {<<"p">>, <<"q">>}

MCHfiSecondary == {None, <<"s">>}
=============================================================================
