-------------------------- MODULE MCSolanaTransfer --------------------------
(* An instance of SolanaTransfer for TLC: keys of two bytes. *)
EXTENDS SolanaTransfer

Alice == <<201, 1>>
Bob   == <<202, 2>>
Mint1 == <<203, 3>>

MCWallets == {Alice, Bob}
MCMints == {Mint1}

MCSystem == <<0, 0>>
MCToken  == <<204, 4>>
MCAta    == <<205, 5>>

(* With the highest bump, Bob's hash is on the curve and Alice's is not.   *)
MCPda == [w \in {Alice, Bob}, mint \in {Mint1}, b \in 0..2 |-> <<w[1] + 10 * (b + 1), mint[2]>>]

MCOnCurve == {MCPda[Bob, Mint1, 2]}

MCTokenAccount == [w \in {Alice, Bob}, mint \in {Mint1} |->
                     IF w = Alice THEN MCPda[Alice, Mint1, 2] ELSE MCPda[Bob, Mint1, 1]]

MCBlockhash == <<99, 98>>
=============================================================================
