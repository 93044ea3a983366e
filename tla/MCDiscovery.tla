---------------------------- MODULE MCDiscovery ----------------------------
(* An instance of Discovery for TLC. *)
EXTENDS Discovery

(* "a.b@c" twice, and "ab@c", which is another mailbox.                    *)
Plain  == <<"a", ".", "b", "@", "c">>
Tagged == <<" ", "A", ".", "b", "+", "a", "@", "C">>
Other  == <<"a", "b", "@", "c", " ">>

MCReaches ==
    LET dotted == [user |-> <<"a", ".", "b">>, domain |-> <<"c">>]
        joined == [user |-> <<"a", "b">>, domain |-> <<"c">>]
    IN (Plain :> dotted) @@ (Tagged :> dotted) @@ (Other :> joined)

MCSpelling == {Plain, Tagged, Other}

MCLowerOf == [A |-> "a", C |-> "c"]
=============================================================================
