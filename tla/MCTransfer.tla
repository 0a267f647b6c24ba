----------------------------- MODULE MCTransfer -----------------------------
(***************************************************************************)
(* Small instances of Transfer.                                            *)
(***************************************************************************)
EXTENDS Transfer, TLC

OneFile == <<"u1">>
TwoFiles == <<"u1", "u2">>
U1 == {"u1"}
U2 == {"u1", "u2"}
OneConn == [u \in Uploads |-> "c1"]
AllValid == [u \in Uploads |-> TRUE]
OwnRid == [u \in Uploads |-> IF u = "u1" THEN "r1" ELSE "r2"]
OwnPath == [u \in Uploads |-> IF u = "u1" THEN "p" ELSE "q"]
Bodies == [u \in Uploads |-> IF u = "u1" THEN <<"x", "y">> ELSE <<"x">>]
Sizes == [u \in Uploads |-> Len(Body[u])]
Hashes == [u \in Uploads |-> Digest(Body[u])]
\* p has been sent before, and q is another file of the same size.
Held == "p" :> <<"x", "y">> @@ "q" :> <<"o">>
Nothing == [p \in Paths |-> None]
=============================================================================
