----------------------------- MODULE MCReceiver -----------------------------
(***************************************************************************)
(* Small instances of Receiver.                                            *)
(***************************************************************************)
EXTENDS Receiver, TLC

U2 == {"u1", "u2"}
U3 == {"u1", "u2", "u3"}
AllValid == [u \in Uploads |-> TRUE]
OneConn == [u \in Uploads |-> "c1"]

\* Retry: u1 sends to a path that holds another file of the same size; on the
\* next connection u2 sends the same file again, and u3 a file that shrank
\* after its digest was taken.  The header of u1 has no receipt id; otherwise
\* the ids are equal: an id is the sender's clock (quic.go:207).
RetryConn == "u1" :> "c1" @@ "u2" :> "c2" @@ "u3" :> "c2"
RetryPath == [u \in Uploads |-> "p"]
RetryRid == "u1" :> None @@ "u2" :> "r1" @@ "u3" :> "r1"
RetryBody == "u1" :> <<"x", "y">> @@ "u2" :> <<"x", "y">> @@ "u3" :> <<"x">>
RetrySize == [u \in Uploads |-> 2]
RetryHash == [u \in Uploads |-> Digest(<<"x", "y">>)]
RetryBefore == "p" :> <<"o", "o">> @@ "q" :> <<"x", "y">>

\* Shared: two uploads of one connection, to different paths; the name of one
\* fails validateSubPath, as with "recv --dest ." that of "notes.txt" does.
SharedRid == "u1" :> "r1" @@ "u2" :> "r2"
SharedPath == "u1" :> "p" @@ "u2" :> "q"
SharedBody == "u1" :> <<"x">> @@ "u2" :> <<"x", "y">>
SharedSize == "u1" :> 1 @@ "u2" :> 2
NamesValid == "u1" :> TRUE @@ "u2" :> FALSE
SharedHash == "u1" :> Digest(<<"x">>) @@ "u2" :> Digest(<<"x", "y">>)

NoFiles == [p \in Paths |-> None]
TwinRid == [u \in Uploads |-> "r1"]

\* Again: u1 and u2 send the same file to the same path, u2 on the connection
\* that is opened after the one of u1 broke.
AgainConn == "u1" :> "c1" @@ "u2" :> "c2"
AgainBody == [u \in Uploads |-> <<"x">>]
AgainSize == [u \in Uploads |-> 1]
AgainHash == [u \in Uploads |-> Digest(<<"x">>)]
=============================================================================
