------------------------------ MODULE MCSender ------------------------------
(***************************************************************************)
(* Small instances of Sender.                                              *)
(***************************************************************************)
EXTENDS Sender, TLC

Three == <<"f1", "f2", "f3">>
SomeBlocks == [f \in Files |-> IF f = "f1" THEN 3 ELSE 1]
=============================================================================
