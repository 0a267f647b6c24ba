---------------------------- MODULE FrameChannel ----------------------------
(***************************************************************************)
(* What one direction of a control stream promises: frames arrive whole    *)
(* and in the order they were sent in, or not at all.                      *)
(***************************************************************************)
EXTENDS Naturals, Sequences

VARIABLES sent, got

Init == sent = << >> /\ got = << >>

\* Any frame at all may be sent.
Send ==
  /\ Len(sent') = Len(sent) + 1 /\ SubSeq(sent', 1, Len(sent)) = sent
  /\ UNCHANGED got

Deliver ==
  /\ Len(got) < Len(sent)
  /\ got' = Append(got, sent[Len(got) + 1])
  /\ UNCHANGED sent

Spec == Init /\ [][Send \/ Deliver]_<<sent, got>>
=============================================================================
