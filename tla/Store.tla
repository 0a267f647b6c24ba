------------------------------- MODULE Store -------------------------------
(***************************************************************************)
(* What the receiving side promises about a directory, whatever fails.     *)
(* Under a name there is nothing, or what was there before, or a part of   *)
(* the one upload that writes it, or all of an upload; a part is left only *)
(* by the end of the process.  An upload is skipped only when the name     *)
(* already holds the content it announced, and taken for stored only when  *)
(* it is; and nobody is told of an outcome before it is there.             *)
(***************************************************************************)
EXTENDS Integers, Sequences

CONSTANTS
  Uploads, Paths,
  PathOf,  \* where an upload goes
  Body,    \* what it carries
  HashOf,  \* the digest it announces, or None
  Before,  \* what a path holds at first, or None
  None

VARIABLES
  holds,   \* what a reader of a path finds, or None
  writer,  \* the upload that writes a path, or None
  outcome, \* what became of an upload
  told     \* what was told on the control stream of an upload

vars == <<holds, writer, outcome, told>>

Outcomes == {"none", "skipped", "stored", "mismatch", "failed"}

Digest(content) == [sha256 |-> content]
Agrees(u) == HashOf[u] \in {None, Digest(Body[u])}

Init ==
  /\ holds = [p \in Paths |-> Before[p]]
  /\ writer = [p \in Paths |-> None]
  /\ outcome = [u \in Uploads |-> "none"]
  /\ told = [u \in Uploads |-> "nothing"]

Becomes(u, result) == outcome' = [outcome EXCEPT ![u] = result]

Skip(u) ==
  /\ outcome[u] = "none" /\ writer[PathOf[u]] = None
  /\ Digest(holds[PathOf[u]]) = HashOf[u]
  /\ Becomes(u, "skipped")
  /\ UNCHANGED <<holds, writer, told>>

Begin(u) ==
  /\ outcome[u] = "none" /\ writer[PathOf[u]] = None
  /\ writer' = [writer EXCEPT ![PathOf[u]] = u]
  /\ holds' = [holds EXCEPT ![PathOf[u]] = << >>]
  /\ UNCHANGED <<outcome, told>>

Extend(u) ==
  LET n == Len(holds[PathOf[u]])
  IN  /\ writer[PathOf[u]] = u /\ n < Len(Body[u])
      /\ holds' = [holds EXCEPT ![PathOf[u]] = SubSeq(Body[u], 1, n + 1)]
      /\ UNCHANGED <<writer, outcome, told>>

Commit(u) ==
  /\ writer[PathOf[u]] = u /\ holds[PathOf[u]] = Body[u] /\ Agrees(u)
  /\ writer' = [writer EXCEPT ![PathOf[u]] = None]
  /\ Becomes(u, "stored")
  /\ UNCHANGED <<holds, told>>

Discard(u) ==
  /\ writer[PathOf[u]] = u
  /\ writer' = [writer EXCEPT ![PathOf[u]] = None]
  /\ holds' = [holds EXCEPT ![PathOf[u]] = None]
  /\ \/ Becomes(u, "failed")
     \/ holds[PathOf[u]] = Body[u] /\ ~Agrees(u) /\ Becomes(u, "mismatch")
  /\ UNCHANGED told

\* A receipt about u, on a control stream that has none yet.
Tell(u) ==
  /\ outcome[u] \in {"stored", "mismatch"}
  /\ \E v \in Uploads : told[v] = "nothing" /\ told' = [told EXCEPT ![v] = outcome[u]]
  /\ UNCHANGED <<holds, writer, outcome>>

\* What was being written stays as it is, and what was not told is forgotten.
Crash ==
  /\ writer' = [p \in Paths |-> None]
  /\ outcome' \in [Uploads -> Outcomes]
  /\ \A u \in Uploads : outcome'[u] \in {outcome[u], "none"}
  /\ UNCHANGED <<holds, told>>

Next ==
  \/ Crash
  \/ \E u \in Uploads :
       Skip(u) \/ Begin(u) \/ Extend(u) \/ Commit(u) \/ Discard(u) \/ Tell(u)

Spec == Init /\ [][Next]_vars
=============================================================================
