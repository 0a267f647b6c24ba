------------------------------- MODULE Upload -------------------------------
(***************************************************************************)
(* The name of an upload on its way from the sender's command line to the  *)
(* receive directory: the remote path (cmd/boltgo/main.go), the header of  *)
(* the data stream (cmd/boltgo/quic.go) and the path check                 *)
(* (cmd/boltgo/pathutil.go).                                               *)
(*                                                                         *)
(* A string is a sequence of tokens: the characters the code looks for,    *)
(* which are ":", "/", "\\", "." and the line feed, and the text between   *)
(* them.  Neither side writes blanks or carriage returns around a receipt  *)
(* id, and how they are trimmed is left out.                               *)
(*                                                                         *)
(* A definition named X_Fault is the code of X with a plausible bug.       *)
(***************************************************************************)
EXTENDS Integers, Sequences, SequencesExt

CONSTANT Numbers \* the tokens strconv.ParseUint accepts

LF == "\n"
Dummy == <<"dummy">>

-----------------------------------------------------------------------------
(***************************************************************************)
(* strings and path/filepath, as far as they are used.                     *)
(***************************************************************************)
Split(s, sep) ==
  FoldLeft(LAMBDA parts, t : IF t = sep THEN Append(parts, << >>)
                             ELSE [parts EXCEPT ![Len(parts)] = Append(@, t)],
           << << >> >>, s)

Concat(parts, sep) ==
  IF parts = << >> THEN << >>
  ELSE FoldLeft(LAMBDA s, part : s \o <<sep>> \o part, Head(parts), Tail(parts))

\* s up to its first sep, and what follows it (a step of strings.SplitN).
Cut(s, sep) ==
  LET at == {i \in DOMAIN s : s[i] = sep}
      i == CHOOSE i \in at : \A j \in at : i <= j
  IN IF at = {} THEN [found |-> FALSE, before |-> s, after |-> << >>]
     ELSE [found |-> TRUE, before |-> SubSeq(s, 1, i - 1), after |-> SubSeq(s, i + 1, Len(s))]

Rooted(path) == path # << >> /\ Head(path) = "/"

\* The elements that are left when "", "." and ".." have been resolved.
Elements(path) ==
  LET add(out, e) ==
        CASE e \in {<< >>, <<".">>} -> out
          [] e = <<".", ".">> /\ out # << >> /\ Last(out) # e -> Front(out)
          [] e = <<".", ".">> /\ out = << >> /\ Rooted(path) -> out
          [] OTHER -> Append(out, e)
  IN FoldLeft(add, << >>, Split(path, "/"))

Clean(path) ==
  LET short == Concat(Elements(path), "/") IN
  CASE Rooted(path) -> <<"/">> \o short
    [] ~Rooted(path) /\ short = << >> -> <<".">>
    [] OTHER -> short

JoinPath(parts) == Clean(Concat(SelectSeq(parts, LAMBDA p : p # << >>), "/"))

-----------------------------------------------------------------------------
(***************************************************************************)
(* Path checks.                                                            *)
(***************************************************************************)
ValidateSubPath_Raw(base, sub) == IsPrefix(base, JoinPath(<<base, sub, Dummy>>))

ValidateSubPath(base, sub) == IsPrefix(Clean(base), JoinPath(<<base, sub, Dummy>>))

\* What cmdSend makes of its third argument: no slashes or backslashes in
\* front, and slashes only.
RemotePrefix(arg) ==
  LET keeps(i) == \E j \in 1..i : arg[j] \notin {"/", "\\"}
      kept == SelectSeq([i \in DOMAIN arg |-> <<i, arg[i]>>], LAMBDA x : keeps(x[1]))
  IN [i \in DOMAIN kept |-> IF kept[i][2] = "\\" THEN "/" ELSE kept[i][2]]

\* "Simulate server-side check": against a directory of the sender's own.
TempCheckDir == <<"/", "tmp", "/", "boltgo-check">>
Sendable(prefix) == prefix = << >> \/ ValidateSubPath(TempCheckDir, prefix)

\* name is the base name of a file, or its path below the directory sent.
RemoteName(prefix, name) ==
  IF prefix = << >> THEN name ELSE prefix \o <<"/">> \o name

-----------------------------------------------------------------------------
(***************************************************************************)
(* The header of a data stream: two lines.                                 *)
(***************************************************************************)
\* The token, which nobody sets, is empty.
Header(f) ==
  <<"UPLOAD", ":">> \o f.FileName \o <<":", f.SizeBytes, ":", ":">> \o f.ReceiptID \o <<LF>>
    \o <<"HASH", ":">> \o f.Sha256 \o <<LF>>

ParseUint(s) == IF \E n \in Numbers : s = <<n>> THEN s[1] ELSE "0"

\* The parts of the first line after "UPLOAD:", each with what follows it.
NamePart(line) == Cut(SubSeq(line, 3, Len(line)), ":")
SizePart(line) == Cut(NamePart(line).after, ":")
TokenPart(line) == Cut(SizePart(line).after, ":")

\* A line with another beginning or fewer than three parts is turned down.
IsHeader(line) ==
  IsPrefix(<<"UPLOAD", ":">>, line) /\ NamePart(line).found /\ SizePart(line).found

\* There is a fourth part only where there is a third colon; then there may
\* be a fifth, which nobody reads.
ParseHeader(line) ==
  [FileName |-> NamePart(line).before, SizeBytes |-> ParseUint(SizePart(line).before),
   ReceiptID |-> Cut(TokenPart(line).after, ":").before]

IsHash(line) == IsPrefix(<<"HASH", ":">>, line)
=============================================================================
