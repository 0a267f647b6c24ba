------------------------------- MODULE MCWire -------------------------------
(***************************************************************************)
(* The frames the two programs write.  Integers have 22 bits here: three   *)
(* times seven and one more, as nine times seven and one make 64.  The     *)
(* longest of the frames is as long as a frame may be.                     *)
(***************************************************************************)
EXTENDS Wire

Repeat(n) == [i \in 1..n |-> 97]
Id == <<49>>
Hash == <<50, 51>>
Largest == Limit - 1

With(type, name, v) == [Zero(type) EXCEPT ![name] = v]

Start(name, size) ==
  [ReceiptID |-> Id, FileName |-> name, SizeBytes |-> size, Sha256 |-> Hash, ChunkSize |-> 0,
   Metadata |-> [Zero("Metadata") EXCEPT !.ID = Id, !.FileName = name, !.SizeBytes = size,
                                         !.Protocol = <<97, 47, 49>>, !.SessionID = Id]]

Control(name, m) == [type |-> "ControlFrame", frames |-> <<With("ControlFrame", name, m)>>]

Receipts(ok) ==
  [type |-> "ReceiptFrame",
   frames |-> <<[Zero("ReceiptFrame") EXCEPT !.ReceiptID = Id,
                   !.Received = [ChecksumOK |-> ok, Sha256 |-> Hash]],
                [Zero("ReceiptFrame") EXCEPT !.ReceiptID = Id, !.Acked = Zero("Acked")]>>]

\* What the server writes on a control stream.
Receipted == {Receipts(ok) : ok \in BOOLEAN}

\* Names and sizes around the places where a length or a number takes a byte more.
Written ==
  {Control("TransferStart", Start(Repeat(n), size)) :
     n \in {1, 43, 44, 127, 128}, size \in {0, 127, 128, Largest}}
  \cup {Control("ProbeRequest", Zero("ProbeRequest"))}
  \cup {Control("ProbeResponse", With("ProbeResponse", "SaveDir", Repeat(n))) : n \in {1, 128}}
  \cup Receipted

-----------------------------------------------------------------------------
\* The files a sender finds below its directory, the remote paths it may be
\* given and the directories a receiver may serve.
Names == {<<"a">>, <<"d", "/", "a">>, <<".", "a">>}
Args == {<< >>, <<"/">>, <<"/", "p">>, <<"\\", "p", "\\", "q">>, <<"p", "/", ".", "/", "q", "/">>,
         <<"p", "/", ".", ".", "/", "q">>}
Bases == {<<"/", "in">>, <<".", "/", "in">>, <<"/", "in", "/">>, <<"/">>, <<".">>,
          <<".", ".", "/", "in">>}

\* The elements of an argument, whichever slashes it has.
Folders(arg) == Elements([i \in DOMAIN arg |-> IF arg[i] = "\\" THEN "/" ELSE arg[i]])

UploadOf(base, arg, name, content) ==
  [type |-> "Upload", base |-> base,
   frames |-> <<[FileName |-> RemoteName(RemotePrefix(arg), name), SizeBytes |-> "9",
                 ReceiptID |-> <<"17", "f">>, Sha256 |-> <<"ab", "cd">>, Content |-> content,
                 Place |-> Elements(base) \o Folders(arg) \o Elements(name)]>>]

Uploads(names, contents) ==
  {UploadOf(base, arg, name, content) :
     base \in Bases, arg \in {a \in Args : Sendable(RemotePrefix(a))},
     name \in names, content \in contents}

WrittenAndSent ==
  Written \cup Uploads(Names, {<< >>, <<"HASH", ":", LF, "x">>})

\* What the theorems about streams assume holds of these.
ASSUME AllPlain == \A s \in WrittenAndSent : Plain(s)
=============================================================================
