------------------------------ MODULE Transfer ------------------------------
(***************************************************************************)
(* One run of "boltgo send" against one receiver: Sender and Receiver on   *)
(* one connection (cmd/boltgo/quic.go).                                    *)
(*                                                                         *)
(* A file of the sender is an upload of the receiver.  Sender's actions    *)
(* for the server are the receiver's own here: a step that opens, writes,  *)
(* reads or closes a stream is a step of both modules, every other step is *)
(* a step of one of them.  The sender and the receiver see the end of the  *)
(* connection each in its own time.  That a sender has left a stream       *)
(* without its end shows in its own state: Receiver's Stall is not taken.  *)
(***************************************************************************)
EXTENDS Receiver, FiniteSets

CONSTANTS
  files, Commands, MaxConcurrent, StreamLimit, OpenTries, Window,
  LocalFaults, NetFaults,
  Patient  \* does the grace period outlast the server's work?

VARIABLES
  command, main, next, sem, wg, sentCount, errCount, exit, link, step,
  tries, opened, allowed, wrote, fin, drainer, read, peer

S == INSTANCE Sender WITH
       LengthOf <- [f \in Uploads |-> Len(Body[f])],
       Abandons <- TRUE

\* The state of the sender, of the receiver, and of both.
svars == <<command, main, next, sem, wg, sentCount, errCount, exit, link, step,
           tries, opened, allowed, wrote, fin, drainer, read, peer>>
rvars == vars
tvars == <<svars, rvars>>

Connection == CHOOSE c \in Conns : TRUE

ASSUME TransferAssumption ==
  /\ S!SenderAssumption
  /\ Conns = {Connection} /\ Uploads = S!Files
  /\ Patient \in BOOLEAN

TInit == Init /\ S!Init

-----------------------------------------------------------------------------
(***************************************************************************)
(* Steps of the sender.                                                    *)
(***************************************************************************)
\* A step the receiver takes part in as long as it has the connection.
Reaches(u, theirs) == IF Open(u) THEN theirs ELSE UNCHANGED rvars

TDial == S!Dial /\ Connect(Connection)

\* CloseWithError.  A patient sender closes when the receiver has done with
\* every stream that has an end.
TClose ==
  /\ S!Close
  /\ Patient => \A u \in Uploads : fin[u] => ~InProgress(u)
  /\ IF conn[Connection] = "open" THEN Disconnect(Connection) ELSE UNCHANGED rvars

TOpenControl(u) == S!OpenControl(u) /\ Reaches(u, OpenControl(u))
TWriteTransferStart(u) == S!WriteTransferStart(u) /\ Reaches(u, WriteTransferStart(u))
TOpenData(u) == S!OpenData(u) /\ Reaches(u, OpenData(u))
TOpenDataFails(u) ==
  /\ S!OpenDataFails(u)
  /\ IF step'[u] = "failed" THEN Reaches(u, GiveUp(u)) ELSE UNCHANGED rvars
TWriteHeader(u) == S!WriteHeader(u) /\ Reaches(u, WriteHeader(u))

Alone ==
  \/ S!DialFails \/ S!WalkDir \/ S!WalkFails \/ S!AddFile \/ S!StartFile \/ S!EndLoop
  \/ S!Wait \/ S!Report \/ S!StatFile \/ S!StatFails \/ S!Return

\* QUIC, as the sender meets it: nothing makes it take these steps.
Network == (S!GrantStream \/ S!LoseLink) /\ UNCHANGED rvars

AloneFor(u) ==
  \/ S!HashFile(u) \/ S!HashFails(u) \/ S!OpenControlFails(u) \/ S!WriteFails(u)
  \/ S!CopyBlock(u) \/ S!CopyEnd(u) \/ S!CopyFails(u) \/ S!CloseData(u)
  \/ S!CountFile(u) \/ S!Release(u) \/ S!Done(u)

\* drainReceipts stops at a frame with Acked, Nacked or Failed in it, or at
\* the end of the connection.  The receiver writes no such frame: its second
\* one has lost the Acked it stands for (ReceiptFrames).
Terminal(frame) == DOMAIN frame \cap {"acked", "nacked", "failed"} # {}

TDrainEnds(u) ==
  /\ S!DrainEnds(u)
  /\ link = "down" \/ \E i \in DOMAIN frames[u] : Terminal(frames[u][i])
  /\ UNCHANGED rvars

-----------------------------------------------------------------------------
(***************************************************************************)
(* Steps of the receiver.  Those that read the data stream are steps of    *)
(* the sender's environment too.                                           *)
(***************************************************************************)
TCopyBlock(u) == CopyBlock(u) /\ S!ServerReads(u)

\* io.Copy meets the end of the stream.
TCopyEnd(u) == CopyEnd(u) /\ fin[u] /\ read[u] = wrote[u] /\ UNCHANGED svars

\* io.Copy(io.Discard, ...), then Close.
TDiscard(u) == pc[u] = "skip" /\ S!ServerReads(u) /\ UNCHANGED rvars

TCloseStream_Undrained(u) ==
  /\ SkipFile(u) \/ SendSuccess(u)
  /\ IF link = "up" /\ Open(u)
     THEN IF fin[u] /\ read[u] = wrote[u] THEN S!ServerFinishes(u) ELSE S!ServerAbandons(u)
     ELSE UNCHANGED svars

TCloseStream(u) ==
  /\ SkipFile(u) \/ SendSuccess(u)
  /\ Open(u) => fin[u] /\ read[u] = wrote[u]
  /\ IF link = "up" /\ Open(u) THEN S!ServerFinishes(u) ELSE UNCHANGED svars

\* Close without reading.
TRefuse(u) ==
  /\ CheckRejected(u) \/ MarkPath(u) \/ CreateFails(u)
  /\ IF pc'[u] = "closed" /\ link = "up" THEN S!ServerAbandons(u) ELSE UNCHANGED svars

ReceiverAlone(u) ==
  \/ ReadHeader(u) \/ CheckPath(u) \/ StatFile(u) \/ HashFile(u) \/ HashFails(u)
  \/ CreateFile(u) \/ RemoveFile(u) \/ VerifyHash(u)
  \/ TakeEntry(u) \/ EntryMissing(u) \/ WakeByNotify(u) \/ WakeByTimer(u)
  \/ SendReceived(u) \/ SendAcked(u)
  \* A block that cannot be written has come.
  \/ CopyFails(u) /\ (Open(u) => read[u] < wrote[u])

TControl(u) == Control(u) /\ UNCHANGED svars
TDeadlinePasses(u) == DeadlinePasses(u) /\ UNCHANGED svars

TAccept == Accept(Connection) /\ UNCHANGED svars

\* The receiver's end of the connection goes, by itself or with its process.
TLost ==
  /\ NetFaults
  /\ Disconnect(Connection) \/ Crash
  /\ UNCHANGED svars

-----------------------------------------------------------------------------
SenderStep(u) ==
  \/ TOpenControl(u) \/ TWriteTransferStart(u) \/ TOpenData(u) \/ TOpenDataFails(u)
  \/ TWriteHeader(u)
  \/ AloneFor(u) /\ UNCHANGED rvars

ReceiverStep(u) ==
  \/ TCopyBlock(u) \/ TCopyEnd(u) \/ TDiscard(u) \/ TCloseStream(u) \/ TRefuse(u)
  \/ ReceiverAlone(u) /\ UNCHANGED svars

MainStep == TDial \/ TClose \/ (Alone /\ UNCHANGED rvars)

TNext ==
  \/ MainStep \/ Network \/ TAccept \/ TLost
  \/ \E u \in Uploads : \/ SenderStep(u) \/ TDrainEnds(u)
                      \/ TControl(u) \/ TDeadlinePasses(u) \/ ReceiverStep(u)

TSpec == TInit /\ [][TNext]_tvars

\* The goroutines of both programs are scheduled, and time passes.
TFairness ==
  /\ WF_tvars(MainStep) /\ WF_tvars(TAccept)
  /\ \A u \in Uploads :
       /\ WF_tvars(~S!Blocked(u) /\ SenderStep(u))
       /\ WF_tvars(TControl(u)) /\ WF_tvars(TDeadlinePasses(u)) /\ WF_tvars(ReceiverStep(u))

TFairSpec == TSpec /\ TFairness
-----------------------------------------------------------------------------
\* Both programs have done with the connection.
Settled ==
  /\ main = "exited" /\ conn[Connection] # "open"
  /\ \A u \in Uploads : pc[u] \in Finished \cup {"none"}

(***************************************************************************)
(* Exit code 0 says that all files were transferred (main.go:21,           *)
(* README.md:282): when everything has come to rest, each of them is in    *)
(* the receive directory.                                                  *)
(***************************************************************************)
ExitZeroMeansStored ==
  Settled /\ exit = S!ExitSuccess => \A u \in S!Targets : Content(PathOf[u]) = Body[u]

(***************************************************************************)
(* The exit code errs on one side only: once the command has decided, the  *)
(* receiver acknowledges no more files than the command reports as sent.   *)
(* A file whose sending failed half way is never taken for a whole one     *)
(* (quic.go:155-161, 178-184, 344-348 against 730-749).                    *)
(***************************************************************************)
Reported ==
  IF command = "SendDir" THEN sentCount ELSE IF exit = S!ExitSuccess THEN 1 ELSE 0

AcknowledgedIsReported ==
  exit # None => Cardinality({u \in Uploads : Checked(u) /\ ChecksumOK(u)}) <= Reported

(***************************************************************************)
(* The sender returns with an exit code, also when files cannot be stored  *)
(* (main.go:25-29, README.md:286-290).                                     *)
(***************************************************************************)
CommandReturns == main = "dial" ~> main = "exited"
=============================================================================
