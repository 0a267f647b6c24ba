------------------------------- MODULE Sender -------------------------------
(***************************************************************************)
(* The sending side of boltgo: SendDir, SendFile, sendFileAeroSync and     *)
(* dialServer (cmd/boltgo/quic.go), and the exit code cmdSend makes of     *)
(* what they return (cmd/boltgo/main.go).                                  *)
(*                                                                         *)
(* SendDir starts one goroutine per file, at most MaxConcurrent at a time, *)
(* waits for all of them and closes the connection.  SendFile sends one    *)
(* file in the calling goroutine.  The receipts are read by a goroutine    *)
(* nothing waits for.                                                      *)
(*                                                                         *)
(* The environment is QUIC and the server: how many streams may be open,   *)
(* how much of a stream is buffered before the server reads it, and what   *)
(* the server does with a data stream (reads it to its end and closes it,  *)
(* or closes it unread).  A stream counts as open until both sides have    *)
(* closed their direction and the server has read it to its end.  Nobody   *)
(* closes a control stream, so it counts as long as the connection lasts.  *)
(*                                                                         *)
(* A definition named X_Fault is the code of X with a plausible bug; no    *)
(* behaviour of Spec uses one.  They show that the properties notice.      *)
(***************************************************************************)
EXTENDS Integers, Sequences, FiniteSets

CONSTANTS
  files,         \* the files filepath.Walk finds, in its order
  Commands,      \* which of SendDir and SendFile may be called
  MaxConcurrent, \* cfg.MaxConcurrent, any number --parallel was given
  StreamLimit,   \* MaxIncomingStreams of the server (512)
  OpenTries,     \* how often opening a data stream is tried (50)
  Window,        \* blocks a stream holds that the server has not read
  LengthOf,      \* blocks io.Copy reads from a file
  LocalFaults,   \* may walking, opening and reading the source fail?
  NetFaults,     \* may dialling fail, and the connection be lost?
  Abandons,      \* may the server close a data stream it has not read?
  None           \* the absent value

Files == {files[i] : i \in DOMAIN files}

ASSUME SenderAssumption ==
  /\ files \in Seq(Files)
  /\ \A i, j \in DOMAIN files : files[i] = files[j] => i = j
  /\ Commands \subseteq {"SendDir", "SendFile"}
  /\ "SendFile" \in Commands => files # << >>
  /\ MaxConcurrent \in Int
  /\ StreamLimit \in Nat /\ OpenTries \in Nat \ {0} /\ Window \in Nat \ {0}
  /\ LengthOf \in [Files -> Nat]
  /\ LocalFaults \in BOOLEAN /\ NetFaults \in BOOLEAN /\ Abandons \in BOOLEAN
  /\ None \notin Nat

VARIABLES
  command,   \* "SendDir", or "SendFile", which sends the first file
  main,      \* the goroutine of SendDir or SendFile
  next,      \* how many files it has started
  sem,       \* tokens in the channel sem
  wg,        \* counter of the WaitGroup
  sentCount, \* counters of SendDir
  errCount,
  exit,      \* the exit code it has decided on, or None
  link,      \* the connection as the sender sees it: "none", "up", "down"
  step,      \* the goroutine that sends a file
  tries,     \* how often it has tried to open its data stream
  opened,    \* streams opened on the connection
  allowed,   \* streams the server has allowed so far, as the sender knows
  wrote,     \* blocks written to the data stream of a file
  fin,       \* has its end been written?
  drainer,   \* drainReceipts of a file
  read,      \* blocks the server has read of its data stream
  peer       \* the server's end of it: "none", "reading", "done", "closed"

count == <<sem, wg, sentCount, errCount>>
call  == <<command, main, next, exit>>
flow  == <<tries, opened, wrote, fin, drainer>>
env   == <<allowed, read, peer>>
vars  == <<call, count, link, step, flow, env>>

ExitSuccess == 0
ExitErrorConn == 8
ExitErrorPartial == 10
ExitErrorAll == 11
ExitFatal == 16

Capacity == IF MaxConcurrent <= 0 THEN 10 ELSE MaxConcurrent

MainStates == {"dial", "walk", "loop", "acquire", "wait", "grace",
               "stat", "call", "close", "exited"}
Sending == {"hash", "ctrl", "start", "open", "header", "copy", "fin", "sent", "failed"}
Steps == {"none"} \cup Sending \cup {"release", "done", "end"}

Goto(f, from, to) == step[f] = from /\ step' = [step EXCEPT ![f] = to]
At(from, to) == main = from /\ main' = to /\ UNCHANGED command
MayOpen == link = "up" /\ opened < allowed

Init ==
  /\ command \in Commands
  /\ main = "dial" /\ next = 0 /\ exit = None
  /\ sem = 0 /\ wg = 0 /\ sentCount = 0 /\ errCount = 0
  /\ link = "none"
  /\ step = [f \in Files |-> "none"]
  /\ tries = [f \in Files |-> 0]
  /\ opened = 0 /\ allowed = StreamLimit
  /\ wrote = [f \in Files |-> 0]
  /\ fin = [f \in Files |-> FALSE]
  /\ drainer = [f \in Files |-> "none"]
  /\ read = [f \in Files |-> 0]
  /\ peer = [f \in Files |-> "none"]

-----------------------------------------------------------------------------
(***************************************************************************)
(* SendDir and SendFile.                                                   *)
(***************************************************************************)
Dial ==
  /\ At("dial", IF command = "SendDir" THEN "walk" ELSE "stat")
  /\ link' = "up"
  /\ UNCHANGED <<next, exit, count, step, flow, env>>

\* Only here does the context count: after a signal that cancels it dialling
\* fails, and once connected the command goes on.
DialFails ==
  /\ NetFaults
  /\ At("dial", "exited")
  /\ exit' = ExitErrorConn
  /\ UNCHANGED <<next, count, link, step, flow, env>>

WalkDir ==
  /\ At("walk", "loop")
  /\ UNCHANGED <<next, exit, count, link, step, flow, env>>

\* A plain error, which cmdSend turns into ExitErrorAll.
WalkFails ==
  /\ LocalFaults
  /\ At("walk", "close")
  /\ exit' = ExitErrorAll
  /\ UNCHANGED <<next, count, link, step, flow, env>>

AddFile_NoAdd ==
  /\ next < Len(files)
  /\ At("loop", "acquire")
  /\ UNCHANGED <<next, exit, count, link, step, flow, env>>

\* wg.Add(1), before the semaphore is acquired.
AddFile ==
  /\ next < Len(files)
  /\ At("loop", "acquire")
  /\ wg' = wg + 1
  /\ UNCHANGED <<next, exit, sem, sentCount, errCount, link, step, flow, env>>

StartFile ==
  /\ sem < Capacity
  /\ At("acquire", "loop")
  /\ sem' = sem + 1
  /\ next' = next + 1
  /\ step' = [step EXCEPT ![files[next + 1]] = "hash"]
  /\ UNCHANGED <<exit, wg, sentCount, errCount, link, flow, env>>

EndLoop ==
  /\ next = Len(files)
  /\ At("loop", "wait")
  /\ UNCHANGED <<next, exit, count, link, step, flow, env>>

Wait ==
  /\ wg = 0
  /\ At("wait", "grace")
  /\ UNCHANGED <<next, exit, count, link, step, flow, env>>

\* After the grace period: no receipt is looked at.
Report ==
  /\ At("grace", "close")
  /\ exit' = IF errCount = 0 THEN ExitSuccess
             ELSE IF sentCount = 0 THEN ExitErrorAll ELSE ExitErrorPartial
  /\ UNCHANGED <<next, count, link, step, flow, env>>

StatFile ==
  /\ At("stat", "call")
  /\ step' = [step EXCEPT ![files[1]] = "hash"]
  /\ next' = 1
  /\ UNCHANGED <<exit, count, link, flow, env>>

StatFails ==
  /\ LocalFaults
  /\ At("stat", "close")
  /\ exit' = ExitFatal
  /\ UNCHANGED <<next, count, link, step, flow, env>>

Return_Anyway ==
  /\ At("call", "close")
  /\ Goto(files[1], "sent", "end") \/ Goto(files[1], "failed", "end")
  /\ exit' = ExitSuccess
  /\ UNCHANGED <<next, count, link, flow, env>>

\* sendFileAeroSync returns to SendFile: no grace period.
Return ==
  /\ At("call", "close")
  /\ \/ Goto(files[1], "sent", "end") /\ exit' = ExitSuccess
     \/ Goto(files[1], "failed", "end") /\ exit' = ExitErrorAll
  /\ UNCHANGED <<next, count, link, flow, env>>

\* The deferred conn.CloseWithError, then os.Exit.  What the connection has
\* not delivered by then is lost.
Close ==
  /\ At("close", "exited")
  /\ link' = "down"
  /\ UNCHANGED <<next, exit, count, step, flow, env>>

-----------------------------------------------------------------------------
(***************************************************************************)
(* sendFileAeroSync.                                                       *)
(***************************************************************************)
HashFile(f) ==
  /\ Goto(f, "hash", "ctrl")
  /\ UNCHANGED <<call, count, link, flow, env>>

HashFails(f) ==
  /\ LocalFaults
  /\ Goto(f, "hash", "failed")
  /\ UNCHANGED <<call, count, link, flow, env>>

OpenControl(f) ==
  /\ MayOpen
  /\ Goto(f, "ctrl", "start")
  /\ opened' = opened + 1
  /\ UNCHANGED <<call, count, link, tries, wrote, fin, drainer, env>>

OpenControlFails_Done(f) ==
  /\ ~MayOpen
  /\ Goto(f, "ctrl", "failed")
  /\ wg' = wg - 1
  /\ UNCHANGED <<call, sem, sentCount, errCount, link, flow, env>>

\* OpenStream does not wait, and opening the control stream is not retried.
OpenControlFails(f) ==
  /\ ~MayOpen
  /\ Goto(f, "ctrl", "failed")
  /\ UNCHANGED <<call, count, link, flow, env>>

WriteTransferStart(f) ==
  /\ link = "up"
  /\ Goto(f, "start", "open")
  /\ drainer' = [drainer EXCEPT ![f] = "reading"]
  /\ UNCHANGED <<call, count, link, tries, opened, wrote, fin, env>>

OpenData_Blind(f) ==
  /\ link = "up"
  /\ Goto(f, "open", "header")
  /\ opened' = opened + 1
  /\ UNCHANGED <<call, count, link, tries, wrote, fin, drainer, env>>

OpenData(f) ==
  /\ MayOpen
  /\ Goto(f, "open", "header")
  /\ opened' = opened + 1
  /\ UNCHANGED <<call, count, link, tries, wrote, fin, drainer, env>>

OpenDataFails_Forever(f) ==
  /\ ~MayOpen
  /\ Goto(f, "open", "open")
  /\ UNCHANGED <<call, count, link, flow, env>>

\* One more of the 50 tries, 10 ms apart.
OpenDataFails(f) ==
  /\ ~MayOpen
  /\ Goto(f, "open", IF tries[f] + 1 < OpenTries THEN "open" ELSE "failed")
  /\ tries' = [tries EXCEPT ![f] = @ + 1]
  /\ UNCHANGED <<call, count, link, opened, wrote, fin, drainer, env>>

WriteHeader(f) ==
  /\ link = "up"
  /\ Goto(f, "header", "copy")
  /\ peer' = [peer EXCEPT ![f] = "reading"]
  /\ UNCHANGED <<call, count, link, flow, allowed, read>>

\* The TransferStart or the header cannot be written.
WriteFails(f) ==
  /\ link = "down"
  /\ Goto(f, "start", "failed") \/ Goto(f, "header", "failed")
  /\ UNCHANGED <<call, count, link, flow, env>>

\* Write blocks until the stream has room.
Blocked(f) ==
  /\ link = "up" /\ step[f] = "copy"
  /\ wrote[f] < LengthOf[f] /\ wrote[f] - read[f] = Window

CopyBlock(f) ==
  /\ link = "up" /\ step[f] = "copy"
  /\ wrote[f] < LengthOf[f] /\ wrote[f] - read[f] < Window
  /\ wrote' = [wrote EXCEPT ![f] = @ + 1]
  /\ UNCHANGED <<call, count, link, step, tries, opened, fin, drainer, env>>

CopyEnd(f) ==
  /\ wrote[f] = LengthOf[f]
  /\ Goto(f, "copy", "fin")
  /\ UNCHANGED <<call, count, link, flow, env>>

CopyFails_Closes(f) ==
  /\ LocalFaults \/ (link = "down" /\ wrote[f] < LengthOf[f])
  /\ Goto(f, "copy", "failed")
  /\ fin' = [fin EXCEPT ![f] = TRUE]
  /\ UNCHANGED <<call, count, link, tries, opened, wrote, drainer, env>>

\* The connection is down, or the source cannot be read.  The stream is left
\* as it is: neither closed nor reset.
CopyFails(f) ==
  /\ LocalFaults \/ (link = "down" /\ wrote[f] < LengthOf[f])
  /\ Goto(f, "copy", "failed")
  /\ UNCHANGED <<call, count, link, flow, env>>

CloseData(f) ==
  /\ Goto(f, "fin", "sent")
  /\ fin' = [fin EXCEPT ![f] = TRUE]
  /\ UNCHANGED <<call, count, link, tries, opened, wrote, drainer, env>>

\* drainReceipts: a terminal frame, or the end of the control stream.
DrainEnds(f) ==
  /\ drainer[f] = "reading"
  /\ drainer' = [drainer EXCEPT ![f] = "done"]
  /\ UNCHANGED <<call, count, link, step, tries, opened, wrote, fin, env>>

-----------------------------------------------------------------------------
(***************************************************************************)
(* The goroutine SendDir starts around it.                                 *)
(***************************************************************************)
CountFile_Shadowed(f) ==
  /\ command = "SendDir"
  /\ Goto(f, "sent", "release") \/ Goto(f, "failed", "release")
  /\ sentCount' = sentCount + 1
  /\ UNCHANGED <<call, sem, wg, errCount, link, flow, env>>

CountFile(f) ==
  /\ command = "SendDir"
  /\ \/ Goto(f, "sent", "release") /\ sentCount' = sentCount + 1 /\ UNCHANGED errCount
     \/ Goto(f, "failed", "release") /\ errCount' = errCount + 1 /\ UNCHANGED sentCount
  /\ UNCHANGED <<call, sem, wg, link, flow, env>>

Release(f) ==
  /\ Goto(f, "release", "done")
  /\ sem' = sem - 1
  /\ UNCHANGED <<call, wg, sentCount, errCount, link, flow, env>>

Done(f) ==
  /\ Goto(f, "done", "end")
  /\ wg' = wg - 1
  /\ UNCHANGED <<call, sem, sentCount, errCount, link, flow, env>>

-----------------------------------------------------------------------------
(***************************************************************************)
(* QUIC and the server.                                                    *)
(***************************************************************************)
ServerReads(f) ==
  /\ link = "up" /\ peer[f] = "reading" /\ read[f] < wrote[f]
  /\ read' = [read EXCEPT ![f] = @ + 1]
  /\ UNCHANGED <<call, count, link, step, flow, allowed, peer>>

\* It has read the stream to its end, and closes its direction.
ServerFinishes(f) ==
  /\ link = "up" /\ peer[f] = "reading" /\ fin[f] /\ read[f] = wrote[f]
  /\ peer' = [peer EXCEPT ![f] = "done"]
  /\ UNCHANGED <<call, count, link, step, flow, allowed, read>>

\* It closes its direction only: the name is refused, or the file cannot be
\* created.  The sender is not told and goes on writing.
ServerAbandons(f) ==
  /\ Abandons
  /\ link = "up" /\ peer[f] = "reading"
  /\ peer' = [peer EXCEPT ![f] = "closed"]
  /\ UNCHANGED <<call, count, link, step, flow, allowed, read>>

\* One more stream for each that is complete.
GrantStream ==
  /\ link = "up"
  /\ allowed < StreamLimit + Cardinality({f \in Files : peer[f] = "done"})
  /\ allowed' = allowed + 1
  /\ UNCHANGED <<call, count, link, step, flow, read, peer>>

LoseLink ==
  /\ NetFaults /\ link = "up"
  /\ link' = "down"
  /\ UNCHANGED <<call, count, step, flow, env>>

-----------------------------------------------------------------------------
Main ==
  \/ Dial \/ DialFails \/ WalkDir \/ WalkFails \/ AddFile \/ StartFile \/ EndLoop
  \/ Wait \/ Report \/ StatFile \/ StatFails \/ Return \/ Close

SendFileAeroSync(f) ==
  \/ HashFile(f) \/ HashFails(f) \/ OpenControl(f) \/ OpenControlFails(f)
  \/ WriteTransferStart(f) \/ OpenData(f) \/ OpenDataFails(f) \/ WriteHeader(f)
  \/ WriteFails(f) \/ CopyBlock(f) \/ CopyEnd(f) \/ CopyFails(f) \/ CloseData(f)

Worker(f) == SendFileAeroSync(f) \/ CountFile(f) \/ Release(f) \/ Done(f)

Server(f) == ServerReads(f) \/ ServerFinishes(f) \/ ServerAbandons(f)

Next ==
  \/ Main \/ GrantStream \/ LoseLink
  \/ \E f \in Files : Worker(f) \/ DrainEnds(f) \/ Server(f)

Spec == Init /\ [][Next]_vars

\* Goroutines are scheduled, and the server reads what it has not abandoned.
\* Nothing makes a stream be granted, or a receipt arrive, and a blocked Write
\* is not sure to be ended by a fault of the source.
Fairness ==
  /\ WF_vars(Main)
  /\ \A f \in Files : WF_vars(~Blocked(f) /\ Worker(f)) /\ WF_vars(ServerReads(f))

FairSpec == Spec /\ Fairness
-----------------------------------------------------------------------------
TypeOK ==
  /\ command \in {"SendDir", "SendFile"}
  /\ main \in MainStates /\ next \in 0..Len(files)
  /\ exit \in {None, ExitSuccess, ExitErrorConn, ExitErrorPartial, ExitErrorAll, ExitFatal}
  /\ sem \in Nat /\ wg \in Nat /\ sentCount \in Nat /\ errCount \in Nat
  /\ link \in {"none", "up", "down"}
  /\ step \in [Files -> Steps]
  /\ tries \in [Files -> 0..OpenTries]
  /\ opened \in Nat /\ allowed \in Nat
  /\ wrote \in [Files -> Nat]
  /\ fin \in [Files -> BOOLEAN]
  /\ drainer \in [Files -> {"none", "reading", "done"}]
  /\ read \in [Files -> Nat]
  /\ peer \in [Files -> {"none", "reading", "done", "closed"}]

\* The files the command is to send.
Targets == IF command = "SendDir" THEN Files ELSE {files[1]}

\* Everything of a file has been handed to its data stream.
Handed(f) == fin[f] /\ wrote[f] = LengthOf[f]

(***************************************************************************)
(* The exit code of an established connection agrees with what was handed  *)
(* to the streams: 0 when that is every file, 10 when it is some of them,  *)
(* 11 when it is none (main.go:21, 27, 28; quic.go:178-184, 344-348).      *)
(***************************************************************************)
ExitTellsStreams ==
  /\ exit = ExitSuccess => \A f \in Targets : Handed(f)
  /\ exit = ExitErrorPartial => (\E f \in Targets : Handed(f)) /\ \E f \in Targets : ~Handed(f)
  /\ exit = ExitErrorAll => \A f \in Targets : ~Handed(f)

(***************************************************************************)
(* The connection is closed under nobody: when SendDir or SendFile has     *)
(* decided, no goroutine is sending a file any more (quic.go:149-165).     *)
(***************************************************************************)
NobodyLeftBehind ==
  exit # None => \A f \in Files : step[f] \in {"none", "end"}

(***************************************************************************)
(* The end of a data stream is a promise that the file is complete: a file *)
(* that failed on the way never gets one, so that the server cannot take a *)
(* part for the whole (quic.go:270-275).                                   *)
(***************************************************************************)
EndMeansWhole == \A f \in Files : fin[f] => wrote[f] = LengthOf[f]

(***************************************************************************)
(* Control streams are never closed, so a connection sends fewer files     *)
(* than it may have streams open, however fast the server is, and however  *)
(* often opening a data stream is retried (quic.go:210, 247-253, 431).     *)
(***************************************************************************)
StreamsRunOut == Cardinality({f \in Files : fin[f]}) < StreamLimit \/ StreamLimit = 0

(***************************************************************************)
(* The command ends, however few streams there are and however slowly the  *)
(* server reads, as long as it goes on reading (quic.go:148-165, 247-253). *)
(***************************************************************************)
SendReturns ==
  main = "dial" ~> main = "exited" \/ \E f \in Files : peer[f] = "closed"
=============================================================================
