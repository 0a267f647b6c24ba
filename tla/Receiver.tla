------------------------------ MODULE Receiver ------------------------------
(***************************************************************************)
(* The receiving side of boltgo: RunServer, handleConn and the goroutines  *)
(* they start (cmd/boltgo/quic.go).                                        *)
(*                                                                         *)
(* An upload is one control stream and one data stream of a connection.    *)
(* The accept loop of the connection hands each stream to a goroutine.     *)
(* The control goroutine posts the upload's TransferStart in the table of  *)
(* pending entries; the data goroutine stores the file and then takes the  *)
(* entry with its receipt id to answer on that control stream.  All data   *)
(* goroutines, of all connections, share the receive directory.            *)
(*                                                                         *)
(* One action is the code of one goroutine between two accesses to shared  *)
(* state (table, flags, directory, streams).                               *)
(*                                                                         *)
(* Abstractions.  A content is a sequence of blocks, a block being what    *)
(* one Read of the data stream returns; bufio.Writer hands its reads       *)
(* straight to the file (os.File is an io.ReaderFrom), so a block is       *)
(* written, and a write error seen, at once.  MaxFileSize is 0 in both     *)
(* callers (main.go:355, service_win.go:85), so the size check never       *)
(* fires.  The directory is a POSIX one: create truncates the file a name  *)
(* already has, and remove unlinks whatever file has the name.             *)
(*                                                                         *)
(* A definition named X_Fault is the code of X with a plausible bug; no    *)
(* behaviour of Spec uses one.  They show that the properties notice.      *)
(***************************************************************************)
EXTENDS Integers, Sequences

CONSTANTS
  Conns,      \* connections, each established at most once
  Uploads,    \* uploads, each sent at most once
  Paths,      \* destination paths below the receive directory
  Rids,       \* receipt ids
  Blocks,     \* values a block can have
  ConnOf,     \* the connection of an upload
  PathOf,     \* the destination path its header names
  CtrlRid,    \* the receipt id of its TransferStart
  DataRid,    \* the receipt id of its header, or None
  Body,       \* the content its data stream carries
  SizeOf,     \* the size its header announces
  HashOf,     \* the digest its HASH line announces, or None
  Valid,      \* what validateSubPath answers for its name
  Before,     \* content of each path when the server first starts, or None
  Overlap,    \* may two uploads to one path be in progress at a time?
  DiskFaults, \* may reading the old file, mkdir, create and write fail?
  None        \* the absent value

Contents == Seq(Blocks)

\* SHA-256 of a content, taken to be injective.
Digest(content) == [sha256 |-> content]
Digests == [sha256 : Contents]

ASSUME ReceiverAssumption ==
  /\ ConnOf \in [Uploads -> Conns]
  /\ PathOf \in [Uploads -> Paths]
  /\ CtrlRid \in [Uploads -> Rids]
  /\ DataRid \in [Uploads -> Rids \cup {None}]
  /\ Body \in [Uploads -> Contents]
  /\ SizeOf \in [Uploads -> Nat]
  /\ HashOf \in [Uploads -> Digests \cup {None}]
  /\ Valid \in [Uploads -> BOOLEAN]
  /\ \A p \in Paths : Before[p] \in Contents \cup {None}
  /\ Overlap \in BOOLEAN
  /\ DiskFaults \in BOOLEAN
  /\ Paths \cap Uploads = {}
  /\ None \notin Uploads \cup Paths \cup Rids

VARIABLES
  conn,        \* "new", "open" or "closed", as the server sees it
  queue,       \* streams opened by the peer and not accepted yet, in order
  sender,      \* how far the sender of an upload is
  cpc,         \* control goroutine of an upload
  pend,        \* quicConnState.pend: who waits under a receipt id
  notify,      \* quicConnState.notify: is the one-slot channel full?
  rejected,    \* quicConnState.rejected
  pathChecked, \* quicConnState.pathChecked
  pc,          \* data goroutine of an upload
  hash,        \* its expectedHash
  got,         \* blocks it has read and written
  fd,          \* the file it has open
  expired,     \* has the deadline of waitForEntry passed?
  held,        \* the entry it took
  frames,      \* receipt frames written on the control stream of an upload
  dir,         \* the receive directory: path to file, or None
  file,        \* content of each file
  latest       \* history: last upload that created or truncated a path

net   == <<conn, queue, sender>>
table == <<pend, notify, cpc>>
flags == <<rejected, pathChecked>>
local == <<hash, got, fd, expired, held>>
disk  == <<dir, file, latest>>
vars  == <<net, table, flags, pc, local, frames, disk>>

Files == Paths \cup Uploads

SenderStates ==
  {"idle", "opened", "announced", "gaveup", "data", "sending", "stalled"}
CtrlStates   == {"none", "decode", "notify", "posted", "closed", "dead"}

\* Data goroutines that will touch the directory, then those past it.
Storing  == {"header", "check", "path", "mark", "stat", "rehash", "skip",
             "create", "copy", "verify", "remove"}
Replying == {"wait", "select", "receipt", "acked", "success"}
Finished == {"closed", "skipped", "failed", "done", "dead"}
Reading == {"skip", "copy"}
DataStates == {"none"} \cup Storing \cup Replying \cup Finished

Streams == {"ctrl", "data"} \X Uploads
Receipts == [rid : Rids, ok : BOOLEAN, sha256 : Digests] \cup [rid : Rids]

-----------------------------------------------------------------------------
\* What the data goroutine has read, and checksumOK when that is all.
Received(u) == SubSeq(Body[u], 1, got[u])
ChecksumOK(u) == hash[u] = None \/ hash[u] = Digest(Received(u))

\* The frames sendReceiptFrames writes for the data goroutine of u.  Acked
\* marshals to nothing and appendFieldBytes drops an empty message, so the
\* second frame carries its receipt id only.
ReceiptFrames(u) ==
  << [rid |-> DataRid[u], ok |-> ChecksumOK(u), sha256 |-> Digest(Received(u))],
     [rid |-> DataRid[u]] >>

\* s with a block written at offset i.  A file that another goroutine has
\* truncated meanwhile gets a hole.
WriteAt(s, i, b) ==
  [j \in DOMAIN s \cup 1..i |->
     IF j = i THEN b ELSE IF j \in DOMAIN s THEN s[j] ELSE None]

Open(u) == conn[ConnOf[u]] = "open"

\* Reading the data stream comes to an end: that of the stream, or an error.
Comes(u) == sender[u] # "stalled" \/ ~Open(u)

\* An upload the server still works on, or can still come to work on.
InProgress(u) ==
  \/ pc[u] \in Storing \cup Replying
  \/ pc[u] = "none" /\ sender[u] \notin {"idle", "gaveup"} /\ Open(u)

Goto(u, from, to) == pc[u] = from /\ pc' = [pc EXCEPT ![u] = to]

-----------------------------------------------------------------------------
Init ==
  /\ conn = [c \in Conns |-> "new"]
  /\ queue = [c \in Conns |-> << >>]
  /\ sender = [u \in Uploads |-> "idle"]
  /\ cpc = [u \in Uploads |-> "none"]
  /\ pend = [c \in Conns |-> [r \in Rids |-> None]]
  /\ notify = [c \in Conns |-> FALSE]
  /\ rejected = [c \in Conns |-> FALSE]
  /\ pathChecked = [c \in Conns |-> FALSE]
  /\ pc = [u \in Uploads |-> "none"]
  /\ hash = [u \in Uploads |-> None]
  /\ got = [u \in Uploads |-> 0]
  /\ fd = [u \in Uploads |-> None]
  /\ expired = [u \in Uploads |-> FALSE]
  /\ held = [u \in Uploads |-> None]
  /\ frames = [u \in Uploads |-> << >>]
  /\ dir = [p \in Paths |-> IF Before[p] = None THEN None ELSE p]
  /\ file = [f \in Files |-> IF f \in Paths /\ Before[f] # None THEN Before[f] ELSE << >>]
  /\ latest = [p \in Paths |-> None]

-----------------------------------------------------------------------------
(***************************************************************************)
(* The sender of an upload, as sendFileAeroSync drives its two streams,    *)
(* and the end of a connection (sender done, sender gone, idle timeout).   *)
(***************************************************************************)
Connect(c) ==
  /\ conn[c] = "new"
  /\ conn' = [conn EXCEPT ![c] = "open"]
  /\ UNCHANGED <<queue, sender, table, flags, pc, local, frames, disk>>

OpenControl(u) ==
  /\ Open(u) /\ sender[u] = "idle"
  /\ Overlap \/ \A v \in Uploads : PathOf[v] = PathOf[u] => ~InProgress(v)
  /\ sender' = [sender EXCEPT ![u] = "opened"]
  /\ queue' = [queue EXCEPT ![ConnOf[u]] = Append(@, <<"ctrl", u>>)]
  /\ UNCHANGED <<conn, table, flags, pc, local, frames, disk>>

WriteTransferStart(u) ==
  /\ Open(u) /\ sender[u] = "opened"
  /\ sender' = [sender EXCEPT ![u] = "announced"]
  /\ UNCHANGED <<conn, queue, table, flags, pc, local, frames, disk>>

OpenData(u) ==
  /\ Open(u) /\ sender[u] = "announced"
  /\ sender' = [sender EXCEPT ![u] = "data"]
  /\ queue' = [queue EXCEPT ![ConnOf[u]] = Append(@, <<"data", u>>)]
  /\ UNCHANGED <<conn, table, flags, pc, local, frames, disk>>

\* OpenStream has failed 50 times: there will be no data stream.
GiveUp(u) ==
  /\ Open(u) /\ sender[u] = "announced"
  /\ sender' = [sender EXCEPT ![u] = "gaveup"]
  /\ UNCHANGED <<conn, queue, table, flags, pc, local, frames, disk>>

WriteHeader_AfterReceipt(u) ==
  /\ Open(u) /\ sender[u] = "data" /\ frames[u] # << >>
  /\ sender' = [sender EXCEPT ![u] = "sending"]
  /\ UNCHANGED <<conn, queue, table, flags, pc, local, frames, disk>>

WriteHeader(u) ==
  /\ Open(u) /\ sender[u] = "data"
  /\ sender' = [sender EXCEPT ![u] = "sending"]
  /\ UNCHANGED <<conn, queue, table, flags, pc, local, frames, disk>>

\* The source cannot be read to its end: some of the content may have been
\* written, but the stream is neither closed nor reset, and the connection
\* lasts.  The server can tell once it reads the content.  Without this step
\* content and end follow the header.
Stall(u) ==
  /\ Open(u) /\ sender[u] = "sending" /\ pc[u] \in Reading
  /\ sender' = [sender EXCEPT ![u] = "stalled"]
  /\ UNCHANGED <<conn, queue, table, flags, pc, local, frames, disk>>

Disconnect(c) ==
  /\ conn[c] = "open"
  /\ conn' = [conn EXCEPT ![c] = "closed"]
  /\ UNCHANGED <<queue, sender, table, flags, pc, local, frames, disk>>

-----------------------------------------------------------------------------
(***************************************************************************)
(* handleConn: accept streams in the order they were opened, and read the  *)
(* first byte of each before accepting the next.                           *)
(***************************************************************************)
FirstByteArrived(s) ==
  sender[s[2]] \in IF s[1] = "ctrl"
                  THEN {"announced", "gaveup", "data", "sending", "stalled"}
                  ELSE {"sending", "stalled"}

Accept(c) ==
  /\ conn[c] = "open" /\ queue[c] # << >>
  /\ LET s == Head(queue[c]) IN
       /\ FirstByteArrived(s)
       /\ IF s[1] = "ctrl"
          THEN cpc' = [cpc EXCEPT ![s[2]] = "decode"] /\ UNCHANGED pc
          ELSE pc' = [pc EXCEPT ![s[2]] = "header"] /\ UNCHANGED cpc
  /\ queue' = [queue EXCEPT ![c] = Tail(@)]
  /\ UNCHANGED <<conn, sender, pend, notify, flags, local, frames, disk>>

-----------------------------------------------------------------------------
(***************************************************************************)
(* handleControlStream.  put releases the mutex before it fills the notify *)
(* channel, which drops the token when the channel is full.                *)
(***************************************************************************)
PutEntry(u) ==
  /\ cpc[u] = "decode"
  /\ pend' = [pend EXCEPT ![ConnOf[u]][CtrlRid[u]] = u]
  /\ cpc' = [cpc EXCEPT ![u] = "notify"]
  /\ UNCHANGED <<net, notify, flags, pc, local, frames, disk>>

ControlLost(u) ==
  /\ cpc[u] = "decode" /\ ~Open(u)
  /\ cpc' = [cpc EXCEPT ![u] = "closed"]
  /\ UNCHANGED <<net, pend, notify, flags, pc, local, frames, disk>>

PutNotify(u) ==
  /\ cpc[u] = "notify"
  /\ notify' = [notify EXCEPT ![ConnOf[u]] = TRUE]
  /\ cpc' = [cpc EXCEPT ![u] = "posted"]
  /\ UNCHANGED <<net, pend, flags, pc, local, frames, disk>>

-----------------------------------------------------------------------------
(***************************************************************************)
(* handleDataStream: header, path check and deduplication.  When the       *)
(* connection ends between the UPLOAD line and the end of the HASH line,   *)
(* the goroutine goes on without a hash (or with a cut one, which equals   *)
(* no digest and is not told apart here) and fails when it copies.         *)
(***************************************************************************)
ReadHeader(u) ==
  /\ \/ /\ Open(u)
        /\ Goto(u, "header", "check")
        /\ hash' = [hash EXCEPT ![u] = HashOf[u]]
     \/ /\ ~Open(u)
        /\ Goto(u, "header", "check") \/ Goto(u, "header", "closed")
        /\ UNCHANGED hash
  /\ UNCHANGED <<net, table, flags, got, fd, expired, held, frames, disk>>

CheckRejected_Never(u) ==
  /\ Goto(u, "check", "path")
  /\ UNCHANGED <<net, table, flags, local, frames, disk>>

CheckRejected(u) ==
  /\ Goto(u, "check", IF rejected[ConnOf[u]] THEN "closed" ELSE "path")
  /\ UNCHANGED <<net, table, flags, local, frames, disk>>

CheckPath_Marks(u) ==
  /\ Goto(u, "path", IF pathChecked[ConnOf[u]] THEN "stat" ELSE "mark")
  /\ pathChecked' = [pathChecked EXCEPT ![ConnOf[u]] = TRUE]
  /\ UNCHANGED <<net, table, rejected, local, frames, disk>>

CheckPath(u) ==
  /\ Goto(u, "path", IF pathChecked[ConnOf[u]] THEN "stat" ELSE "mark")
  /\ UNCHANGED <<net, table, flags, local, frames, disk>>

MarkPath(u) ==
  /\ \/ /\ Valid[u]
        /\ Goto(u, "mark", "stat")
        /\ pathChecked' = [pathChecked EXCEPT ![ConnOf[u]] = TRUE]
        /\ UNCHANGED rejected
     \/ /\ ~Valid[u]
        /\ Goto(u, "mark", "closed")
        /\ rejected' = [rejected EXCEPT ![ConnOf[u]] = TRUE]
        /\ UNCHANGED pathChecked
  /\ UNCHANGED <<net, table, local, frames, disk>>

StatFile_SizeOnly(u) ==
  LET f == dir[PathOf[u]]
      same == f # None /\ hash[u] # None /\ Len(file[f]) = SizeOf[u]
  IN  /\ Goto(u, "stat", IF same THEN "skip" ELSE "create")
      /\ UNCHANGED <<net, table, flags, local, frames, disk>>

StatFile(u) ==
  LET f == dir[PathOf[u]]
      candidate == f # None /\ hash[u] # None /\ Len(file[f]) = SizeOf[u]
  IN  /\ Goto(u, "stat", IF candidate THEN "rehash" ELSE "create")
      /\ UNCHANGED <<net, table, flags, local, frames, disk>>

HashFile(u) ==
  LET f == dir[PathOf[u]]
      same == f # None /\ Digest(file[f]) = hash[u]
  IN  /\ Goto(u, "rehash", IF same THEN "skip" ELSE "create")
      /\ UNCHANGED <<net, table, flags, local, frames, disk>>

\* Stat or Open fails, or Read half way, which io.Copy's caller ignores: the
\* digest of a part is taken for that of no announced content.
HashFails(u) ==
  /\ DiskFaults
  /\ Goto(u, "stat", "create") \/ Goto(u, "rehash", "create")
  /\ UNCHANGED <<net, table, flags, local, frames, disk>>

\* Discard what the stream still carries, close it, send no receipt.
SkipFile(u) ==
  /\ Comes(u)
  /\ Goto(u, "skip", "skipped")
  /\ UNCHANGED <<net, table, flags, local, frames, disk>>

-----------------------------------------------------------------------------
(***************************************************************************)
(* handleDataStream: store the file.                                       *)
(***************************************************************************)
CreateFile_Resumes(u) ==
  LET p == PathOf[u]
      f == IF dir[p] = None THEN u ELSE dir[p]
  IN  /\ Goto(u, "create", "copy")
      /\ dir' = [dir EXCEPT ![p] = f]
      /\ fd' = [fd EXCEPT ![u] = f]
      /\ latest' = [latest EXCEPT ![p] = u]
      /\ UNCHANGED <<net, table, flags, hash, got, expired, held, frames, file>>

CreateFile(u) ==
  LET p == PathOf[u]
      f == IF dir[p] = None THEN u ELSE dir[p]
  IN  /\ Goto(u, "create", "copy")
      /\ dir' = [dir EXCEPT ![p] = f]
      /\ file' = [file EXCEPT ![f] = << >>]
      /\ fd' = [fd EXCEPT ![u] = f]
      /\ latest' = [latest EXCEPT ![p] = u]
      /\ UNCHANGED <<net, table, flags, hash, got, expired, held, frames>>

CreateFails_Removes(u) ==
  /\ DiskFaults
  /\ Goto(u, "create", "closed")
  /\ dir' = [dir EXCEPT ![PathOf[u]] = None]
  /\ UNCHANGED <<net, table, flags, local, frames, file, latest>>

\* MkdirAll or Create fails: close the stream without reading it.
CreateFails(u) ==
  /\ DiskFaults
  /\ Goto(u, "create", "closed")
  /\ UNCHANGED <<net, table, flags, local, frames, disk>>

CopyBlock(u) ==
  /\ pc[u] = "copy" /\ Open(u) /\ got[u] < Len(Body[u])
  /\ got' = [got EXCEPT ![u] = @ + 1]
  /\ file' = [file EXCEPT ![fd[u]] = WriteAt(@, got[u] + 1, Body[u][got[u] + 1])]
  /\ UNCHANGED <<net, table, flags, pc, hash, fd, expired, held, frames, dir, latest>>

\* The last block may have come with the end of the stream, so that the end
\* of the connection no longer matters; but where the HASH line is lost, so is
\* the end.
CopyEnd(u) ==
  /\ sender[u] # "stalled" /\ got[u] = Len(Body[u]) /\ hash[u] = HashOf[u]
  /\ Goto(u, "copy", "verify")
  /\ UNCHANGED <<net, table, flags, local, frames, disk>>

CopyFails_Ignored(u) ==
  /\ ~Open(u) \/ (DiskFaults /\ got[u] < Len(Body[u]))
  /\ Goto(u, "copy", "verify")
  /\ UNCHANGED <<net, table, flags, local, frames, disk>>

\* io.Copy returns an error: the stream ended with its connection, or a
\* block could not be written.
CopyFails(u) ==
  /\ ~Open(u) \/ (DiskFaults /\ got[u] < Len(Body[u]))
  /\ Goto(u, "copy", "remove")
  /\ UNCHANGED <<net, table, flags, local, frames, disk>>

RemoveFile(u) ==
  /\ Goto(u, "remove", "failed")
  /\ dir' = [dir EXCEPT ![PathOf[u]] = None]
  /\ UNCHANGED <<net, table, flags, local, frames, file, latest>>

VerifyHash_Keeps(u) ==
  /\ Goto(u, "verify", IF DataRid[u] = None THEN "success" ELSE "wait")
  /\ UNCHANGED <<net, table, flags, local, frames, disk>>

\* A mismatch removes the file, and the receipt will say so.
VerifyHash(u) ==
  /\ Goto(u, "verify", IF DataRid[u] = None THEN "success" ELSE "wait")
  /\ dir' = IF ChecksumOK(u) THEN dir ELSE [dir EXCEPT ![PathOf[u]] = None]
  /\ UNCHANGED <<net, table, flags, local, frames, file, latest>>

-----------------------------------------------------------------------------
(***************************************************************************)
(* waitForEntry: take the entry; if it is not there give up when the       *)
(* deadline has passed, else sleep until a notification or the 10 ms timer. *)
(***************************************************************************)
DeadlinePasses(u) ==
  /\ pc[u] \in {"wait", "select"} /\ ~expired[u]
  /\ expired' = [expired EXCEPT ![u] = TRUE]
  /\ UNCHANGED <<net, table, flags, pc, hash, got, fd, held, frames, disk>>

TakeEntry_Leaves(u) ==
  LET e == pend[ConnOf[u]][DataRid[u]]
  IN  /\ Goto(u, "wait", "receipt")
      /\ e # None
      /\ held' = [held EXCEPT ![u] = e]
      /\ UNCHANGED <<net, table, flags, hash, got, fd, expired, frames, disk>>

TakeEntry_Any(u) ==
  \E r \in Rids :
    LET e == pend[ConnOf[u]][r]
    IN  /\ Goto(u, "wait", "receipt")
        /\ e # None
        /\ held' = [held EXCEPT ![u] = e]
        /\ pend' = [pend EXCEPT ![ConnOf[u]][r] = None]
        /\ UNCHANGED <<net, notify, cpc, flags, hash, got, fd, expired, frames, disk>>

TakeEntry_Key(u) ==
  LET e == pend[ConnOf[u]][DataRid[u]]
  IN  /\ Goto(u, "wait", "receipt")
      /\ e # None
      /\ held' = [held EXCEPT ![u] = DataRid[u]]
      /\ pend' = [pend EXCEPT ![ConnOf[u]][DataRid[u]] = None]
      /\ UNCHANGED <<net, notify, cpc, flags, hash, got, fd, expired, frames, disk>>

TakeEntry(u) ==
  LET e == pend[ConnOf[u]][DataRid[u]]
  IN  /\ Goto(u, "wait", "receipt")
      /\ e # None
      /\ held' = [held EXCEPT ![u] = e]
      /\ pend' = [pend EXCEPT ![ConnOf[u]][DataRid[u]] = None]
      /\ UNCHANGED <<net, notify, cpc, flags, hash, got, fd, expired, frames, disk>>

EntryMissing_NoDeadline(u) ==
  /\ Goto(u, "wait", "select")
  /\ pend[ConnOf[u]][DataRid[u]] = None
  /\ UNCHANGED <<net, table, flags, local, frames, disk>>

EntryMissing_DeadlineFirst(u) ==
  /\ expired[u] \/ pend[ConnOf[u]][DataRid[u]] = None
  /\ Goto(u, "wait", IF expired[u] THEN "success" ELSE "select")
  /\ UNCHANGED <<net, table, flags, local, frames, disk>>

EntryMissing(u) ==
  /\ Goto(u, "wait", IF expired[u] THEN "success" ELSE "select")
  /\ pend[ConnOf[u]][DataRid[u]] = None
  /\ UNCHANGED <<net, table, flags, local, frames, disk>>

WakeByNotify(u) ==
  /\ notify[ConnOf[u]]
  /\ Goto(u, "select", "wait")
  /\ notify' = [notify EXCEPT ![ConnOf[u]] = FALSE]
  /\ UNCHANGED <<net, pend, cpc, flags, local, frames, disk>>

WakeByTimer(u) ==
  /\ Goto(u, "select", "wait")
  /\ UNCHANGED <<net, table, flags, local, frames, disk>>

\* sendReceiptFrames, on the control stream of the entry taken: two writes,
\* the second of them only after the first.
SendReceived(u) ==
  /\ \/ /\ Open(u)
        /\ Goto(u, "receipt", "acked")
        /\ frames' = [frames EXCEPT ![held[u]] = Append(@, ReceiptFrames(u)[1])]
     \/ ~Open(u) /\ Goto(u, "receipt", "success") /\ UNCHANGED frames
  /\ UNCHANGED <<net, table, flags, local, disk>>

SendAcked(u) ==
  /\ Goto(u, "acked", "success")
  /\ frames' = IF Open(u) THEN [frames EXCEPT ![held[u]] = Append(@, ReceiptFrames(u)[2])]
                          ELSE frames
  /\ UNCHANGED <<net, table, flags, local, disk>>

\* SUCCESS on the data stream, whatever the checksum said, and close.
SendSuccess(u) ==
  /\ Goto(u, "success", "done")
  /\ UNCHANGED <<net, table, flags, local, frames, disk>>

-----------------------------------------------------------------------------
(***************************************************************************)
(* The process dies (signal, crash) and comes back with the same directory. *)
(***************************************************************************)
Crash ==
  /\ \/ \E c \in Conns : conn[c] = "open"
     \/ \E u \in Uploads : pc[u] \in Storing \cup Replying
  /\ conn' = [c \in Conns |-> IF conn[c] = "open" THEN "closed" ELSE conn[c]]
  /\ pc' = [u \in Uploads |-> IF pc[u] \in Storing \cup Replying THEN "dead" ELSE pc[u]]
  /\ cpc' = [u \in Uploads |-> IF cpc[u] \in {"decode", "notify"} THEN "dead" ELSE cpc[u]]
  /\ UNCHANGED <<queue, sender, pend, notify, flags, local, frames, disk>>

-----------------------------------------------------------------------------
Sender(u) ==
  \/ OpenControl(u) \/ WriteTransferStart(u) \/ OpenData(u) \/ GiveUp(u)
  \/ WriteHeader(u) \/ Stall(u)

Control(u) == PutEntry(u) \/ ControlLost(u) \/ PutNotify(u)

Data(u) ==
  \/ ReadHeader(u) \/ CheckRejected(u) \/ CheckPath(u) \/ MarkPath(u)
  \/ StatFile(u) \/ HashFile(u) \/ HashFails(u) \/ SkipFile(u)
  \/ CreateFile(u) \/ CreateFails(u)
  \/ CopyBlock(u) \/ CopyEnd(u) \/ CopyFails(u) \/ RemoveFile(u) \/ VerifyHash(u)
  \/ TakeEntry(u) \/ EntryMissing(u) \/ WakeByNotify(u) \/ WakeByTimer(u)
  \/ SendReceived(u) \/ SendAcked(u) \/ SendSuccess(u)

Next ==
  \/ \E c \in Conns : Connect(c) \/ Accept(c) \/ Disconnect(c)
  \/ \E u \in Uploads : Sender(u) \/ Control(u) \/ Data(u) \/ DeadlinePasses(u)
  \/ Crash

Spec == Init /\ [][Next]_vars

\* Goroutines are scheduled and time passes.  As long as the connection lasts
\* a sender writes on the streams it has opened and ends or leaves those that
\* are read; nothing makes it open one, and no block is sure to come on a stream
\* that was left.
Fairness ==
  /\ \A c \in Conns : WF_vars(Accept(c))
  /\ \A u \in Uploads :
       /\ WF_vars(WriteTransferStart(u)) /\ WF_vars(WriteHeader(u))
       /\ WF_vars(Control(u)) /\ WF_vars(DeadlinePasses(u))
       /\ WF_vars((pc[u] = "copy" => Comes(u)) /\ Data(u))

FairSpec == Spec /\ Fairness
-----------------------------------------------------------------------------
TypeOK ==
  /\ conn \in [Conns -> {"new", "open", "closed"}]
  /\ queue \in [Conns -> Seq(Streams)]
  /\ sender \in [Uploads -> SenderStates]
  /\ cpc \in [Uploads -> CtrlStates]
  /\ pend \in [Conns -> [Rids -> Uploads \cup {None}]]
  /\ notify \in [Conns -> BOOLEAN]
  /\ rejected \in [Conns -> BOOLEAN]
  /\ pathChecked \in [Conns -> BOOLEAN]
  /\ pc \in [Uploads -> DataStates]
  /\ hash \in [Uploads -> Digests \cup {None}]
  /\ got \in [Uploads -> Nat] /\ \A u \in Uploads : got[u] <= Len(Body[u])
  /\ fd \in [Uploads -> Files \cup {None}]
  /\ expired \in [Uploads -> BOOLEAN]
  /\ held \in [Uploads -> Uploads \cup {None}]
  /\ frames \in [Uploads -> Seq(Receipts)]
  /\ dir \in [Paths -> Files \cup {None}]
  /\ file \in [Files -> Seq(Blocks \cup {None})]
  /\ latest \in [Paths -> Uploads \cup {None}]

Content(p) == IF dir[p] = None THEN None ELSE file[dir[p]]

\* Past the checksum: the goroutine has told, or will tell, ChecksumOK.
Checked(u) == pc[u] \in Replying \cup {"done"}

(***************************************************************************)
(* A checksum reported as correct is a promise about the directory, not    *)
(* about the bytes received: from the check on (quic.go:744), and until    *)
(* another upload opens the path, the path holds exactly what the sender   *)
(* sent, whatever other connections, failed uploads and restarts do.       *)
(***************************************************************************)
AcknowledgedIsStored ==
  \A p \in Paths : LET u == latest[p] IN
    (u # None /\ Checked(u) /\ ChecksumOK(u)) => Content(p) = Body[u]

(***************************************************************************)
(* An upload that failed or whose checksum was wrong leaves nothing under  *)
(* the final name (the removes at quic.go:737 and 747); only the death of  *)
(* the process leaves a partial file there.                                *)
(***************************************************************************)
FailureLeavesNoFile ==
  \A p \in Paths : LET u == latest[p] IN
    (u # None /\ (pc[u] = "failed" \/ (Checked(u) /\ ~ChecksumOK(u)))) => Content(p) = None

(***************************************************************************)
(* A file no upload has opened is as it was before the server started:     *)
(* uploads that are rejected, skipped, or fail to create their own file    *)
(* never change or remove another one (quic.go:677-724).                   *)
(***************************************************************************)
UnopenedIsKept ==
  \A p \in Paths : latest[p] = None => Content(p) = Before[p]

(***************************************************************************)
(* An upload is skipped only when the path already holds the content whose *)
(* digest the sender announced, also after restarts that left partial      *)
(* files behind (quic.go:695-711).                                         *)
(***************************************************************************)
SkipIsExact ==
  \A u \in Uploads : pc[u] = "skip" =>
    LET f == dir[PathOf[u]] IN f # None /\ Digest(file[f]) = hash[u]

(***************************************************************************)
(* A control stream has one owner: its entry waits in the table or was     *)
(* taken by one data goroutine, never both, never two; and what is written *)
(* on it are the frames of one goroutine, in order and once, of which a    *)
(* lost connection or a crash may cut off the end (quic.go:510-518, 753,   *)
(* 769-777).                                                               *)
(***************************************************************************)
OneReplier ==
  \A v \in Uploads :
    /\ \A u, w \in Uploads : held[u] = v /\ held[w] = v => u = w
    /\ \A u \in Uploads : held[u] = v =>
         /\ \A c \in Conns, r \in Rids : pend[c][r] # v
         /\ \E n \in 0..2 : frames[v] = SubSeq(ReceiptFrames(u), 1, n)
    /\ frames[v] # << >> => \E u \in Uploads : held[u] = v

(***************************************************************************)
(* When the uploads of a connection have different receipt ids, a data     *)
(* goroutine answers on the control stream of its own upload (quic.go:753). *)
(***************************************************************************)
DistinctRids ==
  \A u, v \in Uploads :
    ConnOf[u] = ConnOf[v] /\ DataRid[u] = CtrlRid[v] => u = v

ReceiptsGoHome == DistinctRids => \A u \in Uploads : held[u] \in {None, u}

(***************************************************************************)
(* The table forgets the uploads that are over: an entry stays behind an   *)
(* upload that ran to its end only if the deadline of its data goroutine   *)
(* had passed, whoever else waited and took entries (quic.go:510-534).     *)
(***************************************************************************)
LeftoverIsExplained ==
  DistinctRids => \A u \in Uploads :
    pend[ConnOf[u]][CtrlRid[u]] = u /\ pc[u] = "done" /\ DataRid[u] = CtrlRid[u] => expired[u]

(***************************************************************************)
(* The directory keeps the promises of Store, step by step: a path has one *)
(* writer at a time, holds nothing but parts of what that one was sent,    *)
(* and is left whole or empty unless the process dies; and a receipt is    *)
(* written once, about an outcome that is there (quic.go:693-760).         *)
(***************************************************************************)
Writing == {"copy", "verify", "remove"}

Holds == [p \in Paths |-> Content(p)]
Writer ==
  [p \in Paths |-> IF latest[p] # None /\ pc[latest[p]] \in Writing THEN latest[p] ELSE None]
Outcome ==
  [u \in Uploads |->
     CASE pc[u] \in {"skip", "skipped"} -> "skipped"
       [] pc[u] = "failed"              -> "failed"
       [] Checked(u)                    -> IF ChecksumOK(u) THEN "stored" ELSE "mismatch"
       [] OTHER                         -> "none"]
Told ==
  [v \in Uploads |->
     IF frames[v] = << >> THEN "nothing" ELSE IF frames[v][1].ok THEN "stored" ELSE "mismatch"]

Dir == INSTANCE Store WITH holds <- Holds, writer <- Writer, outcome <- Outcome, told <- Told

ImplementsStore == Dir!Spec

(***************************************************************************)
(* Once a connection is marked rejected, an upload that has not passed the *)
(* rejected check by then never gets past it (quic.go:467, 677).           *)
(***************************************************************************)
BeforeCheck == {"none", "header", "check"}

RejectionIsFinal ==
  \A u \in Uploads :
    [](rejected[ConnOf[u]] /\ pc[u] \in BeforeCheck =>
         [](pc[u] \in BeforeCheck \cup {"closed", "dead"}))

(***************************************************************************)
(* A name that fails validateSubPath is stored only on a connection where  *)
(* another upload's name passed it before (quic.go:676-690).               *)
(***************************************************************************)
PastPathCheck == (Storing \ {"header", "check", "path", "mark"}) \cup Replying

FirstNameVouches ==
  \A u \in Uploads : pc[u] \in PastPathCheck =>
    \E v \in Uploads : /\ ConnOf[v] = ConnOf[u] /\ Valid[v]
                       /\ pc[v] \notin {"none", "header", "check", "path", "mark"}

-----------------------------------------------------------------------------
(***************************************************************************)
(* Every data goroutine ends: waiting for the control entry cannot hang,   *)
(* although all waiters of a connection share a one-slot channel and one   *)
(* token wakes one of them (quic.go:505-507, 520-534).  Only a stream its  *)
(* sender has left without an end holds one, for as long as the connection *)
(* lasts (quic.go:270-272, 705, 730).                                      *)
(***************************************************************************)
DataGoroutinesEnd ==
  \A u \in Uploads :
    pc[u] = "header" ~> (pc[u] \in Finished \/ (sender[u] = "stalled" /\ Open(u)))

(***************************************************************************)
(* A goroutine that waits while its entry is in the table answers, also    *)
(* when its deadline passes first or another waiter gets the notification, *)
(* unless the connection ends (quic.go:522-533).                           *)
(***************************************************************************)
WaitingEntryIsAnswered ==
  \A u \in Uploads :
    (pc[u] \in {"wait", "select"} /\ pend[ConnOf[u]][DataRid[u]] = u)
      ~> (frames[u] # << >> \/ ~Open(u))

(***************************************************************************)
(* The accept loop gets to every stream that is opened, although it blocks *)
(* on the first byte of each in turn, and although other senders may have  *)
(* given up or left their streams behind (quic.go:541-553).                *)
(***************************************************************************)
StreamsAreAccepted ==
  \A u \in Uploads :
    /\ sender[u] = "opened" ~> (cpc[u] # "none" \/ ~Open(u))
    /\ sender[u] = "data" ~> (pc[u] # "none" \/ ~Open(u))
=============================================================================
