--------------------------- MODULE ReceiverProofs ---------------------------
(***************************************************************************)
(* Proofs about Receiver, for every value of its constants: types, and the *)
(* ownership of control streams.                                           *)
(***************************************************************************)
EXTENDS Receiver, SequenceTheorems, TLAPS

-----------------------------------------------------------------------------
(***************************************************************************)
(* Type correctness.  TakeEntry looks DataRid[u] up in the table and the   *)
(* receipts carry it, so that it has to be an id: a header without one     *)
(* never gets to waitForEntry.                                             *)
(***************************************************************************)
WaitsForAnId ==
  \A u \in Uploads : pc[u] \in {"wait", "select", "receipt", "acked"} => DataRid[u] # None

TypeInv == TypeOK /\ WaitsForAnId

\* Writing a block into a file yields a file.
LEMMA WriteAtType ==
  ASSUME NEW S, NEW s \in Seq(S \cup {None}), NEW i \in Nat \ {0}, NEW b \in S \cup {None}
  PROVE  WriteAt(s, i, b) \in Seq(S \cup {None})
  <1> DEFINE n == IF Len(s) < i THEN i ELSE Len(s)
  <1>1. n \in Nat /\ DOMAIN s \cup 1..i = 1..n
    OBVIOUS
  <1>2. \A j \in 1..n : (IF j = i THEN b ELSE IF j \in DOMAIN s THEN s[j] ELSE None)
                           \in S \cup {None}
    OBVIOUS
  <1>3. WriteAt(s, i, b) \in [1..n -> S \cup {None}]
    BY <1>1, <1>2 DEF WriteAt
  <1> QED BY <1>1, <1>3

\* The receipts of an upload with an id are well formed.
LEMMA ReceiptFramesType ==
  ASSUME TypeInv, NEW u \in Uploads, DataRid[u] \in Rids
  PROVE  ReceiptFrames(u)[1] \in Receipts /\ ReceiptFrames(u)[2] \in Receipts
  <1>1. Received(u) \in Contents
    BY ReceiverAssumption DEF ReceiverAssumption, Received, Contents, TypeInv, TypeOK
  <1>2. Digest(Received(u)) \in Digests
    BY <1>1 DEF Digest, Digests
  <1>3. [rid |-> DataRid[u], ok |-> ChecksumOK(u), sha256 |-> Digest(Received(u))] \in Receipts
    BY <1>2 DEF Receipts, ChecksumOK
  <1>4. [rid |-> DataRid[u]] \in Receipts
    BY DEF Receipts
  <1> QED BY <1>3, <1>4 DEF ReceiptFrames

\* The parts of a pair of frames.
LEMMA TwoFrames ==
  ASSUME NEW a, NEW b
  PROVE  /\ SubSeq(<<a, b>>, 1, 0) = << >>
         /\ SubSeq(<<a, b>>, 1, 1) = <<a>>
         /\ SubSeq(<<a, b>>, 1, 2) = <<a, b>>
         /\ Append(<< >>, a) = <<a>>
         /\ Append(<<a>>, b) = <<a, b>>
  <1> DEFINE s == <<a, b>>
  <1>1. s \in Seq({a, b}) /\ Len(s) = 2 /\ s[1] = a /\ s[2] = b
    OBVIOUS
  <1>2. SubSeq(s, 1, 0) = << >>
    BY SubSeqEmpty
  <1>3. SubSeq(s, 1, 1) = <<a>>
    <2> DEFINE t == SubSeq(s, 1, 1)
               e == <<a>>
    <2>1. t \in Seq({a, b}) /\ Len(t) = 1 /\ t[1] = a
      BY <1>1, SubSeqProperties
    <2>2. e \in Seq({a, b}) /\ Len(e) = 1 /\ e[1] = a
      OBVIOUS
    <2> HIDE DEF t, e
    <2>3. t = e
      BY <2>1, <2>2, SeqEqual
    <2> QED BY <2>3 DEF t, e
  <1>4. SubSeq(s, 1, 2) = s
    BY <1>1, SubSeqFull
  <1>5. Append(<< >>, a) = <<a>>
    OBVIOUS
  <1>6. Append(<<a>>, b) = s
    <2> DEFINE e == <<a>>
               t == Append(e, b)
    <2>1. e \in Seq({a, b}) /\ Len(e) = 1 /\ e[1] = a
      OBVIOUS
    <2> HIDE DEF e
    <2>2. t \in Seq({a, b}) /\ Len(t) = 2 /\ t[1] = a /\ t[2] = b
      <3>1. b \in {a, b}
        OBVIOUS
      <3> DEFINE S == {a, b}
      <3>2. e \in Seq(S) /\ b \in S
        BY <2>1, <3>1
      <3> HIDE DEF S
      <3>3. t \in Seq(S) /\ Len(t) = Len(e) + 1 /\ t[Len(e) + 1] = b
            /\ \A i \in 1 .. Len(e) : t[i] = e[i]
        BY <3>2, AppendProperties
      <3>4. Len(t) = 2 /\ t[2] = b
        BY <2>1, <3>3
      <3>5. t[1] = a
        BY <2>1, <3>3
      <3> QED BY <3>3, <3>4, <3>5 DEF S
    <2> HIDE DEF t, s
    <2>3. t = s
      BY <1>1, <2>2, SeqEqual
    <2> QED BY <2>3 DEF t, e
  <1> QED BY <1>2, <1>3, <1>4, <1>5, <1>6

LEMMA PairOfFrames ==
  ASSUME NEW u
  PROVE  ReceiptFrames(u) = << ReceiptFrames(u)[1], ReceiptFrames(u)[2] >>
  <1> DEFINE a == [rid |-> DataRid[u], ok |-> ChecksumOK(u), sha256 |-> Digest(Received(u))]
             b == [rid |-> DataRid[u]]
  <1>1. ReceiptFrames(u) = <<a, b>>
    BY DEF ReceiptFrames
  <1> HIDE DEF a, b
  <1> QED BY <1>1

LEMMA TypeInit == Init => TypeInv
  <1> SUFFICES ASSUME Init PROVE TypeInv
    OBVIOUS
  <1> USE ReceiverAssumption DEF ReceiverAssumption
  <1>1. \A c \in Conns : << >> \in Seq(Streams)
    OBVIOUS
  <1>2. \A u \in Uploads : Len(Body[u]) \in Nat
    BY DEF Contents
  <1>3. TypeOK
    <2>1. file \in [Files -> Seq(Blocks \cup {None})]
      <3>1. \A f \in Paths : Before[f] # None => Before[f] \in Seq(Blocks \cup {None})
        BY DEF Contents
      <3> QED BY <3>1 DEF Init, Files
    <2>2. frames \in [Uploads -> Seq(Receipts)]
      BY DEF Init
    <2> QED BY <1>1, <1>2, <2>1, <2>2
            DEF Init, TypeOK, SenderStates, CtrlStates, DataStates, Files
  <1>4. WaitsForAnId
    BY DEF Init, WaitsForAnId
  <1> QED BY <1>3, <1>4 DEF TypeInv

LEMMA TypeSender ==
  ASSUME TypeInv, NEW u \in Uploads, Sender(u) PROVE TypeInv'
  <1> USE ReceiverAssumption DEF ReceiverAssumption
  <1>1. <<"ctrl", u>> \in Streams /\ <<"data", u>> \in Streams
    BY DEF Streams
  <1>2. \A s \in Streams : [queue EXCEPT ![ConnOf[u]] = Append(@, s)] \in [Conns -> Seq(Streams)]
    BY DEF TypeInv, TypeOK
  <1>3. TypeOK'
    <2>1. CASE OpenControl(u)
      BY <1>1, <1>2, <2>1 DEF OpenControl, TypeInv, TypeOK, SenderStates, table, flags, local, disk
    <2>2. CASE WriteTransferStart(u)
      BY <2>2 DEF WriteTransferStart, TypeInv, TypeOK, SenderStates, table, flags, local, disk
    <2>3. CASE OpenData(u)
      BY <1>1, <1>2, <2>3 DEF OpenData, TypeInv, TypeOK, SenderStates, table, flags, local, disk
    <2>4. CASE WriteHeader(u)
      BY <2>4 DEF WriteHeader, TypeInv, TypeOK, SenderStates, table, flags, local, disk
    <2>5. CASE GiveUp(u)
      BY <2>5 DEF GiveUp, TypeInv, TypeOK, SenderStates, table, flags, local, disk
    <2>6. CASE Stall(u)
      BY <2>6 DEF Stall, TypeInv, TypeOK, SenderStates, table, flags, local, disk
    <2> QED BY <2>1, <2>2, <2>3, <2>4, <2>5, <2>6 DEF Sender
  <1>4. WaitsForAnId'
    BY DEF Sender, OpenControl, WriteTransferStart, OpenData, GiveUp, WriteHeader, Stall,
           TypeInv, WaitsForAnId
  <1> QED BY <1>3, <1>4 DEF TypeInv

LEMMA TypeNet ==
  ASSUME TypeInv, NEW c \in Conns, Connect(c) \/ Accept(c) \/ Disconnect(c)
  PROVE  TypeInv'
  <1> USE ReceiverAssumption DEF ReceiverAssumption
  <1>1. CASE Connect(c)
    BY <1>1 DEF Connect, TypeInv, TypeOK, WaitsForAnId, table, flags, local, disk
  <1>2. CASE Accept(c)
    <2> DEFINE s == Head(queue[c])
    <2>1. s \in Streams /\ Tail(queue[c]) \in Seq(Streams)
      BY <1>2 DEF Accept, TypeInv, TypeOK
    <2>2. s[2] \in Uploads
      BY <2>1 DEF Streams
    <2>3. queue' \in [Conns -> Seq(Streams)]
      BY <2>1, <1>2 DEF Accept, TypeInv, TypeOK
    <2>4. cpc' \in [Uploads -> CtrlStates]
      BY <2>2, <1>2, SMTT(30) DEF Accept, TypeInv, TypeOK, CtrlStates
    <2>5. pc' = pc \/ pc' = [pc EXCEPT ![s[2]] = "header"]
      BY <1>2 DEF Accept
    <2>6. pc' \in [Uploads -> DataStates] /\ WaitsForAnId'
      BY <2>2, <2>5, ZenonT(40) DEF TypeInv, TypeOK, WaitsForAnId, DataStates, Storing
    <2> QED BY <2>3, <2>4, <2>6, <1>2
            DEF Accept, TypeInv, TypeOK, flags, local, disk
  <1>3. CASE Disconnect(c)
    BY <1>3 DEF Disconnect, TypeInv, TypeOK, WaitsForAnId, table, flags, local, disk
  <1> QED BY <1>1, <1>2, <1>3

LEMMA TypeControl ==
  ASSUME TypeInv, NEW u \in Uploads, Control(u) PROVE TypeInv'
  <1> USE ReceiverAssumption DEF ReceiverAssumption, TypeInv, TypeOK, WaitsForAnId,
                                 net, table, flags, local, disk
  <1>1. CASE PutEntry(u)
    BY <1>1 DEF PutEntry, CtrlStates
  <1>2. CASE ControlLost(u)
    BY <1>2 DEF ControlLost, CtrlStates
  <1>3. CASE PutNotify(u)
    BY <1>3 DEF PutNotify, CtrlStates
  <1> QED BY <1>1, <1>2, <1>3 DEF Control

\* A move of the program counter alone.
LEMMA TypeGoto ==
  ASSUME TypeInv, NEW u \in Uploads, NEW from, NEW to \in DataStates,
         Goto(u, from, to),
         to \in {"wait", "select", "receipt", "acked"} => DataRid[u] # None
  PROVE  pc' \in [Uploads -> DataStates] /\ WaitsForAnId'
  BY DEF Goto, TypeInv, TypeOK, WaitsForAnId

\* A frame more on some control stream.
LEMMA TypeAppend ==
  ASSUME TypeInv, NEW v, NEW x \in Receipts,
         frames' = frames \/ frames' = [frames EXCEPT ![v] = Append(@, x)]
  PROVE  frames' \in [Uploads -> Seq(Receipts)]
  <1>1. frames \in [Uploads -> Seq(Receipts)]
    BY DEF TypeInv, TypeOK
  <1>2. v \in Uploads => Append(frames[v], x) \in Seq(Receipts)
    BY <1>1, AppendProperties
  <1> QED BY <1>1, <1>2, ZenonT(40)

LEMMA TypeData ==
  ASSUME TypeInv, NEW u \in Uploads, Data(u) PROVE TypeInv'
  <1> USE ReceiverAssumption DEF ReceiverAssumption
  <1> USE DEF net, table, flags, local, disk, DataStates, Storing, Replying, Finished
  <1>0. pc \in [Uploads -> DataStates] /\ WaitsForAnId
    BY DEF TypeInv, TypeOK
  <1>1. CASE ReadHeader(u)
    <2>1. pc' \in [Uploads -> DataStates] /\ WaitsForAnId'
      BY <1>1, TypeGoto DEF ReadHeader
    <2>2. hash' = hash \/ hash' = [hash EXCEPT ![u] = HashOf[u]]
      BY <1>1 DEF ReadHeader
    <2>3. hash' \in [Uploads -> Digests \cup {None}]
      BY <2>2, ZenonT(40) DEF TypeInv, TypeOK
    <2> QED BY <1>1, <2>1, <2>3 DEF ReadHeader, TypeInv, TypeOK
  <1>2. CASE CheckRejected(u)
    BY <1>2, TypeGoto DEF CheckRejected, TypeInv, TypeOK
  <1>3. CASE CheckPath(u)
    BY <1>3, TypeGoto DEF CheckPath, TypeInv, TypeOK
  <1>4. CASE MarkPath(u)
    BY <1>4, TypeGoto DEF MarkPath, TypeInv, TypeOK
  <1>5. CASE StatFile(u)
    BY <1>5, TypeGoto DEF StatFile, TypeInv, TypeOK
  <1>6. CASE HashFile(u)
    BY <1>6, TypeGoto DEF HashFile, TypeInv, TypeOK
  <1>7. CASE SkipFile(u)
    BY <1>7, TypeGoto DEF SkipFile, TypeInv, TypeOK
  <1>8. CASE CreateFile(u)
    <2>1. pc' \in [Uploads -> DataStates] /\ WaitsForAnId'
      BY <1>8, TypeGoto DEF CreateFile
    <2> DEFINE f == IF dir[PathOf[u]] = None THEN u ELSE dir[PathOf[u]]
    <2>2. f \in Files /\ << >> \in Seq(Blocks \cup {None})
      BY DEF TypeInv, TypeOK, Files
    <2>3. dir' \in [Paths -> Files \cup {None}] /\ fd' \in [Uploads -> Files \cup {None}]
      BY <1>8, <2>2 DEF CreateFile, TypeInv, TypeOK
    <2>4. file' \in [Files -> Seq(Blocks \cup {None})]
      BY <1>8, <2>2 DEF CreateFile, TypeInv, TypeOK
    <2>5. latest' \in [Paths -> Uploads \cup {None}]
      BY <1>8 DEF CreateFile, TypeInv, TypeOK
    <2> QED BY <1>8, <2>1, <2>3, <2>4, <2>5 DEF CreateFile, TypeInv, TypeOK
  <1>9. CASE CreateFails(u)
    BY <1>9, TypeGoto DEF CreateFails, TypeInv, TypeOK
  <1>10. CASE CopyBlock(u)
    <2>1. WaitsForAnId'
      BY <1>0, <1>10 DEF CopyBlock, WaitsForAnId
    <2>2. got' \in [Uploads -> Nat] /\ \A v \in Uploads : got'[v] <= Len(Body[v])
      BY <1>10 DEF CopyBlock, TypeInv, TypeOK, Contents
    <2> DEFINE b == Body[u][got[u] + 1]
               s == WriteAt(file[fd[u]], got[u] + 1, b)
    <2>3. got[u] + 1 \in Nat \ {0} /\ b \in Blocks \cup {None}
      BY <1>10 DEF CopyBlock, TypeInv, TypeOK, Contents
    <2>4. fd[u] \in Files => s \in Seq(Blocks \cup {None})
      BY <2>3, WriteAtType DEF TypeInv, TypeOK
    <2>5. file' \in [Files -> Seq(Blocks \cup {None})]
      BY <1>10, <2>4, ZenonT(40) DEF CopyBlock, TypeInv, TypeOK
    <2> QED BY <1>10, <2>1, <2>2, <2>5 DEF CopyBlock, TypeInv, TypeOK
  <1>11. CASE CopyEnd(u)
    BY <1>11, TypeGoto DEF CopyEnd, TypeInv, TypeOK
  <1>12. CASE CopyFails(u)
    BY <1>12, TypeGoto DEF CopyFails, TypeInv, TypeOK
  <1>13. CASE RemoveFile(u)
    BY <1>13, TypeGoto DEF RemoveFile, TypeInv, TypeOK
  <1>14. CASE VerifyHash(u)
    BY <1>14, TypeGoto DEF VerifyHash, TypeInv, TypeOK
  <1>15. CASE TakeEntry(u)
    <2>1. pend[ConnOf[u]][DataRid[u]] \in Uploads
      BY <1>0, <1>15 DEF TakeEntry, Goto, TypeInv, TypeOK, WaitsForAnId
    <2>2. pc' \in [Uploads -> DataStates] /\ WaitsForAnId'
      <3>1. DataRid[u] # None
        BY <1>0, <1>15 DEF TakeEntry, Goto, WaitsForAnId
      <3> QED BY <1>15, <3>1, TypeGoto DEF TakeEntry
    <2>3. held' \in [Uploads -> Uploads \cup {None}]
      BY <1>15, <2>1 DEF TakeEntry, TypeInv, TypeOK
    <2>4. pend' \in [Conns -> [Rids -> Uploads \cup {None}]]
      BY <1>15 DEF TakeEntry, TypeInv, TypeOK
    <2> QED BY <1>15, <2>2, <2>3, <2>4 DEF TakeEntry, TypeInv, TypeOK
  <1>16. CASE EntryMissing(u)
    <2>1. DataRid[u] # None
      BY <1>0, <1>16 DEF EntryMissing, Goto, WaitsForAnId
    <2> QED BY <1>16, <2>1, TypeGoto DEF EntryMissing, TypeInv, TypeOK
  <1>17. CASE WakeByNotify(u)
    <2>1. DataRid[u] # None
      BY <1>0, <1>17 DEF WakeByNotify, Goto, WaitsForAnId
    <2> QED BY <1>17, <2>1, TypeGoto DEF WakeByNotify, TypeInv, TypeOK
  <1>18. CASE WakeByTimer(u)
    <2>1. DataRid[u] # None
      BY <1>0, <1>18 DEF WakeByTimer, Goto, WaitsForAnId
    <2> QED BY <1>18, <2>1, TypeGoto DEF WakeByTimer, TypeInv, TypeOK
  <1>19. CASE SendReceived(u)
    <2>1. DataRid[u] \in Rids
      BY <1>0, <1>19, ReceiverAssumption
         DEF ReceiverAssumption, SendReceived, Goto, WaitsForAnId
    <2>2. pc' \in [Uploads -> DataStates] /\ WaitsForAnId'
      BY <1>19, <2>1, TypeGoto DEF SendReceived
    <2>3. frames' = frames \/ frames' = [frames EXCEPT ![held[u]] = Append(@, ReceiptFrames(u)[1])]
      BY <1>19 DEF SendReceived
    <2>4. frames' \in [Uploads -> Seq(Receipts)]
      BY <2>1, <2>3, ReceiptFramesType, TypeAppend
    <2> QED BY <1>19, <2>2, <2>4 DEF SendReceived, TypeInv, TypeOK
  <1>20. CASE SendAcked(u)
    <2>1. DataRid[u] \in Rids
      BY <1>0, <1>20, ReceiverAssumption
         DEF ReceiverAssumption, SendAcked, Goto, WaitsForAnId
    <2>2. pc' \in [Uploads -> DataStates] /\ WaitsForAnId'
      BY <1>20, TypeGoto DEF SendAcked
    <2>3. frames' = frames \/ frames' = [frames EXCEPT ![held[u]] = Append(@, ReceiptFrames(u)[2])]
      BY <1>20 DEF SendAcked
    <2>4. frames' \in [Uploads -> Seq(Receipts)]
      BY <2>1, <2>3, ReceiptFramesType, TypeAppend
    <2> QED BY <1>20, <2>2, <2>4 DEF SendAcked, TypeInv, TypeOK
  <1>21. CASE SendSuccess(u)
    BY <1>21, TypeGoto DEF SendSuccess, TypeInv, TypeOK
  <1>22. CASE HashFails(u)
    BY <1>22, TypeGoto DEF HashFails, TypeInv, TypeOK
  <1> QED BY <1>1, <1>2, <1>3, <1>4, <1>5, <1>6, <1>7, <1>8, <1>9, <1>10, <1>11, <1>12,
             <1>13, <1>14, <1>15, <1>16, <1>17, <1>18, <1>19, <1>20, <1>21, <1>22 DEF Data

LEMMA TypeOthers ==
  ASSUME TypeInv, (\E u \in Uploads : DeadlinePasses(u)) \/ Crash \/ UNCHANGED vars
  PROVE  TypeInv'
  <1> USE DEF net, table, flags, local, disk, TypeInv, TypeOK, WaitsForAnId
  <1>1. CASE \E u \in Uploads : DeadlinePasses(u)
    BY <1>1 DEF DeadlinePasses
  <1>2. CASE Crash
    BY <1>2 DEF Crash, DataStates, CtrlStates, Finished
  <1>3. CASE UNCHANGED vars
    BY <1>3 DEF vars
  <1> QED BY <1>1, <1>2, <1>3

LEMMA TypeStep == TypeInv /\ [Next]_vars => TypeInv'
  BY TypeSender, TypeNet, TypeControl, TypeData, TypeOthers DEF Next

(***************************************************************************)
(* Every variable keeps its type, and no goroutine reads more blocks than  *)
(* its stream carries.                                                     *)
(***************************************************************************)
THEOREM TypeCorrect == Spec => []TypeOK
  <1>1. TypeInv => TypeOK
    BY DEF TypeInv
  <1> QED BY <1>1, TypeInit, TypeStep, PTL DEF Spec

-----------------------------------------------------------------------------
(***************************************************************************)
(* Ownership of control streams.  Each stream is accepted once (QueueInv,  *)
(* SenderInv), so that each upload is posted once; an entry moves from the *)
(* table (PendInv) to one data goroutine (HeldInv), which writes to it     *)
(* once (FramesInv).                                                       *)
(***************************************************************************)
QueueInv ==
  \A c \in Conns :
    /\ IsInjective(queue[c])
    /\ \A u \in Uploads :
         /\ <<"ctrl", u>> \in Range(queue[c]) =>
              ConnOf[u] = c /\ sender[u] # "idle" /\ cpc[u] = "none"
         /\ <<"data", u>> \in Range(queue[c]) =>
              ConnOf[u] = c /\ sender[u] \in {"data", "sending", "stalled"} /\ pc[u] = "none"

SenderInv ==
  \A u \in Uploads :
    /\ cpc[u] # "none" => sender[u] # "idle"
    /\ pc[u] # "none" => sender[u] \in {"sending", "stalled"}
    /\ sender[u] # "idle" => conn[ConnOf[u]] # "new"

WasPut == {"notify", "posted", "dead"}

PendInv ==
  \A c \in Conns, r \in Rids : pend[c][r] # None =>
    /\ ConnOf[pend[c][r]] = c
    /\ CtrlRid[pend[c][r]] = r
    /\ cpc[pend[c][r]] \in WasPut

HeldInv ==
  \A u \in Uploads :
    /\ pc[u] \in {"receipt", "acked"} => held[u] # None
    /\ held[u] # None =>
         /\ pc[u] \in {"receipt", "acked", "success", "done", "dead"}
         /\ cpc[held[u]] \in WasPut
         /\ ConnOf[held[u]] = ConnOf[u]
         /\ CtrlRid[held[u]] = DataRid[u]
         /\ \A c \in Conns, r \in Rids : pend[c][r] # held[u]
         /\ \A w \in Uploads : held[w] = held[u] => w = u

FirstFrame(u) == << ReceiptFrames(u)[1] >>

FramesInv ==
  /\ \A u \in Uploads : pc[u] = "acked" => frames[held[u]] = FirstFrame(u)
  /\ \A v \in Uploads : frames[v] # << >> =>
       \E u \in Uploads : /\ held[u] = v
                          /\ pc[u] # "receipt"
                          /\ frames[v] \in {FirstFrame(u), ReceiptFrames(u)}

AcceptInv == QueueInv /\ SenderInv
ReplyInv == PendInv /\ HeldInv /\ FramesInv

\* A stream that is not in the queue can be appended, and the head is not in
\* the tail.
LEMMA AppendQueue ==
  ASSUME NEW S, NEW q \in Seq(S), NEW x \in S
  PROVE  /\ Range(Append(q, x)) = Range(q) \cup {x}
         /\ IsInjective(q) /\ x \notin Range(q) => IsInjective(Append(q, x))
  <1>1. /\ DOMAIN q = 1..Len(q)
        /\ DOMAIN Append(q, x) = 1..(Len(q) + 1)
        /\ Len(q) \in Nat
        /\ \A i \in 1..Len(q) : Append(q, x)[i] = q[i]
        /\ Append(q, x)[Len(q) + 1] = x
    BY AppendProperties
  <1>2. \A i : i \in 1..(Len(q) + 1) <=> i \in 1..Len(q) \/ i = Len(q) + 1
    BY <1>1
  <1>3. \A y : y \in Range(Append(q, x)) <=> y \in Range(q) \/ y = x
    BY <1>1, <1>2 DEF Range
  <1>4. ASSUME IsInjective(q), x \notin Range(q) PROVE IsInjective(Append(q, x))
    BY <1>1, <1>2, <1>4 DEF IsInjective, Range
  <1> QED BY <1>3, <1>4

LEMMA TailQueue ==
  ASSUME NEW S, NEW q \in Seq(S), q # << >>
  PROVE  /\ Head(q) \in Range(q)
         /\ Range(Tail(q)) \subseteq Range(q)
         /\ IsInjective(q) => IsInjective(Tail(q)) /\ Head(q) \notin Range(Tail(q))
  <1>1. /\ Len(q) \in Nat \ {0}
        /\ DOMAIN q = 1..Len(q)
        /\ Head(q) = q[1]
        /\ DOMAIN Tail(q) = 1..(Len(q) - 1)
        /\ \A i \in 1..(Len(q) - 1) : Tail(q)[i] = q[i + 1]
    BY HeadTailProperties
  <1>2. \A i \in 1..(Len(q) - 1) : i + 1 \in 1..Len(q) /\ i + 1 # 1
    BY <1>1
  <1>3. Head(q) \in Range(q)
    BY <1>1 DEF Range
  <1>4. Range(Tail(q)) \subseteq Range(q)
    BY <1>1, <1>2 DEF Range
  <1>5. ASSUME IsInjective(q) PROVE Head(q) \notin Range(Tail(q))
    BY <1>1, <1>2, <1>5 DEF IsInjective, Range
  <1>6. ASSUME IsInjective(q) PROVE IsInjective(Tail(q))
    <2> SUFFICES ASSUME NEW i \in DOMAIN Tail(q), NEW j \in DOMAIN Tail(q),
                        Tail(q)[i] = Tail(q)[j]
                 PROVE  i = j
      BY DEF IsInjective
    <2>1. i + 1 \in DOMAIN q /\ j + 1 \in DOMAIN q /\ q[i + 1] = q[j + 1]
      BY <1>1, <1>2
    <2>2. i + 1 = j + 1
      BY <1>6, <2>1 DEF IsInjective
    <2> QED BY <1>1, <2>2
  <1> QED BY <1>3, <1>4, <1>5, <1>6

\* A step of another goroutine, or of the clock, leaves the queues alone and
\* neither starts nor undoes a goroutine.
LEMMA AcceptQuiet ==
  ASSUME AcceptInv, UNCHANGED <<queue, sender>>,
         \A u \in Uploads : cpc'[u] = "none" <=> cpc[u] = "none",
         \A u \in Uploads : pc'[u] = "none" <=> pc[u] = "none",
         \A c \in Conns : conn'[c] = "new" => conn[c] = "new"
  PROVE  AcceptInv'
  <1>1. QueueInv'
    BY DEF AcceptInv, QueueInv
  <1>2. SenderInv'
    BY ReceiverAssumption DEF ReceiverAssumption, AcceptInv, SenderInv
  <1> QED BY <1>1, <1>2 DEF AcceptInv

\* The part of TypeInv and AcceptInv the next lemmas use, stream by stream.
LEMMA QueueFacts ==
  ASSUME TypeInv, AcceptInv
  PROVE  /\ queue \in [Conns -> Seq(Streams)]
         /\ sender \in [Uploads -> SenderStates]
         /\ cpc \in [Uploads -> CtrlStates]
         /\ pc \in [Uploads -> DataStates]
         /\ \A c \in Conns : IsInjective(queue[c])
         /\ \A c \in Conns, u \in Uploads :
              <<"ctrl", u>> \in Range(queue[c]) =>
                ConnOf[u] = c /\ sender[u] # "idle" /\ cpc[u] = "none"
         /\ \A c \in Conns, u \in Uploads :
              <<"data", u>> \in Range(queue[c]) =>
                ConnOf[u] = c /\ sender[u] \in {"data", "sending", "stalled"} /\ pc[u] = "none"
  BY DEF TypeInv, TypeOK, AcceptInv, QueueInv

\* The sender opens a stream.
LEMMA AcceptOpen ==
  ASSUME TypeInv, AcceptInv, NEW u \in Uploads, OpenControl(u) \/ OpenData(u)
  PROVE  AcceptInv'
  <1> DEFINE c == ConnOf[u]
             q == queue[c]
  <1>0. queue \in [Conns -> Seq(Streams)] /\ sender \in [Uploads -> SenderStates]
    BY QueueFacts
  <1>1. c \in Conns /\ q \in Seq(Streams) /\ conn[c] = "open"
    BY <1>0, ReceiverAssumption DEF ReceiverAssumption, OpenControl, OpenData, Open
  <1>2. UNCHANGED <<conn, pc, cpc>> /\ \A v \in Uploads \ {u} : sender'[v] = sender[v]
    BY <1>0 DEF OpenControl, OpenData, table
  <1>3. ASSUME NEW k \in {"ctrl", "data"},
               queue' = [queue EXCEPT ![c] = Append(q, <<k, u>>)],
               k = "ctrl" => sender[u] = "idle" /\ sender'[u] = "opened",
               k = "data" => sender[u] = "announced" /\ sender'[u] = "data"
        PROVE  AcceptInv'
    <2> DEFINE x == <<k, u>>
    <2>1. x \in Streams
      BY DEF Streams
    <2>2. x \notin Range(q)
      <3>1. CASE k = "ctrl"
        BY <3>1, <1>1, <1>3, QueueFacts
      <3>2. CASE k = "data"
        BY <3>2, <1>1, <1>3, QueueFacts
      <3> QED BY <3>1, <3>2
    <2>3. queue'[c] = Append(q, x) /\ \A d \in Conns \ {c} : queue'[d] = queue[d]
      BY <1>0, <1>1, <1>3
    <2>4. IsInjective(q)
      BY <1>1, QueueFacts
    <2> HIDE DEF c, q
    <2>5. Range(queue'[c]) = Range(q) \cup {x} /\ IsInjective(queue'[c])
      <3> HIDE DEF x
      <3> QED BY <1>1, <2>1, <2>2, <2>3, <2>4, AppendQueue
    <2>6. SenderInv'
      BY <1>1, <1>2, <1>3 DEF AcceptInv, SenderInv, c
    <2>7. (k = "ctrl" => cpc[u] = "none") /\ pc[u] = "none"
      BY <1>3 DEF AcceptInv, SenderInv
    <2>8. \A d \in Conns, j \in {"ctrl", "data"}, v \in Uploads :
            <<j, v>> \in Range(queue'[d]) =>
              <<j, v>> \in Range(queue[d]) \/ (d = c /\ j = k /\ v = u)
      <3> SUFFICES ASSUME NEW d \in Conns, NEW j \in {"ctrl", "data"}, NEW v \in Uploads,
                          <<j, v>> \in Range(queue'[d])
                   PROVE  <<j, v>> \in Range(queue[d]) \/ (d = c /\ j = k /\ v = u)
        OBVIOUS
      <3>1. CASE d = c
        BY <3>1, <2>5 DEF q
      <3>2. CASE d # c
        BY <3>2, <2>3
      <3> QED BY <3>1, <3>2
    <2>9. \A d \in Conns : IsInjective(queue'[d])
      BY <2>5, <2>3, QueueFacts
    <2>10. ASSUME NEW d \in Conns, NEW v \in Uploads, <<"ctrl", v>> \in Range(queue'[d])
           PROVE  ConnOf[v] = d /\ sender'[v] # "idle" /\ cpc'[v] = "none"
      <3>1. <<"ctrl", v>> \in Range(queue[d]) \/ (d = c /\ k = "ctrl" /\ v = u)
        BY <2>8, <2>10
      <3>2. CASE <<"ctrl", v>> \in Range(queue[d])
        BY <3>2, <1>2, <1>3, QueueFacts
      <3> QED BY <3>1, <3>2, <1>2, <1>3, <2>7 DEF c
    <2>11. ASSUME NEW d \in Conns, NEW v \in Uploads, <<"data", v>> \in Range(queue'[d])
           PROVE  ConnOf[v] = d /\ sender'[v] \in {"data", "sending", "stalled"} /\ pc'[v] = "none"
      <3>1. <<"data", v>> \in Range(queue[d]) \/ (d = c /\ k = "data" /\ v = u)
        BY <2>8, <2>11
      <3>2. CASE <<"data", v>> \in Range(queue[d])
        <4>1. ConnOf[v] = d /\ sender[v] \in {"data", "sending", "stalled"} /\ pc[v] = "none"
          BY <3>2, QueueFacts
        <4> QED BY <4>1, <1>2, <1>3
      <3> QED BY <3>1, <3>2, <1>2, <1>3, <2>7 DEF c
    <2> QED BY <2>6, <2>9, <2>10, <2>11 DEF AcceptInv, QueueInv
  <1>4. CASE OpenControl(u)
    BY <1>0, <1>3, <1>4 DEF OpenControl
  <1>5. CASE OpenData(u)
    BY <1>0, <1>3, <1>5 DEF OpenData
  <1> QED BY <1>4, <1>5

\* The sender writes on a stream, or does no more.
LEMMA AcceptWrite ==
  ASSUME TypeInv, AcceptInv, NEW u \in Uploads,
         WriteTransferStart(u) \/ GiveUp(u) \/ WriteHeader(u) \/ Stall(u)
  PROVE  AcceptInv'
  <1>0. sender \in [Uploads -> SenderStates]
    BY QueueFacts
  <1>1. UNCHANGED <<conn, queue, pc, cpc>>
    BY DEF WriteTransferStart, GiveUp, WriteHeader, Stall, table
  <1>2. /\ \A v \in Uploads \ {u} : sender'[v] = sender[v]
        /\ \/ sender[u] = "opened" /\ sender'[u] = "announced"
           \/ sender[u] = "announced" /\ sender'[u] = "gaveup"
           \/ sender[u] = "data" /\ sender'[u] = "sending"
           \/ sender[u] = "sending" /\ sender'[u] = "stalled"
    BY <1>0 DEF WriteTransferStart, GiveUp, WriteHeader, Stall
  <1>3. \A v \in Uploads : /\ sender[v] # "idle" => sender'[v] # "idle"
                           /\ sender[v] \in {"data", "sending", "stalled"} => sender'[v] \in {"data", "sending", "stalled"}
    BY <1>2
  <1>4. QueueInv'
    BY <1>1, <1>3, QueueFacts DEF QueueInv
  <1>5. SenderInv'
    BY <1>1, <1>2 DEF AcceptInv, SenderInv
  <1> QED BY <1>4, <1>5 DEF AcceptInv

\* The accept loop takes the head of the queue.
LEMMA AcceptAccept ==
  ASSUME TypeInv, AcceptInv, NEW c \in Conns, Accept(c)
  PROVE  /\ AcceptInv'
         /\ \E u \in Uploads :
              /\ ConnOf[u] = c /\ sender[u] # "idle"
              /\ \/ cpc[u] = "none" /\ cpc' = [cpc EXCEPT ![u] = "decode"] /\ pc' = pc
                 \/ /\ pc[u] = "none" /\ pc' = [pc EXCEPT ![u] = "header"] /\ cpc' = cpc
                    /\ sender[u] \in {"sending", "stalled"}
  <1> DEFINE q == queue[c]
  <1>0. /\ queue \in [Conns -> Seq(Streams)]
        /\ cpc \in [Uploads -> CtrlStates] /\ pc \in [Uploads -> DataStates]
    BY QueueFacts
  <1>1. q \in Seq(Streams) /\ q # << >> /\ UNCHANGED <<conn, sender>>
    BY <1>0 DEF Accept
  <1>2. PICK k \in {"ctrl", "data"}, u \in Uploads : Head(q) = <<k, u>>
    BY <1>1 DEF Streams
  <1>3. IsInjective(q)
    BY QueueFacts
  <1>4. Head(q) \in Range(q) /\ Head(q) \notin Range(Tail(q))
        /\ Range(Tail(q)) \subseteq Range(q) /\ IsInjective(Tail(q))
    BY <1>1, <1>3, TailQueue
  <1>5. queue'[c] = Tail(q) /\ \A d \in Conns \ {c} : queue'[d] = queue[d]
    BY <1>0 DEF Accept
  <1>6. \/ k = "ctrl" /\ sender[u] # "idle" /\ cpc[u] = "none"
        \/ k = "data" /\ sender[u] \in {"data", "sending", "stalled"} /\ pc[u] = "none"
    <2>1. CASE k = "ctrl"
      <3>1. <<"ctrl", u>> \in Range(queue[c])
        BY <2>1, <1>2, <1>4
      <3> QED BY <2>1, <3>1, QueueFacts
    <2>2. CASE k = "data"
      <3>1. <<"data", u>> \in Range(queue[c])
        BY <2>2, <1>2, <1>4
      <3> QED BY <2>2, <3>1, QueueFacts
    <2> QED BY <2>1, <2>2
  <1>7. ConnOf[u] = c
    <2>1. <<"ctrl", u>> \in Range(queue[c]) \/ <<"data", u>> \in Range(queue[c])
      BY <1>2, <1>4
    <2> QED BY <2>1, QueueFacts
  <1>8. \/ k = "ctrl" /\ cpc' = [cpc EXCEPT ![u] = "decode"] /\ pc' = pc
        \/ /\ k = "data" /\ pc' = [pc EXCEPT ![u] = "header"] /\ cpc' = cpc
           /\ sender[u] \in {"sending", "stalled"}
    BY <1>2 DEF Accept, FirstByteArrived
  <1>9. ASSUME NEW d \in Conns, NEW j \in {"ctrl", "data"}, NEW v \in Uploads,
               <<j, v>> \in Range(queue'[d])
        PROVE  <<j, v>> \in Range(queue[d]) /\ (j = k => v # u)
    <2>1. CASE d = c
      BY <2>1, <1>9, <1>2, <1>4, <1>5
    <2>2. CASE d # c
      <3>1. <<j, v>> \in Range(queue[d])
        BY <2>2, <1>9, <1>5
      <3>2. ConnOf[v] = d
        BY <3>1, QueueFacts
      <3> QED BY <3>1, <3>2, <2>2, <1>7
    <2> QED BY <2>1, <2>2
  <1>10. ASSUME NEW d \in Conns PROVE IsInjective(queue'[d])
    <2>1. CASE d = c
      BY <2>1, <1>4, <1>5
    <2>2. CASE d # c
      BY <2>2, <1>5, QueueFacts
    <2> QED BY <2>1, <2>2
  <1> HIDE DEF q
  <1>11. ASSUME NEW d \in Conns, NEW v \in Uploads, <<"ctrl", v>> \in Range(queue'[d])
         PROVE  ConnOf[v] = d /\ sender'[v] # "idle" /\ cpc'[v] = "none"
    <2>1. <<"ctrl", v>> \in Range(queue[d]) /\ (k = "ctrl" => v # u)
      BY <1>9, <1>11
    <2>2. ConnOf[v] = d /\ sender[v] # "idle" /\ cpc[v] = "none"
      BY <2>1, QueueFacts
    <2> QED BY <2>1, <2>2, <1>0, <1>1, <1>8
  <1>12. ASSUME NEW d \in Conns, NEW v \in Uploads, <<"data", v>> \in Range(queue'[d])
         PROVE  ConnOf[v] = d /\ sender'[v] \in {"data", "sending", "stalled"} /\ pc'[v] = "none"
    <2>1. <<"data", v>> \in Range(queue[d]) /\ (k = "data" => v # u)
      BY <1>9, <1>12
    <2>2. ConnOf[v] = d /\ sender[v] \in {"data", "sending", "stalled"} /\ pc[v] = "none"
      BY <2>1, QueueFacts
    <2> QED BY <2>1, <2>2, <1>0, <1>1, <1>8
  <1>13. QueueInv'
    BY <1>10, <1>11, <1>12 DEF QueueInv
  <1>14. SenderInv'
    BY <1>0, <1>1, <1>6, <1>8 DEF AcceptInv, SenderInv
  <1> QED BY <1>6, <1>7, <1>8, <1>13, <1>14 DEF AcceptInv

\* What a step of the data goroutine of u does to the program counters and to
\* the data the receipts are made of.
Answering == {"receipt", "acked", "success", "done", "dead"}

LEMMA DataMoves ==
  ASSUME TypeInv, NEW u \in Uploads, Data(u)
  PROVE  /\ UNCHANGED <<conn, queue, sender, cpc>>
         /\ \A v \in Uploads \ {u} :
              pc'[v] = pc[v] /\ hash'[v] = hash[v] /\ got'[v] = got[v]
         /\ pc[u] \in Storing \cup Replying /\ pc'[u] # "none"
         /\ pc[u] \in Answering =>
              /\ pc[u] \in {"receipt", "acked", "success"}
              /\ pc'[u] \in {"acked", "success", "done"}
              /\ hash'[u] = hash[u] /\ got'[u] = got[u]
         /\ pc'[u] = "receipt" => TakeEntry(u)
         /\ pc'[u] = "acked" => SendReceived(u)
         /\ pc[u] = "receipt" => SendReceived(u)
         /\ pc[u] = "acked" => SendAcked(u)
         /\ ~TakeEntry(u) /\ ~SendReceived(u) /\ ~SendAcked(u) =>
              UNCHANGED <<pend, held, frames>>
  <1> USE DEF net, table, flags, local, disk, Storing, Replying, Answering
  <1>0. /\ pc \in [Uploads -> DataStates]
        /\ hash \in [Uploads -> Digests \cup {None}] /\ got \in [Uploads -> Nat]
    BY DEF TypeInv, TypeOK
  <1>1. CASE ReadHeader(u)
    BY <1>0, <1>1 DEF ReadHeader, Goto
  <1>2. CASE CheckRejected(u)
    BY <1>0, <1>2 DEF CheckRejected, Goto
  <1>3. CASE CheckPath(u)
    BY <1>0, <1>3 DEF CheckPath, Goto
  <1>4. CASE MarkPath(u)
    BY <1>0, <1>4 DEF MarkPath, Goto
  <1>5. CASE StatFile(u)
    BY <1>0, <1>5 DEF StatFile, Goto
  <1>6. CASE HashFile(u)
    BY <1>0, <1>6 DEF HashFile, Goto
  <1>7. CASE SkipFile(u)
    BY <1>0, <1>7 DEF SkipFile, Goto
  <1>8. CASE CreateFile(u)
    BY <1>0, <1>8 DEF CreateFile, Goto
  <1>9. CASE CreateFails(u)
    BY <1>0, <1>9 DEF CreateFails, Goto
  <1>10. CASE CopyBlock(u)
    BY <1>0, <1>10 DEF CopyBlock, Goto
  <1>11. CASE CopyEnd(u)
    BY <1>0, <1>11 DEF CopyEnd, Goto
  <1>12. CASE CopyFails(u)
    BY <1>0, <1>12 DEF CopyFails, Goto
  <1>13. CASE RemoveFile(u)
    BY <1>0, <1>13 DEF RemoveFile, Goto
  <1>14. CASE VerifyHash(u)
    BY <1>0, <1>14 DEF VerifyHash, Goto
  <1>15. CASE TakeEntry(u)
    BY <1>0, <1>15 DEF TakeEntry, Goto
  <1>16. CASE EntryMissing(u)
    BY <1>0, <1>16 DEF EntryMissing, Goto
  <1>17. CASE WakeByNotify(u)
    BY <1>0, <1>17 DEF WakeByNotify, Goto
  <1>18. CASE WakeByTimer(u)
    BY <1>0, <1>18 DEF WakeByTimer, Goto
  <1>19. CASE SendReceived(u)
    BY <1>0, <1>19 DEF SendReceived, Goto
  <1>20. CASE SendAcked(u)
    BY <1>0, <1>20 DEF SendAcked, Goto
  <1>21. CASE SendSuccess(u)
    BY <1>0, <1>21 DEF SendSuccess, Goto
  <1>22. CASE HashFails(u)
    BY <1>0, <1>22 DEF HashFails, Goto
  <1> QED BY <1>1, <1>2, <1>3, <1>4, <1>5, <1>6, <1>7, <1>8, <1>9, <1>10, <1>11, <1>12,
             <1>13, <1>14, <1>15, <1>16, <1>17, <1>18, <1>19, <1>20, <1>21, <1>22 DEF Data

LEMMA AcceptStep == TypeInv /\ AcceptInv /\ [Next]_vars => AcceptInv'
  <1> SUFFICES ASSUME TypeInv, AcceptInv, [Next]_vars PROVE AcceptInv'
    OBVIOUS
  <1> USE DEF net, table, flags, local, disk
  <1>1. ASSUME NEW c \in Conns, Connect(c) \/ Disconnect(c) PROVE AcceptInv'
    <2>1. \A d \in Conns : conn'[d] = "new" => conn[d] = "new"
      BY <1>1 DEF Connect, Disconnect, TypeInv, TypeOK
    <2> QED BY <1>1, <2>1, AcceptQuiet DEF Connect, Disconnect
  <1>2. ASSUME NEW c \in Conns, Accept(c) PROVE AcceptInv'
    BY <1>2, AcceptAccept
  <1>3. ASSUME NEW u \in Uploads, Sender(u) PROVE AcceptInv'
    BY <1>3, AcceptOpen, AcceptWrite DEF Sender
  <1>4. ASSUME NEW u \in Uploads, Control(u) PROVE AcceptInv'
    <2>1. \A v \in Uploads : cpc'[v] = "none" <=> cpc[v] = "none"
      BY <1>4 DEF Control, PutEntry, ControlLost, PutNotify, TypeInv, TypeOK
    <2>2. UNCHANGED <<conn, queue, sender, pc>>
      BY <1>4 DEF Control, PutEntry, ControlLost, PutNotify
    <2> QED BY <2>1, <2>2, AcceptQuiet
  <1>5. ASSUME NEW u \in Uploads, Data(u) PROVE AcceptInv'
    <2>1. \A v \in Uploads : pc'[v] = "none" <=> pc[v] = "none"
      BY <1>5, DataMoves DEF Storing, Replying
    <2>2. UNCHANGED <<conn, queue, sender, cpc>>
      BY <1>5, DataMoves
    <2> QED BY <2>1, <2>2, AcceptQuiet
  <1>6. ASSUME NEW u \in Uploads, DeadlinePasses(u) PROVE AcceptInv'
    BY <1>6, AcceptQuiet DEF DeadlinePasses
  <1>7. CASE Crash
    <2>1. \A v \in Uploads : pc'[v] = "none" <=> pc[v] = "none"
      BY <1>7 DEF Crash, Storing, Replying
    <2>2. \A v \in Uploads : cpc'[v] = "none" <=> cpc[v] = "none"
      BY <1>7 DEF Crash
    <2>3. \A d \in Conns : conn'[d] = "new" => conn[d] = "new"
      BY <1>7 DEF Crash
    <2> QED BY <1>7, <2>1, <2>2, <2>3, AcceptQuiet DEF Crash
  <1>8. CASE UNCHANGED vars
    BY <1>8, AcceptQuiet DEF vars
  <1> QED BY <1>1, <1>2, <1>3, <1>4, <1>5, <1>6, <1>7, <1>8 DEF Next

\* Nothing is put, taken or written, and no taker goes back to work.
LEMMA ReplyQuiet ==
  ASSUME TypeInv, ReplyInv, UNCHANGED <<pend, held, frames>>,
         \A u \in Uploads : cpc[u] \in WasPut => cpc'[u] \in WasPut,
         \A u \in Uploads : pc[u] \in Answering =>
           /\ pc'[u] = pc[u] \/ pc'[u] \in {"success", "done", "dead"}
           /\ hash'[u] = hash[u] /\ got'[u] = got[u],
         \A u \in Uploads : pc'[u] \in {"receipt", "acked"} => pc'[u] = pc[u]
  PROVE  ReplyInv'
  <1>1. PendInv'
    BY DEF ReplyInv, PendInv, TypeInv, TypeOK
  <1>2. HeldInv'
    BY DEF ReplyInv, HeldInv, Answering, TypeInv, TypeOK
  <1>3. \A u \in Uploads : held[u] # None => ReceiptFrames(u)' = ReceiptFrames(u)
    BY DEF ReplyInv, HeldInv, Answering, ReceiptFrames, ChecksumOK, Received
  <1>4. FramesInv'
    <2>1. ASSUME NEW u \in Uploads, pc'[u] = "acked"
          PROVE  frames[held[u]] = FirstFrame(u)'
      <3>1. pc[u] = "acked"
        BY <2>1
      <3>2. frames[held[u]] = FirstFrame(u) /\ held[u] # None
        BY <3>1 DEF ReplyInv, FramesInv, HeldInv
      <3> QED BY <3>2, <1>3 DEF FirstFrame
    <2>2. ASSUME NEW v \in Uploads, frames[v] # << >>
          PROVE  \E u \in Uploads : /\ held[u] = v
                                   /\ pc'[u] # "receipt"
                                   /\ frames[v] \in {FirstFrame(u)', ReceiptFrames(u)'}
      <3>1. PICK u \in Uploads : /\ held[u] = v /\ pc[u] # "receipt"
                                /\ frames[v] \in {FirstFrame(u), ReceiptFrames(u)}
        BY <2>2 DEF ReplyInv, FramesInv
      <3>2. held[u] # None
        BY <3>1, ReceiverAssumption DEF ReceiverAssumption
      <3> QED BY <3>1, <3>2, <1>3 DEF FirstFrame
    <2> QED BY <2>1, <2>2 DEF FramesInv
  <1> QED BY <1>1, <1>2, <1>4 DEF ReplyInv

\* The control goroutine of u posts its entry.
LEMMA ReplyPut ==
  ASSUME TypeInv, ReplyInv, NEW u \in Uploads, PutEntry(u) PROVE ReplyInv'
  <1> DEFINE c == ConnOf[u]
             r == CtrlRid[u]
  <1>1. c \in Conns /\ r \in Rids /\ u # None
    BY ReceiverAssumption DEF ReceiverAssumption
  <1>2. /\ pend' = [pend EXCEPT ![c][r] = u]
        /\ cpc[u] = "decode" /\ cpc' = [cpc EXCEPT ![u] = "notify"]
        /\ UNCHANGED <<pc, hash, got, held, frames>>
    BY DEF PutEntry, local
  <1>3. /\ \A d \in Conns, t \in Rids :
              pend'[d][t] = pend[d][t] \/ (pend'[d][t] = u /\ d = c /\ t = r)
        /\ \A v \in Uploads : cpc[v] \in WasPut => cpc'[v] \in WasPut
        /\ cpc'[u] \in WasPut /\ cpc[u] \notin WasPut
    BY <1>1, <1>2 DEF TypeInv, TypeOK, WasPut
  <1>4. pend \in [Conns -> [Rids -> Uploads \cup {None}]] /\ held \in [Uploads -> Uploads \cup {None}]
    BY DEF TypeInv, TypeOK
  <1>5. PendInv'
    BY <1>3, <1>4 DEF ReplyInv, PendInv
  <1>6. HeldInv'
    <2> SUFFICES ASSUME NEW w \in Uploads, held[w] # None
                 PROVE  /\ cpc'[held[w]] \in WasPut
                        /\ \A d \in Conns, t \in Rids : pend'[d][t] # held[w]
      BY <1>2 DEF ReplyInv, HeldInv
    <2>1. held[w] \in Uploads /\ cpc[held[w]] \in WasPut /\ held[w] # u
      BY <1>3, <1>4 DEF ReplyInv, HeldInv
    <2>2. \A d \in Conns, t \in Rids : pend[d][t] # held[w]
      BY DEF ReplyInv, HeldInv
    <2> QED BY <2>1, <2>2, <1>3
  <1>7. FramesInv'
    <2>1. \A v \in Uploads : ReceiptFrames(v)' = ReceiptFrames(v)
      BY <1>2 DEF ReceiptFrames, ChecksumOK, Received
    <2> QED BY <1>2, <2>1 DEF ReplyInv, FramesInv, FirstFrame
  <1> QED BY <1>5, <1>6, <1>7 DEF ReplyInv

\* The data goroutine of u takes an entry.
LEMMA ReplyTake ==
  ASSUME TypeInv, ReplyInv, NEW u \in Uploads, TakeEntry(u) PROVE ReplyInv'
  <1> DEFINE c == ConnOf[u]
             r == DataRid[u]
             e == pend[c][r]
  <1>1. /\ pend \in [Conns -> [Rids -> Uploads \cup {None}]]
        /\ held \in [Uploads -> Uploads \cup {None}]
        /\ pc \in [Uploads -> DataStates]
    BY DEF TypeInv, TypeOK
  <1>2. pc[u] = "wait" /\ pc' = [pc EXCEPT ![u] = "receipt"] /\ e # None
    BY DEF TakeEntry, Goto
  <1>3. c \in Conns /\ r \in Rids /\ e \in Uploads
    <2>1. r # None
      BY <1>2 DEF TypeInv, WaitsForAnId
    <2>2. c \in Conns /\ r \in Rids
      BY <2>1, ReceiverAssumption DEF ReceiverAssumption
    <2> QED BY <2>2, <1>1, <1>2
  <1>4. /\ held' = [held EXCEPT ![u] = e]
        /\ pend' = [pend EXCEPT ![c][r] = None]
        /\ UNCHANGED <<cpc, hash, got, frames>>
    BY DEF TakeEntry
  <1>5. ConnOf[e] = c /\ CtrlRid[e] = r /\ cpc[e] \in WasPut
    BY <1>2, <1>3 DEF ReplyInv, PendInv
  <1>6. held[u] = None /\ \A w \in Uploads : held[w] # e
    BY <1>2, <1>3 DEF ReplyInv, HeldInv
  <1>7. frames[e] = << >>
    BY <1>3, <1>6 DEF ReplyInv, FramesInv
  <1> HIDE DEF e, c, r
  <1>8. /\ held'[u] = e /\ \A w \in Uploads \ {u} : held'[w] = held[w]
        /\ pc'[u] = "receipt" /\ \A w \in Uploads \ {u} : pc'[w] = pc[w]
    BY <1>1, <1>2, <1>4
  <1>9. /\ \A d \in Conns, t \in Rids : pend'[d][t] \in {pend[d][t], None}
        /\ pend'[c][r] = None
    BY <1>1, <1>3, <1>4
  <1>10. \A d \in Conns, t \in Rids : pend'[d][t] # e
    <2> SUFFICES ASSUME NEW d \in Conns, NEW t \in Rids, pend'[d][t] = e PROVE FALSE
      OBVIOUS
    <2>1. pend[d][t] = e /\ e # None
      BY <1>2, <1>9
    <2>2. d = c /\ t = r
      BY <2>1, <1>5 DEF ReplyInv, PendInv
    <2> QED BY <2>1, <2>2, <1>9
  <1>11. PendInv'
    BY <1>4, <1>9 DEF ReplyInv, PendInv
  <1>12. HeldInv'
    <2>1. ASSUME NEW w \in Uploads \ {u}, held[w] # None
          PROVE  /\ pc'[w] \in {"receipt", "acked", "success", "done", "dead"}
                 /\ cpc'[held'[w]] \in WasPut
                 /\ ConnOf[held'[w]] = ConnOf[w]
                 /\ CtrlRid[held'[w]] = DataRid[w]
                 /\ \A d \in Conns, t \in Rids : pend'[d][t] # held'[w]
                 /\ \A x \in Uploads : held'[x] = held'[w] => x = w
      <3>1. \A d \in Conns, t \in Rids : pend'[d][t] # held[w]
        BY <2>1, <1>9 DEF ReplyInv, HeldInv
      <3>2. \A x \in Uploads : held'[x] = held[w] => x = w
        BY <2>1, <1>6, <1>8 DEF ReplyInv, HeldInv
      <3> QED BY <2>1, <3>1, <3>2, <1>4, <1>8 DEF ReplyInv, HeldInv
    <2>2. \A x \in Uploads : held'[x] = e => x = u
      BY <1>6, <1>8
    <2>3. \A w \in Uploads \ {u} : pc'[w] \in {"receipt", "acked"} => held'[w] # None
      BY <1>8 DEF ReplyInv, HeldInv
    <2>4. \A w \in Uploads \ {u} : held'[w] = held[w]
      BY <1>8
    <2> QED BY <1>2, <1>4, <1>5, <1>8, <1>10, <2>1, <2>2, <2>3, <2>4 DEF HeldInv, c, r
  <1>13. FramesInv'
    <2>1. \A w \in Uploads : ReceiptFrames(w)' = ReceiptFrames(w)
      BY <1>4 DEF ReceiptFrames, ChecksumOK, Received
    <2>2. ASSUME NEW w \in Uploads, pc'[w] = "acked"
          PROVE  frames[held'[w]] = FirstFrame(w)
      <3>1. w # u /\ pc[w] = "acked" /\ held'[w] = held[w]
        BY <2>2, <1>8
      <3> QED BY <3>1 DEF ReplyInv, FramesInv
    <2>3. ASSUME NEW v \in Uploads, frames[v] # << >>
          PROVE  \E w \in Uploads : /\ held'[w] = v
                                   /\ pc'[w] # "receipt"
                                   /\ frames[v] \in {FirstFrame(w), ReceiptFrames(w)}
      <3>1. PICK w \in Uploads : /\ held[w] = v /\ pc[w] # "receipt"
                                /\ frames[v] \in {FirstFrame(w), ReceiptFrames(w)}
        BY <2>3 DEF ReplyInv, FramesInv
      <3>2. w # u
        BY <3>1, <1>6, ReceiverAssumption DEF ReceiverAssumption
      <3> QED BY <3>1, <3>2, <1>8
    <2> QED BY <1>4, <2>1, <2>2, <2>3 DEF FramesInv, FirstFrame
  <1> QED BY <1>11, <1>12, <1>13 DEF ReplyInv

\* The data goroutine of u writes its first frame, or its second one.
LEMMA ReplySend ==
  ASSUME TypeInv, ReplyInv, NEW u \in Uploads, SendReceived(u) \/ SendAcked(u)
  PROVE  ReplyInv'
  <1> DEFINE v == held[u]
  <1>1. /\ held \in [Uploads -> Uploads \cup {None}] /\ pc \in [Uploads -> DataStates]
        /\ frames \in [Uploads -> Seq(Receipts)]
    BY DEF TypeInv, TypeOK
  <1>2. /\ UNCHANGED <<pend, cpc, held, hash, got>>
        /\ pc[u] \in {"receipt", "acked"} /\ pc'[u] \in {"acked", "success"}
        /\ pc'[u] = "acked" => pc[u] = "receipt"
        /\ \A w \in Uploads \ {u} : pc'[w] = pc[w]
    BY <1>1 DEF SendReceived, SendAcked, Goto, table, local
  <1>3. v \in Uploads /\ \A w \in Uploads : held[w] = v => w = u
    BY <1>1, <1>2 DEF ReplyInv, HeldInv
  <1>4. /\ pc[u] = "receipt" => frames[v] = << >>
        /\ pc[u] = "acked" => frames[v] = FirstFrame(u)
    BY <1>2, <1>3 DEF ReplyInv, FramesInv
  <1>5. /\ Append(<< >>, ReceiptFrames(u)[1]) = FirstFrame(u)
        /\ Append(FirstFrame(u), ReceiptFrames(u)[2]) = ReceiptFrames(u)
    BY TwoFrames, PairOfFrames DEF FirstFrame
  <1>6. /\ \A x \in Uploads \ {v} : frames'[x] = frames[x]
        /\ frames'[v] # << >> => frames'[v] \in {FirstFrame(u), ReceiptFrames(u)}
        /\ pc'[u] = "acked" => frames'[v] = FirstFrame(u)
    <2>1. CASE SendReceived(u)
      <3>1. pc[u] = "receipt"
        BY <2>1 DEF SendReceived, Goto
      <3> QED BY <2>1, <3>1, <1>1, <1>3, <1>4, <1>5 DEF SendReceived, Goto
    <2>2. CASE SendAcked(u)
      <3>1. pc[u] = "acked" /\ pc'[u] = "success"
        BY <2>2, <1>1 DEF SendAcked, Goto
      <3> QED BY <2>2, <3>1, <1>1, <1>3, <1>4, <1>5 DEF SendAcked
    <2> QED BY <2>1, <2>2
  <1>7. PendInv' /\ HeldInv'
    BY <1>1, <1>2 DEF ReplyInv, PendInv, HeldInv
  <1>8. \A w \in Uploads : ReceiptFrames(w)' = ReceiptFrames(w)
    BY <1>2 DEF ReceiptFrames, ChecksumOK, Received
  <1> HIDE DEF v
  <1>9. FramesInv'
    <2>1. ASSUME NEW w \in Uploads, pc'[w] = "acked" PROVE frames'[held[w]] = FirstFrame(w)
      <3>1. CASE w = u
        BY <2>1, <3>1, <1>6 DEF v
      <3>2. CASE w # u
        <4>1. pc[w] = "acked"
          BY <2>1, <3>2, <1>2
        <4>2. held[w] \in Uploads /\ held[w] # v
          BY <4>1, <3>2, <1>1, <1>3 DEF ReplyInv, HeldInv
        <4> QED BY <4>1, <4>2, <1>6 DEF ReplyInv, FramesInv
      <3> QED BY <3>1, <3>2
    <2>2. ASSUME NEW x \in Uploads, frames'[x] # << >>
          PROVE  \E w \in Uploads : /\ held[w] = x
                                   /\ pc'[w] # "receipt"
                                   /\ frames'[x] \in {FirstFrame(w), ReceiptFrames(w)}
      <3>1. CASE x = v
        BY <2>2, <3>1, <1>2, <1>6 DEF v
      <3>2. CASE x # v
        <4>1. PICK w \in Uploads : /\ held[w] = x /\ pc[w] # "receipt"
                                  /\ frames[x] \in {FirstFrame(w), ReceiptFrames(w)}
          BY <2>2, <3>2, <1>6 DEF ReplyInv, FramesInv
        <4>2. w # u
          BY <4>1, <3>2 DEF v
        <4> QED BY <4>1, <4>2, <3>2, <1>2, <1>6
      <3> QED BY <3>1, <3>2
    <2> QED BY <1>2, <1>8, <2>1, <2>2 DEF FramesInv, FirstFrame
  <1> QED BY <1>7, <1>9 DEF ReplyInv

LEMMA ReplyInit == Init => ReplyInv
  BY DEF Init, ReplyInv, PendInv, HeldInv, FramesInv

LEMMA AcceptInit == Init => AcceptInv
  <1> SUFFICES ASSUME Init PROVE AcceptInv
    OBVIOUS
  <1>1. \A c \in Conns : queue[c] = << >>
    BY DEF Init
  <1>2. Range(<< >>) = {} /\ IsInjective(<< >>)
    BY DEF Range, IsInjective
  <1>3. QueueInv
    BY <1>1, <1>2 DEF QueueInv
  <1>4. SenderInv
    BY DEF Init, SenderInv
  <1> QED BY <1>3, <1>4 DEF AcceptInv

LEMMA ReplyStep == TypeInv /\ AcceptInv /\ ReplyInv /\ [Next]_vars => ReplyInv'
  <1> SUFFICES ASSUME TypeInv, AcceptInv, ReplyInv, [Next]_vars PROVE ReplyInv'
    OBVIOUS
  <1> USE DEF net, table, flags, local, disk
  <1>1. ASSUME NEW c \in Conns, Connect(c) \/ Disconnect(c) PROVE ReplyInv'
    BY <1>1, ReplyQuiet DEF Connect, Disconnect
  <1>2. ASSUME NEW c \in Conns, Accept(c) PROVE ReplyInv'
    <2>1. /\ \A v \in Uploads : cpc[v] \in WasPut => cpc'[v] \in WasPut
          /\ \A v \in Uploads : pc[v] \in Answering => pc'[v] = pc[v]
          /\ \A v \in Uploads : pc'[v] \in {"receipt", "acked"} => pc'[v] = pc[v]
      <3>1. PICK u \in Uploads :
              \/ cpc[u] = "none" /\ cpc' = [cpc EXCEPT ![u] = "decode"] /\ pc' = pc
              \/ pc[u] = "none" /\ pc' = [pc EXCEPT ![u] = "header"] /\ cpc' = cpc
        BY <1>2, AcceptAccept
      <3>2. cpc \in [Uploads -> CtrlStates] /\ pc \in [Uploads -> DataStates]
        BY DEF TypeInv, TypeOK
      <3> QED BY <3>1, <3>2 DEF WasPut, Answering
    <2> QED BY <1>2, <2>1, ReplyQuiet DEF Accept
  <1>3. ASSUME NEW u \in Uploads, Sender(u) PROVE ReplyInv'
    BY <1>3, ReplyQuiet
       DEF Sender, OpenControl, WriteTransferStart, OpenData, GiveUp, WriteHeader, Stall
  <1>4. ASSUME NEW u \in Uploads, Control(u) PROVE ReplyInv'
    <2>1. CASE PutEntry(u)
      BY <2>1, ReplyPut
    <2>2. CASE ControlLost(u) \/ PutNotify(u)
      <3>1. \A v \in Uploads : cpc[v] \in WasPut => cpc'[v] \in WasPut
        BY <2>2 DEF ControlLost, PutNotify, WasPut, TypeInv, TypeOK
      <3> QED BY <2>2, <3>1, ReplyQuiet DEF ControlLost, PutNotify
    <2> QED BY <1>4, <2>1, <2>2 DEF Control
  <1>5. ASSUME NEW u \in Uploads, Data(u) PROVE ReplyInv'
    <2>1. CASE TakeEntry(u)
      BY <2>1, ReplyTake
    <2>2. CASE SendReceived(u) \/ SendAcked(u)
      BY <2>2, ReplySend
    <2>3. CASE ~TakeEntry(u) /\ ~SendReceived(u) /\ ~SendAcked(u)
      <3>1. UNCHANGED <<pend, held, frames, cpc>>
        BY <1>5, <2>3, DataMoves
      <3>2. \A v \in Uploads : pc[v] \in Answering =>
              /\ pc'[v] = pc[v] \/ pc'[v] \in {"success", "done", "dead"}
              /\ hash'[v] = hash[v] /\ got'[v] = got[v]
        BY <1>5, <2>3, DataMoves
      <3>3. \A v \in Uploads : pc'[v] \in {"receipt", "acked"} => pc'[v] = pc[v]
        BY <1>5, <2>3, DataMoves
      <3> QED BY <3>1, <3>2, <3>3, ReplyQuiet
    <2> QED BY <2>1, <2>2, <2>3
  <1>6. ASSUME NEW u \in Uploads, DeadlinePasses(u) PROVE ReplyInv'
    BY <1>6, ReplyQuiet DEF DeadlinePasses
  <1>7. CASE Crash
    <2>1. \A v \in Uploads : cpc[v] \in WasPut => cpc'[v] \in WasPut
      BY <1>7 DEF Crash, WasPut
    <2>2. \A v \in Uploads : pc'[v] = pc[v] \/ pc'[v] = "dead"
      BY <1>7 DEF Crash
    <2> QED BY <1>7, <2>1, <2>2, ReplyQuiet DEF Crash
  <1>8. CASE UNCHANGED vars
    BY <1>8, ReplyQuiet DEF vars
  <1> QED BY <1>1, <1>2, <1>3, <1>4, <1>5, <1>6, <1>7, <1>8 DEF Next

LEMMA ReplyAlways == Spec => [](TypeInv /\ AcceptInv /\ ReplyInv)
  BY TypeInit, AcceptInit, ReplyInit, TypeStep, AcceptStep, ReplyStep, PTL DEF Spec

(***************************************************************************)
(* An entry is answered by one data goroutine at most, once, and is never  *)
(* both in the table and taken, whatever the receipt ids: also when the    *)
(* sender gives two uploads of a connection the same one.                  *)
(***************************************************************************)
THEOREM OneReplierAlways == Spec => []OneReplier
  <1>1. TypeInv /\ ReplyInv => OneReplier
    <2> SUFFICES ASSUME TypeInv, ReplyInv, NEW v \in Uploads
                 PROVE  /\ \A u, w \in Uploads : held[u] = v /\ held[w] = v => u = w
                        /\ \A u \in Uploads : held[u] = v =>
                             /\ \A c \in Conns, r \in Rids : pend[c][r] # v
                             /\ \E n \in 0..2 : frames[v] = SubSeq(ReceiptFrames(u), 1, n)
                        /\ frames[v] # << >> => \E u \in Uploads : held[u] = v
      BY DEF OneReplier
    <2>1. v # None
      BY ReceiverAssumption DEF ReceiverAssumption
    <2>2. \A u, w \in Uploads : held[u] = v /\ held[w] = v => u = w
      BY <2>1 DEF ReplyInv, HeldInv
    <2>3. \A u \in Uploads : held[u] = v => \A c \in Conns, r \in Rids : pend[c][r] # v
      BY <2>1 DEF ReplyInv, HeldInv
    <2>4. frames[v] # << >> =>
            \E u \in Uploads : held[u] = v /\ frames[v] \in {FirstFrame(u), ReceiptFrames(u)}
      BY DEF ReplyInv, FramesInv
    <2>5. \A u \in Uploads : /\ SubSeq(ReceiptFrames(u), 1, 0) = << >>
                             /\ SubSeq(ReceiptFrames(u), 1, 1) = FirstFrame(u)
                             /\ SubSeq(ReceiptFrames(u), 1, 2) = ReceiptFrames(u)
      BY TwoFrames, PairOfFrames DEF FirstFrame
    <2>6. 0 \in 0..2 /\ 1 \in 0..2 /\ 2 \in 0..2
      OBVIOUS
    <2> HIDE DEF FirstFrame
    <2>7. \A u \in Uploads : held[u] = v =>
            \E n \in 0..2 : frames[v] = SubSeq(ReceiptFrames(u), 1, n)
      BY <2>2, <2>4, <2>5, <2>6
    <2> QED BY <2>2, <2>3, <2>4, <2>7
  <1> QED BY <1>1, ReplyAlways, PTL

(***************************************************************************)
(* When no two uploads of a connection share a receipt id, every receipt   *)
(* goes to the control stream of the upload it is about.                   *)
(***************************************************************************)
THEOREM ReceiptsGoHomeAlways == Spec => []ReceiptsGoHome
  <1>1. TypeInv /\ ReplyInv => ReceiptsGoHome
    <2> SUFFICES ASSUME TypeInv, ReplyInv, DistinctRids, NEW u \in Uploads, held[u] # None
                 PROVE  held[u] = u
      BY DEF ReceiptsGoHome
    <2>1. held[u] \in Uploads
      BY DEF TypeInv, TypeOK
    <2>2. ConnOf[held[u]] = ConnOf[u] /\ CtrlRid[held[u]] = DataRid[u]
      BY DEF ReplyInv, HeldInv
    <2> QED BY <2>1, <2>2 DEF DistinctRids
  <1> QED BY <1>1, ReplyAlways, PTL

-----------------------------------------------------------------------------
\* A data goroutine that had a receipt id and is past its wait took an entry
\* or ran out of time.
WaitInv ==
  \A u \in Uploads :
    pc[u] \in {"success", "done"} /\ DataRid[u] # None => held[u] # None \/ expired[u]

LEMMA WaitQuiet ==
  ASSUME TypeInv, WaitInv, UNCHANGED held,
         \A u \in Uploads : /\ pc'[u] = pc[u] \/ pc'[u] \notin {"success", "done"}
                            /\ expired[u] => expired'[u]
  PROVE  WaitInv'
  BY DEF WaitInv

LEMMA WaitData ==
  ASSUME TypeInv, ReplyInv, WaitInv, NEW u \in Uploads, Data(u)
  PROVE  WaitInv'
  <1> USE DEF net, table, flags, local, disk
  <1>0. /\ pc \in [Uploads -> DataStates] /\ held \in [Uploads -> Uploads \cup {None}]
        /\ expired \in [Uploads -> BOOLEAN]
    BY DEF TypeInv, TypeOK
  <1>1. CASE TakeEntry(u)
    <2>1. \A v \in Uploads \ {u} : pc'[v] = pc[v] /\ held'[v] = held[v]
      BY <1>0, <1>1 DEF TakeEntry, Goto
    <2>2. pc'[u] = "receipt" /\ UNCHANGED expired
      BY <1>0, <1>1 DEF TakeEntry, Goto
    <2> QED BY <2>1, <2>2 DEF WaitInv
  <1>2. CASE SendReceived(u) \/ SendAcked(u)
    <2>1. held[u] # None
      BY <1>2 DEF SendReceived, SendAcked, Goto, ReplyInv, HeldInv
    <2>2. \A v \in Uploads \ {u} : pc'[v] = pc[v]
      BY <1>0, <1>2 DEF SendReceived, SendAcked, Goto
    <2>3. UNCHANGED <<held, expired>>
      BY <1>2 DEF SendReceived, SendAcked
    <2> QED BY <2>1, <2>2, <2>3 DEF WaitInv
  <1>3. CASE EntryMissing(u)
    <2>1. \A v \in Uploads \ {u} : pc'[v] = pc[v]
      BY <1>0, <1>3 DEF EntryMissing, Goto
    <2>2. pc'[u] = "success" => expired[u]
      BY <1>0, <1>3 DEF EntryMissing, Goto
    <2>3. pc'[u] # "done" /\ UNCHANGED <<held, expired>>
      BY <1>0, <1>3 DEF EntryMissing, Goto
    <2> QED BY <2>1, <2>2, <2>3 DEF WaitInv
  <1>4. CASE VerifyHash(u)
    <2>1. \A v \in Uploads \ {u} : pc'[v] = pc[v]
      BY <1>0, <1>4 DEF VerifyHash, Goto
    <2>2. pc'[u] # "done" /\ (pc'[u] = "success" => DataRid[u] = None)
      BY <1>0, <1>4 DEF VerifyHash, Goto
    <2>3. UNCHANGED <<held, expired>>
      BY <1>4 DEF VerifyHash
    <2> QED BY <2>1, <2>2, <2>3 DEF WaitInv
  <1>5. CASE SendSuccess(u)
    <2>1. \A v \in Uploads \ {u} : pc'[v] = pc[v]
      BY <1>0, <1>5 DEF SendSuccess, Goto
    <2>2. pc[u] = "success" /\ UNCHANGED <<held, expired>>
      BY <1>5 DEF SendSuccess, Goto
    <2> QED BY <2>1, <2>2 DEF WaitInv
  <1>6. CASE /\ ~TakeEntry(u) /\ ~SendReceived(u) /\ ~SendAcked(u)
             /\ ~EntryMissing(u) /\ ~VerifyHash(u) /\ ~SendSuccess(u)
    <2>1. UNCHANGED held /\ \A v \in Uploads \ {u} : pc'[v] = pc[v]
      BY <1>6, DataMoves
    <2>2. UNCHANGED expired
      BY <1>6 DEF Data, ReadHeader, CheckRejected, CheckPath, MarkPath, StatFile, HashFile,
                  HashFails, SkipFile, CreateFile, CreateFails, CopyBlock, CopyEnd, CopyFails,
                  RemoveFile, WakeByNotify, WakeByTimer
    <2>3. pc'[u] = pc[u] \/ pc'[u] \notin {"success", "done"}
      BY <1>0, <1>6 DEF Data, ReadHeader, CheckRejected, CheckPath, MarkPath, StatFile,
                  HashFile, HashFails, SkipFile, CreateFile, CreateFails, CopyBlock, CopyEnd, CopyFails,
                  RemoveFile, WakeByNotify, WakeByTimer, Goto
    <2> QED BY <2>1, <2>2, <2>3, WaitQuiet
  <1> QED BY <1>1, <1>2, <1>3, <1>4, <1>5, <1>6

LEMMA WaitStep == TypeInv /\ ReplyInv /\ WaitInv /\ [Next]_vars => WaitInv'
  <1> SUFFICES ASSUME TypeInv, ReplyInv, WaitInv, [Next]_vars PROVE WaitInv'
    OBVIOUS
  <1> USE DEF net, table, flags, local, disk
  <1>0. pc \in [Uploads -> DataStates] /\ expired \in [Uploads -> BOOLEAN]
    BY DEF TypeInv, TypeOK
  <1>1. CASE \E c \in Conns : Connect(c) \/ Disconnect(c)
    BY <1>1, WaitQuiet DEF Connect, Disconnect
  <1>2. CASE \E c \in Conns : Accept(c)
    <2> PICK c \in Conns : Accept(c)
      BY <1>2
    <2>1. UNCHANGED <<held, expired>>
      BY DEF Accept
    <2>2. \A u \in Uploads : pc'[u] = pc[u] \/ pc'[u] = "header"
      BY <1>0 DEF Accept
    <2> QED BY <2>1, <2>2, WaitQuiet
  <1>3. CASE \E u \in Uploads : Sender(u) \/ Control(u)
    BY <1>3, WaitQuiet DEF Sender, Control, OpenControl, WriteTransferStart, OpenData,
       GiveUp, WriteHeader, Stall, PutEntry, ControlLost, PutNotify
  <1>4. CASE \E u \in Uploads : Data(u)
    BY <1>4, WaitData
  <1>5. CASE \E u \in Uploads : DeadlinePasses(u)
    BY <1>0, <1>5, WaitQuiet DEF DeadlinePasses
  <1>6. CASE Crash
    BY <1>0, <1>6, WaitQuiet DEF Crash
  <1>7. CASE UNCHANGED vars
    BY <1>7, WaitQuiet DEF vars
  <1> QED BY <1>1, <1>2, <1>3, <1>4, <1>5, <1>6, <1>7 DEF Next

(***************************************************************************)
(* With distinct receipt ids, what an upload that ran to its end leaves in *)
(* the table is explained by the deadline of its own data goroutine.       *)
(***************************************************************************)
THEOREM LeftoverIsExplainedAlways == Spec => []LeftoverIsExplained
  <1>1. Init => WaitInv
    BY DEF Init, WaitInv
  <1>2. TypeInv /\ ReplyInv /\ WaitInv => LeftoverIsExplained
    <2> SUFFICES ASSUME TypeInv, ReplyInv, WaitInv, DistinctRids, NEW u \in Uploads,
                        pend[ConnOf[u]][CtrlRid[u]] = u, pc[u] = "done", DataRid[u] = CtrlRid[u]
                 PROVE  expired[u]
      BY DEF LeftoverIsExplained
    <2>1. ConnOf[u] \in Conns /\ CtrlRid[u] \in Rids /\ None \notin Rids
      BY ReceiverAssumption DEF ReceiverAssumption
    <2>2. held[u] # u
      <3> SUFFICES ASSUME held[u] = u PROVE FALSE
        OBVIOUS
      <3>1. held[u] # None
        BY ReceiverAssumption DEF ReceiverAssumption
      <3> QED BY <2>1, <3>1 DEF ReplyInv, HeldInv
    <2>3. held[u] # None => held[u] = u
      <3> SUFFICES ASSUME held[u] # None PROVE held[u] = u
        OBVIOUS
      <3>1. held[u] \in Uploads
        BY DEF TypeInv, TypeOK
      <3>2. ConnOf[held[u]] = ConnOf[u] /\ CtrlRid[held[u]] = DataRid[u]
        BY DEF ReplyInv, HeldInv
      <3> QED BY <3>1, <3>2 DEF DistinctRids
    <2> QED BY <2>1, <2>2, <2>3 DEF WaitInv
  <1> QED BY <1>1, <1>2, WaitStep, ReplyAlways, PTL DEF Spec

-----------------------------------------------------------------------------
(***************************************************************************)
(* The flags of a connection.  Both only ever go up, and a goroutine gets  *)
(* past the path check only when its connection has been vouched for.      *)
(***************************************************************************)
VouchInv ==
  /\ \A c \in Conns : pathChecked[c] =>
       \E v \in Uploads : /\ ConnOf[v] = c /\ Valid[v]
                          /\ pc[v] \notin {"none", "header", "check", "path", "mark"}
  /\ \A u \in Uploads : pc[u] \in PastPathCheck => pathChecked[ConnOf[u]]

\* What a step does to the flags and to the goroutines not past the check.
LEMMA FlagMoves ==
  ASSUME TypeInv, AcceptInv, [Next]_vars, NEW u \in Uploads
  PROVE  /\ rejected[ConnOf[u]] => rejected'[ConnOf[u]]
         /\ pathChecked[ConnOf[u]] => pathChecked'[ConnOf[u]]
         /\ pc[u] \notin {"none", "header", "check", "path", "mark"} =>
              pc'[u] \notin {"none", "header", "check", "path", "mark"}
         /\ pc[u] \in BeforeCheck =>
              \/ pc'[u] \in BeforeCheck \cup {"closed", "dead"}
              \/ pc'[u] = "path" /\ ~rejected[ConnOf[u]]
         /\ pc[u] \in {"closed", "dead"} => pc'[u] = pc[u]
         /\ pc'[u] \in PastPathCheck =>
              \/ pc[u] \in PastPathCheck
              \/ pathChecked[ConnOf[u]]
              \/ Valid[u] /\ pathChecked'[ConnOf[u]]
         /\ \A c \in Conns : pathChecked'[c] =>
              \/ pathChecked[c]
              \/ \E v \in Uploads : ConnOf[v] = c /\ Valid[v] /\ pc'[v] = "stat"
  <1> USE DEF BeforeCheck, PastPathCheck, Storing, Replying, net, table, flags, local, disk
  <1>0. /\ pc \in [Uploads -> DataStates] /\ ConnOf \in [Uploads -> Conns]
        /\ rejected \in [Conns -> BOOLEAN] /\ pathChecked \in [Conns -> BOOLEAN]
    BY ReceiverAssumption DEF ReceiverAssumption, TypeInv, TypeOK
  <1>1. CASE UNCHANGED <<pc, flags>>
    BY <1>1
  <1>2. CASE \E c \in Conns : Accept(c)
    <2>1. PICK c \in Conns : Accept(c)
      BY <1>2
    <2>2. UNCHANGED flags
      BY <2>1 DEF Accept
    <2>3. PICK v \in Uploads : pc' = pc \/ (pc[v] = "none" /\ pc' = [pc EXCEPT ![v] = "header"])
      BY <2>1, AcceptAccept
    <2> QED BY <1>0, <2>2, <2>3
  <1>3. CASE Crash
    BY <1>0, <1>3 DEF Crash
  <1>4. CASE \E v \in Uploads : Data(v)
    <2> PICK v \in Uploads : Data(v)
      BY <1>4
    <2>1. CASE ReadHeader(v)
      BY <1>0, <2>1 DEF ReadHeader, Goto
    <2>2. CASE CheckRejected(v)
      BY <1>0, <2>2 DEF CheckRejected, Goto
    <2>3. CASE CheckPath(v)
      BY <1>0, <2>3 DEF CheckPath, Goto
    <2>4. CASE MarkPath(v)
      BY <1>0, <2>4 DEF MarkPath, Goto
    <2>5. CASE StatFile(v)
      BY <1>0, <2>5 DEF StatFile, Goto
    <2>6. CASE HashFile(v)
      BY <1>0, <2>6 DEF HashFile, Goto
    <2>7. CASE SkipFile(v)
      BY <1>0, <2>7 DEF SkipFile, Goto
    <2>8. CASE CreateFile(v)
      BY <1>0, <2>8 DEF CreateFile, Goto
    <2>9. CASE CreateFails(v)
      BY <1>0, <2>9 DEF CreateFails, Goto
    <2>10. CASE CopyBlock(v)
      BY <1>0, <2>10 DEF CopyBlock, Goto
    <2>11. CASE CopyEnd(v)
      BY <1>0, <2>11 DEF CopyEnd, Goto
    <2>12. CASE CopyFails(v)
      BY <1>0, <2>12 DEF CopyFails, Goto
    <2>13. CASE RemoveFile(v)
      BY <1>0, <2>13 DEF RemoveFile, Goto
    <2>14. CASE VerifyHash(v)
      BY <1>0, <2>14 DEF VerifyHash, Goto
    <2>15. CASE TakeEntry(v)
      BY <1>0, <2>15 DEF TakeEntry, Goto
    <2>16. CASE EntryMissing(v)
      BY <1>0, <2>16 DEF EntryMissing, Goto
    <2>17. CASE WakeByNotify(v)
      BY <1>0, <2>17 DEF WakeByNotify, Goto
    <2>18. CASE WakeByTimer(v)
      BY <1>0, <2>18 DEF WakeByTimer, Goto
    <2>19. CASE SendReceived(v)
      BY <1>0, <2>19 DEF SendReceived, Goto
    <2>20. CASE SendAcked(v)
      BY <1>0, <2>20 DEF SendAcked, Goto
    <2>21. CASE SendSuccess(v)
      BY <1>0, <2>21 DEF SendSuccess, Goto
    <2>22. CASE HashFails(v)
      BY <1>0, <2>22 DEF HashFails, Goto
    <2> QED BY <2>1, <2>2, <2>3, <2>4, <2>5, <2>6, <2>7, <2>8, <2>9, <2>10, <2>11, <2>12,
               <2>13, <2>14, <2>15, <2>16, <2>17, <2>18, <2>19, <2>20, <2>21, <2>22 DEF Data
  <1>5. CASE ~Crash /\ ~(\E c \in Conns : Accept(c)) /\ ~(\E v \in Uploads : Data(v))
    BY <1>1, <1>5 DEF Next, Connect, Disconnect, Sender, OpenControl, WriteTransferStart,
                      OpenData, GiveUp, WriteHeader, Stall, Control, PutEntry, ControlLost, PutNotify,
                      DeadlinePasses, vars
  <1> QED BY <1>2, <1>3, <1>4, <1>5

LEMMA VouchStep == TypeInv /\ AcceptInv /\ VouchInv /\ [Next]_vars => VouchInv'
  <1> SUFFICES ASSUME TypeInv, AcceptInv, VouchInv, [Next]_vars PROVE VouchInv'
    OBVIOUS
  <1>0. ConnOf \in [Uploads -> Conns]
    BY ReceiverAssumption DEF ReceiverAssumption
  <1>1. ASSUME NEW c \in Conns, pathChecked'[c]
        PROVE  \E v \in Uploads : /\ ConnOf[v] = c /\ Valid[v]
                                 /\ pc'[v] \notin {"none", "header", "check", "path", "mark"}
    <2>1. CASE pathChecked[c]
      <3>1. PICK v \in Uploads : /\ ConnOf[v] = c /\ Valid[v]
                                /\ pc[v] \notin {"none", "header", "check", "path", "mark"}
        BY <2>1 DEF VouchInv
      <3> QED BY <3>1, FlagMoves
    <2>2. CASE ~pathChecked[c]
      <3>1. \E u \in Uploads : TRUE
        BY <1>1, <2>2 DEF Next, Connect, Accept, Disconnect, Crash, vars, flags
      <3>2. PICK v \in Uploads : ConnOf[v] = c /\ Valid[v] /\ pc'[v] = "stat"
        BY <3>1, <1>1, <2>2, FlagMoves
      <3> QED BY <3>2
    <2> QED BY <2>1, <2>2
  <1>2. ASSUME NEW u \in Uploads, pc'[u] \in PastPathCheck PROVE pathChecked'[ConnOf[u]]
    <2>1. pc[u] \in PastPathCheck => pathChecked[ConnOf[u]]
      BY DEF VouchInv
    <2> QED BY <1>2, <2>1, FlagMoves
  <1> QED BY <1>1, <1>2 DEF VouchInv

(***************************************************************************)
(* A name that fails validateSubPath is stored only on a connection where  *)
(* another upload's name passed it before.                                 *)
(***************************************************************************)
THEOREM FirstNameVouchesAlways == Spec => []FirstNameVouches
  <1>1. Init => VouchInv
    BY ReceiverAssumption
       DEF ReceiverAssumption, Init, VouchInv, PastPathCheck, Storing, Replying
  <1>2. VouchInv => FirstNameVouches
    BY ReceiverAssumption DEF ReceiverAssumption, VouchInv, FirstNameVouches
  <1> QED BY <1>1, <1>2, TypeInit, AcceptInit, TypeStep, AcceptStep, VouchStep, PTL DEF Spec

(***************************************************************************)
(* Once a connection is marked rejected, an upload that has not passed the *)
(* rejected check by then never gets past it.                              *)
(***************************************************************************)
THEOREM RejectionIsFinalAlways == Spec => RejectionIsFinal
  <1> SUFFICES ASSUME NEW u \in Uploads
               PROVE  Spec => [](rejected[ConnOf[u]] /\ pc[u] \in BeforeCheck =>
                                   [](pc[u] \in BeforeCheck \cup {"closed", "dead"}))
    BY DEF RejectionIsFinal
  <1> DEFINE R == rejected[ConnOf[u]] /\ pc[u] \in BeforeCheck \cup {"closed", "dead"}
  <1>1. TypeInv /\ AcceptInv /\ R /\ [Next]_vars => R'
    BY FlagMoves
  <1>2. rejected[ConnOf[u]] /\ pc[u] \in BeforeCheck => R
    OBVIOUS
  <1>3. R => pc[u] \in BeforeCheck \cup {"closed", "dead"}
    OBVIOUS
  <1> HIDE DEF R
  <1>4. [](TypeInv /\ AcceptInv) /\ [][Next]_vars => [](R => []R)
    BY <1>1, PTL
  <1> QED BY <1>2, <1>3, <1>4, ReplyAlways, PTL DEF Spec
=============================================================================
