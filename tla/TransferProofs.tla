--------------------------- MODULE TransferProofs ---------------------------
(***************************************************************************)
(* What a run of "boltgo send" and its receiver guarantee together, for    *)
(* every list of files, every window and every number of streams.          *)
(*                                                                         *)
(* Every behaviour of Transfer is one of Receiver, and, seen through the   *)
(* variables of the sender, one of Sender.  What is proved of each of them *)
(* alone therefore holds of their composition.                             *)
(***************************************************************************)
EXTENDS Transfer, ReceiverStoreProofs, FiniteSetTheorems

\* Sender again, with what is proved about it.
SP == INSTANCE SenderProofs WITH
        LengthOf <- [f \in Uploads |-> Len(Body[f])],
        Abandons <- TRUE

LEMMA Instances ==
  /\ Connection \in Conns /\ \A u \in Uploads : ConnOf[u] = Connection
  /\ Uploads = S!Files
  BY TransferAssumption, ReceiverAssumption DEF TransferAssumption, ReceiverAssumption

LEMMA SenderInstance == SP!SenderAssumption
  BY TransferAssumption
     DEF TransferAssumption, S!SenderAssumption, S!Files, SP!SenderAssumption, SP!Files

-----------------------------------------------------------------------------
(***************************************************************************)
(* The receiver's side of a step.                                          *)
(***************************************************************************)
LEMMA ReceiverSide == ASSUME [TNext]_tvars PROVE [Next]_vars
  <1> USE Instances
  <1>1. CASE MainStep
    BY <1>1 DEF MainStep, TDial, TClose, Next, rvars
  <1>2. CASE Network \/ TAccept \/ TLost
    BY <1>2 DEF Network, TAccept, TLost, Next, rvars
  <1>3. ASSUME NEW u \in Uploads, SenderStep(u) \/ TDrainEnds(u)
        PROVE  [Next]_vars
    BY <1>3 DEF SenderStep, TOpenControl, TWriteTransferStart, TOpenData, TOpenDataFails,
                TWriteHeader, Reaches, TDrainEnds, Next, Sender, rvars
  <1>4. ASSUME NEW u \in Uploads, TControl(u) \/ TDeadlinePasses(u)
        PROVE  [Next]_vars
    BY <1>4 DEF TControl, TDeadlinePasses, Next
  <1>5. ASSUME NEW u \in Uploads, ReceiverStep(u) PROVE Data(u) \/ UNCHANGED vars
    BY <1>5 DEF ReceiverStep, TCopyBlock, TCopyEnd, TDiscard, TCloseStream, TRefuse,
                ReceiverAlone, Data, rvars
  <1>6. CASE UNCHANGED tvars
    BY <1>6 DEF tvars, rvars
  <1>7. ASSUME NEW u \in Uploads, ReceiverStep(u) PROVE [Next]_vars
    BY <1>5, <1>7 DEF Next
  <1> QED BY <1>1, <1>2, <1>3, <1>4, <1>6, <1>7 DEF TNext

(***************************************************************************)
(* Whatever the sender does, its receiver is one that Receiver describes:  *)
(* the proofs about Receiver apply.                                        *)
(***************************************************************************)
THEOREM TransferIsReceiver == TSpec => Spec
  <1>1. TInit => Init
    BY DEF TInit
  <1> QED BY <1>1, ReceiverSide, PTL DEF TSpec, Spec

-----------------------------------------------------------------------------
(***************************************************************************)
(* The sender's side of a step.                                            *)
(***************************************************************************)
LEMMA SenderSide == ASSUME [TNext]_tvars PROVE S!Next \/ UNCHANGED svars
  <1> USE Instances
  <1>1. CASE MainStep
    BY <1>1 DEF MainStep, TDial, TClose, Alone, S!Next, S!Main
  <1>2. CASE Network \/ TAccept \/ TLost
    BY <1>2 DEF Network, TAccept, TLost, S!Next
  <1>3. ASSUME NEW u \in Uploads, SenderStep(u) \/ TDrainEnds(u) PROVE S!Next
    <2>1. S!Worker(u) \/ S!DrainEnds(u)
      BY <1>3 DEF SenderStep, TOpenControl, TWriteTransferStart, TOpenData, TOpenDataFails,
                  TWriteHeader, AloneFor, TDrainEnds, S!Worker, S!SendFileAeroSync
    <2> QED BY <2>1 DEF S!Next
  <1>4. ASSUME NEW u \in Uploads, TControl(u) \/ TDeadlinePasses(u)
        PROVE  UNCHANGED svars
    BY <1>4 DEF TControl, TDeadlinePasses
  <1>5. ASSUME NEW u \in Uploads, ReceiverStep(u) PROVE S!Next \/ UNCHANGED svars
    <2>1. S!Server(u) \/ UNCHANGED svars
      BY <1>5 DEF ReceiverStep, TCopyBlock, TCopyEnd, TDiscard, TCloseStream, TRefuse, S!Server
    <2> QED BY <2>1 DEF S!Next
  <1>6. CASE UNCHANGED tvars
    BY <1>6 DEF tvars
  <1> QED BY <1>1, <1>2, <1>3, <1>4, <1>5, <1>6 DEF TNext

(***************************************************************************)
(* Whatever the receiver does, its sender is one that Sender describes.    *)
(***************************************************************************)
THEOREM TransferIsSender == TSpec => S!Spec
  <1>1. TInit => S!Init
    BY DEF TInit
  <1>2. UNCHANGED svars => UNCHANGED S!vars
    BY DEF svars, S!vars, S!call, S!count, S!flow, S!env
  <1> QED BY <1>1, <1>2, SenderSide, PTL DEF TSpec, S!Spec

-----------------------------------------------------------------------------
\* S and SP are the same instance of Sender: what is proved of SP holds of S.
LEMMA SameSpec == S!Spec => SP!Spec
  <1> USE DEF S!vars, SP!vars, S!call, SP!call, S!count, SP!count, S!flow, SP!flow,
              S!env, SP!env, S!Files, SP!Files, S!At, SP!At, S!Goto, SP!Goto,
              S!MayOpen, SP!MayOpen, S!Capacity, SP!Capacity,
              S!ExitSuccess, SP!ExitSuccess, S!ExitErrorConn, SP!ExitErrorConn,
              S!ExitErrorPartial, SP!ExitErrorPartial, S!ExitErrorAll, SP!ExitErrorAll,
              S!ExitFatal, SP!ExitFatal
  <1>1. S!Init => SP!Init
    BY DEF S!Init, SP!Init
  <1>2. S!Main => SP!Main
    BY DEF S!Main, SP!Main, S!Dial, SP!Dial, S!DialFails, SP!DialFails,
           S!WalkDir, SP!WalkDir, S!WalkFails, SP!WalkFails, S!AddFile, SP!AddFile,
           S!StartFile, SP!StartFile, S!EndLoop, SP!EndLoop, S!Wait, SP!Wait,
           S!Report, SP!Report, S!StatFile, SP!StatFile, S!StatFails, SP!StatFails,
           S!Return, SP!Return, S!Close, SP!Close
  <1>3. ASSUME NEW f \in S!Files, S!Worker(f) PROVE SP!Worker(f)
    BY <1>3
       DEF S!Worker, SP!Worker, S!SendFileAeroSync, SP!SendFileAeroSync,
           S!HashFile, SP!HashFile, S!HashFails, SP!HashFails,
           S!OpenControl, SP!OpenControl, S!OpenControlFails, SP!OpenControlFails,
           S!WriteTransferStart, SP!WriteTransferStart, S!OpenData, SP!OpenData,
           S!OpenDataFails, SP!OpenDataFails, S!WriteHeader, SP!WriteHeader,
           S!WriteFails, SP!WriteFails, S!CopyBlock, SP!CopyBlock, S!CopyEnd, SP!CopyEnd,
           S!CopyFails, SP!CopyFails, S!CloseData, SP!CloseData,
           S!CountFile, SP!CountFile, S!Release, SP!Release, S!Done, SP!Done
  <1>4. ASSUME NEW f \in S!Files, S!DrainEnds(f) \/ S!Server(f)
        PROVE  SP!DrainEnds(f) \/ SP!Server(f)
    BY <1>4
       DEF S!DrainEnds, SP!DrainEnds, S!Server, SP!Server, S!ServerReads, SP!ServerReads,
           S!ServerFinishes, SP!ServerFinishes, S!ServerAbandons, SP!ServerAbandons
  <1>5. S!GrantStream \/ S!LoseLink => SP!GrantStream \/ SP!LoseLink
    BY DEF S!GrantStream, SP!GrantStream, S!LoseLink, SP!LoseLink, S!Cardinality, SP!Cardinality
  <1>6. S!Files = SP!Files /\ S!vars = SP!vars
    OBVIOUS
  <1>7. [S!Next]_S!vars => [SP!Next]_SP!vars
    BY <1>2, <1>3, <1>4, <1>5 DEF S!Next, SP!Next
  <1> QED BY <1>1, <1>6, <1>7, PTL DEF S!Spec, SP!Spec

-----------------------------------------------------------------------------
(***************************************************************************)
(* Only the end of its data stream lets an upload be checked.              *)
(***************************************************************************)
GoroutinesStartOrDie ==
  \/ pc' = pc
  \/ /\ UNCHANGED <<conn, sender, svars>>
     /\ \E u \in Uploads : Open(u) /\ pc[u] = "none" /\ pc' = [pc EXCEPT ![u] = "header"]
  \/ NetFaults /\ \A u \in Uploads : pc'[u] \in {pc[u], "dead"}

\* The steps that are not those of a data goroutine start one, or kill all.
LEMMA OtherGoroutines ==
  ASSUME TypeInv, AcceptInv, [TNext]_tvars, ~\E u \in Uploads : ReceiverStep(u)
  PROVE  /\ rejected' = rejected
         /\ GoroutinesStartOrDie
  <1> USE DEF net, table, flags, local, disk, rvars, vars, GoroutinesStartOrDie
  <1>1. CASE MainStep \/ Network
    BY <1>1 DEF MainStep, Network, TDial, TClose, Connect, Disconnect
  <1>2. CASE TAccept
    <2>1. conn[Connection] = "open" /\ UNCHANGED <<conn, sender, rejected, svars>>
      BY <1>2 DEF TAccept, Accept
    <2>2. PICK u \in Uploads :
            /\ ConnOf[u] = Connection /\ sender[u] # "idle"
            /\ \/ pc' = pc
               \/ pc[u] = "none" /\ pc' = [pc EXCEPT ![u] = "header"]
      BY <1>2, Instances, AcceptAccept DEF TAccept
    <2> QED BY <2>1, <2>2 DEF Open
  <1>3. CASE TLost
    BY <1>3 DEF TLost, Disconnect, Crash
  <1>4. ASSUME NEW u \in Uploads,
               SenderStep(u) \/ TDrainEnds(u) \/ TControl(u) \/ TDeadlinePasses(u)
        PROVE  UNCHANGED <<pc, rejected>>
    BY <1>4 DEF SenderStep, TOpenControl, TWriteTransferStart, TOpenData, TOpenDataFails,
                TWriteHeader, Reaches, TDrainEnds, TControl, TDeadlinePasses, OpenControl,
                WriteTransferStart, OpenData, GiveUp, WriteHeader, Control, PutEntry,
                ControlLost, PutNotify, DeadlinePasses
  <1>5. CASE UNCHANGED tvars
    BY <1>5 DEF tvars
  <1> QED BY <1>1, <1>2, <1>3, <1>4, <1>5 DEF TNext

\* A step of a data goroutine.
LEMMA ReceiverMoves ==
  ASSUME NEW u \in Uploads, ReceiverStep(u)
  PROVE  Data(u) \/ UNCHANGED vars
  BY DEF ReceiverStep, TCopyBlock, TCopyEnd, TDiscard, TCloseStream, TRefuse,
         ReceiverAlone, Data, rvars

\* Only CloseData gives a stream its end.
LEMMA EndMoves ==
  ASSUME [TNext]_tvars
  PROVE  fin' = fin \/ \E f \in S!Files : S!CloseData(f)
  <1>1. CASE UNCHANGED svars
    BY <1>1 DEF svars
  <1>2. ASSUME NEW f \in S!Files, S!Worker(f), ~S!CloseData(f) PROVE fin' = fin
    BY <1>2 DEF S!Worker, S!SendFileAeroSync, S!HashFile, S!HashFails, S!OpenControl,
                S!OpenControlFails, S!WriteTransferStart, S!OpenData, S!OpenDataFails,
                S!WriteHeader, S!WriteFails, S!CopyBlock, S!CopyEnd, S!CopyFails,
                S!CountFile, S!Release, S!Done, S!flow
  <1>3. ASSUME NEW f \in S!Files, S!DrainEnds(f) \/ S!Server(f) PROVE fin' = fin
    BY <1>3 DEF S!DrainEnds, S!Server, S!ServerReads, S!ServerFinishes, S!ServerAbandons, S!flow
  <1>4. CASE S!Main \/ S!GrantStream \/ S!LoseLink
    BY <1>4 DEF S!Main, S!Dial, S!DialFails, S!WalkDir, S!WalkFails, S!AddFile, S!StartFile,
                S!EndLoop, S!Wait, S!Report, S!StatFile, S!StatFails, S!Return, S!Close,
                S!GrantStream, S!LoseLink, S!flow
  <1> QED BY <1>1, <1>2, <1>3, <1>4, SenderSide DEF S!Next

\* The sender never takes the end of a stream back.
LEMMA EndStays ==
  ASSUME SP!TypeInv, [TNext]_tvars, NEW u \in Uploads, fin[u]
  PROVE  fin'[u]
  <1>1. fin \in [Uploads -> BOOLEAN]
    BY Instances DEF SP!TypeInv, SP!Files, S!Files
  <1> QED BY <1>1, EndMoves DEF S!CloseData

EndInv == \A u \in Uploads : pc[u] = "verify" \/ Checked(u) => fin[u]

LEMMA EndStep ==
  ASSUME TypeInv, AcceptInv, SP!TypeInv, EndInv, [TNext]_tvars
  PROVE  EndInv'
  <1> SUFFICES ASSUME NEW v \in Uploads, pc'[v] = "verify" \/ Checked(v)' PROVE fin'[v]
    BY DEF EndInv
  <1> SUFFICES pc[v] = "verify" \/ Checked(v) \/ fin[v]
    BY EndStays DEF EndInv
  <1>0. pc \in [Uploads -> DataStates]
    BY DEF TypeInv, TypeOK
  <1>1. CASE ~\E u \in Uploads : ReceiverStep(u)
    BY <1>0, <1>1, OtherGoroutines DEF GoroutinesStartOrDie, Checked, Replying
  <1>2. ASSUME NEW u \in Uploads, ReceiverStep(u)
        PROVE  pc[v] = "verify" \/ Checked(v) \/ fin[v]
    <2>1. CASE v # u
      BY <1>2, <2>1, ReceiverMoves, DataMoves DEF Checked, vars
    <2>2. CASE v = u /\ Checked(v)'
      BY <1>2, <2>2, ReceiverMoves, HashMoves DEF Checked, vars
    <2>3. CASE v = u /\ pc'[v] = "verify"
      <3>1. CASE TCopyEnd(u)
        BY <2>3, <3>1 DEF TCopyEnd
      <3>2. CASE TCopyBlock(u) \/ TDiscard(u) \/ TCloseStream(u) \/ TRefuse(u)
        BY <1>0, <2>3, <3>2
           DEF TCopyBlock, TDiscard, TCloseStream, TRefuse, CopyBlock, SkipFile, SendSuccess,
               CheckRejected, MarkPath, CreateFails, Goto, rvars, vars
      <3>3. CASE ReceiverAlone(u)
        BY <1>0, <2>3, <3>3
           DEF ReceiverAlone, ReadHeader, CheckPath, StatFile, HashFile, HashFails, CreateFile,
               CopyFails, RemoveFile, VerifyHash, TakeEntry, EntryMissing, WakeByNotify,
               WakeByTimer,
               SendReceived, SendAcked, Goto
      <3> QED BY <1>2, <3>1, <3>2, <3>3 DEF ReceiverStep
    <2> QED BY <2>1, <2>2, <2>3
  <1> QED BY <1>1, <1>2

LEMMA UploadsFinite == IsFiniteSet(Uploads)
  BY SP!FilesFinite, SenderInstance, Instances
     DEF SP!Files, S!Files, SP!IsFiniteSet, IsFiniteSet

LEMMA BothSides == TSpec => [](TypeInv /\ AcceptInv /\ SP!TypeInv /\ SP!Counted)
  <1>1. Spec => [](TypeInv /\ AcceptInv)
    BY ReplyAlways, PTL
  <1>2. SP!Spec => [](SP!TypeInv /\ SP!Counted)
    <2>1. SP!Spec => [](SP!Counted /\ SP!ExitTellsStreams)
      BY SP!CountedAlways, SenderInstance
    <2>2. SP!Counted => SP!TypeInv
      BY DEF SP!Counted
    <2> QED BY <2>1, <2>2, PTL
  <1> QED BY <1>1, <1>2, TransferIsReceiver, TransferIsSender, SameSpec, PTL

(***************************************************************************)
(* The exit code errs on one side only: the receiver acknowledges no more  *)
(* files than the command reports as sent, whatever fails on either side   *)
(* and whenever the connection goes (quic.go:155-161, 178-184, 344-348     *)
(* against 730-749).                                                       *)
(***************************************************************************)
THEOREM AcknowledgedIsReportedAlways == TSpec => []AcknowledgedIsReported
  <1>1. TInit => EndInv
    BY DEF TInit, Init, EndInv, Checked, Replying
  <1>2. TSpec => []EndInv
    BY <1>1, EndStep, BothSides, PTL DEF TSpec
  <1>3. TSpec => []SP!EndedIsReported
    <2>1. SP!Spec => []SP!EndedIsReported
      BY SP!EndedIsReportedAlways, SenderInstance
    <2> QED BY <2>1, TransferIsSender, SameSpec, PTL
  <1>4. SP!TypeInv /\ EndInv /\ SP!EndedIsReported => AcknowledgedIsReported
    <2> SUFFICES ASSUME SP!TypeInv, EndInv, SP!EndedIsReported, exit # None
                 PROVE  Cardinality({u \in Uploads : Checked(u) /\ ChecksumOK(u)}) <= Reported
      BY DEF AcknowledgedIsReported
    <2> DEFINE Ends == {f \in Uploads : fin[f]}
               Acknowledged == {u \in Uploads : Checked(u) /\ ChecksumOK(u)}
    <2>1. Cardinality(Ends) <= Reported
      BY Instances
         DEF SP!EndedIsReported, SP!Files, S!Files, Reported, S!ExitSuccess, SP!ExitSuccess,
             SP!Cardinality, Cardinality
    <2>2. Acknowledged \subseteq Ends
      BY DEF EndInv
    <2>3. IsFiniteSet(Ends)
      BY UploadsFinite, FS_Subset
    <2>4. Cardinality(Acknowledged) <= Cardinality(Ends)
      BY <2>2, <2>3, FS_Subset
    <2>5. Cardinality(Acknowledged) \in Nat /\ Cardinality(Ends) \in Nat
      BY <2>2, <2>3, FS_Subset, FS_CardinalityType
    <2>6. Reported \in Int
      BY DEF SP!TypeInv, Reported
    <2> QED BY <2>1, <2>4, <2>5, <2>6
  <1> QED BY <1>2, <1>3, <1>4, BothSides, PTL

-----------------------------------------------------------------------------
(***************************************************************************)
(* A transfer in which nothing goes wrong but the reading of the source:   *)
(* every file has a path of its own, as within one directory, all names    *)
(* are good, and the digests announced are those of what is sent.          *)
(***************************************************************************)
OwnPaths == \A u, v \in Uploads : PathOf[u] = PathOf[v] => u = v

Healthy ==
  /\ Patient /\ ~NetFaults /\ ~DiskFaults
  /\ OwnPaths
  /\ \A u \in Uploads : Valid[u] /\ HashOf[u] \in {None, Digest(Body[u])}

\* With a path of its own, an upload that was checked is the last one of that
\* path, and what made it skip the file is still there.
SoleInv == \A u \in Uploads : LET p == PathOf[u] IN
  /\ pc[u] \in {"skip", "skipped"} =>
       dir[p] # None /\ hash[u] # None /\ Digest(file[dir[p]]) = hash[u]
  /\ Checked(u) => latest[p] = u

LEMMA SoleStep ==
  ASSUME OwnPaths, TypeInv, AcceptInv, StoreInv, StoreInv', HashInv, SoleInv, [Next]_vars
  PROVE  SoleInv'
  <1>0. /\ pc \in [Uploads -> DataStates]
        /\ \A u \in Uploads : PathOf[u] \in Paths
    BY ReceiverAssumption DEF ReceiverAssumption, TypeInv, TypeOK
  <1>1. CASE ~\E u \in Uploads : Data(u)
    <2>1. /\ UNCHANGED <<disk, hash>>
          /\ \A u \in Uploads : pc'[u] = pc[u] \/ pc'[u] \in {"dead", "header"}
      BY <1>1, OtherSteps
    <2> QED BY <2>1 DEF SoleInv, Checked, Replying, disk
  <1>2. ASSUME NEW u \in Uploads, Data(u), NEW v \in Uploads \ {u}
        PROVE  /\ pc'[v] \in {"skip", "skipped"} =>
                    /\ dir'[PathOf[v]] # None /\ hash'[v] # None
                    /\ Digest(file'[dir'[PathOf[v]]]) = hash'[v]
               /\ Checked(v)' => latest'[PathOf[v]] = v
    <2> DEFINE p == PathOf[v]
    <2>1. pc'[v] = pc[v] /\ hash'[v] = hash[v]
      BY <1>2, DataMoves
    <2>2. p \in Paths /\ p # PathOf[u]
      BY <1>0 DEF OwnPaths
    <2>3. UNCHANGED <<dir[p], latest[p]>> /\ (dir[p] # None => UNCHANGED file[dir[p]])
      <3>1. CASE ChangesAPath(u)
        BY <2>2, <3>1, CreateStep, BlockStep, RemoveStep, VerifyStep DEF ChangesAPath, ChangesPath
      <3>2. CASE ~ChangesAPath(u)
        BY <1>2, <3>2, QuietStep DEF StoreInv, disk
      <3> QED BY <3>1, <3>2
    <2> HIDE DEF p
    <2>4. p = PathOf[v]
      BY DEF p
    <2> QED BY <2>1, <2>3, <2>4 DEF SoleInv, Checked
  <1>3. ASSUME NEW u \in Uploads, Data(u)
        PROVE  /\ pc'[u] \in {"skip", "skipped"} =>
                    /\ dir'[PathOf[u]] # None /\ hash'[u] # None
                    /\ Digest(file'[dir'[PathOf[u]]]) = hash'[u]
               /\ Checked(u)' => latest'[PathOf[u]] = u
    <2>1. CASE ChangesAPath(u)
      <3>1. ChangesPath(u)
        BY <2>1, CreateStep, BlockStep, RemoveStep, VerifyStep DEF ChangesAPath
      <3>2. pc'[u] \notin {"skip", "skipped"}
        BY <1>0, <2>1 DEF ChangesAPath, CreateFile, CopyBlock, RemoveFile, VerifyHash, Goto
      <3> QED BY <3>1, <3>2 DEF ChangesPath
    <2>2. CASE ~ChangesAPath(u)
      <3>1. UNCHANGED <<dir, file, latest>>
        BY <1>3, <2>2, QuietStep DEF StoreInv, disk
      <3>2. Checked(u)' => Checked(u)
        <4>1. Checked(u)' => pc[u] = "verify" \/ Checked(u)
          BY <1>3, HashMoves
        <4>2. pc[u] = "verify" => VerifyHash(u)
          BY <1>3 DEF Data, ReadHeader, CheckRejected, CheckPath, MarkPath, StatFile, HashFile,
                      HashFails, SkipFile, CreateFile, CreateFails, CopyBlock, CopyEnd, CopyFails,
                      RemoveFile, TakeEntry, EntryMissing, WakeByNotify, WakeByTimer,
                      SendReceived, SendAcked, SendSuccess, Goto
        <4> QED BY <2>2, <4>1, <4>2 DEF ChangesAPath
      <3>3. pc'[u] = "skip" => pc[u] = "rehash" /\ hash' = hash
        BY <1>0, <1>3 DEF Data, ReadHeader, CheckRejected, CheckPath, MarkPath, StatFile, HashFile,
                      HashFails, SkipFile, CreateFile, CreateFails, CopyBlock, CopyEnd, CopyFails,
                      RemoveFile, VerifyHash, TakeEntry, EntryMissing, WakeByNotify, WakeByTimer,
                      SendReceived, SendAcked, SendSuccess, Goto, local, Storing
      <3>4. pc'[u] = "skipped" => pc[u] = "skip" /\ hash' = hash
        BY <1>0, <1>3 DEF Data, ReadHeader, CheckRejected, CheckPath, MarkPath, StatFile, HashFile,
                      HashFails, SkipFile, CreateFile, CreateFails, CopyBlock, CopyEnd, CopyFails,
                      RemoveFile, VerifyHash, TakeEntry, EntryMissing, WakeByNotify, WakeByTimer,
                      SendReceived, SendAcked, SendSuccess, Goto, local
      <3>5. pc'[u] = "skip" =>
              /\ dir'[PathOf[u]] # None /\ hash'[u] # None
              /\ Digest(file'[dir'[PathOf[u]]]) = hash'[u]
        BY <3>3 DEF StoreInv, UploadInv, HashInv
      <3> QED BY <3>1, <3>2, <3>4, <3>5 DEF SoleInv
    <2> QED BY <2>1, <2>2
  <1>4. ASSUME NEW u \in Uploads, Data(u) PROVE SoleInv'
    BY <1>2, <1>3, <1>4 DEF SoleInv
  <1> QED BY <1>1, <1>4

\* The connection lasts from Dial to Close.
LinkInv ==
  /\ main = "dial" => link = "none" /\ conn[Connection] = "new"
  /\ main \notin {"dial", "exited"} => link = "up" /\ conn[Connection] = "open"
  /\ main = "exited" => link = "down" /\ conn[Connection] = "closed"

\* A file whose header has been written is an upload the receiver gets to see.
SendingInv == \A u \in Uploads :
  fin[u] \/ step[u] \in {"copy", "fin", "sent"} => sender[u] \in {"sending", "stalled"}

\* No upload fails before the connection is closed, and when it is, every one
\* that was sent to its end is over.
CleanInv ==
  /\ ~rejected[Connection]
  /\ \A u \in Uploads :
       /\ conn[Connection] = "new" => pc[u] = "none"
       /\ conn[Connection] = "open" => pc[u] \notin {"closed", "failed", "dead", "remove"}
       /\ conn[Connection] # "open" /\ fin[u] => pc[u] \in {"skipped", "done"}

\* Nobody but main changes main, the link and the connection.
LEMMA ReceiverKeepsLink ==
  ASSUME NEW u \in Uploads, ReceiverStep(u) PROVE UNCHANGED <<main, link>>
  BY DEF ReceiverStep, TCopyBlock, TCopyEnd, TDiscard, TCloseStream, TRefuse,
         S!ServerReads, S!ServerFinishes, S!ServerAbandons, S!call, svars

LEMMA LinkMoves ==
  ASSUME ~NetFaults, [TNext]_tvars, ~MainStep
  PROVE  UNCHANGED <<main, link, conn>>
  <1> USE DEF S!call, net
  <1>1. CASE Network \/ TAccept \/ TLost
    BY <1>1 DEF Network, TAccept, TLost, S!GrantStream, S!LoseLink, Accept, svars, rvars, vars
  <1>2. ASSUME NEW u \in Uploads, SenderStep(u) \/ TDrainEnds(u) PROVE UNCHANGED <<main, link>>
    BY <1>2 DEF SenderStep, TDrainEnds, TOpenControl, TWriteTransferStart, TOpenData,
                TOpenDataFails, TWriteHeader, AloneFor, S!HashFile, S!HashFails, S!OpenControl,
                S!OpenControlFails,
                S!WriteTransferStart, S!OpenData, S!OpenDataFails, S!WriteHeader, S!WriteFails,
                S!CopyBlock, S!CopyEnd, S!CopyFails, S!CloseData, S!CountFile, S!Release, S!Done,
                S!DrainEnds
  <1>3. ASSUME NEW u \in Uploads, SenderStep(u) \/ TDrainEnds(u) PROVE UNCHANGED conn
    BY <1>3 DEF SenderStep, TDrainEnds, TOpenControl, TWriteTransferStart, TOpenData,
                TOpenDataFails, TWriteHeader, Reaches, OpenControl, WriteTransferStart, OpenData,
                GiveUp, WriteHeader, rvars, vars
  <1>4. ASSUME NEW u \in Uploads, TControl(u) \/ TDeadlinePasses(u)
        PROVE  UNCHANGED <<main, link, conn>>
    BY <1>4 DEF TControl, TDeadlinePasses, Control, PutEntry, ControlLost, PutNotify,
                DeadlinePasses, svars
  <1>5. ASSUME NEW u \in Uploads, ReceiverStep(u) PROVE UNCHANGED <<main, link>>
    BY <1>5, ReceiverKeepsLink
  <1>6. ASSUME NEW u \in Uploads, ReceiverStep(u) PROVE UNCHANGED conn
    <2>1. Data(u) => UNCHANGED conn
      BY DEF Data, ReadHeader, CheckRejected, CheckPath, MarkPath, StatFile, HashFile, HashFails,
             SkipFile, CreateFile, CreateFails, CopyBlock, CopyEnd, CopyFails,
             RemoveFile, VerifyHash, TakeEntry, EntryMissing, WakeByNotify, WakeByTimer,
             SendReceived, SendAcked, SendSuccess
    <2> QED BY <1>6, <2>1, ReceiverMoves DEF vars
  <1>7. CASE UNCHANGED tvars
    BY <1>7 DEF tvars, svars, rvars, vars
  <1> QED BY <1>1, <1>2, <1>3, <1>4, <1>5, <1>6, <1>7 DEF TNext

LEMMA LinkStep ==
  ASSUME ~NetFaults, TypeInv, SP!TypeInv, LinkInv, [TNext]_tvars
  PROVE  LinkInv'
  <1>0. /\ conn \in [Conns -> {"new", "open", "closed"}] /\ Connection \in Conns
        /\ Connection' = Connection
    BY Instances DEF TypeInv, TypeOK, Connection
  <1>1. CASE TDial
    BY <1>0, <1>1 DEF TDial, S!Dial, S!At, Connect, LinkInv
  <1>2. CASE TClose
    BY <1>0, <1>2 DEF TClose, S!Close, S!At, Disconnect, LinkInv
  <1>3. CASE Alone /\ UNCHANGED rvars
    <2>1. /\ main \notin {"dial", "exited"} /\ main' \notin {"dial", "exited"}
          /\ link' = link
      BY <1>3 DEF Alone, S!DialFails, S!WalkDir, S!WalkFails, S!AddFile, S!StartFile, S!EndLoop,
                  S!Wait, S!Report, S!StatFile, S!StatFails, S!Return, S!At
    <2>2. conn' = conn
      BY <1>3 DEF rvars, vars, net
    <2> QED BY <1>0, <2>1, <2>2 DEF LinkInv
  <1>4. CASE ~MainStep
    BY <1>0, <1>4, LinkMoves DEF LinkInv
  <1> QED BY <1>1, <1>2, <1>3, <1>4 DEF MainStep

\* Files come to "copy" by their header.
LEMMA SendingMoves ==
  ASSUME SP!TypeInv, S!Next \/ UNCHANGED svars,
         NEW u \in Uploads, fin'[u] \/ step'[u] \in {"copy", "fin", "sent"}
  PROVE  \/ fin[u] \/ step[u] \in {"copy", "fin", "sent"}
         \/ step[u] = "header" /\ step'[u] = "copy"
  <1>0. fin \in [Uploads -> BOOLEAN] /\ step \in [Uploads -> SP!Steps] /\ Uploads = S!Files
    BY Instances DEF SP!TypeInv, SP!Files, S!Files
  <1>1. ASSUME NEW f \in Uploads, S!Worker(f)
        PROVE  \/ fin[u] \/ step[u] \in {"copy", "fin", "sent"}
               \/ step[u] = "header" /\ step'[u] = "copy"
    BY <1>0, <1>1
       DEF S!Worker, S!SendFileAeroSync, S!HashFile, S!HashFails, S!OpenControl,
           S!OpenControlFails, S!WriteTransferStart, S!OpenData, S!OpenDataFails,
           S!WriteHeader, S!WriteFails, S!CopyBlock, S!CopyEnd, S!CopyFails, S!CloseData,
           S!CountFile, S!Release, S!Done, S!Goto, S!flow
  <1>2. ASSUME NEW f \in Uploads, S!DrainEnds(f) \/ S!Server(f) PROVE UNCHANGED <<fin, step>>
    BY <1>2 DEF S!DrainEnds, S!Server, S!ServerReads, S!ServerFinishes, S!ServerAbandons, S!flow
  <1>3. CASE S!StartFile \/ S!StatFile \/ S!Return
    BY <1>0, <1>3 DEF S!StartFile, S!StatFile, S!Return, S!Goto, S!flow
  <1>4. CASE \/ S!Main /\ ~S!StartFile /\ ~S!StatFile /\ ~S!Return
             \/ S!GrantStream \/ S!LoseLink \/ UNCHANGED svars
    BY <1>4 DEF S!Main, S!Dial, S!DialFails, S!WalkDir, S!WalkFails, S!AddFile,
                S!EndLoop, S!Wait, S!Report, S!StatFails, S!Close,
                S!GrantStream, S!LoseLink, S!flow, svars
  <1> QED BY <1>0, <1>1, <1>2, <1>3, <1>4 DEF S!Next

\* And the receiver is there when the header is written.
LEMMA HeaderIsWritten ==
  ASSUME SP!TypeInv, [TNext]_tvars, NEW u \in Uploads, step[u] = "header", step'[u] = "copy"
  PROVE  TWriteHeader(u)
  <1>0. step \in [Uploads -> SP!Steps] /\ Uploads = S!Files
    BY Instances DEF SP!TypeInv, SP!Files, S!Files
  <1>1. ~MainStep
    BY <1>0 DEF MainStep, TDial, TClose, Alone, S!Dial, S!Close, S!DialFails, S!WalkDir,
                S!WalkFails, S!AddFile, S!StartFile, S!EndLoop, S!Wait, S!Report, S!StatFile,
                S!StatFails, S!Return, S!Goto
  <1>2. ~Network /\ ~TAccept /\ ~TLost /\ ~UNCHANGED tvars
    BY <1>0 DEF Network, TAccept, TLost, S!GrantStream, S!LoseLink, tvars, svars
  <1>3. ASSUME NEW f \in Uploads, SenderStep(f) PROVE TWriteHeader(u)
    <2>1. CASE TWriteHeader(f)
      BY <1>0, <2>1 DEF TWriteHeader, S!WriteHeader, S!Goto
    <2>2. CASE TOpenControl(f) \/ TWriteTransferStart(f) \/ TOpenData(f) \/ TOpenDataFails(f)
      BY <1>0, <2>2 DEF TOpenControl, TWriteTransferStart, TOpenData, TOpenDataFails,
                        S!OpenControl, S!WriteTransferStart, S!OpenData, S!OpenDataFails, S!Goto
    <2>3. CASE AloneFor(f)
      BY <1>0, <2>3
         DEF AloneFor, S!HashFile, S!HashFails, S!OpenControlFails, S!WriteFails,
             S!CopyBlock, S!CopyEnd, S!CopyFails, S!CloseData,
             S!CountFile, S!Release, S!Done, S!Goto
    <2> QED BY <1>3, <2>1, <2>2, <2>3 DEF SenderStep
  <1>4. ASSUME NEW f \in Uploads,
               TDrainEnds(f) \/ TControl(f) \/ TDeadlinePasses(f) \/ ReceiverStep(f)
        PROVE  FALSE
    BY <1>4 DEF TDrainEnds, TControl, TDeadlinePasses, ReceiverStep, TCopyBlock, TCopyEnd,
                TDiscard, TCloseStream, TRefuse, S!DrainEnds, S!ServerReads,
                S!ServerFinishes, S!ServerAbandons, svars
  <1> QED BY <1>1, <1>2, <1>3, <1>4 DEF TNext

LEMMA SenderStays ==
  ASSUME TypeInv, [Next]_vars, NEW u \in Uploads, sender[u] \in {"sending", "stalled"}
  PROVE  sender'[u] \in {"sending", "stalled"}
  <1>0. sender \in [Uploads -> SenderStates]
    BY DEF TypeInv, TypeOK
  <1>1. ASSUME NEW v \in Uploads, Sender(v) PROVE sender'[u] \in {"sending", "stalled"}
    BY <1>0, <1>1 DEF Sender, OpenControl, WriteTransferStart, OpenData, GiveUp, WriteHeader, Stall
  <1>2. ASSUME NEW v \in Uploads, Data(v) \/ Control(v) \/ DeadlinePasses(v)
        PROVE  sender' = sender
    BY <1>2, DataMoves DEF Control, PutEntry, ControlLost, PutNotify, DeadlinePasses, net
  <1>3. CASE Crash \/ UNCHANGED vars \/ \E c \in Conns : Connect(c) \/ Accept(c) \/ Disconnect(c)
    BY <1>3 DEF Crash, Connect, Accept, Disconnect, vars, net
  <1> QED BY <1>1, <1>2, <1>3 DEF Next

LEMMA SendingStep ==
  ASSUME TypeInv, SP!TypeInv, LinkInv, SendingInv, [TNext]_tvars
  PROVE  SendingInv'
  <1> SUFFICES ASSUME NEW u \in Uploads, fin'[u] \/ step'[u] \in {"copy", "fin", "sent"}
               PROVE  sender'[u] \in {"sending", "stalled"}
    BY DEF SendingInv
  <1>1. CASE fin[u] \/ step[u] \in {"copy", "fin", "sent"}
    BY <1>1, ReceiverSide, SenderStays DEF SendingInv
  <1>2. CASE step[u] = "header" /\ step'[u] = "copy"
    <2>1. TWriteHeader(u)
      BY <1>2, HeaderIsWritten
    <2>2. Open(u)
      BY <2>1, Instances DEF TWriteHeader, S!WriteHeader, LinkInv, Open, SP!TypeInv
    <2> QED BY <2>1, <2>2 DEF TWriteHeader, Reaches, WriteHeader, TypeInv, TypeOK
  <1> QED BY <1>1, <1>2, SendingMoves, SenderSide

\* Without a connection no stream gets its end.
LEMMA NoMoreEnds ==
  ASSUME SP!Counted, LinkInv, [TNext]_tvars, conn[Connection] # "open"
  PROVE  fin' = fin
  <1>1. main \in {"dial", "exited"}
    BY DEF LinkInv
  <1>2. \A f \in S!Files : step[f] # "fin"
    <2>1. CASE main = "dial"
      BY <2>1, SP!NothingStarted, SenderInstance DEF SP!Counted, SP!Files, S!Files
    <2>2. CASE main = "exited"
      BY <2>2 DEF SP!Counted, SP!QuietInv, SP!Files, S!Files
    <2> QED BY <1>1, <2>1, <2>2
  <1> QED BY <1>2, EndMoves DEF S!CloseData, S!Goto

\* What a data goroutine does as long as nothing fails.
LEMMA CleanMoves ==
  ASSUME Healthy, TypeInv, ~rejected[Connection], NEW u \in Uploads, Data(u)
  PROVE  /\ UNCHANGED rejected
         /\ Open(u) /\ pc[u] \notin {"closed", "failed", "dead", "remove"} =>
              pc'[u] \notin {"closed", "failed", "dead", "remove"}
  <1>0. /\ pc \in [Uploads -> DataStates] /\ ConnOf[u] = Connection
        /\ ~DiskFaults /\ Valid[u]
    BY Instances DEF TypeInv, TypeOK, Healthy
  <1> USE DEF Goto, flags
  <1>1. CASE ReadHeader(u) \/ CheckRejected(u) \/ CheckPath(u) \/ MarkPath(u)
    BY <1>0, <1>1 DEF ReadHeader, CheckRejected, CheckPath, MarkPath
  <1>2. CASE \/ StatFile(u) \/ HashFile(u) \/ HashFails(u)
             \/ SkipFile(u) \/ CreateFile(u) \/ CreateFails(u)
    BY <1>0, <1>2 DEF StatFile, HashFile, HashFails, SkipFile, CreateFile, CreateFails
  <1>3. CASE CopyBlock(u) \/ CopyEnd(u) \/ CopyFails(u) \/ RemoveFile(u) \/ VerifyHash(u)
    BY <1>0, <1>3 DEF CopyBlock, CopyEnd, CopyFails, RemoveFile, VerifyHash
  <1>4. CASE TakeEntry(u) \/ EntryMissing(u) \/ WakeByNotify(u) \/ WakeByTimer(u)
    BY <1>0, <1>4 DEF TakeEntry, EntryMissing, WakeByNotify, WakeByTimer
  <1>5. CASE SendReceived(u) \/ SendAcked(u) \/ SendSuccess(u)
    BY <1>0, <1>5 DEF SendReceived, SendAcked, SendSuccess
  <1> QED BY <1>1, <1>2, <1>3, <1>4, <1>5 DEF Data

LEMMA CleanStep ==
  ASSUME Healthy, TypeInv, AcceptInv, SP!TypeInv, SP!Counted, LinkInv, SendingInv, CleanInv,
         [TNext]_tvars
  PROVE  CleanInv'
  <1>0. /\ pc \in [Uploads -> DataStates] /\ conn \in [Conns -> {"new", "open", "closed"}]
        /\ Connection' = Connection /\ Connection \in Conns
        /\ \A u \in Uploads : ConnOf[u] = Connection
        /\ ~NetFaults
    BY Instances DEF TypeInv, TypeOK, Connection, Healthy
  <1>1. ASSUME NEW u \in Uploads, ReceiverStep(u), Data(u) PROVE CleanInv'
    <2>1. /\ UNCHANGED conn /\ \A v \in Uploads \ {u} : pc'[v] = pc[v]
          /\ pc[u] \in Storing \cup Replying
      BY <1>1, DataMoves
    <2>2. UNCHANGED rejected
      BY <1>1, CleanMoves DEF CleanInv
    <2>3. CASE conn[Connection] = "open"
      <3>1. pc'[u] \notin {"closed", "failed", "dead", "remove"}
        BY <1>0, <1>1, <2>3, CleanMoves DEF CleanInv, Open
      <3> QED BY <1>0, <2>1, <2>2, <2>3, <3>1 DEF CleanInv
    <2>4. CASE conn[Connection] # "open"
      <3>1. conn[Connection] = "closed" /\ ~fin[u]
        BY <1>0, <2>1, <2>4 DEF CleanInv, Storing, Replying
      <3>2. fin' = fin
        BY <2>4, NoMoreEnds
      <3> QED BY <1>0, <2>1, <2>2, <3>1, <3>2 DEF CleanInv
    <2> QED BY <2>3, <2>4
  <1>2. CASE TClose
    <2>1. /\ conn[Connection] = "open" /\ conn'[Connection] = "closed"
          /\ \A u \in Uploads : fin[u] => ~InProgress(u)
          /\ UNCHANGED <<pc, rejected, fin>>
      BY <1>0, <1>2 DEF TClose, S!Close, S!At, S!flow, LinkInv, Healthy, Disconnect, flags
    <2>2. ASSUME NEW u \in Uploads, fin[u] PROVE pc[u] \in {"skipped", "done"}
      <3>1. ~InProgress(u) /\ sender[u] \in {"sending", "stalled"} /\ Open(u)
        BY <1>0, <2>1, <2>2 DEF SendingInv, Open
      <3> QED BY <1>0, <2>1, <3>1 DEF InProgress, CleanInv, DataStates, Finished
    <2> QED BY <1>0, <2>1, <2>2 DEF CleanInv
  <1>3. CASE ~TClose /\ ~\E u \in Uploads : ReceiverStep(u)
    <2>1. \/ conn' = conn
          \/ conn[Connection] = "new" /\ conn'[Connection] = "open"
      <3>1. MainStep => conn' = conn \/ (conn[Connection] = "new" /\ conn'[Connection] = "open")
        BY <1>0, <1>3 DEF MainStep, TDial, Connect, rvars, vars, net
      <3> QED BY <1>0, <3>1, LinkMoves
    <2>2. conn[Connection] # "open" => fin' = fin
      BY NoMoreEnds
    <2>3. CASE pc' = pc
      BY <1>0, <1>3, <2>1, <2>2, <2>3, OtherGoroutines DEF CleanInv
    <2>4. CASE /\ UNCHANGED conn
               /\ \E u \in Uploads :
                    Open(u) /\ pc[u] = "none" /\ pc' = [pc EXCEPT ![u] = "header"]
      BY <1>0, <1>3, <2>4, OtherGoroutines DEF CleanInv, Open
    <2> QED BY <1>0, <1>3, <2>3, <2>4, OtherGoroutines DEF GoroutinesStartOrDie
  <1>4. ASSUME NEW u \in Uploads, ReceiverStep(u), UNCHANGED vars PROVE CleanInv'
    <2>1. UNCHANGED <<conn, pc, rejected>>
      BY <1>4 DEF vars, net, flags
    <2>2. conn[Connection] # "open" => fin' = fin
      BY NoMoreEnds
    <2> QED BY <1>0, <2>1, <2>2 DEF CleanInv
  <1> QED BY <1>1, <1>2, <1>3, <1>4, ReceiverMoves

\* What is proved of the receiver alone, for uploads with paths of their own.
StoredInv == TypeInv /\ AcceptInv /\ StoreInv /\ HashInv /\ SoleInv

LEMMA StoredAlways == OwnPaths => (Spec => []StoredInv)
  <1> SUFFICES ASSUME OwnPaths PROVE Spec => []StoredInv
    OBVIOUS
  <1>0. Apart
    BY DEF OwnPaths, Apart
  <1>1. Init => StoredInv
    <2>1. Init => SoleInv
      BY DEF Init, SoleInv, Checked, Replying
    <2> QED BY <2>1, TypeInit, AcceptInit, StoreInit, HashInit DEF StoredInv
  <1>2. StoredInv /\ [Next]_vars => StoredInv'
    BY <1>0, TypeStep, AcceptStep, StoreStep, HashStep, SoleStep DEF StoredInv
  <1> QED BY <1>1, <1>2, PTL DEF Spec

\* An upload that is over, and neither refused nor failed, is stored.
LEMMA OverIsStored ==
  ASSUME Healthy, StoredInv, NEW u \in Uploads, pc[u] \in {"skipped", "done"}
  PROVE  Content(PathOf[u]) = Body[u]
  <1>0. /\ hash[u] \in {None, HashOf[u]} /\ HashOf[u] \in {None, Digest(Body[u])}
        /\ got[u] \in Nat /\ Body[u] \in Contents
    BY ReceiverAssumption DEF ReceiverAssumption, StoredInv, HashInv, Healthy, TypeInv, TypeOK
  <1>1. CASE pc[u] = "skipped"
    <2>1. /\ dir[PathOf[u]] # None
          /\ Digest(file[dir[PathOf[u]]]) = Digest(Body[u])
      BY <1>0, <1>1 DEF StoredInv, SoleInv
    <2> QED BY <2>1 DEF Digest, Content
  <1>2. CASE pc[u] = "done"
    <2>1. Checked(u) /\ latest[PathOf[u]] = u /\ got[u] = Len(Body[u])
      BY <1>2 DEF Checked, StoredInv, SoleInv, StoreInv, UploadInv
    <2>2. Received(u) = Body[u]
      BY <1>0, <2>1 DEF Received, Contents
    <2>3. ChecksumOK(u)
      BY <1>0, <2>2 DEF ChecksumOK
    <2> QED BY <2>1, <2>3 DEF StoredInv, StoreInv, UploadInv, Content
  <1> QED BY <1>1, <1>2

\* The files the command is to send are uploads.
LEMMA TargetsAreUploads ==
  ASSUME SP!TypeInv, NEW u \in S!Targets
  PROVE  u \in Uploads /\ u \in SP!Targets
  <1>1. "SendFile" \in Commands => files[1] \in SP!Files
    BY SP!FirstFile, SenderInstance
  <1> QED BY <1>1, Instances DEF SP!TypeInv, S!Targets, SP!Targets, S!Files, SP!Files

(***************************************************************************)
(* Exit code 0 says that all files were transferred (main.go:21,           *)
(* README.md:282).  When nothing fails but the source, no two files share  *)
(* a path, the names are good, and the sender outlasts the server's work,  *)
(* they are in the receive directory, whatever was in it before and        *)
(* however few streams there are.                                          *)
(***************************************************************************)
THEOREM ExitZeroMeansStoredAlways == Healthy => (TSpec => []ExitZeroMeansStored)
  <1> SUFFICES ASSUME Healthy PROVE TSpec => []ExitZeroMeansStored
    OBVIOUS
  <1> DEFINE RunInv == LinkInv /\ SendingInv /\ CleanInv
  <1>1. TSpec => []StoredInv
    BY StoredAlways, TransferIsReceiver, PTL DEF Healthy
  <1>2. TSpec => []SP!ExitTellsStreams
    <2>1. SP!Spec => []SP!ExitTellsStreams
      BY SP!ExitIsRight, SenderInstance
    <2> QED BY <2>1, TransferIsSender, SameSpec, PTL
  <1>3. TInit => RunInv
    <2> SUFFICES ASSUME TInit PROVE RunInv
      OBVIOUS
    <2>1. LinkInv
      BY Instances DEF TInit, Init, S!Init, LinkInv
    <2>2. SendingInv
      BY Instances DEF TInit, Init, S!Init, SendingInv
    <2>3. CleanInv
      BY Instances DEF TInit, Init, S!Init, CleanInv
    <2> QED BY <2>1, <2>2, <2>3
  <1>4. TypeInv /\ AcceptInv /\ SP!TypeInv /\ SP!Counted /\ RunInv /\ [TNext]_tvars => RunInv'
    BY LinkStep, SendingStep, CleanStep DEF Healthy
  <1>5. StoredInv /\ SP!TypeInv /\ SP!ExitTellsStreams /\ RunInv => ExitZeroMeansStored
    <2> SUFFICES ASSUME StoredInv, SP!TypeInv, SP!ExitTellsStreams, RunInv,
                        Settled, exit = S!ExitSuccess, NEW u \in S!Targets
                 PROVE  Content(PathOf[u]) = Body[u]
      BY DEF ExitZeroMeansStored
    <2>1. u \in Uploads /\ u \in SP!Targets
      BY TargetsAreUploads
    <2>2. fin[u]
      BY <2>1 DEF SP!ExitTellsStreams, SP!Handed, SP!ExitSuccess, S!ExitSuccess
    <2>3. pc[u] \in {"skipped", "done"}
      BY <2>1, <2>2 DEF SendingInv, CleanInv, Settled
    <2> QED BY <2>1, <2>3, OverIsStored
  <1> HIDE DEF RunInv
  <1>6. TSpec => []RunInv
    BY <1>3, <1>4, BothSides, PTL DEF TSpec
  <1> QED BY <1>1, <1>2, <1>5, <1>6, BothSides, PTL
=============================================================================
